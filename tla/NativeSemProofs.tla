--------------------------- MODULE NativeSemProofs ---------------------------
(***************************************************************************)
(* The safety of mjs_sem, and that it implements CountingSemaphore, for    *)
(* every set of threads and every number of posts, as long as the permits  *)
(* fit an int.                                                             *)
(***************************************************************************)
EXTENDS NativeSem, FiniteSetTheorems, TLAPS

\* No sequence of posts makes s->count overflow.  The code does not check it.
PermitsFit == Initial + MaxPosts <= IntMax

\* The posts begun that have not added their permit yet.
Posting == {t \in Threads : op[t] = "post" /\ pc[t] \in {"enter", "body"}}

\* t is in mjs_sem_post, has added its permit and still holds the mutex.
HoldsNewPermit(t) == pc[t] = "signal" \/ (pc[t] = "leave" /\ op[t] = "post")

Counters ==
  /\ count \in Nat
  /\ called \in 0..MaxPosts
  /\ posted \in Nat
  /\ acquired \in Nat

\* Every post begun is either under way or counted.
PostsAccounted == called = posted + Cardinality(Posting)

\* Nobody can take the last permit away before the post that added it has left
\* the critical section.
NewPermitStays ==
  \A t \in Threads : HoldsNewPermit(t) => op[t] = "post" /\ count >= 1

\* The inductive invariant.
Inv ==
  /\ FrameTypeOK(Ops)
  /\ FrameInv
  /\ Counters
  /\ PostsAccounted
  /\ PermitsConserved
  /\ NewPermitStays
  /\ NoUseAfterDestroy
  /\ NoLostWakeup

-----------------------------------------------------------------------------
USE DEF Blocking, Timed, InCall, Holding

\* What the steps of WaitFrame preserve, up to SignalStepKeeps: NativeEventProofs opens
\* with the same lemmas.

\* The initial state of every component built on the frame.
LEMMA FrameInitially ==
  ASSUME NEW O, Blocking \subseteq O, FrameInit
  PROVE  FrameTypeOK(O) /\ FrameInv /\ NoUseAfterDestroy
BY NoThreadAssumption
   DEF FrameInit, PairInit, FrameTypeOK, PairTypeOK, FrameInv, NoUseAfterDestroy

\* Types and structure survive the steps of the frame, and no thread that was
\* on its way to the predicate drops out by one of them.
LEMMA DatumFreeStep ==
  ASSUME NEW O, Blocking \subseteq O, FrameTypeOK(O), FrameInv, NoUseAfterDestroy,
         NEW t \in Threads, DatumFree(t)
  PROVE  /\ FrameTypeOK(O)' /\ FrameInv' /\ NoUseAfterDestroy'
         /\ Coming \subseteq Coming'
         /\ parked' \subseteq parked
<1>1. CASE Enter(t)
  BY <1>1, NoThreadAssumption
     DEF Enter, mjs_mutex_lock, Goto, FrameTypeOK, PairTypeOK, FrameInv,
         NoUseAfterDestroy, Coming
<1>2. CASE Resume(t)
  BY <1>2, NoThreadAssumption
     DEF Resume, condvar_return, Goto, FrameTypeOK, PairTypeOK, FrameInv,
         NoUseAfterDestroy, Coming
<1>3. CASE Leave(t)
  BY <1>3, NoThreadAssumption
     DEF Leave, mjs_mutex_unlock, Goto, FrameTypeOK, PairTypeOK, FrameInv,
         NoUseAfterDestroy, Coming
<1>4. CASE Return(t)
  BY <1>4
     DEF Return, Goto, Status, pairVars, FrameTypeOK, PairTypeOK, FrameInv,
         NoUseAfterDestroy, Coming
<1>5. CASE DestroyMutex(t)
  BY <1>5
     DEF DestroyMutex, Goto, pairVars, FrameTypeOK, PairTypeOK, FrameInv,
         NoUseAfterDestroy, Coming
<1>6. CASE SpuriousWake(t)
  BY <1>6
     DEF SpuriousWake, condvar_unpark, FrameTypeOK, PairTypeOK, FrameInv,
         NoUseAfterDestroy, Coming
<1>7. CASE DeadlineExpires(t)
  BY <1>7
     DEF DeadlineExpires, condvar_unpark, Status, FrameTypeOK, PairTypeOK, FrameInv,
         NoUseAfterDestroy, Coming
<1> QED
  BY <1>1, <1>2, <1>3, <1>4, <1>5, <1>6, <1>7 DEF DatumFree, FrameRuns

\* The same for the beginning of a call.
LEMMA BeginStep ==
  ASSUME NEW O, NEW o \in O, FrameTypeOK(O), FrameInv, NoUseAfterDestroy,
         NEW t \in Threads, Begin(t, o)
  PROVE  /\ FrameTypeOK(O)' /\ FrameInv' /\ NoUseAfterDestroy'
         /\ Coming' = Coming /\ parked' = parked
BY DEF Begin, Goto, pairVars, FrameTypeOK, PairTypeOK, FrameInv, NoUseAfterDestroy, Coming

\* The same for the loop's wait: only the thread that sleeps drops out.
LEMMA SleepStep ==
  ASSUME NEW O, FrameTypeOK(O), FrameInv, NoUseAfterDestroy, NEW t \in Threads, Sleep(t)
  PROVE  FrameTypeOK(O)' /\ FrameInv' /\ NoUseAfterDestroy'
BY NoThreadAssumption
   DEF Sleep, mjs_condvar_wait, Goto, FrameTypeOK, PairTypeOK, FrameInv, NoUseAfterDestroy

\* The structure does not depend on what a thread does in its critical section.
LEMMA CriticalStepKeeps ==
  ASSUME NEW O, FrameTypeOK(O), FrameInv, NoUseAfterDestroy, NEW t \in Threads,
         CriticalStep(t), rc' \in [Threads -> {"ok", "ETIMEDOUT", "EBUSY"}]
  PROVE  /\ FrameTypeOK(O)' /\ FrameInv' /\ NoUseAfterDestroy'
         /\ Coming \ {t} = Coming' \ {t}
<1>1. PICK l \in Holding : pc' = [pc EXCEPT ![t] = l]
  BY DEF CriticalStep, Goto
<1>2. UNCHANGED <<owner, parked, woken, op, handle>> /\ pc[t] \in Holding
  BY DEF CriticalStep, pairVars
<1>3. FrameTypeOK(O)' /\ FrameInv' /\ NoUseAfterDestroy'
  BY <1>1, <1>2 DEF FrameTypeOK, PairTypeOK, FrameInv, NoUseAfterDestroy
<1>4. \A u \in Threads \ {t} : u \in Coming <=> u \in Coming'
  BY <1>1, <1>2 DEF Coming, FrameTypeOK, PairTypeOK
<1>5. Coming \subseteq Threads /\ Coming' \subseteq Threads
  BY <1>2 DEF Coming, FrameTypeOK, PairTypeOK
<1> QED
  BY <1>3, <1>4, <1>5

\* A signal trades the signaller for a sleeper, if there is one.
LEMMA SignalStepKeeps ==
  ASSUME NEW O, FrameTypeOK(O), FrameInv, NoUseAfterDestroy, NEW t \in Threads,
         SignalStep(t)
  PROVE  /\ FrameTypeOK(O)' /\ FrameInv' /\ NoUseAfterDestroy'
         /\ parked # {} => \E w \in parked \ Coming : Coming' = (Coming \ {t}) \cup {w}
         /\ parked' \subseteq parked
<1>1. PICK w \in IF parked = {} THEN {NoThread} ELSE parked :
        parked' = parked \ {w} /\ woken' = woken \cup (parked \cap {w})
  BY DEF SignalStep, mjs_condvar_signal
<1>2. owner' = owner /\ op' = op /\ rc' = rc /\ handle' = handle
  BY DEF SignalStep, mjs_condvar_signal
<1>3. pc[t] = "signal" /\ pc' = [pc EXCEPT ![t] = "leave"]
  BY DEF SignalStep, Goto
<1>4. FrameTypeOK(O)' /\ FrameInv' /\ NoUseAfterDestroy'
  BY <1>1, <1>2, <1>3 DEF FrameTypeOK, PairTypeOK, FrameInv, NoUseAfterDestroy
<1>5. ASSUME parked # {}
      PROVE  w \in parked \ Coming /\ Coming' = (Coming \ {t}) \cup {w}
  <2>1. w \in parked /\ w \in Threads /\ pc[w] = "blocked" /\ w # t
    BY <1>1, <1>3, <1>5 DEF FrameTypeOK, PairTypeOK, FrameInv
  <2>2. woken' = woken \cup {w} /\ t \notin woken
    BY <2>1, <1>1, <1>3 DEF FrameTypeOK, PairTypeOK, FrameInv
  <2>3. w \notin Coming
    BY <2>1 DEF Coming, FrameInv
  <2>4. Coming' = (Coming \ {t}) \cup {w}
    BY <2>1, <2>2, <1>2, <1>3 DEF Coming, FrameTypeOK, PairTypeOK
  <2> QED
    BY <2>1, <2>3, <2>4
<1> QED
  BY <1>1, <1>4, <1>5

-----------------------------------------------------------------------------
\* The sets counted are finite.
LEMMA Finite ==
  ASSUME FrameTypeOK(Ops)
  PROVE  /\ IsFiniteSet(Coming) /\ Cardinality(Coming) \in Nat
         /\ IsFiniteSet(Posting) /\ Cardinality(Posting) \in Nat
<1>1. Coming \subseteq Threads /\ Posting \subseteq Threads
  BY DEF Coming, Posting, FrameTypeOK, PairTypeOK
<1> QED
  BY <1>1, SemAssumption, FS_Subset, FS_CardinalityType

\* More threads on their way are as good.
LEMMA GrowingComing ==
  ASSUME FrameTypeOK(Ops), FrameTypeOK(Ops)', NoLostWakeup, Counters, Counters',
         Coming \subseteq Coming', parked' \subseteq parked, count' <= count
  PROVE  NoLostWakeup'
<1>1. IsFiniteSet(Coming') /\ Cardinality(Coming') \in Nat
  <2>1. Coming' \subseteq Threads
    BY DEF Coming, FrameTypeOK, PairTypeOK
  <2> QED
    BY <2>1, SemAssumption, FS_Subset, FS_CardinalityType
<1>2. Cardinality(Coming) <= Cardinality(Coming')
  BY <1>1, FS_Subset
<1> QED
  BY <1>1, <1>2, Finite DEF NoLostWakeup, Counters

\* Initially.
LEMMA InvInitially ==
  ASSUME Init
  PROVE  Inv
<1>1. FrameTypeOK(Ops) /\ FrameInv /\ NoUseAfterDestroy
  BY FrameInitially DEF Init, Ops
<1>2. Posting = {} /\ Cardinality(Posting) = 0
  BY FS_EmptySet DEF Init, FrameInit, Posting
<1>3. Counters /\ PostsAccounted /\ PermitsConserved
  BY <1>2, SemAssumption DEF Init, Counters, PostsAccounted, PermitsConserved
<1>4. NewPermitStays /\ NoLostWakeup
  BY DEF Init, FrameInit, PairInit, NewPermitStays, HoldsNewPermit, NoLostWakeup
<1> QED
  BY <1>1, <1>3, <1>4 DEF Inv

\* A call begins.
LEMMA CallKeepsInv ==
  ASSUME Inv, NEW t \in Threads, NEW o \in Ops, Call(t, o)
  PROVE  Inv'
<1>1. /\ FrameTypeOK(Ops)' /\ FrameInv' /\ NoUseAfterDestroy'
      /\ Coming' = Coming /\ parked' = parked
  BY BeginStep DEF Inv, Call
<1>2. /\ pc[t] = "idle" /\ pc' = [pc EXCEPT ![t] = "enter"]
      /\ op' = [op EXCEPT ![t] = o]
      /\ count' = count /\ posted' = posted /\ acquired' = acquired
      /\ called' = IF o = "post" THEN called + 1 ELSE called
      /\ o = "post" => called < MaxPosts
  BY DEF Call, Begin, Goto
<1>3. Counters'
  BY <1>2, SemAssumption DEF Inv, Counters
<1>4. PostsAccounted'
  <2>1. CASE o = "post"
    <3>1. t \notin Posting /\ Posting' = Posting \cup {t}
      BY <2>1, <1>2 DEF Posting, Inv, FrameTypeOK
    <3>2. Cardinality(Posting') = Cardinality(Posting) + 1
      BY <3>1, Finite, FS_AddElement DEF Inv
    <3> QED
      BY <3>2, <2>1, <1>2, Finite DEF PostsAccounted, Inv, Counters
  <2>2. CASE o # "post"
    <3>1. Posting' = Posting
      BY <2>2, <1>2 DEF Posting, Inv, FrameTypeOK
    <3> QED
      BY <3>1, <2>2, <1>2 DEF PostsAccounted, Inv
  <2> QED
    BY <2>1, <2>2
<1>5. PermitsConserved' /\ NoLostWakeup'
  BY <1>1, <1>2 DEF PermitsConserved, NoLostWakeup, Inv
<1>6. NewPermitStays'
  BY <1>2 DEF NewPermitStays, HoldsNewPermit, Inv, FrameTypeOK
<1> QED
  BY <1>1, <1>3, <1>4, <1>5, <1>6 DEF Inv

\* mjs_sem_post adds its permit: nothing wraps, and the new permit is matched
\* by the post itself, now on its way to the signal.
LEMMA PostAddKeepsInv ==
  ASSUME PermitsFit, Inv, NEW t \in Threads, PostAdd(t)
  PROVE  Inv'
<1>1. CriticalStep(t) /\ rc' = rc /\ op' = op /\ parked' = parked
  BY DEF PostAdd, CriticalStep, pairVars
<1>2. FrameTypeOK(Ops)' /\ FrameInv' /\ NoUseAfterDestroy' /\ Coming \ {t} = Coming' \ {t}
  <2>1. rc' \in [Threads -> {"ok", "ETIMEDOUT", "EBUSY"}]
    BY <1>1 DEF Inv, FrameTypeOK
  <2> QED
    BY <1>1, <2>1, CriticalStepKeeps DEF Inv
<1>3. /\ pc[t] = "body" /\ op[t] = "post" /\ pc' = [pc EXCEPT ![t] = "signal"]
      /\ count' = AsInt(count + 1) /\ posted' = posted + 1
      /\ called' = called /\ acquired' = acquired
  BY DEF PostAdd, Goto
<1>4. /\ t \in Posting /\ Posting' = Posting \ {t}
      /\ Cardinality(Posting') = Cardinality(Posting) - 1
      /\ Cardinality(Posting') \in Nat
  <2>1. t \in Posting /\ Posting' = Posting \ {t}
    BY <1>3, <1>1 DEF Posting, Inv, FrameTypeOK
  <2>2. IsFiniteSet(Posting')
    BY <2>1, Finite, FS_RemoveElement DEF Inv
  <2> QED
    BY <2>1, <2>2, Finite, FS_RemoveElement, FS_CardinalityType DEF Inv
<1>5. posted + 1 <= MaxPosts
  BY <1>4, Finite, SemAssumption DEF Inv, PostsAccounted, Counters
<1>6. count' = count + 1
  BY <1>3, <1>5, SemAssumption
     DEF Inv, Counters, PermitsConserved, PermitsFit, AsInt
<1>7. Counters' /\ PostsAccounted' /\ PermitsConserved'
  BY <1>3, <1>4, <1>6, Finite, SemAssumption
     DEF Inv, Counters, PostsAccounted, PermitsConserved
<1>8. NewPermitStays'
  BY <1>1, <1>3, <1>6 DEF NewPermitStays, HoldsNewPermit, Inv, FrameTypeOK, Counters
<1>9. NoLostWakeup'
  <2>1. t \notin Coming /\ t \in Coming'
    BY <1>1, <1>3 DEF Coming, Inv, FrameTypeOK, FrameInv
  <2>2. Coming' = Coming \cup {t}
    BY <2>1, <1>2
  <2>3. Cardinality(Coming') = Cardinality(Coming) + 1
    BY <2>1, <2>2, Finite, FS_AddElement DEF Inv
  <2> QED
    BY <2>3, <1>1, <1>6, Finite DEF NoLostWakeup, Inv, Counters
<1> QED
  BY <1>2, <1>7, <1>8, <1>9 DEF Inv

\* mjs_sem_post wakes a sleeper, which takes over from it.
LEMMA PostSignalKeepsInv ==
  ASSUME Inv, NEW t \in Threads, PostSignal(t)
  PROVE  Inv'
<1>1. SignalStep(t)
  BY DEF PostSignal, SignalStep
<1>2. /\ FrameTypeOK(Ops)' /\ FrameInv' /\ NoUseAfterDestroy'
      /\ parked # {} => \E w \in parked \ Coming : Coming' = (Coming \ {t}) \cup {w}
      /\ parked' \subseteq parked
  BY <1>1, SignalStepKeeps DEF Inv
<1>3. /\ pc[t] = "signal" /\ pc' = [pc EXCEPT ![t] = "leave"] /\ op' = op
      /\ count' = count /\ posted' = posted /\ called' = called /\ acquired' = acquired
  BY DEF PostSignal, Goto
<1>4. Posting' = Posting
  BY <1>3 DEF Posting, Inv, FrameTypeOK
<1>5. Counters' /\ PostsAccounted' /\ PermitsConserved'
  BY <1>3, <1>4 DEF Inv, Counters, PostsAccounted, PermitsConserved
<1>6. NewPermitStays'
  BY <1>3 DEF NewPermitStays, HoldsNewPermit, Inv, FrameTypeOK
<1>7. NoLostWakeup'
  <2>1. CASE parked = {}
    BY <2>1, <1>2 DEF NoLostWakeup
  <2>2. CASE parked # {}
    <3>1. PICK w \in parked \ Coming : Coming' = (Coming \ {t}) \cup {w}
      BY <2>2, <1>2
    <3>2. t \in Coming
      BY <1>3 DEF Coming
    <3>3. /\ IsFiniteSet(Coming \ {t})
          /\ Cardinality(Coming \ {t}) = Cardinality(Coming) - 1
      BY <3>2, Finite, FS_RemoveElement DEF Inv
    <3>4. Cardinality(Coming') = Cardinality(Coming \ {t}) + 1
      BY <3>1, <3>3, FS_AddElement
    <3> QED
      BY <2>2, <3>3, <3>4, <1>3, Finite DEF NoLostWakeup, Inv
  <2> QED
    BY <2>1, <2>2
<1> QED
  BY <1>2, <1>5, <1>6, <1>7 DEF Inv

\* An acquire takes a permit: one permit and one thread on its way less.  The
\* thread holds the mutex, so no post is between its permit and its unlock.
LEMMA TakeKeepsInv ==
  ASSUME Inv, NEW t \in Threads, Take(t)
  PROVE  Inv'
<1>1. /\ pc[t] = "body" /\ op[t] # "post" /\ count # 0
      /\ pc' = [pc EXCEPT ![t] = "leave"] /\ op' = op /\ parked' = parked
      /\ owner' = owner /\ rc' = [rc EXCEPT ![t] = "ok"]
      /\ count' = count - 1 /\ acquired' = acquired + 1
      /\ called' = called /\ posted' = posted
  BY DEF Take, Goto, Status, pairVars
<1>2. FrameTypeOK(Ops)' /\ FrameInv' /\ NoUseAfterDestroy' /\ Coming \ {t} = Coming' \ {t}
  <2>1. CriticalStep(t)
    BY <1>1 DEF Take, CriticalStep, Goto, pairVars
  <2>2. rc' \in [Threads -> {"ok", "ETIMEDOUT", "EBUSY"}]
    BY <1>1 DEF Inv, FrameTypeOK
  <2> QED
    BY <2>1, <2>2, CriticalStepKeeps DEF Inv
<1>3. Posting' = Posting
  BY <1>1 DEF Posting, Inv, FrameTypeOK
<1>4. Counters' /\ PostsAccounted' /\ PermitsConserved'
  BY <1>1, <1>3 DEF Inv, Counters, PostsAccounted, PermitsConserved
<1>5. NewPermitStays'
  <2>1. \A u \in Threads : ~HoldsNewPermit(u)'
    BY <1>1 DEF HoldsNewPermit, Inv, FrameTypeOK, FrameInv
  <2> QED
    BY <2>1 DEF NewPermitStays
<1>6. NoLostWakeup'
  <2>1. op[t] \in Blocking \cup {"try_wait"}
    BY <1>1 DEF Inv, FrameTypeOK, Ops
  <2>2. t \in Coming
    BY <1>1, <2>1 DEF Coming
  <2>3. Coming \ {t} \subseteq Coming'
    BY <1>2
  <2>4. /\ Cardinality(Coming \ {t}) = Cardinality(Coming) - 1
        /\ Cardinality(Coming \ {t}) \in Nat
    BY <2>2, Finite, FS_RemoveElement, FS_CardinalityType DEF Inv
  <2>5. IsFiniteSet(Coming') /\ Cardinality(Coming') \in Nat
    <3>1. Coming' \subseteq Threads
      BY <1>2 DEF Coming, FrameTypeOK, PairTypeOK
    <3> QED
      BY <3>1, SemAssumption, FS_Subset, FS_CardinalityType
  <2>6. Cardinality(Coming \ {t}) <= Cardinality(Coming')
    BY <2>3, <2>5, FS_Subset
  <2> QED
    BY <1>1, <2>4, <2>5, <2>6, Finite DEF NoLostWakeup, Inv, Counters
<1> QED
  BY <1>2, <1>4, <1>5, <1>6 DEF Inv

\* Without a permit nothing can be stranded, whoever sleeps or gives up.
LEMMA NoPermitNoLoss ==
  ASSUME FrameTypeOK(Ops)', count' = 0
  PROVE  NoLostWakeup'
<1>1. Coming' \subseteq Threads
  BY DEF Coming, FrameTypeOK, PairTypeOK
<1>2. Cardinality(Coming') \in Nat
  BY <1>1, SemAssumption, FS_Subset, FS_CardinalityType
<1> QED
  BY <1>2 DEF NoLostWakeup

\* A step that finds no permit: the loop sleeps, sees its deadline pass or gives
\* up, or mjs_sem_try_wait answers -EBUSY.
LEMMA WithoutPermitKeepsInv ==
  ASSUME Inv, NEW t \in Threads, Wait(t) \/ Busy(t)
  PROVE  Inv'
<1>1. /\ count = 0 /\ count' = count /\ posted' = posted
      /\ called' = called /\ acquired' = acquired /\ op' = op
      /\ pc[t] = "body" /\ op[t] # "post"
  BY DEF Wait, Busy, Sleep, PastDeadline, GiveUp
<1>2. /\ FrameTypeOK(Ops)' /\ FrameInv' /\ NoUseAfterDestroy'
      /\ \E l \in {"body", "leave", "blocked"} : pc' = [pc EXCEPT ![t] = l]
  <2>1. CASE Sleep(t)
    <3>1. \E l \in {"body", "leave", "blocked"} : pc' = [pc EXCEPT ![t] = l]
      BY <2>1 DEF Sleep, Goto
    <3> QED
      BY <2>1, <3>1, SleepStep DEF Inv
  <2>2. CASE PastDeadline(t) \/ GiveUp(t) \/ Busy(t)
    <3>1. rc' \in [Threads -> {"ok", "ETIMEDOUT", "EBUSY"}]
      BY <2>2 DEF PastDeadline, GiveUp, Busy, Status, Inv, FrameTypeOK
    <3>2. PICK l \in {"body", "leave"} : pc' = [pc EXCEPT ![t] = l]
      BY <2>2, <1>1 DEF PastDeadline, GiveUp, Busy, Goto, Inv, FrameTypeOK
    <3>3. UNCHANGED <<pairVars, op, handle>>
      BY <2>2 DEF PastDeadline, GiveUp, Busy
    <3>4. CriticalStep(t)
      BY <1>1, <3>2, <3>3 DEF CriticalStep, Goto
    <3> QED
      BY <3>1, <3>2, <3>4, CriticalStepKeeps DEF Inv
  <2> QED
    BY <2>1, <2>2 DEF Wait
<1>3. PICK l \in {"body", "leave", "blocked"} : pc' = [pc EXCEPT ![t] = l]
  BY <1>2
<1>4. Posting' = Posting
  BY <1>1, <1>3 DEF Posting, Inv, FrameTypeOK
<1>5. Counters' /\ PostsAccounted' /\ PermitsConserved'
  BY <1>1, <1>4 DEF Inv, Counters, PostsAccounted, PermitsConserved
<1>6. NewPermitStays'
  BY <1>1, <1>3 DEF NewPermitStays, HoldsNewPermit, Inv, FrameTypeOK
<1>7. NoLostWakeup'
  BY <1>1, <1>2, NoPermitNoLoss
<1> QED
  BY <1>2, <1>5, <1>6, <1>7 DEF Inv

\* mjs_sem_destroy.  A caller that took every permit there will ever be knows
\* that no post is before its increment (they are all counted), and none is
\* after it inside the critical section either, since its permit would be there.
LEMMA DestroyKeepsInv ==
  ASSUME Inv, NEW t \in Threads, Destroy(t)
  PROVE  Inv'
<1>1. /\ acquired = Initial + called
      /\ \A u \in Threads : pc[u] \in {"idle", "return"} \/ op[u] = "post"
      /\ pc[t] = "idle" /\ pc' = [pc EXCEPT ![t] = "destroy"] /\ handle' = "cv_gone"
      /\ owner' = owner /\ parked' = parked /\ woken' = woken
      /\ op' = op /\ rc' = rc /\ count' = count /\ called' = called
      /\ posted' = posted /\ acquired' = acquired
  BY DEF Destroy, DestroyCondvar, Goto, pairVars
<1>2. count = 0 /\ Cardinality(Posting) = 0
  BY <1>1, Finite, SemAssumption DEF Inv, Counters, PostsAccounted, PermitsConserved
<1>3. Posting = {}
  BY <1>2, Finite, FS_EmptySet DEF Inv
<1>4. \A u \in Threads : pc[u] \notin InCall
  <2> SUFFICES ASSUME NEW u \in Threads, pc[u] \in InCall PROVE FALSE
    OBVIOUS
  <2>1. op[u] = "post"
    BY <1>1
  <2>2. pc[u] \notin {"enter", "body"}
    BY <1>3, <2>1 DEF Posting
  <2>3. pc[u] # "blocked"
    BY <2>1 DEF Inv, FrameInv
  <2>4. HoldsNewPermit(u)
    BY <2>1, <2>2, <2>3 DEF HoldsNewPermit
  <2> QED
    BY <2>4, <1>2 DEF Inv, NewPermitStays
<1>5. FrameTypeOK(Ops)' /\ FrameInv' /\ NoUseAfterDestroy'
  BY <1>1, <1>4 DEF Inv, FrameTypeOK, PairTypeOK, FrameInv, NoUseAfterDestroy
<1>6. Posting' = Posting
  BY <1>1 DEF Posting, Inv, FrameTypeOK
<1>7. Counters' /\ PostsAccounted' /\ PermitsConserved'
  BY <1>1, <1>6 DEF Inv, Counters, PostsAccounted, PermitsConserved
<1>8. NewPermitStays'
  BY <1>1 DEF NewPermitStays, HoldsNewPermit, Inv, FrameTypeOK
<1>9. NoLostWakeup'
  BY <1>1, <1>2, <1>5, NoPermitNoLoss
<1> QED
  BY <1>5, <1>7, <1>8, <1>9 DEF Inv

\* The steps that do not look at s->count.
LEMMA FrameKeepsInv ==
  ASSUME Inv, NEW t \in Threads, Frame(t)
  PROVE  Inv'
<1>1. /\ DatumFree(t) /\ count' = count /\ posted' = posted
      /\ called' = called /\ acquired' = acquired
  BY DEF Frame, DatumFree
<1>2. /\ FrameTypeOK(Ops)' /\ FrameInv' /\ NoUseAfterDestroy'
      /\ Coming \subseteq Coming' /\ parked' \subseteq parked
  <2>1. Blocking \subseteq Ops
    BY DEF Ops
  <2> QED
    BY <1>1, <2>1, DatumFreeStep DEF Inv
<1>3. Posting' = Posting /\ \A u \in Threads :
        HoldsNewPermit(u)' => HoldsNewPermit(u) /\ op'[u] = op[u]
  <2>1. CASE Enter(t)
    BY <2>1 DEF Enter, Goto, Posting, HoldsNewPermit, Inv, FrameTypeOK
  <2>2. CASE Resume(t)
    BY <2>2 DEF Resume, condvar_return, Goto, Posting, HoldsNewPermit, Inv, FrameTypeOK, FrameInv
  <2>3. CASE Leave(t)
    BY <2>3 DEF Leave, Goto, Posting, HoldsNewPermit, Inv, FrameTypeOK
  <2>4. CASE Return(t)
    BY <2>4 DEF Return, Goto, Posting, HoldsNewPermit, Inv, FrameTypeOK
  <2>5. CASE DestroyMutex(t)
    BY <2>5 DEF DestroyMutex, Goto, Posting, HoldsNewPermit, Inv, FrameTypeOK
  <2>6. CASE SpuriousWake(t) \/ DeadlineExpires(t)
    BY <2>6 DEF SpuriousWake, DeadlineExpires, Posting, HoldsNewPermit
  <2> QED
    BY <1>1, <2>1, <2>2, <2>3, <2>4, <2>5, <2>6 DEF DatumFree, FrameRuns
<1>4. Counters' /\ PostsAccounted' /\ PermitsConserved'
  BY <1>1, <1>3 DEF Inv, Counters, PostsAccounted, PermitsConserved
<1>5. NewPermitStays'
  BY <1>1, <1>3 DEF Inv, NewPermitStays
<1>6. NoLostWakeup'
  BY <1>1, <1>2, <1>4, GrowingComing DEF Inv, Counters
<1> QED
  BY <1>2, <1>4, <1>5, <1>6 DEF Inv

-----------------------------------------------------------------------------
\* Every step of every thread preserves the invariant.
LEMMA NextKeepsInv ==
  ASSUME PermitsFit, Inv, [Next]_vars
  PROVE  Inv'
<1>1. ASSUME NEW t \in Threads, NEW o \in Ops, Call(t, o) PROVE Inv'
  BY <1>1, CallKeepsInv
<1>2. ASSUME NEW t \in Threads, PostAdd(t) PROVE Inv'
  BY <1>2, PostAddKeepsInv
<1>3. ASSUME NEW t \in Threads, PostSignal(t) PROVE Inv'
  BY <1>3, PostSignalKeepsInv
<1>4. ASSUME NEW t \in Threads, Take(t) PROVE Inv'
  BY <1>4, TakeKeepsInv
<1>5. ASSUME NEW t \in Threads, Wait(t) \/ Busy(t) PROVE Inv'
  BY <1>5, WithoutPermitKeepsInv
<1>6. ASSUME NEW t \in Threads, Destroy(t) PROVE Inv'
  BY <1>6, DestroyKeepsInv
<1>7. ASSUME NEW t \in Threads, Frame(t) PROVE Inv'
  BY <1>7, FrameKeepsInv
<1>8. CASE UNCHANGED vars
  BY <1>8 DEF vars, frameVars, pairVars, Inv, FrameTypeOK, PairTypeOK, FrameInv,
     Counters, PostsAccounted, Posting, PermitsConserved, NewPermitStays,
     HoldsNewPermit, NoUseAfterDestroy, NoLostWakeup, Coming
<1> QED
  BY <1>1, <1>2, <1>3, <1>4, <1>5, <1>6, <1>7, <1>8 DEF Next

\* The inductive invariant holds in every reachable state of mjs_sem.
THEOREM SemInvariant ==
  ASSUME PermitsFit
  PROVE  Spec => []Inv
<1>1. Init => Inv
  BY InvInitially
<1>2. Inv /\ [Next]_vars => Inv'
  BY NextKeepsInv
<1> QED
  BY <1>1, <1>2, PTL DEF Spec

\* Every variable of mjs_sem keeps its type, s->count included: while the
\* permits fit an int it stays between 0 and INT_MAX.
THEOREM SemTypeCorrect ==
  ASSUME PermitsFit
  PROVE  Spec => []TypeOK
<1>1. Inv => TypeOK
  <2> SUFFICES ASSUME Inv PROVE TypeOK
    OBVIOUS
  <2>1. count \in 0..IntMax /\ posted \in 0..MaxPosts /\ acquired \in 0..(Initial + MaxPosts)
    BY Finite, SemAssumption DEF Inv, Counters, PostsAccounted, PermitsConserved, PermitsFit
  <2> QED
    BY <2>1 DEF TypeOK, Inv, Counters
<1> QED
  BY <1>1, SemInvariant, PTL

\* A permit that mjs_sem_post added never lies there with only sleepers around:
\* for any number of threads, posts, timeouts and spurious wakes.
THEOREM SemNoLostWakeup ==
  ASSUME PermitsFit
  PROVE  Spec => []NoLostWakeup
<1>1. Inv => NoLostWakeup
  BY DEF Inv
<1> QED
  BY <1>1, SemInvariant, PTL

\* Permits are neither lost nor made up by mjs_sem_wait, _wait_until, _try_wait
\* and mjs_sem_post.
THEOREM SemPermitsConserved ==
  ASSUME PermitsFit
  PROVE  Spec => []PermitsConserved
<1>1. Inv => PermitsConserved
  BY DEF Inv
<1> QED
  BY <1>1, SemInvariant, PTL

\* CountNeverNegative, with the condition it needs, which mjs_sem_post does not
\* check: while the permits fit an int no post wraps s->count, whoever posts
\* meanwhile.
THEOREM SemCountNeverNegative ==
  ASSUME PermitsFit
  PROVE  Spec => []CountNeverNegative
<1>1. Inv => CountNeverNegative
  BY DEF Inv, Counters, CountNeverNegative
<1> QED
  BY <1>1, SemInvariant, PTL

\* mjs_sem_destroy by a thread that has taken the last permit touches no mutex
\* or condvar that a mjs_sem_post still uses.
THEOREM SemNoUseAfterDestroy ==
  ASSUME PermitsFit
  PROVE  Spec => []NoUseAfterDestroy
<1>1. Inv => NoUseAfterDestroy
  BY DEF Inv
<1> QED
  BY <1>1, SemInvariant, PTL

-----------------------------------------------------------------------------
\* The implementation of CountingSemaphore.

\* What the status variable of a call says at each point of it: an error only
\* of a bounded acquire, and in the loop of mjs_sem_wait_until -ETIMEDOUT.
StatusInv ==
  \A t \in Threads :
    rc[t] # "ok" =>
      \/ pc[t] \in {"body", "blocked"} /\ op[t] \in Timed
      \/ pc[t] \in {"leave", "return"} /\ op[t] # "post"

USE DEF Ops

\* Initially no status is an error.
LEMMA StatusInitially ==
  ASSUME Init
  PROVE  StatusInv
BY DEF Init, FrameInit, StatusInv

\* No step reports an error from a call that cannot fail.
LEMMA NextKeepsStatus ==
  ASSUME Inv, StatusInv, [Next]_vars
  PROVE  StatusInv'
<1> USE DEF StatusInv, Inv, FrameTypeOK, Goto, Status
<1>1. ASSUME NEW t \in Threads, NEW o \in Ops, Call(t, o) PROVE StatusInv'
  BY <1>1 DEF Call, Begin
<1>2. ASSUME NEW t \in Threads, PostAdd(t) \/ PostSignal(t) PROVE StatusInv'
  BY <1>2 DEF PostAdd, PostSignal
<1>3. ASSUME NEW t \in Threads, Take(t) \/ Busy(t) PROVE StatusInv'
  BY <1>3 DEF Take, Busy
<1>4. ASSUME NEW t \in Threads, Wait(t) PROVE StatusInv'
  BY <1>4 DEF Wait, Sleep, PastDeadline, GiveUp
<1>5. ASSUME NEW t \in Threads, Destroy(t) PROVE StatusInv'
  BY <1>5 DEF Destroy, DestroyCondvar
<1>6. ASSUME NEW t \in Threads, Frame(t) PROVE StatusInv'
  <2>1. CASE Enter(t) \/ Leave(t) \/ DestroyMutex(t)
    BY <2>1 DEF Enter, Leave, DestroyMutex
  <2>2. CASE Return(t)
    BY <2>2 DEF Return
  <2>3. CASE Resume(t)
    BY <2>3 DEF Resume, condvar_return, FrameInv
  <2>4. CASE SpuriousWake(t) \/ DeadlineExpires(t)
    BY <2>4 DEF SpuriousWake, DeadlineExpires, condvar_unpark, FrameInv
  <2> QED
    BY <1>6, <2>1, <2>2, <2>3, <2>4 DEF Frame, FrameRuns
<1>7. CASE UNCHANGED vars
  BY <1>7 DEF vars, frameVars
<1> QED
  BY <1>1, <1>2, <1>3, <1>4, <1>5, <1>6, <1>7 DEF Next

-----------------------------------------------------------------------------
AbsCall == [t \in Threads |-> CallOf(t)]

\* A step of t that takes the abstract call of t from what it is to x.
LEMMA OneCallMoves ==
  ASSUME FrameTypeOK(Ops), NEW t \in Threads, NEW l, NEW x,
         pc' = [pc EXCEPT ![t] = l],
         \A u \in Threads \ {t} : op'[u] = op[u] /\ rc'[u] = rc[u],
         CallOf(t)' = x
  PROVE  AbsCall' = [AbsCall EXCEPT ![t] = x]
<1>1. \A u \in Threads \ {t} : CallOf(u)' = CallOf(u)
  BY DEF CallOf, FrameTypeOK
<1> QED
  BY <1>1 DEF AbsCall

\* A step that moves a call along between its effect and its ends.
LEMMA CallStays ==
  ASSUME FrameTypeOK(Ops), NEW t \in Threads, NEW l,
         pc' = [pc EXCEPT ![t] = l],
         \A u \in Threads \ {t} : op'[u] = op[u] /\ rc'[u] = rc[u],
         CallOf(t)' = CallOf(t)
  PROVE  AbsCall' = AbsCall
<1>1. \A u \in Threads : CallOf(u)' = CallOf(u)
  BY DEF CallOf, FrameTypeOK
<1> QED
  BY <1>1 DEF AbsCall

\* Under the mapping, a step of mjs_sem is a step of CountingSemaphore or none.
LEMMA StepSimulation ==
  ASSUME PermitsFit, Inv, Inv', StatusInv, [Next]_vars
  PROVE  [Abstract!Next]_(Abstract!semVars)
<1> USE DEF AbsCall
<1>a. \A t \in Threads : AbsCall[t] = CallOf(t)
  OBVIOUS
<1>b. FrameTypeOK(Ops) /\ count \in Nat
  BY DEF Inv, Counters
<1>1. ASSUME NEW t \in Threads, NEW o \in Ops, Call(t, o)
      PROVE  Abstract!Invoke(t, o)
  <2>1. CallOf(t) = "none" /\ CallOf(t)' = o
    BY <1>1, <1>b DEF Call, Begin, Goto, CallOf, FrameTypeOK
  <2>2. AbsCall' = [AbsCall EXCEPT ![t] = o]
    BY <1>1, <1>b, <2>1, OneCallMoves DEF Call, Begin, Goto, FrameTypeOK
  <2> QED
    BY <1>1, <1>a, <2>1, <2>2 DEF Abstract!Invoke, Call
<1>2. ASSUME NEW t \in Threads, PostAdd(t)
      PROVE  Abstract!Post(t)
  <2>1. CallOf(t) = "post" /\ CallOf(t)' = "ok"
    BY <1>2, <1>b DEF PostAdd, Goto, CallOf, FrameTypeOK, StatusInv
  <2>2. AbsCall' = [AbsCall EXCEPT ![t] = "ok"]
    BY <1>2, <1>b, <2>1, OneCallMoves DEF PostAdd, Goto
  <2>3. count' = count + 1
    <3>1. t \in Posting /\ Cardinality(Posting) \in Nat /\ IsFiniteSet(Posting)
      BY <1>2, <1>b, Finite DEF PostAdd, Posting
    <3>2. Cardinality(Posting) # 0
      BY <3>1, FS_EmptySet
    <3> QED
      BY <1>2, <3>1, <3>2, SemAssumption
         DEF PostAdd, AsInt, Inv, Counters, PermitsConserved, PostsAccounted, PermitsFit
  <2> QED
    BY <1>a, <2>1, <2>2, <2>3 DEF Abstract!Post
<1>3. ASSUME NEW t \in Threads, Take(t)
      PROVE  Abstract!Acquire(t)
  <2>1. CallOf(t) \in {"wait", "wait_until", "try_wait"} /\ CallOf(t)' = "ok"
    BY <1>3, <1>b DEF Take, Goto, Status, CallOf, FrameTypeOK
  <2>2. AbsCall' = [AbsCall EXCEPT ![t] = "ok"]
    BY <1>3, <1>b, <2>1, OneCallMoves DEF Take, Goto, Status, FrameTypeOK
  <2>3. count > 0 /\ count' = count - 1
    BY <1>3, <1>b DEF Take
  <2> QED
    BY <1>a, <2>1, <2>2, <2>3 DEF Abstract!Acquire, Abstract!Acquires, Abstract!Bounded
<1>4. ASSUME NEW t \in Threads, (Wait(t) /\ GiveUp(t)) \/ Busy(t)
      PROVE  Abstract!Refuse(t)
  <2>1. CallOf(t) \in {"wait_until", "try_wait"} /\ CallOf(t)' = "refused"
    BY <1>4, <1>b DEF GiveUp, Busy, Goto, Status, CallOf, FrameTypeOK
  <2>2. AbsCall' = [AbsCall EXCEPT ![t] = "refused"]
    <3>1. pc' = [pc EXCEPT ![t] = "leave"]
      BY <1>4 DEF GiveUp, Busy, Goto
    <3>2. \A u \in Threads \ {t} : op'[u] = op[u] /\ rc'[u] = rc[u]
      BY <1>4, <1>b DEF GiveUp, Busy, Status, FrameTypeOK
    <3> QED
      BY <1>b, <2>1, <3>1, <3>2, OneCallMoves
  <2>3. count = 0 /\ count' = count
    BY <1>4 DEF Wait, Busy
  <2> QED
    BY <1>a, <2>1, <2>2, <2>3 DEF Abstract!Refuse, Abstract!Bounded
<1>5. ASSUME NEW t \in Threads, Frame(t), Return(t)
      PROVE  Abstract!Return(t)
  <2>1. CallOf(t) \in {"ok", "refused"} /\ CallOf(t)' = "none"
    BY <1>5, <1>b DEF Return, Goto, CallOf, FrameTypeOK
  <2>2. AbsCall' = [AbsCall EXCEPT ![t] = "none"]
    BY <1>5, <1>b, <2>1, OneCallMoves DEF Return, Goto, Status, FrameTypeOK
  <2> QED
    BY <1>5, <1>a, <2>1, <2>2 DEF Abstract!Return, Frame
<1>6. ASSUME NEW t \in Threads, PostSignal(t) \/ Destroy(t) \/ (Wait(t) /\ ~GiveUp(t))
                               \/ (Frame(t) /\ ~Return(t))
      PROVE  UNCHANGED Abstract!semVars
  <2>1. count' = count
    BY <1>6 DEF PostSignal, Destroy, Wait, Frame
  <2>2. CASE PostSignal(t) \/ Destroy(t)
    <3>1. CallOf(t)' = CallOf(t)
      BY <2>2, <1>b DEF PostSignal, Destroy, DestroyCondvar, Goto, CallOf, FrameTypeOK
    <3> QED
      BY <2>1, <2>2, <3>1, <1>b, CallStays
         DEF PostSignal, Destroy, DestroyCondvar, Goto, Abstract!semVars
  <2>3. CASE Sleep(t) \/ PastDeadline(t)
    <3>1. CallOf(t)' = CallOf(t)
      BY <2>3, <1>b DEF Sleep, PastDeadline, Goto, Status, CallOf, FrameTypeOK
    <3>2. \E l : pc' = [pc EXCEPT ![t] = l]
      <4>1. pc = [pc EXCEPT ![t] = pc[t]]
        BY <1>b DEF FrameTypeOK
      <4> QED
        BY <4>1, <2>3 DEF Sleep, PastDeadline, Goto
    <3>3. \A u \in Threads \ {t} : op'[u] = op[u] /\ rc'[u] = rc[u]
      BY <2>3, <1>b DEF Sleep, PastDeadline, Status, FrameTypeOK
    <3> QED
      BY <2>1, <3>1, <3>2, <3>3, <1>b, CallStays DEF Abstract!semVars
  <2>4. CASE Enter(t) \/ Leave(t) \/ DestroyMutex(t)
    <3>1. CallOf(t)' = CallOf(t)
      BY <2>4, <1>b DEF Enter, Leave, DestroyMutex, Goto, CallOf, FrameTypeOK
    <3> QED
      BY <2>1, <2>4, <3>1, <1>b, CallStays
         DEF Enter, Leave, DestroyMutex, Goto, Abstract!semVars
  <2>5. CASE Resume(t)
    <3>1. pc[t] = "blocked"
      BY <2>5 DEF Resume, condvar_return, Inv, FrameInv
    <3>2. CallOf(t)' = CallOf(t)
      BY <2>5, <3>1, <1>b DEF Resume, Goto, CallOf, FrameTypeOK
    <3> QED
      BY <2>1, <2>5, <3>2, <1>b, CallStays DEF Resume, Goto, Abstract!semVars
  <2>6. CASE SpuriousWake(t) \/ DeadlineExpires(t)
    <3>1. pc[t] = "blocked" /\ pc' = pc /\ op' = op
      BY <2>6 DEF SpuriousWake, DeadlineExpires, condvar_unpark, Inv, FrameInv
    <3>2. \A u \in Threads \ {t} : rc'[u] = rc[u]
      BY <2>6, <1>b DEF SpuriousWake, DeadlineExpires, Status, FrameTypeOK
    <3>3. \A u \in Threads : CallOf(u)' = CallOf(u)
      BY <3>1, <3>2 DEF CallOf
    <3> QED
      BY <2>1, <3>3 DEF Abstract!semVars
  <2> QED
    BY <1>6, <2>2, <2>3, <2>4, <2>5, <2>6 DEF Wait, Frame, FrameRuns
<1>7. CASE UNCHANGED vars
  BY <1>7 DEF vars, frameVars, Abstract!semVars, CallOf
<1> QED
  <2>1. CASE UNCHANGED vars
    BY <1>7, <2>1
  <2>2. CASE Next
    <3>1. PICK t \in Threads :
            \/ \E o \in Ops : Call(t, o)
            \/ PostAdd(t) \/ PostSignal(t)
            \/ Take(t) \/ Wait(t) \/ Busy(t)
            \/ Destroy(t)
            \/ Frame(t)
      BY <2>2 DEF Next
    <3>2. CASE \E o \in Ops : Call(t, o)
      <4>1. Ops = Abstract!Acquires \cup {"post"}
        BY DEF Abstract!Acquires, Abstract!Bounded
      <4> QED
        BY <4>1, <3>2, <1>1 DEF Abstract!Next
    <3>3. CASE PostAdd(t) \/ Take(t) \/ Busy(t) \/ (Wait(t) /\ GiveUp(t))
               \/ (Frame(t) /\ Return(t))
      BY <3>3, <1>2, <1>3, <1>4, <1>5 DEF Abstract!Next
    <3>4. CASE PostSignal(t) \/ Destroy(t) \/ (Wait(t) /\ ~GiveUp(t))
               \/ (Frame(t) /\ ~Return(t))
      BY <3>4, <1>6
    <3> QED
      BY <3>1, <3>2, <3>3, <3>4
  <2> QED
    BY <2>1, <2>2

\* The mjs_sem_* calls are linearizable to a counting semaphore whatever the
\* threads do: the property the TLC run checks for three threads.
THEOREM SemImplementsCounting ==
  ASSUME PermitsFit
  PROVE  Spec => ImplementsCounting
<1>1. Init => Abstract!Init
  BY DEF Init, FrameInit, Abstract!Init, CallOf
<1>2. Init => StatusInv
  BY StatusInitially
<1>3. Inv /\ StatusInv /\ [Next]_vars => StatusInv'
  BY NextKeepsStatus
<1>4. Inv /\ Inv' /\ StatusInv /\ [Next]_vars => [Abstract!Next]_(Abstract!semVars)
  BY StepSimulation
<1> QED
  BY <1>1, <1>2, <1>3, <1>4, SemInvariant, PTL DEF Spec, ImplementsCounting, Abstract!Spec
=============================================================================
