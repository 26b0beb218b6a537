-------------------------- MODULE NativeEventProofs --------------------------
(***************************************************************************)
(* The safety of mjs_event, and that it implements AutoResetEvent, for     *)
(* every set of threads and every number of signals.                       *)
(***************************************************************************)
EXTENDS NativeEvent, FiniteSetTheorems, TLAPS

\* The signal calls begun that have not looked at e->signaled yet.
Signalling == {t \in Threads : op[t] = "signal" /\ pc[t] \in {"enter", "body"}}

\* t is in mjs_event_signal, past its test, and still holds the mutex.
HoldsToken(t) == pc[t] = "signal" \/ (pc[t] = "leave" /\ op[t] = "signal")

Counters ==
  /\ signaled \in {0, 1}
  /\ called \in 0..MaxSignals
  /\ consumed \in Nat

\* Every token consumed, pending or yet to come goes back to a signal of its
\* own; coalesced signals are the difference.
TokensAccounted == consumed + signaled + Cardinality(Signalling) <= called

\* Nobody can take the token away before the signal that left it pending has
\* left the critical section.
TokenStays ==
  \A t \in Threads : HoldsToken(t) => op[t] = "signal" /\ signaled = 1

\* What the status variable of a call says at each point of it.
StatusInv ==
  \A t \in Threads :
    /\ rc[t] \in {"ok", "ETIMEDOUT"}
    /\ rc[t] # "ok" => /\ op[t] \in Timed
                       /\ pc[t] \in {"body", "blocked", "leave", "return"}

\* The inductive invariant.
Inv ==
  /\ FrameTypeOK(Ops)
  /\ FrameInv
  /\ Counters
  /\ TokensAccounted
  /\ TokenStays
  /\ StatusInv
  /\ NoUseAfterDestroy
  /\ NoLostWakeup

-----------------------------------------------------------------------------
USE DEF Blocking, Timed, InCall, Holding

\* What the steps of WaitFrame preserve, up to SignalStepKeeps: NativeSemProofs opens
\* with the same lemmas.

\* The initial state of every component built on the frame.
LEMMA FrameInitially ==
  ASSUME NEW O, Blocking \subseteq O, FrameInit
  PROVE  FrameTypeOK(O) /\ FrameInv /\ NoUseAfterDestroy
BY NoThreadAssumption
   DEF FrameInit, PairInit, FrameTypeOK, PairTypeOK, FrameInv, NoUseAfterDestroy

\* Types and structure survive the steps of the frame, and no thread that was
\* on its way to the predicate drops out by one of them.
LEMMA DatumFreeStep ==
  ASSUME NEW O, Blocking \subseteq O, FrameTypeOK(O), FrameInv, NoUseAfterDestroy,
         NEW t \in Threads, DatumFree(t)
  PROVE  /\ FrameTypeOK(O)' /\ FrameInv' /\ NoUseAfterDestroy'
         /\ Coming \subseteq Coming'
         /\ parked' \subseteq parked
<1>1. CASE Enter(t)
  BY <1>1, NoThreadAssumption
     DEF Enter, mjs_mutex_lock, Goto, FrameTypeOK, PairTypeOK, FrameInv,
         NoUseAfterDestroy, Coming
<1>2. CASE Resume(t)
  BY <1>2, NoThreadAssumption
     DEF Resume, condvar_return, Goto, FrameTypeOK, PairTypeOK, FrameInv,
         NoUseAfterDestroy, Coming
<1>3. CASE Leave(t)
  BY <1>3, NoThreadAssumption
     DEF Leave, mjs_mutex_unlock, Goto, FrameTypeOK, PairTypeOK, FrameInv,
         NoUseAfterDestroy, Coming
<1>4. CASE Return(t)
  BY <1>4
     DEF Return, Goto, Status, pairVars, FrameTypeOK, PairTypeOK, FrameInv,
         NoUseAfterDestroy, Coming
<1>5. CASE DestroyMutex(t)
  BY <1>5
     DEF DestroyMutex, Goto, pairVars, FrameTypeOK, PairTypeOK, FrameInv,
         NoUseAfterDestroy, Coming
<1>6. CASE SpuriousWake(t)
  BY <1>6
     DEF SpuriousWake, condvar_unpark, FrameTypeOK, PairTypeOK, FrameInv,
         NoUseAfterDestroy, Coming
<1>7. CASE DeadlineExpires(t)
  BY <1>7
     DEF DeadlineExpires, condvar_unpark, Status, FrameTypeOK, PairTypeOK, FrameInv,
         NoUseAfterDestroy, Coming
<1> QED
  BY <1>1, <1>2, <1>3, <1>4, <1>5, <1>6, <1>7 DEF DatumFree, FrameRuns

\* The same for the beginning of a call.
LEMMA BeginStep ==
  ASSUME NEW O, NEW o \in O, FrameTypeOK(O), FrameInv, NoUseAfterDestroy,
         NEW t \in Threads, Begin(t, o)
  PROVE  /\ FrameTypeOK(O)' /\ FrameInv' /\ NoUseAfterDestroy'
         /\ Coming' = Coming /\ parked' = parked
BY DEF Begin, Goto, pairVars, FrameTypeOK, PairTypeOK, FrameInv, NoUseAfterDestroy, Coming

\* The same for the loop's wait: only the thread that sleeps drops out.
LEMMA SleepStep ==
  ASSUME NEW O, FrameTypeOK(O), FrameInv, NoUseAfterDestroy, NEW t \in Threads, Sleep(t)
  PROVE  FrameTypeOK(O)' /\ FrameInv' /\ NoUseAfterDestroy'
BY NoThreadAssumption
   DEF Sleep, mjs_condvar_wait, Goto, FrameTypeOK, PairTypeOK, FrameInv, NoUseAfterDestroy

\* The structure does not depend on what a thread does in its critical section.
LEMMA CriticalStepKeeps ==
  ASSUME NEW O, FrameTypeOK(O), FrameInv, NoUseAfterDestroy, NEW t \in Threads,
         CriticalStep(t), rc' \in [Threads -> {"ok", "ETIMEDOUT", "EBUSY"}]
  PROVE  /\ FrameTypeOK(O)' /\ FrameInv' /\ NoUseAfterDestroy'
         /\ Coming \ {t} = Coming' \ {t}
<1>1. PICK l \in Holding : pc' = [pc EXCEPT ![t] = l]
  BY DEF CriticalStep, Goto
<1>2. UNCHANGED <<owner, parked, woken, op, handle>> /\ pc[t] \in Holding
  BY DEF CriticalStep, pairVars
<1>3. FrameTypeOK(O)' /\ FrameInv' /\ NoUseAfterDestroy'
  BY <1>1, <1>2 DEF FrameTypeOK, PairTypeOK, FrameInv, NoUseAfterDestroy
<1>4. \A u \in Threads \ {t} : u \in Coming <=> u \in Coming'
  BY <1>1, <1>2 DEF Coming, FrameTypeOK, PairTypeOK
<1>5. Coming \subseteq Threads /\ Coming' \subseteq Threads
  BY <1>2 DEF Coming, FrameTypeOK, PairTypeOK
<1> QED
  BY <1>3, <1>4, <1>5

\* A signal trades the signaller for a sleeper, if there is one.
LEMMA SignalStepKeeps ==
  ASSUME NEW O, FrameTypeOK(O), FrameInv, NoUseAfterDestroy, NEW t \in Threads,
         SignalStep(t)
  PROVE  /\ FrameTypeOK(O)' /\ FrameInv' /\ NoUseAfterDestroy'
         /\ parked # {} => \E w \in parked \ Coming : Coming' = (Coming \ {t}) \cup {w}
         /\ parked' \subseteq parked
<1>1. PICK w \in IF parked = {} THEN {NoThread} ELSE parked :
        parked' = parked \ {w} /\ woken' = woken \cup (parked \cap {w})
  BY DEF SignalStep, mjs_condvar_signal
<1>2. owner' = owner /\ op' = op /\ rc' = rc /\ handle' = handle
  BY DEF SignalStep, mjs_condvar_signal
<1>3. pc[t] = "signal" /\ pc' = [pc EXCEPT ![t] = "leave"]
  BY DEF SignalStep, Goto
<1>4. FrameTypeOK(O)' /\ FrameInv' /\ NoUseAfterDestroy'
  BY <1>1, <1>2, <1>3 DEF FrameTypeOK, PairTypeOK, FrameInv, NoUseAfterDestroy
<1>5. ASSUME parked # {}
      PROVE  w \in parked \ Coming /\ Coming' = (Coming \ {t}) \cup {w}
  <2>1. w \in parked /\ w \in Threads /\ pc[w] = "blocked" /\ w # t
    BY <1>1, <1>3, <1>5 DEF FrameTypeOK, PairTypeOK, FrameInv
  <2>2. woken' = woken \cup {w} /\ t \notin woken
    BY <2>1, <1>1, <1>3 DEF FrameTypeOK, PairTypeOK, FrameInv
  <2>3. w \notin Coming
    BY <2>1 DEF Coming, FrameInv
  <2>4. Coming' = (Coming \ {t}) \cup {w}
    BY <2>1, <2>2, <1>2, <1>3 DEF Coming, FrameTypeOK, PairTypeOK
  <2> QED
    BY <2>1, <2>3, <2>4
<1> QED
  BY <1>1, <1>4, <1>5

-----------------------------------------------------------------------------
\* The set counted is finite.
LEMMA Finite ==
  ASSUME FrameTypeOK(Ops)
  PROVE  IsFiniteSet(Signalling) /\ Cardinality(Signalling) \in Nat
<1>1. Signalling \subseteq Threads
  BY DEF Signalling
<1> QED
  BY <1>1, EventAssumption, FS_Subset, FS_CardinalityType

\* Initially.
LEMMA InvInitially ==
  ASSUME Init
  PROVE  Inv
<1>1. FrameTypeOK(Ops) /\ FrameInv /\ NoUseAfterDestroy
  BY FrameInitially DEF Init, Ops
<1>2. Signalling = {} /\ Cardinality(Signalling) = 0
  BY FS_EmptySet DEF Init, FrameInit, Signalling
<1>3. Counters /\ TokensAccounted
  BY <1>2, EventAssumption DEF Init, Counters, TokensAccounted
<1>4. TokenStays /\ NoLostWakeup /\ StatusInv
  BY DEF Init, FrameInit, PairInit, TokenStays, HoldsToken, NoLostWakeup, StatusInv
<1> QED
  BY <1>1, <1>3, <1>4 DEF Inv

\* A call begins.
LEMMA CallKeepsInv ==
  ASSUME Inv, NEW t \in Threads, NEW o \in Ops, Call(t, o)
  PROVE  Inv'
<1>1. /\ FrameTypeOK(Ops)' /\ FrameInv' /\ NoUseAfterDestroy'
      /\ Coming' = Coming /\ parked' = parked
  BY BeginStep DEF Inv, Call
<1>2. /\ pc[t] = "idle" /\ pc' = [pc EXCEPT ![t] = "enter"]
      /\ op' = [op EXCEPT ![t] = o] /\ rc' = rc
      /\ signaled' = signaled /\ consumed' = consumed
      /\ called' = IF o = "signal" THEN called + 1 ELSE called
      /\ o = "signal" => called < MaxSignals
  BY DEF Call, Begin, Goto
<1>3. Counters'
  BY <1>2, EventAssumption DEF Inv, Counters
<1>4. TokensAccounted'
  <2>1. CASE o = "signal"
    <3>1. t \notin Signalling /\ Signalling' = Signalling \cup {t}
      BY <2>1, <1>2 DEF Signalling, Inv, FrameTypeOK
    <3>2. Cardinality(Signalling') = Cardinality(Signalling) + 1
      BY <3>1, Finite, FS_AddElement DEF Inv
    <3> QED
      BY <3>2, <2>1, <1>2, Finite DEF TokensAccounted, Inv, Counters
  <2>2. CASE o # "signal"
    <3>1. Signalling' = Signalling
      BY <2>2, <1>2 DEF Signalling, Inv, FrameTypeOK
    <3> QED
      BY <3>1, <2>2, <1>2 DEF TokensAccounted, Inv
  <2> QED
    BY <2>1, <2>2
<1>5. NoLostWakeup'
  BY <1>1, <1>2 DEF NoLostWakeup, Inv
<1>6. TokenStays' /\ StatusInv'
  BY <1>2 DEF TokenStays, HoldsToken, StatusInv, Inv, FrameTypeOK
<1> QED
  BY <1>1, <1>3, <1>4, <1>5, <1>6 DEF Inv

\* mjs_event_signal looks at the token: stores one and goes on to wake somebody,
\* or finds one pending, for which somebody is on the way already.
LEMMA SignalKeepsInv ==
  ASSUME Inv, NEW t \in Threads, Store(t) \/ Coalesce(t)
  PROVE  Inv'
<1>1. /\ pc[t] = "body" /\ op[t] = "signal" /\ signaled' = 1
      /\ consumed' = consumed /\ called' = called /\ rc' = rc /\ op' = op
      /\ parked' = parked /\ woken' = woken
  BY DEF Store, Coalesce, pairVars, Inv, Counters
<1>2. PICK l \in {"signal", "leave"} :
        pc' = [pc EXCEPT ![t] = l] /\ (l = "leave" => signaled = 1)
  BY DEF Store, Coalesce, Goto, Inv, Counters
<1>3. FrameTypeOK(Ops)' /\ FrameInv' /\ NoUseAfterDestroy' /\ Coming \ {t} = Coming' \ {t}
  <2>1. CriticalStep(t)
    BY <1>1, <1>2 DEF Store, Coalesce, CriticalStep, Goto
  <2>2. rc' \in [Threads -> {"ok", "ETIMEDOUT", "EBUSY"}]
    BY <1>1 DEF Inv, FrameTypeOK
  <2> QED
    BY <2>1, <2>2, CriticalStepKeeps DEF Inv
<1>4. Counters'
  BY <1>1 DEF Inv, Counters
<1>5. TokensAccounted'
  <2>1. t \in Signalling /\ Signalling' = Signalling \ {t}
    BY <1>1, <1>2 DEF Signalling, Inv, FrameTypeOK
  <2>2. Cardinality(Signalling') = Cardinality(Signalling) - 1
    BY <2>1, Finite, FS_RemoveElement DEF Inv
  <2> QED
    BY <2>2, <1>1, Finite DEF TokensAccounted, Inv, Counters
<1>6. TokenStays' /\ StatusInv'
  BY <1>1, <1>2 DEF TokenStays, HoldsToken, StatusInv, Inv, FrameTypeOK
<1>7. NoLostWakeup'
  <2>1. CASE l = "signal"
    <3>1. t \in Coming'
      BY <2>1, <1>2 DEF Coming, Inv, FrameTypeOK
    <3> QED
      BY <3>1 DEF NoLostWakeup
  <2>2. CASE l = "leave"
    <3>1. t \notin Coming
      BY <1>1 DEF Coming, Inv, FrameInv
    <3> QED
      BY <3>1, <2>2, <1>1, <1>2, <1>3 DEF NoLostWakeup, Inv
  <2> QED
    BY <2>1, <2>2
<1> QED
  BY <1>3, <1>4, <1>5, <1>6, <1>7 DEF Inv

\* mjs_event_signal wakes a sleeper, which takes over from it.
LEMMA WakeKeepsInv ==
  ASSUME Inv, NEW t \in Threads, Wake(t)
  PROVE  Inv'
<1>1. SignalStep(t)
  BY DEF Wake, SignalStep
<1>2. /\ FrameTypeOK(Ops)' /\ FrameInv' /\ NoUseAfterDestroy'
      /\ parked # {} => \E w \in parked \ Coming : Coming' = (Coming \ {t}) \cup {w}
      /\ parked' \subseteq parked
  BY <1>1, SignalStepKeeps DEF Inv
<1>3. /\ pc[t] = "signal" /\ pc' = [pc EXCEPT ![t] = "leave"] /\ op' = op /\ rc' = rc
      /\ signaled' = signaled /\ called' = called /\ consumed' = consumed
  BY DEF Wake, Goto
<1>4. Signalling' = Signalling
  BY <1>3 DEF Signalling, Inv, FrameTypeOK
<1>5. Counters' /\ TokensAccounted'
  BY <1>3, <1>4 DEF Inv, Counters, TokensAccounted
<1>6. TokenStays' /\ StatusInv'
  BY <1>3 DEF TokenStays, HoldsToken, StatusInv, Inv, FrameTypeOK
<1>7. NoLostWakeup'
  BY <1>2 DEF NoLostWakeup
<1> QED
  BY <1>2, <1>5, <1>6, <1>7 DEF Inv

\* A wait consumes the token.  The thread holds the mutex, so no signal is
\* between its test and its unlock.
LEMMA TakeKeepsInv ==
  ASSUME Inv, NEW t \in Threads, Take(t)
  PROVE  Inv'
<1>1. /\ pc[t] = "body" /\ op[t] \in Blocking /\ signaled # 0
      /\ pc' = [pc EXCEPT ![t] = "leave"] /\ op' = op
      /\ owner' = owner /\ rc' = [rc EXCEPT ![t] = "ok"]
      /\ signaled' = 0 /\ consumed' = consumed + 1 /\ called' = called
  BY DEF Take, Goto, Status, pairVars
<1>2. FrameTypeOK(Ops)' /\ FrameInv' /\ NoUseAfterDestroy'
  <2>1. CriticalStep(t)
    BY <1>1 DEF Take, CriticalStep, Goto, pairVars
  <2>2. rc' \in [Threads -> {"ok", "ETIMEDOUT", "EBUSY"}]
    BY <1>1 DEF Inv, FrameTypeOK
  <2> QED
    BY <2>1, <2>2, CriticalStepKeeps DEF Inv
<1>3. Signalling' = Signalling
  BY <1>1 DEF Signalling, Inv, FrameTypeOK
<1>4. Counters' /\ TokensAccounted'
  BY <1>1, <1>3, Finite DEF Inv, Counters, TokensAccounted
<1>5. TokenStays'
  <2>1. \A u \in Threads : ~HoldsToken(u)'
    BY <1>1 DEF HoldsToken, Inv, FrameTypeOK, FrameInv
  <2> QED
    BY <2>1 DEF TokenStays
<1>6. StatusInv' /\ NoLostWakeup'
  BY <1>1 DEF StatusInv, NoLostWakeup, Inv, FrameTypeOK
<1> QED
  BY <1>2, <1>4, <1>5, <1>6 DEF Inv

\* The loop without a token: it sleeps, sees its deadline pass, or gives up.
LEMMA WaitKeepsInv ==
  ASSUME Inv, NEW t \in Threads, Wait(t)
  PROVE  Inv'
<1>1. /\ signaled = 0 /\ signaled' = signaled /\ consumed' = consumed
      /\ called' = called /\ op' = op /\ pc[t] = "body" /\ op[t] \in Blocking
  BY DEF Wait, Sleep, PastDeadline, GiveUp
<1>2. /\ FrameTypeOK(Ops)' /\ FrameInv' /\ NoUseAfterDestroy'
      /\ \E l \in {"body", "leave", "blocked"} : pc' = [pc EXCEPT ![t] = l]
  <2>1. CASE Sleep(t)
    <3>1. \E l \in {"body", "leave", "blocked"} : pc' = [pc EXCEPT ![t] = l]
      BY <2>1 DEF Sleep, Goto
    <3> QED
      BY <2>1, <3>1, SleepStep DEF Inv
  <2>2. CASE PastDeadline(t) \/ GiveUp(t)
    <3>1. rc' \in [Threads -> {"ok", "ETIMEDOUT", "EBUSY"}]
      BY <2>2 DEF PastDeadline, GiveUp, Status, Inv, FrameTypeOK
    <3>2. PICK l \in {"body", "leave"} : pc' = [pc EXCEPT ![t] = l]
      BY <2>2, <1>1 DEF PastDeadline, GiveUp, Goto, Inv, FrameTypeOK
    <3>3. UNCHANGED <<pairVars, op, handle>>
      BY <2>2 DEF PastDeadline, GiveUp
    <3>4. CriticalStep(t)
      BY <1>1, <3>2, <3>3 DEF CriticalStep, Goto
    <3> QED
      BY <3>1, <3>2, <3>4, CriticalStepKeeps DEF Inv
  <2> QED
    BY <2>1, <2>2 DEF Wait
<1>3. PICK l \in {"body", "leave", "blocked"} : pc' = [pc EXCEPT ![t] = l]
  BY <1>2
<1>4. Signalling' = Signalling
  BY <1>1, <1>3 DEF Signalling, Inv, FrameTypeOK
<1>5. Counters' /\ TokensAccounted'
  BY <1>1, <1>4 DEF Inv, Counters, TokensAccounted
<1>6. TokenStays'
  BY <1>1, <1>3 DEF TokenStays, HoldsToken, Inv, FrameTypeOK
<1>7. StatusInv'
  BY <1>1 DEF Wait, Sleep, PastDeadline, GiveUp, Goto, Status, StatusInv, Inv, FrameTypeOK
<1>8. NoLostWakeup'
  BY <1>1 DEF NoLostWakeup
<1> QED
  BY <1>2, <1>5, <1>6, <1>7, <1>8 DEF Inv

\* mjs_event_destroy.  A caller that consumed a token for every signal call
\* ever begun knows that none is before its test and none between it and the
\* unlock, since its token would be pending.
LEMMA DestroyKeepsInv ==
  ASSUME Inv, NEW t \in Threads, Destroy(t)
  PROVE  Inv'
<1>1. /\ consumed = called
      /\ \A u \in Threads : pc[u] \in {"idle", "return"} \/ op[u] = "signal"
      /\ pc[t] = "idle" /\ pc' = [pc EXCEPT ![t] = "destroy"] /\ handle' = "cv_gone"
      /\ owner' = owner /\ parked' = parked /\ woken' = woken
      /\ op' = op /\ rc' = rc /\ signaled' = signaled /\ called' = called
      /\ consumed' = consumed
  BY DEF Destroy, DestroyCondvar, Goto, pairVars
<1>2. signaled = 0 /\ Cardinality(Signalling) = 0
  BY <1>1, Finite DEF Inv, Counters, TokensAccounted
<1>3. Signalling = {}
  BY <1>2, Finite, FS_EmptySet DEF Inv
<1>4. \A u \in Threads : pc[u] \notin InCall
  <2> SUFFICES ASSUME NEW u \in Threads, pc[u] \in InCall PROVE FALSE
    OBVIOUS
  <2>1. op[u] = "signal"
    BY <1>1
  <2>2. pc[u] \notin {"enter", "body"}
    BY <1>3, <2>1 DEF Signalling
  <2>3. pc[u] # "blocked"
    BY <2>1 DEF Inv, FrameInv
  <2>4. HoldsToken(u)
    BY <2>1, <2>2, <2>3 DEF HoldsToken
  <2> QED
    BY <2>4, <1>2 DEF Inv, TokenStays
<1>5. FrameTypeOK(Ops)' /\ FrameInv' /\ NoUseAfterDestroy'
  BY <1>1, <1>4 DEF Inv, FrameTypeOK, PairTypeOK, FrameInv, NoUseAfterDestroy
<1>6. Signalling' = Signalling
  BY <1>1 DEF Signalling, Inv, FrameTypeOK
<1>7. Counters' /\ TokensAccounted' /\ NoLostWakeup'
  BY <1>1, <1>2, <1>6 DEF Inv, Counters, TokensAccounted, NoLostWakeup
<1>8. TokenStays' /\ StatusInv'
  BY <1>1 DEF TokenStays, HoldsToken, StatusInv, Inv, FrameTypeOK
<1> QED
  BY <1>5, <1>7, <1>8 DEF Inv

\* The steps that do not look at e->signaled.
LEMMA FrameKeepsInv ==
  ASSUME Inv, NEW t \in Threads, Frame(t)
  PROVE  Inv'
<1>1. /\ DatumFree(t) /\ signaled' = signaled
      /\ called' = called /\ consumed' = consumed
  BY DEF Frame, DatumFree
<1>2. /\ FrameTypeOK(Ops)' /\ FrameInv' /\ NoUseAfterDestroy'
      /\ Coming \subseteq Coming' /\ parked' \subseteq parked
  <2>1. Blocking \subseteq Ops
    BY DEF Ops
  <2> QED
    BY <1>1, <2>1, DatumFreeStep DEF Inv
<1>3. /\ Signalling' = Signalling /\ StatusInv'
      /\ \A u \in Threads : HoldsToken(u)' => HoldsToken(u) /\ op'[u] = op[u]
  <2> USE DEF Goto, Signalling, HoldsToken, StatusInv, Inv, FrameTypeOK
  <2>1. CASE Enter(t)
    BY <2>1 DEF Enter
  <2>2. CASE Resume(t)
    BY <2>2 DEF Resume, condvar_return, FrameInv
  <2>3. CASE Leave(t)
    BY <2>3 DEF Leave
  <2>4. CASE Return(t)
    BY <2>4 DEF Return, Status
  <2>5. CASE DestroyMutex(t)
    BY <2>5 DEF DestroyMutex
  <2>6. CASE SpuriousWake(t)
    BY <2>6 DEF SpuriousWake
  <2>7. CASE DeadlineExpires(t)
    BY <2>7 DEF DeadlineExpires, condvar_unpark, Status, FrameInv
  <2> QED
    BY <1>1, <2>1, <2>2, <2>3, <2>4, <2>5, <2>6, <2>7 DEF DatumFree, FrameRuns
<1>4. Counters' /\ TokensAccounted'
  BY <1>1, <1>3 DEF Inv, Counters, TokensAccounted
<1>5. TokenStays'
  BY <1>1, <1>3 DEF Inv, TokenStays
<1>6. NoLostWakeup'
  BY <1>1, <1>2 DEF Inv, NoLostWakeup
<1> QED
  BY <1>2, <1>3, <1>4, <1>5, <1>6 DEF Inv

-----------------------------------------------------------------------------
\* Every step of every thread preserves the invariant.
LEMMA NextKeepsInv ==
  ASSUME Inv, [Next]_vars
  PROVE  Inv'
<1>1. ASSUME NEW t \in Threads, NEW o \in Ops, Call(t, o) PROVE Inv'
  BY <1>1, CallKeepsInv
<1>2. ASSUME NEW t \in Threads, Store(t) \/ Coalesce(t) PROVE Inv'
  BY <1>2, SignalKeepsInv
<1>3. ASSUME NEW t \in Threads, Wake(t) PROVE Inv'
  BY <1>3, WakeKeepsInv
<1>4. ASSUME NEW t \in Threads, Take(t) PROVE Inv'
  BY <1>4, TakeKeepsInv
<1>5. ASSUME NEW t \in Threads, Wait(t) PROVE Inv'
  BY <1>5, WaitKeepsInv
<1>6. ASSUME NEW t \in Threads, Destroy(t) PROVE Inv'
  BY <1>6, DestroyKeepsInv
<1>7. ASSUME NEW t \in Threads, Frame(t) PROVE Inv'
  BY <1>7, FrameKeepsInv
<1>8. CASE UNCHANGED vars
  BY <1>8 DEF vars, frameVars, pairVars, Inv, FrameTypeOK, PairTypeOK, FrameInv,
     Counters, TokensAccounted, Signalling, TokenStays, HoldsToken, StatusInv,
     NoUseAfterDestroy, NoLostWakeup, Coming
<1> QED
  BY <1>1, <1>2, <1>3, <1>4, <1>5, <1>6, <1>7, <1>8 DEF Next

\* The inductive invariant holds in every reachable state of mjs_event.
THEOREM EventInvariant == Spec => []Inv
<1>1. Init => Inv
  BY InvInitially
<1>2. Inv /\ [Next]_vars => Inv'
  BY NextKeepsInv
<1> QED
  BY <1>1, <1>2, PTL DEF Spec

\* Every variable of mjs_event keeps its type; e->signaled is 0 or 1 for ever.
THEOREM EventTypeCorrect == Spec => []TypeOK
<1>1. Inv => TypeOK
  <2> SUFFICES ASSUME Inv PROVE TypeOK
    OBVIOUS
  <2>1. consumed \in 0..MaxSignals
    BY Finite, EventAssumption DEF Inv, Counters, TokensAccounted
  <2> QED
    BY <2>1 DEF TypeOK, Inv, Counters
<1> QED
  BY <1>1, EventInvariant, PTL

\* A pending token never lies there with only sleepers around, although a
\* mjs_event_signal that coalesces wakes nobody.
THEOREM EventNoLostWakeup == Spec => []NoLostWakeup
<1>1. Inv => NoLostWakeup
  BY DEF Inv
<1> QED
  BY <1>1, EventInvariant, PTL

\* mjs_event_destroy by a thread that consumed a token for every signal touches
\* no mutex or condvar that a mjs_event_signal still uses.
THEOREM EventNoUseAfterDestroy == Spec => []NoUseAfterDestroy
<1>1. Inv => NoUseAfterDestroy
  BY DEF Inv
<1> QED
  BY <1>1, EventInvariant, PTL

-----------------------------------------------------------------------------
\* The implementation of AutoResetEvent.

AbsCall == [t \in Threads |-> CallOf(t)]

USE DEF Ops

\* A step of t changes the abstract call of t alone.
LEMMA OneCallMoves ==
  ASSUME FrameTypeOK(Ops), NEW t \in Threads, NEW l,
         pc' = [pc EXCEPT ![t] = l],
         \A u \in Threads \ {t} : op'[u] = op[u] /\ rc'[u] = rc[u]
  PROVE  AbsCall' = [AbsCall EXCEPT ![t] = CallOf(t)']
<1>1. \A u \in Threads \ {t} : CallOf(u)' = CallOf(u)
  BY DEF CallOf, FrameTypeOK
<1> QED
  BY <1>1 DEF AbsCall

\* A call that begins, looks at the token, or returns, is the abstract call's
\* step of that kind.
LEMMA VisibleSteps ==
  ASSUME Inv, NEW t \in Threads
  PROVE  /\ \A o \in Ops : Call(t, o) => Abstract!Invoke(t, o)
         /\ Store(t) \/ Coalesce(t) => Abstract!Signal(t)
         /\ Take(t) => Abstract!Consume(t)
         /\ Wait(t) /\ GiveUp(t) => Abstract!TimeOut(t)
         /\ Frame(t) /\ Return(t) => Abstract!Return(t)
<1>a. AbsCall[t] = CallOf(t)
  BY DEF AbsCall
<1>b. FrameTypeOK(Ops) /\ signaled \in {0, 1}
  BY DEF Inv, Counters
<1>1. ASSUME NEW o \in Ops, Call(t, o) PROVE Abstract!Invoke(t, o)
  <2>1. CallOf(t) = "none" /\ CallOf(t)' = o
    BY <1>1, <1>b DEF Call, Begin, Goto, CallOf, FrameTypeOK
  <2>2. AbsCall' = [AbsCall EXCEPT ![t] = o]
    BY <1>1, <1>b, <2>1, OneCallMoves DEF Call, Begin, Goto, FrameTypeOK
  <2>3. signaled' = signaled
    BY <1>1 DEF Call
  <2> QED
    BY <1>a, <2>1, <2>2, <2>3 DEF Abstract!Invoke, AbsCall
<1>2. ASSUME Store(t) \/ Coalesce(t) PROVE Abstract!Signal(t)
  <2>0. /\ pc[t] = "body" /\ op[t] = "signal" /\ op' = op /\ rc' = rc /\ signaled' = 1
        /\ rc[t] = "ok"
    BY <1>2, <1>b DEF Store, Coalesce, Inv, StatusInv
  <2>1. PICK l \in {"signal", "leave"} : pc' = [pc EXCEPT ![t] = l]
    BY <1>2 DEF Store, Coalesce, Goto
  <2>2. CallOf(t) = "signal" /\ CallOf(t)' = "ok"
    BY <2>0, <2>1, <1>b DEF CallOf, FrameTypeOK
  <2>3. AbsCall' = [AbsCall EXCEPT ![t] = "ok"]
    BY <1>b, <2>0, <2>1, <2>2, OneCallMoves
  <2> QED
    BY <1>a, <2>0, <2>2, <2>3 DEF Abstract!Signal, AbsCall
<1>3. ASSUME Take(t) PROVE Abstract!Consume(t)
  <2>1. CallOf(t) \in {"wait", "wait_until"} /\ CallOf(t)' = "ok"
    BY <1>3, <1>b DEF Take, Goto, Status, CallOf, FrameTypeOK
  <2>2. AbsCall' = [AbsCall EXCEPT ![t] = "ok"]
    BY <1>3, <1>b, <2>1, OneCallMoves DEF Take, Goto, Status, FrameTypeOK
  <2>3. signaled = 1 /\ signaled' = 0
    BY <1>3, <1>b DEF Take
  <2> QED
    BY <1>a, <2>1, <2>2, <2>3 DEF Abstract!Consume, AbsCall
<1>4. ASSUME Wait(t), GiveUp(t) PROVE Abstract!TimeOut(t)
  <2>1. CallOf(t) = "wait_until" /\ CallOf(t)' = "timed_out"
    BY <1>4, <1>b DEF GiveUp, Goto, CallOf, FrameTypeOK
  <2>2. AbsCall' = [AbsCall EXCEPT ![t] = "timed_out"]
    BY <1>4, <1>b, <2>1, OneCallMoves DEF GiveUp, Goto
  <2>3. signaled = 0 /\ signaled' = signaled
    BY <1>4 DEF Wait
  <2> QED
    BY <1>a, <2>1, <2>2, <2>3 DEF Abstract!TimeOut, AbsCall
<1>5. ASSUME Frame(t), Return(t) PROVE Abstract!Return(t)
  <2>1. CallOf(t) \in {"ok", "timed_out"} /\ CallOf(t)' = "none"
    BY <1>5, <1>b DEF Return, Goto, CallOf, FrameTypeOK
  <2>2. AbsCall' = [AbsCall EXCEPT ![t] = "none"]
    BY <1>5, <1>b, <2>1, OneCallMoves DEF Return, Goto, Status, FrameTypeOK
  <2>3. signaled' = signaled
    BY <1>5 DEF Frame
  <2> QED
    BY <1>a, <2>1, <2>2, <2>3 DEF Abstract!Return, AbsCall
<1> QED
  BY <1>1, <1>2, <1>3, <1>4, <1>5

\* Every other step of the frame is invisible in the abstract event.
LEMMA HiddenSteps ==
  ASSUME Inv, NEW t \in Threads,
         Wake(t) \/ Destroy(t) \/ (Wait(t) /\ ~GiveUp(t)) \/ (Frame(t) /\ ~Return(t))
  PROVE  AbsCall' = AbsCall /\ signaled' = signaled
<1>a. FrameTypeOK(Ops)
  BY DEF Inv
<1>b. signaled' = signaled
  BY DEF Wake, Destroy, Wait, Frame
<1>c. CallOf(t)' = CallOf(t) => [AbsCall EXCEPT ![t] = CallOf(t)'] = AbsCall
  BY DEF AbsCall
<1>1. CASE Wake(t) \/ Destroy(t)
  <2>1. CallOf(t)' = CallOf(t)
    BY <1>1, <1>a DEF Wake, Destroy, DestroyCondvar, Goto, CallOf, FrameTypeOK
  <2>2. PICK l \in {"leave", "destroy"} : pc' = [pc EXCEPT ![t] = l]
    BY <1>1 DEF Wake, Destroy, DestroyCondvar, Goto
  <2>3. \A u \in Threads \ {t} : op'[u] = op[u] /\ rc'[u] = rc[u]
    BY <1>1 DEF Wake, Destroy, DestroyCondvar
  <2> QED
    BY <2>1, <2>2, <2>3, <1>a, <1>b, <1>c, OneCallMoves
<1>2. CASE Sleep(t)
  <2>1. CallOf(t)' = CallOf(t)
    BY <1>2, <1>a DEF Sleep, Goto, CallOf, FrameTypeOK
  <2> QED
    BY <1>2, <2>1, <1>a, <1>b, <1>c, OneCallMoves DEF Sleep, Goto
<1>3. CASE Enter(t) \/ Leave(t) \/ DestroyMutex(t)
  <2>1. CallOf(t)' = CallOf(t)
    BY <1>3, <1>a DEF Enter, Leave, DestroyMutex, Goto, CallOf, FrameTypeOK
  <2>2. PICK l \in {"body", "return", "idle"} : pc' = [pc EXCEPT ![t] = l]
    BY <1>3 DEF Enter, Leave, DestroyMutex, Goto
  <2>3. \A u \in Threads \ {t} : op'[u] = op[u] /\ rc'[u] = rc[u]
    BY <1>3 DEF Enter, Leave, DestroyMutex
  <2> QED
    BY <2>1, <2>2, <2>3, <1>a, <1>b, <1>c, OneCallMoves
<1>4. CASE Resume(t)
  <2>1. pc[t] = "blocked"
    BY <1>4 DEF Resume, condvar_return, Inv, FrameInv
  <2>2. CallOf(t)' = CallOf(t)
    BY <1>4, <2>1, <1>a DEF Resume, Goto, CallOf, FrameTypeOK
  <2> QED
    BY <1>4, <2>2, <1>a, <1>b, <1>c, OneCallMoves DEF Resume, Goto
<1>5. CASE PastDeadline(t) \/ SpuriousWake(t) \/ DeadlineExpires(t)
  <2>1. pc[t] \in {"body", "blocked"} /\ pc' = pc /\ op' = op
    BY <1>5 DEF PastDeadline, SpuriousWake, DeadlineExpires, condvar_unpark, Inv, FrameInv
  <2>2. \A u \in Threads \ {t} : rc'[u] = rc[u]
    BY <1>5, <1>a DEF PastDeadline, SpuriousWake, DeadlineExpires, Status, FrameTypeOK
  <2>3. \A u \in Threads : CallOf(u)' = CallOf(u)
    BY <2>1, <2>2 DEF CallOf
  <2> QED
    BY <2>3, <1>b DEF AbsCall
<1> QED
  BY <1>1, <1>2, <1>3, <1>4, <1>5 DEF Wait, Frame, FrameRuns

\* Under the mapping, a step of mjs_event is a step of AutoResetEvent or none.
LEMMA StepSimulation ==
  ASSUME Inv, [Next]_vars
  PROVE  [Abstract!Next]_(Abstract!eventVars)
<1>1. CASE UNCHANGED vars
  BY <1>1 DEF vars, frameVars, Abstract!eventVars, CallOf
<1>2. CASE Next
  <2>1. PICK t \in Threads :
          \/ \E o \in Ops : Call(t, o)
          \/ Store(t) \/ Coalesce(t) \/ Wake(t)
          \/ Take(t) \/ Wait(t)
          \/ Destroy(t)
          \/ Frame(t)
    BY <1>2 DEF Next
  <2>2. CASE \E o \in Ops : Call(t, o)
    BY <2>2, VisibleSteps DEF Abstract!Next
  <2>3. CASE Store(t) \/ Coalesce(t) \/ Take(t) \/ (Wait(t) /\ GiveUp(t))
             \/ (Frame(t) /\ Return(t))
    BY <2>3, VisibleSteps DEF Abstract!Next
  <2>4. CASE Wake(t) \/ Destroy(t) \/ (Wait(t) /\ ~GiveUp(t)) \/ (Frame(t) /\ ~Return(t))
    BY <2>4, HiddenSteps DEF Abstract!eventVars, AbsCall
  <2> QED
    BY <2>1, <2>2, <2>3, <2>4
<1> QED
  BY <1>1, <1>2

\* The mjs_event_* calls are linearizable to an auto-reset event whatever the
\* threads do: the property the TLC run checks for three threads.
THEOREM EventImplementsAutoReset == Spec => ImplementsAutoReset
<1>1. Init => Abstract!Init
  BY DEF Init, FrameInit, Abstract!Init, CallOf
<1>2. Inv /\ [Next]_vars => [Abstract!Next]_(Abstract!eventVars)
  BY StepSimulation
<1> QED
  BY <1>1, <1>2, EventInvariant, PTL DEF Spec, ImplementsAutoReset, Abstract!Spec
=============================================================================
