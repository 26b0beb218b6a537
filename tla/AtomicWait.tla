----------------------------- MODULE AtomicWait -----------------------------
(***************************************************************************)
(* The waiter table of native/posix/mjs_atomic_wait.c (the backend without *)
(* futexes).  The table's slots share nothing, so the module is one slot:  *)
(* its mutex and condvar, its list of waiter records, and the addresses    *)
(* that hash to it.  A record lives on its thread's stack, so the list is  *)
(* a sequence of threads; the record's address and woken flag are key[t]   *)
(* and t \in marked.                                                       *)
(***************************************************************************)
EXTENDS Naturals, FiniteSets, SequencesExt, WaitFrame

CONSTANTS
  Sleepers, \* the threads that wait, and
  Wakers,   \* the threads that wake: a thread may do both
  Addrs,    \* addresses that hash to this slot
  Values,   \* values of a u32 the clients use
  Zero      \* the value every word holds at first, and every wait expects

ASSUME TableAssumption ==
  /\ IsFiniteSet(Threads) /\ Threads = Sleepers \cup Wakers
  /\ Addrs # {}
  /\ Zero \in Values

VARIABLES
  word,     \* the clients' words
  key,      \* the address argument of each thread's call
  list,     \* the slot's list, head first
  marked,   \* records whose woken flag is set
  n         \* the C local of a wake: records it marked

dataVars == <<word, key, list, marked, n>>
vars == <<frameVars, dataVars>>

Ops == Blocking \cup {"wake_one", "wake_all"}

NoAddr == CHOOSE a \in Addrs : TRUE

Init ==
  /\ FrameInit
  /\ word = [a \in Addrs |-> Zero]
  /\ key = [t \in Threads |-> NoAddr]
  /\ list = <<>>
  /\ marked = {}
  /\ n = [t \in Threads |-> 0]

\* A client that wakes others stores to a word, with no lock, between calls.
StoreWord(t, a, v) ==
  /\ pc[t] = "idle"
  /\ word' = [word EXCEPT ![a] = v]
  /\ UNCHANGED <<frameVars, key, list, marked, n>>

Call(t, o, a) ==
  /\ Begin(t, o)
  /\ key' = [key EXCEPT ![t] = a]
  /\ UNCHANGED <<word, list, marked, n>>

-----------------------------------------------------------------------------
\* What a walk of the list s leaves when it unlinks every record outside S: the
\* j-th record left is the one with j records of S up to it.
Only(s, S) ==
  LET kept == {i \in DOMAIN s : s[i] \in S}
  IN  [j \in 1..Cardinality(kept) |->
         s[CHOOSE i \in kept : Cardinality(kept \cap 1..i) = j]]

\* mjs_atomic_wait_fallback, mutex held.  A record left linked by a return of
\* the condvar without a mark is unlinked before the loop's next test.
Unlinked(t) == Only(list, Threads \ {t})

\* Mutant: the timeout path forgets to unlink the record.
GivenUpLinked(t) ==
  /\ t \notin marked
  /\ GiveUp(t)
  /\ UNCHANGED dataVars

\* Not marked and rc = -ETIMEDOUT: unlink, return rc.
GivenUp(t) ==
  /\ t \notin marked
  /\ GiveUp(t)
  /\ list' = Unlinked(t)
  /\ UNCHANGED <<word, key, marked, n>>

\* The word does not hold expected: return 0.
Differs(t) ==
  /\ pc[t] = "body" /\ op[t] \in Blocking /\ rc[t] = "ok"
  /\ t \notin marked
  /\ word[key[t]] # Zero
  /\ list' = Unlinked(t)
  /\ Goto(t, "leave")
  /\ UNCHANGED <<pairVars, op, rc, handle, word, key, marked, n>>

\* Mutant: a return of the condvar without a mark does not unlink the record.
LinkAgain(t) ==
  /\ t \notin marked
  /\ word[key[t]] = Zero
  /\ \/ Sleep(t) /\ list' = Append(list, t)
     \/ PastDeadline(t) /\ rc[t] = "ok" /\ list' = Unlinked(t)
  /\ UNCHANGED <<word, key, marked, n>>

\* The word holds expected: link at the tail and sleep.  A deadline that has
\* already passed comes back at once, with the mutex held throughout.
Link(t) ==
  /\ t \notin marked
  /\ word[key[t]] = Zero
  /\ \/ Sleep(t) /\ list' = Append(Unlinked(t), t)
     \/ PastDeadline(t) /\ rc[t] = "ok" /\ list' = Unlinked(t)
  /\ UNCHANGED <<word, key, marked, n>>

\* Mutant: the status of the condvar wins over the mark.
HandoffLate(t) ==
  /\ pc[t] = "body" /\ t \in marked
  /\ marked' = marked \ {t}
  /\ Goto(t, "leave")
  /\ UNCHANGED <<pairVars, op, rc, handle, word, key, list, n>>

\* me.woken: return 0, whatever rc is.
Handoff(t) ==
  /\ pc[t] = "body" /\ t \in marked
  /\ marked' = marked \ {t}
  /\ Status(t, "ok")
  /\ Goto(t, "leave")
  /\ UNCHANGED <<pairVars, op, handle, word, key, list, n>>

-----------------------------------------------------------------------------
\* mjs_atomic_wake_fallback, mutex held: the records of this address, from the
\* head, all of them or the first.
Matching(t) == Only(list, {w \in Threads : key[w] = key[t]})

First(s) == {s[i] : i \in DOMAIN s \cap {1}}

\* Mutant: the scan takes whatever record is in the slot.
ChosenBySlot(t) == IF op[t] = "wake_all" THEN ToSet(list) ELSE First(list)

Chosen(t) == IF op[t] = "wake_all" THEN ToSet(Matching(t)) ELSE First(Matching(t))

Mark(t) ==
  /\ pc[t] = "body" /\ op[t] \in {"wake_one", "wake_all"}
  /\ list' = Only(list, Threads \ Chosen(t))
  /\ marked' = marked \cup Chosen(t)
  /\ n' = [n EXCEPT ![t] = Cardinality(Chosen(t))]
  /\ Goto(t, IF Chosen(t) = {} THEN "leave" ELSE "signal")
  /\ UNCHANGED <<pairVars, op, rc, handle, word, key>>

\* Mutant: signals the slot's condvar instead of broadcasting.
BroadcastOne(t) ==
  /\ pc[t] = "signal"
  /\ mjs_condvar_signal
  /\ Goto(t, "leave")
  /\ UNCHANGED <<op, rc, handle, dataVars>>

\* n > 0: wake the whole slot.
Broadcast(t) ==
  /\ pc[t] = "signal"
  /\ mjs_condvar_broadcast
  /\ Goto(t, "leave")
  /\ UNCHANGED <<op, rc, handle, dataVars>>

-----------------------------------------------------------------------------
\* The steps that look at neither the words nor the list.
Frame(t) ==
  /\ Enter(t) \/ Resume(t) \/ Leave(t) \/ SpuriousWake(t) \/ DeadlineExpires(t)
  /\ UNCHANGED dataVars

Finish(t) ==
  /\ Return(t)
  /\ key' = [key EXCEPT ![t] = NoAddr]
  /\ n' = [n EXCEPT ![t] = 0]
  /\ UNCHANGED <<word, list, marked>>

Next ==
  \E t \in Threads :
    \/ t \in Wakers /\ \E a \in Addrs, v \in Values : StoreWord(t, a, v)
    \/ t \in Sleepers /\ \E o \in Blocking, a \in Addrs : Call(t, o, a)
    \/ t \in Wakers /\ \E o \in Ops \ Blocking, a \in Addrs : Call(t, o, a)
    \/ GivenUp(t) \/ Differs(t) \/ Link(t) \/ Handoff(t)
    \/ Mark(t) \/ Broadcast(t)
    \/ Frame(t) \/ Finish(t)

Spec == Init /\ [][Next]_vars

\* A thread inside a call keeps running, and the slot's mutex does not pass a
\* contender over for ever.  Stores, calls, deadlines and spurious wakes are
\* not relied on.
Fairness ==
  \A t \in Threads :
    /\ WF_vars(\/ GivenUp(t) \/ Differs(t) \/ Link(t) \/ Handoff(t)
               \/ Mark(t) \/ Broadcast(t) \/ Finish(t)
               \/ Frame(t) /\ Leave(t))
    /\ SF_vars(Frame(t) /\ (Enter(t) \/ Resume(t)))

FairSpec == Spec /\ Fairness

-----------------------------------------------------------------------------
\* The types; in particular the list does not outgrow the threads that wait.
TypeOK ==
  /\ FrameTypeOK(Ops)
  /\ word \in [Addrs -> Values]
  /\ key \in [Threads -> Addrs]
  /\ list \in Seq(Threads) /\ Len(list) <= Cardinality(Sleepers)
  /\ marked \in SUBSET Threads
  /\ n \in [Threads -> Nat]

\* Every record on the list is the unmarked record of a thread still inside its
\* wait (a stack frame never dies linked), once; and every sleeper is either on
\* the list, where a wake finds it, or marked with its broadcast on the way.
RecordsAreLive ==
  /\ IsInjective(list)
  /\ \A t \in ToSet(list) :
       op[t] \in Blocking /\ pc[t] \in {"body", "blocked"} /\ t \notin marked
  /\ \A t \in parked :
       t \notin ToSet(list) => t \in marked /\ \E u \in Threads : pc[u] = "signal"

\* A thread a wake has counted does return: the broadcast reaches it and it is
\* not left asleep among the waiters of other addresses.
MarkedReturns == \A t \in Threads : (t \in marked) ~> (pc[t] = "return")

-----------------------------------------------------------------------------
\* Refinement: waits join and leave the waiters when they link and unlink, a
\* wake takes effect when it marks.
CallOf(t) ==
  IF pc[t] = "idle" THEN "none"
  ELSE IF t \in marked THEN "ok"
  ELSE IF op[t] \in Blocking
    THEN IF pc[t] \in {"enter", "body", "blocked"}
           THEN IF t \in ToSet(list) \/ rc[t] # "ok" THEN "waiting" ELSE "wait"
           ELSE IF rc[t] = "ok" THEN "ok" ELSE "timed_out"
    ELSE IF pc[t] \in {"enter", "body"} THEN op[t] ELSE "woke"

Abstract == INSTANCE Futex WITH
  call <- [t \in Threads |-> CallOf(t)],
  count <- n

\* The table implements Futex: no wake is lost between the comparison and the
\* sleep, wake counts are exact, colliding addresses do not steal each other's
\* wakes, and a wake beats a timeout.
ImplementsFutex == Abstract!Spec
=============================================================================
