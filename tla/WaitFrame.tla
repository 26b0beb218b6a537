------------------------------ MODULE WaitFrame ------------------------------
(***************************************************************************)
(* The calls of mjs_sem.c and mjs_event.c have one shape: lock the         *)
(* handle's mutex, run a body, sleep on its condvar and test again as long *)
(* as a predicate is false, unlock, return a status.  This module is that  *)
(* shape: where each thread stands in its call and the steps that do not   *)
(* look at the guarded datum.  NativeSem and NativeEvent add the datum and *)
(* the steps that read and write it.                                       *)
(*                                                                         *)
(*   "idle"    in no call            "enter"   before mjs_mutex_lock       *)
(*   "body"    mutex held: the loop's test, or the update of post / signal *)
(*   "signal"  before the condvar is signalled                             *)
(*   "blocked" inside mjs_condvar_wait or mjs_condvar_wait_until           *)
(*   "leave"   before the unlock     "return"  after it, locals only       *)
(*   "destroy" between the two calls a destroy is made of                  *)
(***************************************************************************)
EXTENDS MutexCondVar

VARIABLES
  pc,      \* where each thread stands
  op,      \* the function it is in
  rc,      \* the C local of that name: the status the call will return
  handle   \* the caller's handle: "live", "cv_gone" (half destroyed), "freed"

frameVars == <<pairVars, pc, op, rc, handle>>

Timed == {"wait_until"}
Blocking == {"wait"} \cup Timed

InCall == {"enter", "body", "signal", "blocked", "leave"}
Holding == {"body", "signal", "leave"}

Goto(t, l) == pc' = [pc EXCEPT ![t] = l]
Status(t, r) == rc' = [rc EXCEPT ![t] = r]

\* A successful init: nobody is in a call.  An idle thread's op and rc are
\* locals of no frame and keep their initial values.
FrameInit ==
  /\ PairInit
  /\ pc = [t \in Threads |-> "idle"]
  /\ op = [t \in Threads |-> "wait"]
  /\ rc = [t \in Threads |-> "ok"]
  /\ handle = "live"

\* A thread calls o.  Callers stop once the handle is being destroyed.
Begin(t, o) ==
  /\ pc[t] = "idle"
  /\ handle = "live"
  /\ op' = [op EXCEPT ![t] = o]
  /\ Goto(t, "enter")
  /\ UNCHANGED <<pairVars, rc, handle>>

Enter(t) ==
  /\ pc[t] = "enter"
  /\ mjs_mutex_lock(t)
  /\ Goto(t, "body")
  /\ UNCHANGED <<op, rc, handle>>

\* The predicate is false: sleep.  In wait_until only if rc has not said
\* -ETIMEDOUT yet.
Sleep(t) ==
  /\ pc[t] = "body"
  /\ op[t] \in Blocking
  /\ rc[t] = "ok"
  /\ mjs_condvar_wait(t)
  /\ Goto(t, "blocked")
  /\ UNCHANGED <<op, rc, handle>>

\* mjs_condvar_wait_until on macOS: a past deadline is reported at once, and
\* the mutex is not released in between.
PastDeadline(t) ==
  /\ pc[t] = "body"
  /\ op[t] \in Timed
  /\ Status(t, "ETIMEDOUT")
  /\ UNCHANGED <<pairVars, pc, op, handle>>

\* The predicate is still false after -ETIMEDOUT: give up.
GiveUp(t) ==
  /\ pc[t] = "body"
  /\ op[t] \in Timed
  /\ rc[t] = "ETIMEDOUT"
  /\ Goto(t, "leave")
  /\ UNCHANGED <<pairVars, op, rc, handle>>

SpuriousWake(t) ==
  /\ condvar_unpark(t)
  /\ UNCHANGED <<pc, op, rc, handle>>

DeadlineExpires(t) ==
  /\ op[t] \in Timed
  /\ condvar_unpark(t)
  /\ Status(t, "ETIMEDOUT")
  /\ UNCHANGED <<pc, op, handle>>

\* mjs_condvar_wait* returns with the mutex held; the loop tests again.
Resume(t) ==
  /\ condvar_return(t)
  /\ Goto(t, "body")
  /\ UNCHANGED <<op, rc, handle>>

Leave(t) ==
  /\ pc[t] = "leave"
  /\ mjs_mutex_unlock(t)
  /\ Goto(t, "return")
  /\ UNCHANGED <<op, rc, handle>>

Return(t) ==
  /\ pc[t] = "return"
  /\ op' = [op EXCEPT ![t] = "wait"]
  /\ Status(t, "ok")
  /\ Goto(t, "idle")
  /\ UNCHANGED <<pairVars, handle>>

\* destroy, first half: mjs_condvar_destroy NULLs the inner handle.
DestroyCondvar(t) ==
  /\ pc[t] = "idle"
  /\ handle = "live"
  /\ handle' = "cv_gone"
  /\ Goto(t, "destroy")
  /\ UNCHANGED <<pairVars, op, rc>>

\* Second half: pthread_mutex_destroy refuses a held mutex, and the handle
\* then stays half alive.
DestroyMutex(t) ==
  /\ pc[t] = "destroy"
  /\ handle' = IF owner = NoThread THEN "freed" ELSE handle
  /\ Goto(t, "idle")
  /\ UNCHANGED <<pairVars, op, rc>>

\* The steps of the frame alone that a thread takes by itself once it can.
FrameRuns(t) == Leave(t) \/ Return(t) \/ DestroyMutex(t)

\* The frame's part of every type invariant.
FrameTypeOK(Ops) ==
  /\ PairTypeOK
  /\ pc \in [Threads -> InCall \cup {"idle", "return", "destroy"}]
  /\ op \in [Threads -> Ops]
  /\ rc \in [Threads -> {"ok", "ETIMEDOUT", "EBUSY"}]
  /\ handle \in {"live", "cv_gone", "freed"}

\* How the frame, the mutex and the condvar hang together: the thread that
\* holds the mutex is the one whose code does, and those inside the condvar
\* wait are the waiters whose code is there.
FrameInv ==
  /\ \A t \in Threads : pc[t] \in Holding <=> owner = t
  /\ \A t \in Threads : pc[t] = "blocked" <=> t \in parked \cup woken
  /\ parked \cap woken = {}
  /\ \A t \in parked \cup woken : op[t] \in Blocking
  /\ \A t \in Threads : pc[t] = "destroy" => handle # "live"

\* A step of the frame that reads no datum.
DatumFree(t) ==
  Enter(t) \/ Resume(t) \/ FrameRuns(t) \/ SpuriousWake(t) \/ DeadlineExpires(t)

\* A step inside the critical section that leaves the mutex and the condvar
\* alone: an update of the datum, a test of it, a return code set.
CriticalStep(t) ==
  /\ pc[t] \in Holding
  /\ \E l \in Holding : Goto(t, l)
  /\ UNCHANGED <<pairVars, op, handle>>

\* The step that wakes a waiter and stays inside the critical section.
SignalStep(t) ==
  /\ pc[t] = "signal"
  /\ mjs_condvar_signal
  /\ Goto(t, "leave")
  /\ UNCHANGED <<op, rc, handle>>

\* The threads that will test the predicate, or wake one that does, before
\* they next sleep.  A post or a signal call still in its body does neither: it
\* is about to change the predicate.
Coming ==
  woken \cup {t \in Threads : \/ pc[t] = "signal"
                              \/ pc[t] = "body" /\ op[t] \in Blocking \cup {"try_wait"}}

\* Once destroy has touched the handle no thread stands at a point of the code
\* that still reads it: not even the one whose post or signal released the
\* destroying thread (mjs_sem_destroy, mjs_event_destroy).
NoUseAfterDestroy ==
  handle # "live" => \A t \in Threads : pc[t] \notin InCall

Waiting == {t \in Threads : op[t] \in Blocking /\ pc[t] \in {"enter", "body", "blocked"}}
=============================================================================
