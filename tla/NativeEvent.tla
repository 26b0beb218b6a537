----------------------------- MODULE NativeEvent -----------------------------
(***************************************************************************)
(* mjs_event (native/posix/mjs_event.c): an auto-reset event composed of   *)
(* one mjs_mutex, one mjs_condvar and an int that is 0 or 1.               *)
(***************************************************************************)
EXTENDS Naturals, FiniteSets, WaitFrame

CONSTANT MaxSignals  \* bound: how many times the threads call mjs_event_signal

ASSUME EventAssumption == IsFiniteSet(Threads) /\ MaxSignals \in Nat

VARIABLES
  signaled,  \* e->signaled
  called,    \* history: calls of mjs_event_signal begun
  consumed   \* history: waits that took a token

vars == <<frameVars, signaled, called, consumed>>

Ops == Blocking \cup {"signal"}

\* A successful mjs_event_init.
Init ==
  /\ FrameInit
  /\ signaled = 0
  /\ called = 0 /\ consumed = 0

Call(t, o) ==
  /\ Begin(t, o)
  /\ o = "signal" => called < MaxSignals
  /\ called' = IF o = "signal" THEN called + 1 ELSE called
  /\ UNCHANGED <<signaled, consumed>>

-----------------------------------------------------------------------------
\* Mutant: the mutex is released before the condvar is signalled.
StoreUnlocks(t) ==
  /\ pc[t] = "body" /\ op[t] = "signal"
  /\ signaled = 0
  /\ signaled' = 1
  /\ Goto(t, "signal")
  /\ mjs_mutex_unlock(t)
  /\ UNCHANGED <<op, rc, handle, called, consumed>>

\* mjs_event_signal with no token pending: store it, then signal.
Store(t) ==
  /\ pc[t] = "body" /\ op[t] = "signal"
  /\ signaled = 0
  /\ signaled' = 1
  /\ Goto(t, "signal")
  /\ UNCHANGED <<pairVars, op, rc, handle, called, consumed>>

\* Mutant: tokens accumulate, as a semaphore's permits do.
CoalesceNot(t) ==
  /\ pc[t] = "body" /\ op[t] = "signal"
  /\ signaled # 0
  /\ signaled' = signaled + 1
  /\ Goto(t, "leave")
  /\ UNCHANGED <<pairVars, op, rc, handle, called, consumed>>

\* mjs_event_signal with a token pending: nothing to do.
Coalesce(t) ==
  /\ pc[t] = "body" /\ op[t] = "signal"
  /\ signaled # 0
  /\ Goto(t, "leave")
  /\ UNCHANGED <<pairVars, op, rc, handle, signaled, called, consumed>>

\* Mutant: the token is stored and nobody is woken for it.
WakeNobody(t) ==
  /\ pc[t] = "signal"
  /\ Goto(t, "leave")
  /\ UNCHANGED <<pairVars, op, rc, handle, signaled, called, consumed>>

Wake(t) ==
  /\ pc[t] = "signal"
  /\ mjs_condvar_signal
  /\ Goto(t, "leave")
  /\ UNCHANGED <<op, rc, handle, signaled, called, consumed>>

-----------------------------------------------------------------------------
\* mjs_event_wait, mjs_event_wait_until with a token: consume it.
Take(t) ==
  /\ pc[t] = "body" /\ op[t] \in Blocking
  /\ signaled # 0
  /\ signaled' = 0
  /\ consumed' = consumed + 1
  /\ Status(t, "ok")
  /\ Goto(t, "leave")
  /\ UNCHANGED <<pairVars, op, handle, called>>

\* Mutant: wait_until reports -ETIMEDOUT without re-checking the token.
WaitNoRecheck(t) ==
  /\ \/ signaled = 0 /\ (Sleep(t) \/ PastDeadline(t))
     \/ GiveUp(t)
  /\ UNCHANGED <<signaled, called, consumed>>

\* The loops of mjs_event_wait and mjs_event_wait_until without a token.
Wait(t) ==
  /\ signaled = 0
  /\ Sleep(t) \/ PastDeadline(t) \/ GiveUp(t)
  /\ UNCHANGED <<signaled, called, consumed>>

-----------------------------------------------------------------------------
\* mjs_event_destroy.  The caller has joined its waiters, and every signal
\* call ever begun gave a token that was consumed; that the callers of
\* mjs_event_signal have returned it cannot know.
Destroy(t) ==
  /\ consumed = called
  /\ \A u \in Threads : pc[u] \in {"idle", "return"} \/ op[u] = "signal"
  /\ DestroyCondvar(t)
  /\ UNCHANGED <<signaled, called, consumed>>

\* The steps that do not look at the token.
Frame(t) ==
  /\ \/ Enter(t) \/ Resume(t) \/ FrameRuns(t)
     \/ SpuriousWake(t) \/ DeadlineExpires(t)
  /\ UNCHANGED <<signaled, called, consumed>>

Next ==
  \E t \in Threads :
    \/ \E o \in Ops : Call(t, o)
    \/ Store(t) \/ Coalesce(t) \/ Wake(t)
    \/ Take(t) \/ Wait(t)
    \/ Destroy(t)
    \/ Frame(t)

Spec == Init /\ [][Next]_vars

\* A thread inside a call keeps running and a free mutex is taken by one that
\* wants it.  Deadlines, spurious wakes and new calls are not relied on.
Fairness ==
  \A t \in Threads :
    WF_vars(\/ Store(t) \/ Coalesce(t) \/ Wake(t) \/ Take(t) \/ Wait(t)
            \/ Frame(t) /\ (Enter(t) \/ Resume(t) \/ FrameRuns(t)))

FairSpec == Spec /\ Fairness

-----------------------------------------------------------------------------
\* The types; in particular at most one token is pending.
TypeOK ==
  /\ FrameTypeOK(Ops)
  /\ signaled \in {0, 1}
  /\ called \in 0..MaxSignals
  /\ consumed \in 0..MaxSignals

\* A pending token is never stranded: while somebody sleeps on the condvar, a
\* thread is on its way to the loop's test in mjs_event_wait*, or is about to
\* wake one from mjs_event_signal.  One such thread suffices for one token,
\* which is why mjs_event_signal may skip the wake when it coalesces.
NoLostWakeup == (signaled = 1 /\ parked # {}) => Coming # {}

\* Of a signal that found somebody asleep, the token is eventually consumed.
TokenIsTaken == (signaled = 1 /\ Waiting # {}) ~> (signaled = 0 \/ Waiting = {})

-----------------------------------------------------------------------------
\* Refinement: a call takes effect at the step that writes signaled, or finds
\* it as it wants it, under the mutex.
CallOf(t) ==
  CASE pc[t] \in {"idle", "destroy"} -> "none"
    [] pc[t] \in {"enter", "body", "blocked"} -> op[t]
    [] OTHER -> IF rc[t] = "ok" THEN "ok" ELSE "timed_out"

Abstract == INSTANCE AutoResetEvent WITH
  token <- signaled = 1,
  call <- [t \in Threads |-> CallOf(t)]

\* The mjs_event_* calls are linearizable to AutoResetEvent: a token goes to
\* one wait, signals coalesce, and -ETIMEDOUT needs an instant without token.
ImplementsAutoReset == Abstract!Spec
=============================================================================
