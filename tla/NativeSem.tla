------------------------------ MODULE NativeSem ------------------------------
(***************************************************************************)
(* mjs_sem (native/posix/mjs_sem.c): a counting semaphore composed of one  *)
(* mjs_mutex, one mjs_condvar and an int count.                            *)
(***************************************************************************)
EXTENDS Integers, FiniteSets, WaitFrame

CONSTANTS
  Initial,   \* the argument of mjs_sem_init
  MaxPosts,  \* bound: how many times the threads call mjs_sem_post
  IntMax     \* INT_MAX of the build

ASSUME SemAssumption ==
  /\ IsFiniteSet(Threads)
  /\ IntMax \in Nat
  /\ Initial \in 0..IntMax
  /\ MaxPosts \in Nat

VARIABLES
  count,     \* s->count
  called,    \* history: calls of mjs_sem_post begun
  posted,    \* history: increments of s->count
  acquired   \* history: acquiring calls that will return 0

vars == <<frameVars, count, called, posted, acquired>>

Ops == Blocking \cup {"try_wait", "post"}

\* What storing x in an int leaves there: this build wraps on overflow.
AsInt(x) == IF x > IntMax THEN x - 2 * (IntMax + 1) ELSE x

\* A successful mjs_sem_init.
Init ==
  /\ FrameInit
  /\ count = Initial
  /\ called = 0 /\ posted = 0 /\ acquired = 0

Call(t, o) ==
  /\ Begin(t, o)
  /\ o = "post" => called < MaxPosts
  /\ called' = IF o = "post" THEN called + 1 ELSE called
  /\ UNCHANGED <<count, posted, acquired>>

-----------------------------------------------------------------------------
\* Mutant: the mutex is released before the condvar is signalled.
PostAddUnlocks(t) ==
  /\ pc[t] = "body" /\ op[t] = "post"
  /\ count' = AsInt(count + 1)
  /\ posted' = posted + 1
  /\ Goto(t, "signal")
  /\ mjs_mutex_unlock(t)
  /\ UNCHANGED <<op, rc, handle, called, acquired>>

\* mjs_sem_post, the increment.
PostAdd(t) ==
  /\ pc[t] = "body" /\ op[t] = "post"
  /\ count' = AsInt(count + 1)
  /\ posted' = posted + 1
  /\ Goto(t, "signal")
  /\ UNCHANGED <<pairVars, op, rc, handle, called, acquired>>

\* Mutant: signals only on the edge from 0 to 1, as the coalescing event does.
PostSignalOnEdge(t) ==
  /\ pc[t] = "signal"
  /\ IF count = 1 THEN mjs_condvar_signal ELSE UNCHANGED pairVars
  /\ Goto(t, "leave")
  /\ UNCHANGED <<op, rc, handle, count, called, posted, acquired>>

\* mjs_sem_post, the wake.
PostSignal(t) ==
  /\ pc[t] = "signal"
  /\ mjs_condvar_signal
  /\ Goto(t, "leave")
  /\ UNCHANGED <<op, rc, handle, count, called, posted, acquired>>

-----------------------------------------------------------------------------
\* Mutant: an expired waiter takes a permit without looking.
TakeUnchecked(t) ==
  /\ pc[t] = "body" /\ op[t] # "post"
  /\ count # 0 \/ rc[t] = "ETIMEDOUT"
  /\ count' = count - 1
  /\ acquired' = acquired + 1
  /\ Status(t, "ok")
  /\ Goto(t, "leave")
  /\ UNCHANGED <<pairVars, op, handle, called, posted>>

\* Mutant: an expired waiter keeps -ETIMEDOUT although it takes a permit.
TakeButTimedOut(t) ==
  /\ pc[t] = "body" /\ op[t] # "post"
  /\ count # 0
  /\ count' = count - 1
  /\ acquired' = acquired + 1
  /\ Goto(t, "leave")
  /\ UNCHANGED <<pairVars, op, rc, handle, called, posted>>

\* Mutant: an expired waiter that sees a permit returns 0 and leaves it there.
TakeNothing(t) ==
  /\ pc[t] = "body" /\ op[t] # "post"
  /\ count # 0
  /\ count' = IF rc[t] = "ok" THEN count - 1 ELSE count
  /\ acquired' = acquired + 1
  /\ Status(t, "ok")
  /\ Goto(t, "leave")
  /\ UNCHANGED <<pairVars, op, handle, called, posted>>

\* mjs_sem_wait, _wait_until, _try_wait with count # 0: consume one permit.
Take(t) ==
  /\ pc[t] = "body" /\ op[t] # "post"
  /\ count # 0
  /\ count' = count - 1
  /\ acquired' = acquired + 1
  /\ Status(t, "ok")
  /\ Goto(t, "leave")
  /\ UNCHANGED <<pairVars, op, handle, called, posted>>

\* Mutant: wait_until goes back to sleep without looking at rc.
WaitAgain(t) ==
  /\ count = 0
  /\ pc[t] = "body" /\ op[t] \in Blocking
  /\ mjs_condvar_wait(t)
  /\ Status(t, "ok")
  /\ Goto(t, "blocked")
  /\ UNCHANGED <<op, handle, count, called, posted, acquired>>

\* The loops of mjs_sem_wait and mjs_sem_wait_until with count = 0.
Wait(t) ==
  /\ count = 0
  /\ Sleep(t) \/ PastDeadline(t) \/ GiveUp(t)
  /\ UNCHANGED <<count, called, posted, acquired>>

\* mjs_sem_try_wait with count = 0.
Busy(t) ==
  /\ count = 0
  /\ pc[t] = "body" /\ op[t] = "try_wait"
  /\ Status(t, "EBUSY")
  /\ Goto(t, "leave")
  /\ UNCHANGED <<pairVars, op, handle, count, called, posted, acquired>>

-----------------------------------------------------------------------------
\* mjs_sem_destroy.  The caller has joined its waiters and has taken every
\* permit there will ever be; that the posters have returned it cannot know.
Destroy(t) ==
  /\ acquired = Initial + called
  /\ \A u \in Threads : pc[u] \in {"idle", "return"} \/ op[u] = "post"
  /\ DestroyCondvar(t)
  /\ UNCHANGED <<count, called, posted, acquired>>

\* The steps that do not look at count.
Frame(t) ==
  /\ \/ Enter(t) \/ Resume(t) \/ FrameRuns(t)
     \/ SpuriousWake(t) \/ DeadlineExpires(t)
  /\ UNCHANGED <<count, called, posted, acquired>>

Next ==
  \E t \in Threads :
    \/ \E o \in Ops : Call(t, o)
    \/ PostAdd(t) \/ PostSignal(t)
    \/ Take(t) \/ Wait(t) \/ Busy(t)
    \/ Destroy(t)
    \/ Frame(t)

Spec == Init /\ [][Next]_vars

(***************************************************************************)
(* Fairness.  A thread inside a call keeps running; the mutex does not     *)
(* pass a contender over for ever; an absolute deadline passes, after      *)
(* which every sleep of that wait ends by it.  Nothing makes a thread      *)
(* begin a call, and nothing makes a waiter wake without a signal.         *)
(***************************************************************************)
Fairness ==
  \A t \in Threads :
    /\ WF_vars(PostAdd(t) \/ PostSignal(t) \/ Take(t) \/ Wait(t) \/ Busy(t)
               \/ (Frame(t) /\ FrameRuns(t)))
    /\ SF_vars(Frame(t) /\ (Enter(t) \/ Resume(t)))
    /\ SF_vars(Frame(t) /\ DeadlineExpires(t))

FairSpec == Spec /\ Fairness

-----------------------------------------------------------------------------
\* The types; in particular s->count stays a non-negative int.
TypeOK ==
  /\ FrameTypeOK(Ops)
  /\ count \in 0..IntMax
  /\ called \in 0..MaxPosts
  /\ posted \in 0..MaxPosts
  /\ acquired \in 0..(Initial + MaxPosts)

\* A permit is never stranded: while anybody sleeps on the condvar, each
\* resident permit is matched by a thread on its way to the loop's test in
\* mjs_sem_wait* or to the signal in mjs_sem_post.
NoLostWakeup == parked # {} => count <= Cardinality(Coming)

\* Permits are conserved: what was there and what mjs_sem_post added is what
\* remains and what successful acquires took, whatever timed out meanwhile.
PermitsConserved == Initial + posted = count + acquired

\* "The count NEVER goes negative" (mojito_sys.h).  It does after one post
\* when Initial is INT_MAX.
CountNeverNegative == count >= 0

\* A permit and a waiter do not coexist for ever: somebody takes the permit
\* that mjs_sem_post left.
PermitIsTaken == (count > 0 /\ Waiting # {}) ~> (count = 0 \/ Waiting = {})

\* mjs_sem_wait_until comes back, whatever wakes and steals it goes through.
TimedWaitReturns ==
  \A t \in Threads :
    (pc[t] = "enter" /\ op[t] \in Timed) ~> (pc[t] = "return")

-----------------------------------------------------------------------------
\* Refinement: a call takes effect at the step that changes count, or finds
\* it 0, under the mutex.
CallOf(t) ==
  CASE pc[t] \in {"idle", "destroy"} -> "none"
    [] pc[t] \in {"enter", "body", "blocked"} -> op[t]
    [] OTHER -> IF rc[t] = "ok" THEN "ok" ELSE "refused"

Abstract == INSTANCE CountingSemaphore WITH
  permits <- count,
  call <- [t \in Threads |-> CallOf(t)]

\* The mjs_sem_* calls are linearizable to CountingSemaphore: a permit goes to
\* one acquire, and -ETIMEDOUT or -EBUSY needs an instant without permits.
ImplementsCounting == Abstract!Spec
=============================================================================
