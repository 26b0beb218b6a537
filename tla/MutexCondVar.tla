---------------------------- MODULE MutexCondVar ----------------------------
(***************************************************************************)
(* mjs_mutex and mjs_condvar: one pthread mutex and one pthread condition  *)
(* variable used with it, the pair every blocking primitive of             *)
(* native/posix is composed from.  The module holds the state of the pair  *)
(* and one operator per call; the components that embed a pair (the        *)
(* semaphore, the event, a slot of the atomic-wait table) conjoin these    *)
(* operators with their own assignments.                                   *)
(*                                                                         *)
(* Assumed of pthreads and no more: the mutex has one owner; a condition   *)
(* wait releases the mutex and joins the queue in one step; a signal       *)
(* removes some waiter if there is one, not necessarily the oldest; a      *)
(* waiter may also leave the queue for no reason; and a thread that left   *)
(* the queue still has to win the mutex against everybody else before its  *)
(* call returns.                                                           *)
(***************************************************************************)
CONSTANTS Threads, NoThread

ASSUME NoThreadAssumption == NoThread \notin Threads

VARIABLES
  owner,   \* the thread that holds the mutex, or NoThread
  parked,  \* the threads asleep in pthread_cond_wait / _timedwait
  woken    \* the threads that left the queue and want the mutex back

pairVars == <<owner, parked, woken>>

PairInit == owner = NoThread /\ parked = {} /\ woken = {}

PairTypeOK ==
  /\ owner \in Threads \cup {NoThread}
  /\ parked \in SUBSET Threads
  /\ woken \in SUBSET Threads

mjs_mutex_lock(t) ==
  /\ owner = NoThread
  /\ owner' = t
  /\ UNCHANGED <<parked, woken>>

mjs_mutex_unlock(t) ==
  /\ owner' = NoThread
  /\ UNCHANGED <<parked, woken>>

\* The sleeping half of mjs_condvar_wait and mjs_condvar_wait_until.
mjs_condvar_wait(t) ==
  /\ owner' = NoThread
  /\ parked' = parked \cup {t}
  /\ UNCHANGED woken

\* The returning half: the call comes back holding the mutex.
condvar_return(t) ==
  /\ t \in woken
  /\ owner = NoThread
  /\ owner' = t
  /\ woken' = woken \ {t}
  /\ UNCHANGED parked

\* Leaving the queue without a signal: a spurious wake, or the deadline.
condvar_unpark(t) ==
  /\ t \in parked
  /\ parked' = parked \ {t}
  /\ woken' = woken \cup {t}
  /\ UNCHANGED owner

\* With nobody asleep the quantifier ranges over NoThread alone: a no-op.
mjs_condvar_signal ==
  /\ \E w \in IF parked = {} THEN {NoThread} ELSE parked :
        /\ parked' = parked \ {w}
        /\ woken' = woken \cup (parked \cap {w})
  /\ UNCHANGED owner

mjs_condvar_broadcast ==
  /\ parked' = {}
  /\ woken' = woken \cup parked
  /\ UNCHANGED owner
=============================================================================
