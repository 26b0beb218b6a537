---------------------------- MODULE ThreadHandle ----------------------------
(***************************************************************************)
(* mjs_thread (native/posix/mjs_thread.c): thread handles shared, through  *)
(* a reference count, by their owner and by the trampoline of the thread   *)
(* they stand for.  A handle is named by the child it was made for.  The   *)
(* right to consume it is one pointer, *t, that a thread may move to       *)
(* another (NativeThread of thread.mojo is movable and not copyable), the  *)
(* child itself and its siblings included, but two threads never share.    *)
(*                                                                         *)
(* A call that returns an error before it changed anything (-EINVAL for a  *)
(* consumed or claimed handle, a failed spawn) is a stuttering step.       *)
(***************************************************************************)
EXTENDS Integers

CONSTANTS
  Main,      \* the process's first thread
  Children,  \* the threads that may be spawned
  Values,    \* statuses an entry function returns
  None       \* no thread, no status

ASSUME ThreadAssumption ==
  /\ Main \notin Children
  /\ None \notin Children \cup {Main} \cup Values

Threads == Children \cup {Main}

VARIABLES
  refs,      \* h->refs
  state,     \* h->state
  status,    \* h->status
  allocated, \* the handle's memory is
  slot,      \* where *t = h is: a thread; None: no handle or consumed
  life,      \* the child: "unborn", "running", "returned", "exited"
  os,        \* the pthread: "none", "joinable", "detached", "reaped"
  at,        \* where each thread stands in its mjs_thread call, or "idle"
  arg,       \* the handle of that call
  result     \* *out_result of each thread's last join

handleVars == <<refs, state, status, allocated>>
vars == <<handleVars, slot, life, os, at, arg, result>>

Init ==
  /\ refs = [c \in Children |-> 0]
  /\ state = [c \in Children |-> "none"]
  /\ status = [c \in Children |-> None]
  /\ allocated = [c \in Children |-> FALSE]
  /\ slot = [c \in Children |-> None]
  /\ life = [c \in Children |-> "unborn"]
  /\ os = [c \in Children |-> "none"]
  /\ at = [t \in Threads |-> "idle"]
  /\ arg \in [Threads -> {None}]
  /\ result = [t \in Threads |-> None]

Running(t) == t = Main \/ (t \in Children /\ life[t] = "running")
Idle(t) == Running(t) /\ at[t] = "idle"

Step(t, l) == at' = [at EXCEPT ![t] = l]
Enter(t, c, l) == Step(t, l) /\ arg' = [arg EXCEPT ![t] = c]
Exit(t) == Enter(t, None, "idle")

\* Mutant: both references, the trampoline's included, dropped by the owner.
unrefTwice(c) ==
  /\ refs' = [refs EXCEPT ![c] = IF life[c] = "exited" THEN @ - 2 ELSE @ - 1]
  /\ allocated' = [allocated EXCEPT ![c] = @ /\ refs[c] # 1]

\* mjs_thread_unref: whoever drops the last reference frees the handle.
unref(c) ==
  /\ refs' = [refs EXCEPT ![c] = @ - 1]
  /\ allocated' = [allocated EXCEPT ![c] = @ /\ refs[c] # 1]

-----------------------------------------------------------------------------
\* Mutant: the trampoline is given no reference of its own.
SpawnOneRef(t, c) ==
  /\ Idle(t) /\ life[c] = "unborn"
  /\ refs' = [refs EXCEPT ![c] = 1]
  /\ state' = [state EXCEPT ![c] = "JOINABLE"]
  /\ allocated' = [allocated EXCEPT ![c] = TRUE]
  /\ life' = [life EXCEPT ![c] = "running"]
  /\ os' = [os EXCEPT ![c] = "joinable"]
  /\ Enter(t, c, "spawned")
  /\ UNCHANGED <<status, slot, result>>

\* mjs_thread_spawn up to pthread_create, after which the child runs.
Spawn(t, c) ==
  /\ Idle(t) /\ life[c] = "unborn"
  /\ refs' = [refs EXCEPT ![c] = 2]
  /\ state' = [state EXCEPT ![c] = "JOINABLE"]
  /\ allocated' = [allocated EXCEPT ![c] = TRUE]
  /\ life' = [life EXCEPT ![c] = "running"]
  /\ os' = [os EXCEPT ![c] = "joinable"]
  /\ Enter(t, c, "spawned")
  /\ UNCHANGED <<status, slot, result>>

\* The rest of it: *out = h.  The child may be gone by now.
SpawnReturns(t) ==
  /\ at[t] = "spawned"
  /\ slot' = [slot EXCEPT ![arg[t]] = t]
  /\ Exit(t)
  /\ UNCHANGED <<handleVars, life, os, result>>

\* The owner moves the handle to another thread.
Move(t, u, c) ==
  /\ slot[c] = t /\ Idle(t) /\ Running(u)
  /\ slot' = [slot EXCEPT ![c] = u]
  /\ UNCHANGED <<handleVars, life, os, at, arg, result>>

\* mjs_thread_trampoline: the entry function returns v, which is stored.
EntryReturns(c, v) ==
  /\ Idle(c)
  /\ status' = [status EXCEPT ![c] = v]
  /\ life' = [life EXCEPT ![c] = "returned"]
  /\ UNCHANGED <<refs, state, allocated, slot, os, at, arg, result>>

\* The trampoline drops its reference and the thread ends.
TrampolineEnds(c) ==
  /\ life[c] = "returned"
  /\ unref(c)
  /\ life' = [life EXCEPT ![c] = "exited"]
  /\ UNCHANGED <<state, status, slot, os, at, arg, result>>

-----------------------------------------------------------------------------
\* mjs_thread_join, the compare-and-swap from JOINABLE.
Join(t, c) ==
  /\ Idle(t) /\ slot[c] = t
  /\ state[c] = "JOINABLE"
  /\ state' = [state EXCEPT ![c] = "JOINED"]
  /\ Enter(t, c, "joining")
  /\ UNCHANGED <<refs, status, allocated, slot, life, os, result>>

\* pthread_join's best effort against deadlock: t joins itself, or a thread
\* that is joining t.
EDEADLK(t) ==
  \/ arg[t] = t
  \/ arg[t] \in Children /\ at[arg[t]] = "joining" /\ arg[arg[t]] = t

\* Mutant: the return code of pthread_join is not looked at.
ReapedAnyway(t) ==
  /\ at[t] = "joining"
  /\ life[arg[t]] = "exited" \/ EDEADLK(t)
  /\ os' = [os EXCEPT ![arg[t]] = "reaped"]
  /\ Step(t, "reaped")
  /\ UNCHANGED <<handleVars, slot, life, arg, result>>

\* pthread_join succeeds once the child has ended.
Reaped(t) ==
  /\ at[t] = "joining"
  /\ life[arg[t]] = "exited"
  /\ os' = [os EXCEPT ![arg[t]] = "reaped"]
  /\ Step(t, "reaped")
  /\ UNCHANGED <<handleVars, slot, life, arg, result>>

\* *out_result = h->status; *t = NULL.
Publish(t) ==
  /\ at[t] = "reaped"
  /\ result' = [result EXCEPT ![t] = status[arg[t]]]
  /\ slot' = [slot EXCEPT ![arg[t]] = None]
  /\ Step(t, "consumed")
  /\ UNCHANGED <<handleVars, life, os, arg>>

\* Mutant: pthread_join's failure is returned without the rollback.
JoinFailsForGood(t) ==
  /\ at[t] = "joining" /\ EDEADLK(t)
  /\ Exit(t)
  /\ UNCHANGED <<handleVars, slot, life, os, result>>

\* pthread_join refuses: the compare-and-swap back to JOINABLE.
JoinFails(t) ==
  /\ at[t] = "joining" /\ EDEADLK(t)
  /\ state' = [state EXCEPT ![arg[t]] = IF @ = "JOINED" THEN "JOINABLE" ELSE @]
  /\ Exit(t)
  /\ UNCHANGED <<refs, status, allocated, slot, life, os, result>>

-----------------------------------------------------------------------------
\* mjs_thread_detach, the compare-and-swap from JOINABLE.
Detach(t, c) ==
  /\ Idle(t) /\ slot[c] = t
  /\ state[c] = "JOINABLE"
  /\ state' = [state EXCEPT ![c] = "DETACHED"]
  /\ Enter(t, c, "detaching")
  /\ UNCHANGED <<refs, status, allocated, slot, life, os, result>>

\* Mutant: the handle is released and the pthread is not.
DetachedNot(t) ==
  /\ at[t] = "detaching"
  /\ slot' = [slot EXCEPT ![arg[t]] = None]
  /\ Step(t, "consumed")
  /\ UNCHANGED <<handleVars, life, os, arg, result>>

\* pthread_detach, then *t = NULL.
Detached(t) ==
  /\ at[t] = "detaching"
  /\ os' = [os EXCEPT ![arg[t]] = "detached"]
  /\ slot' = [slot EXCEPT ![arg[t]] = None]
  /\ Step(t, "consumed")
  /\ UNCHANGED <<handleVars, life, arg, result>>

\* pthread_detach refuses: return, with h->state left DETACHED.
DetachFails(t) ==
  /\ at[t] = "detaching"
  /\ Exit(t)
  /\ UNCHANGED <<handleVars, slot, life, os, result>>

\* The last line of join and detach: drop the owner's reference.
OwnerUnref(t) ==
  /\ at[t] = "consumed"
  /\ unref(arg[t])
  /\ Exit(t)
  /\ UNCHANGED <<state, status, slot, life, os, result>>

Next ==
  \/ \E t \in Threads, c \in Children :
       \/ Spawn(t, c) \/ Join(t, c) \/ Detach(t, c)
       \/ \E u \in Threads : Move(t, u, c)
  \/ \E c \in Children : TrampolineEnds(c) \/ \E v \in Values : EntryReturns(c, v)
  \/ \E t \in Threads :
       \/ SpawnReturns(t)
       \/ Reaped(t) \/ Publish(t) \/ JoinFails(t)
       \/ Detached(t) \/ DetachFails(t)
       \/ OwnerUnref(t)

Spec == Init /\ [][Next]_vars

-----------------------------------------------------------------------------
\* The types; in particular h->refs never goes below zero.
TypeOK ==
  /\ refs \in [Children -> 0..2]
  /\ state \in [Children -> {"none", "JOINABLE", "DETACHED", "JOINED"}]
  /\ status \in [Children -> Values \cup {None}]
  /\ allocated \in [Children -> BOOLEAN]
  /\ slot \in [Children -> Threads \cup {None}]
  /\ life \in [Children -> {"unborn", "running", "returned", "exited"}]
  /\ os \in [Children -> {"none", "joinable", "detached", "reaped"}]
  /\ at \in [Threads -> {"idle", "spawned", "joining", "reaped", "detaching", "consumed"}]
  /\ arg \in [Threads -> Children \cup {None}]
  /\ result \in [Threads -> Values \cup {None}]

\* The threads inside a mjs_thread call on c.
CallsOn(c) == {t \in Threads : arg[t] = c}

\* A handle is allocated exactly as long as somebody can still reach it: the
\* trampoline before its unref, a thread inside a call, or the owner's pointer.
\* Whichever of child and owner is last, it is freed once and by that one.
FreedByTheLast ==
  \A c \in Children :
    allocated[c] <=> \/ life[c] \in {"running", "returned"}
                     \/ slot[c] # None
                     \/ CallsOn(c) # {}

\* "no per-thread resources outlive exit" (mojito_sys.h): of a handle that was
\* consumed by mjs_thread_join or mjs_thread_detach the pthread was given back.
NothingOutlivesExit ==
  \A c \in Children :
    ~allocated[c] /\ life[c] = "exited" => os[c] \in {"detached", "reaped"}

\* "the joinable state rolled back" (mojito_sys.h): JOINED is only ever seen
\* while a join is under way or once it reaped the thread, so a failed
\* mjs_thread_join leaves a handle that can still be joined or detached.
FailedJoinLeavesJoinable ==
  \A c \in Children :
    state[c] = "JOINED" => os[c] = "reaped" \/ \E t \in CallsOn(c) : at[t] = "joining"

\* A mjs_thread_join that succeeds hands out what the child's entry returned,
\* and only after the child's trampoline has let go of the handle.
JoinGetsStatus ==
  [][\A t \in Threads :
       result'[t] # result[t] \/ (at[t] = "reaped" /\ at'[t] = "consumed") =>
         /\ life[arg[t]] = "exited"
         /\ result'[t] = status[arg[t]] /\ result'[t] \in Values]_vars
=============================================================================
