------------------------------ MODULE Contexts ------------------------------
(***************************************************************************)
(* native/posix/ms_context.c and its two switch backends                   *)
(* (ms_context_aarch64.S, ms_context_x86_64.S): context records with a     *)
(* state and a return target each, switched by several threads.  A fiber   *)
(* runs on a stack of its own; the context of a thread's own stack is      *)
(* named after the thread.                                                 *)
(***************************************************************************)
EXTENDS Naturals

CONSTANTS Fibers, Threads, None

Contexts == Fibers \cup Threads
States == {"dead", "empty", "running", "suspended", "finished"}

ASSUME ContextsAssumption ==
  Fibers \cap Threads = {} /\ None \notin Fibers /\ None \notin Threads

VARIABLES
  state, ret_to,     \* the lifecycle tail of each record
  cur,               \* the context whose stack a thread is on
  pc, from, to, seen \* a switch under way: place, arguments, state last read

ctxVars == <<state, ret_to, cur, pc, from, to, seen>>

ContextsInit ==
  /\ state = [c \in Contexts |-> "dead"]
  /\ ret_to = [c \in Contexts |-> None]
  /\ cur = [t \in Threads |-> t]
  /\ pc = [t \in Threads |-> "run"]
  /\ from = [t \in Threads |-> None] /\ to = [t \in Threads |-> None]
  /\ seen = [t \in Threads |-> "dead"]

\* A trap ends the process.
Alive == \A t \in Threads : pc[t] # "trap"
Running(t) == Alive /\ pc[t] = "run"

\* No thread is on the context's stack, or still switching away from it.
Left(c) == \A t \in Threads : cur[t] # c /\ from[t] # c

\* What the header asks of callers: a switch out of a context and a switch into
\* it do not overlap.  Two switches into one context may.
Serialized(leaving, entering) ==
  \A t \in Threads : from[t] # entering /\ to[t] # leaving

Goto(t, place) == pc' = [pc EXCEPT ![t] = place]

-----------------------------------------------------------------------------
\* ms_context_init, with a span that passes its checks, and
\* mjs__ctx_make_raw: the record is armed, whatever it held.
ContextInit(c) ==
  /\ state' = [state EXCEPT ![c] = "empty"]
  /\ ret_to' = [ret_to EXCEPT ![c] = None]
  /\ UNCHANGED <<cur, pc, from, to, seen>>

\* ms_context_destroy
ContextDestroy(c) ==
  /\ state' = [state EXCEPT ![c] = "dead"]
  /\ ret_to' = [ret_to EXCEPT ![c] = None]
  /\ UNCHANGED <<cur, pc, from, to, seen>>

\* ms_context_capture of a thread's own context: the self-switch.
Capture(t) ==
  /\ Running(t) /\ cur[t] = t
  /\ state' = [state EXCEPT ![t] = "suspended"]
  /\ UNCHANGED <<ret_to, cur, pc, from, to, seen>>

-----------------------------------------------------------------------------
Leave(t, c) ==
  /\ from' = [from EXCEPT ![t] = cur[t]]
  /\ to' = [to EXCEPT ![t] = c]
  /\ Goto(t, "look")

\* ms_context_switch saves the registers first.  Callers resume a fiber, or go
\* back where the current context came from.
Switch(t, c) ==
  /\ Running(t) /\ c # cur[t]
  /\ c \in Fibers \/ c = ret_to[cur[t]]
  /\ Serialized(cur[t], c)
  /\ Leave(t, c)
  /\ UNCHANGED <<state, ret_to, cur, seen>>

\* mjs_ctx_trampoline: the entry has returned and the finish hook has run.
Finish(t) ==
  /\ Running(t) /\ cur[t] \in Fibers
  /\ Serialized(cur[t], ret_to[cur[t]])
  /\ state' = [state EXCEPT ![cur[t]] = "finished"]
  /\ Leave(t, ret_to[cur[t]])
  /\ UNCHANGED <<ret_to, cur, seen>>

\* Validation of the target.
Look(t) ==
  /\ Alive /\ pc[t] = "look"
  /\ IF state[to[t]] \in {"dead", "running", "finished"}
     THEN Goto(t, "trap") /\ UNCHANGED seen
     ELSE Goto(t, "demote") /\ seen' = [seen EXCEPT ![t] = state[to[t]]]
  /\ UNCHANGED <<state, ret_to, cur, from, to>>

\* A running context that is left becomes suspended; a finished one does not.
\* From here on the thread works in registers alone.
Demote(t) ==
  /\ Alive /\ pc[t] = "demote"
  /\ state' = [state EXCEPT ![from[t]] = IF @ = "running" THEN "suspended" ELSE @]
  /\ cur' = [cur EXCEPT ![t] = None]
  /\ Goto(t, "arm")
  /\ UNCHANGED <<ret_to, from, to, seen>>

\* Mutant: a plain store arms the target.
ArmPlain(t) ==
  /\ Alive /\ pc[t] = "arm"
  /\ state' = [state EXCEPT ![to[t]] = "running"]
  /\ Goto(t, "land")
  /\ UNCHANGED <<ret_to, cur, from, to, seen>>

\* The exclusive store (or compare-and-exchange): it arms the target if its
\* state is still the one that was validated.
Arm(t) ==
  /\ Alive /\ pc[t] = "arm"
  /\ state[to[t]] = seen[t]
  /\ state' = [state EXCEPT ![to[t]] = "running"]
  /\ Goto(t, "land")
  /\ UNCHANGED <<ret_to, cur, from, to, seen>>

\* The store was lost, to another thread or for no reason: validate again.
ArmLost(t) ==
  /\ Alive /\ pc[t] = "arm"
  /\ Goto(t, "look")
  /\ UNCHANGED <<state, ret_to, cur, from, to, seen>>

\* The return target is written and the target's registers are restored.
Land(t) ==
  /\ Alive /\ pc[t] = "land"
  /\ ret_to' = [ret_to EXCEPT ![to[t]] = from[t]]
  /\ cur' = [cur EXCEPT ![t] = to[t]]
  /\ from' = [from EXCEPT ![t] = None] /\ to' = [to EXCEPT ![t] = None]
  /\ Goto(t, "run")
  /\ UNCHANGED <<state, seen>>

ContextStep(t) ==
  \/ Capture(t) \/ Finish(t) \/ Look(t) \/ Demote(t) \/ Arm(t) \/ ArmLost(t) \/ Land(t)
  \/ \E c \in Contexts : Switch(t, c)

-----------------------------------------------------------------------------
\* No two threads are ever on one context's stack: of two that race to resume
\* a context only one gets it, also when the store that arms it is lost and
\* tried again.
OneRunner ==
  \A t, u \in Threads : t # u /\ cur[t] # None => cur[t] # cur[u]
==============================================================================
