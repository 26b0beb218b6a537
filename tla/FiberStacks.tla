---------------------------- MODULE FiberStacks ----------------------------
(***************************************************************************)
(* Fibers as callers build them: a context on a stack of its own.  A fiber *)
(* is created on a fresh stack, resumed by any thread, destroyed while no  *)
(* thread runs it, and its stack is given back once its record cannot be   *)
(* resumed.                                                                *)
(***************************************************************************)
EXTENDS Contexts, StackMemory

ASSUME FibersAssumption == Owners = Fibers

vars == <<ctxVars, stackVars>>

Init == ContextsInit /\ StackInit

\* NativeStack.create and NativeContext.create.
Create(c, b, usable, commit) ==
  /\ Alive /\ state[c] = "dead"
  /\ StackAlloc(c, b, usable, commit)
  /\ ContextInit(c)

\* A record that has finished, or that nobody runs, is destroyed; a thread
\* that has only looked at it may still be about to arm it.
Destroy(c) ==
  /\ Alive /\ state[c] \notin {"dead", "running"} /\ Left(c)
  /\ ContextDestroy(c)
  /\ UNCHANGED stackVars

Extend(c, n) == Alive /\ Grow(c, n) /\ UNCHANGED ctxVars

\* Mutant: the stack of a suspended fiber is given back.
FreeSuspended(c) ==
  /\ Alive /\ state[c] # "running" /\ Left(c)
  /\ StackFree(c)
  /\ UNCHANGED ctxVars

Free(c) ==
  /\ Alive /\ state[c] \in {"dead", "finished"} /\ Left(c)
  /\ StackFree(c)
  /\ UNCHANGED ctxVars

Next ==
  \/ \E c \in Fibers, b \in Bases, n \in 1..MaxUsable :
       \E k \in 1..(n + 1) : Create(c, b, n, k)
  \/ \E c \in Fibers : Destroy(c) \/ Free(c) \/ \E n \in 1..MaxUsable : Extend(c, n)
  \/ \E t \in Threads : ContextStep(t) /\ UNCHANGED stackVars

Spec == Init /\ [][Next]_vars

\* A thread that is on a fiber, or has armed one, finds the top of its stack
\* mapped and accessible: a fiber destroyed and unmapped between the look at
\* its state and the arming of it is never entered.
RunsOnMappedStack ==
  \A t \in Threads : \A c \in Fibers :
     cur[t] = c \/ (pc[t] = "land" /\ to[t] = c) =>
       /\ stack[c] # NoStack
       /\ mem[stack[c].base][Guard + stack[c].usable] = "rw"
==============================================================================
