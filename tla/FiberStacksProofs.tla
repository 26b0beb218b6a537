-------------------------- MODULE FiberStacksProofs --------------------------
(***************************************************************************)
(* The safety of contexts and of the stacks under them, for every set of   *)
(* fibers, threads and addresses and every size.                           *)
(***************************************************************************)
EXTENDS FiberStacks, SequenceTheorems, TLAPS

Places == {"run", "look", "demote", "arm", "land", "trap"}

CtxTypeOK ==
  /\ state \in [Contexts -> States]
  /\ ret_to \in [Contexts -> Contexts \cup {None}]
  /\ cur \in [Threads -> Contexts \cup {None}]
  /\ pc \in [Threads -> Places]
  /\ from \in [Threads -> Contexts \cup {None}]
  /\ to \in [Threads -> Contexts \cup {None}]
  /\ seen \in [Threads -> States]

\* The context a thread runs, or has not finished switching away from.
At(t) == IF pc[t] = "run" THEN cur[t] ELSE from[t]

\* The registers of a switch, and the callers' contract: nobody switches into
\* a context that is being left.
SwitchInv ==
  \A t \in Threads :
    /\ At(t) \in Contexts
    /\ pc[t] = "run" => from[t] = None /\ to[t] = None
    /\ pc[t] # "run" => to[t] \in Contexts /\ cur[t] \in {None, from[t]}
    /\ pc[t] \in {"demote", "arm"} => seen[t] \in {"empty", "suspended"}
    /\ \A u \in Threads : to[u] = None \/ to[u] # from[t]

OneAt == \A t, u \in Threads : At(t) = At(u) => t = u

\* A thread's own context may run with any state on its record; what protects
\* it is that the way back to it is held by one thread, and only while nobody
\* is on it.
TicketInv ==
  /\ \A c \in Contexts : ret_to[c] # c
  /\ \A x \in Threads : ret_to[x] \notin Threads
  /\ \A t \in Threads : to[t] \in Threads => ret_to[At(t)] = to[t]
  /\ \A t, u \in Threads : ret_to[At(t)] \in Threads =>
       At(u) # ret_to[At(t)] /\ (ret_to[At(u)] = ret_to[At(t)] => t = u)

\* A target that is armed is nobody's yet, and one thread's alone to land on.
LandInv ==
  \A t \in Threads : pc[t] = "land" =>
    /\ state[to[t]] = "running"
    /\ \A u \in Threads : /\ At(u) # to[t]
                          /\ pc[u] = "land" /\ to[u] = to[t] => u = t

\* A fiber somebody is on has been started, and is marked so while it runs.
FiberInv ==
  \A t \in Threads : At(t) \in Fibers =>
    /\ state[At(t)] \notin {"dead", "empty"}
    /\ pc[t] = "run" => state[At(t)] = "running"
    /\ ret_to[At(t)] \in Contexts

CtxInv == CtxTypeOK /\ SwitchInv /\ OneAt /\ TicketInv /\ LandInv /\ FiberInv

-----------------------------------------------------------------------------
Handles == [base : Bases, usable : Nat, committed : Nat] 

StackTypeOK ==
  /\ mem \in [Bases -> Seq({"rw", "none"})]
  /\ resv \in Seq([base : Bases \cup {NoBase}, total : Nat])
  /\ resv_cap \in Nat
  /\ stack \in [Owners -> Handles \cup {NoStack}]

\* No two handles share a mapping, and each has committed at least the page
\* its first frame is on.
HandleInv ==
  /\ \A o \in Owners : stack[o] # NoStack => stack[o].committed \in 1..stack[o].usable
  /\ \A o, q \in Owners : stack[o] # NoStack /\ stack[q] # NoStack
                            /\ stack[o].base = stack[q].base => o = q

StackInv == StackTypeOK /\ HandleInv /\ StackIsSound

\* A record that can be resumed, or that somebody is on, has its stack.
HeldInv ==
  \A c \in Fibers :
    state[c] \notin {"dead", "finished"} \/ (\E t \in Threads : At(t) = c) =>
      stack[c] # NoStack

\* The inductive invariant.
Inv == CtxInv /\ StackInv /\ HeldInv

-----------------------------------------------------------------------------
\* The contexts, step by step.  Every step but Switch, Finish and Land leaves
\* each thread where it is.
USE DEF Contexts, States, Places

LEMMA ContextsInitially ==
  ASSUME Init
  PROVE  CtxInv
<1> USE ContextsAssumption DEF Init, ContextsInit, At
<1>1. CtxTypeOK /\ SwitchInv
  BY DEF CtxTypeOK, SwitchInv
<1>2. OneAt /\ LandInv /\ FiberInv
  BY DEF OneAt, LandInv, FiberInv
<1>3. TicketInv
  BY DEF TicketInv
<1> QED
  BY <1>1, <1>2, <1>3 DEF CtxInv

\* ms_context_init and ms_context_destroy, of a record nobody is on and that
\* is not armed.
LEMMA RecordInv ==
  ASSUME CtxInv, NEW c \in Fibers, ContextInit(c) \/ ContextDestroy(c),
         state[c] # "running", \A t \in Threads : At(t) # c
  PROVE  CtxInv'
<1>1. /\ \A t \in Threads : At(t)' = At(t) /\ At(t) \in Contexts
      /\ UNCHANGED <<cur, pc, from, to, seen>>
  BY DEF ContextInit, ContextDestroy, At, CtxInv, SwitchInv
<1>2. /\ \A x \in Contexts \ {c} : state'[x] = state[x] /\ ret_to'[x] = ret_to[x]
      /\ ret_to'[c] = None
  BY DEF ContextInit, ContextDestroy, CtxInv, CtxTypeOK
<1>3. CtxTypeOK'
  BY DEF ContextInit, ContextDestroy, CtxInv, CtxTypeOK
<1>4. SwitchInv' /\ OneAt'
  BY <1>1 DEF CtxInv, SwitchInv, OneAt
<1>5. TicketInv'
  BY <1>1, <1>2, ContextsAssumption DEF CtxInv, TicketInv
<1>6. LandInv'
  BY <1>1, <1>2 DEF CtxInv, LandInv, SwitchInv
<1>7. FiberInv'
  BY <1>1, <1>2 DEF CtxInv, FiberInv
<1> QED
  BY <1>3, <1>4, <1>5, <1>6, <1>7 DEF CtxInv

\* The self-switch writes the record of a context its own thread is on.
LEMMA CaptureInv ==
  ASSUME CtxInv, NEW t \in Threads, Capture(t)
  PROVE  CtxInv'
<1>1. /\ \A u \in Threads : At(u)' = At(u) /\ At(u) \in Contexts
      /\ UNCHANGED <<ret_to, cur, pc, from, to, seen>>
      /\ At(t) = t
  BY DEF Capture, Running, At, CtxInv, SwitchInv
<1>2. \A x \in Contexts \ {t} : state'[x] = state[x]
  BY DEF Capture, CtxInv, CtxTypeOK
<1>3. CtxTypeOK'
  BY DEF Capture, CtxInv, CtxTypeOK
<1>4. SwitchInv' /\ OneAt' /\ TicketInv'
  BY <1>1 DEF CtxInv, SwitchInv, OneAt, TicketInv
<1>5. LandInv'
  BY <1>1, <1>2 DEF CtxInv, LandInv, SwitchInv
<1>6. FiberInv'
  BY <1>1, <1>2, ContextsAssumption DEF CtxInv, FiberInv
<1> QED
  BY <1>3, <1>4, <1>5, <1>6 DEF CtxInv

\* The beginning of a switch, to a context the callers' contract allows.
LEMMA LeaveInv ==
  ASSUME CtxInv, NEW t \in Threads, NEW c \in Contexts,
         Running(t), c # cur[t], c \in Fibers \/ c = ret_to[cur[t]],
         Serialized(cur[t], c), Leave(t, c),
         UNCHANGED <<ret_to, cur, seen>>,
         \/ UNCHANGED state
         \/ cur[t] \in Fibers /\ state' = [state EXCEPT ![cur[t]] = "finished"]
  PROVE  CtxInv'
<1>1. /\ \A u \in Threads : At(u)' = At(u) /\ At(u) \in Contexts
      /\ At(t) = cur[t] /\ pc[t] = "run"
      /\ \A u \in Threads \ {t} : /\ pc'[u] = pc[u] /\ from'[u] = from[u]
                                  /\ to'[u] = to[u]
      /\ pc'[t] = "look" /\ from'[t] = cur[t] /\ to'[t] = c
  BY DEF Running, Leave, Goto, At, CtxInv, CtxTypeOK, SwitchInv
<1>2. \A x \in Contexts : state'[x] = state[x] \/ (x = cur[t] /\ state'[x] = "finished")
  BY DEF CtxInv, CtxTypeOK
<1>3. CtxTypeOK'
  BY <1>1 DEF Leave, Goto, CtxInv, CtxTypeOK
<1>4. SwitchInv'
  BY <1>1 DEF CtxInv, SwitchInv, Serialized
<1>5. OneAt'
  BY <1>1 DEF CtxInv, OneAt
<1>6. TicketInv'
  BY <1>1, ContextsAssumption DEF CtxInv, TicketInv
<1>7. LandInv'
  BY <1>1, <1>2 DEF CtxInv, LandInv, SwitchInv
<1>8. FiberInv'
  BY <1>1, <1>2 DEF CtxInv, FiberInv, OneAt
<1> QED
  BY <1>3, <1>4, <1>5, <1>6, <1>7, <1>8 DEF CtxInv

LEMMA SwitchStepInv ==
  ASSUME CtxInv, NEW t \in Threads, NEW c \in Contexts, Switch(t, c)
  PROVE  CtxInv'
BY LeaveInv DEF Switch

LEMMA FinishInv ==
  ASSUME CtxInv, NEW t \in Threads, Finish(t)
  PROVE  CtxInv'
<1>1. At(t) = cur[t] /\ cur[t] \in Fibers
  BY DEF Finish, Running, At
<1>2. ret_to[cur[t]] \in Contexts /\ ret_to[cur[t]] # cur[t]
  BY <1>1 DEF CtxInv, FiberInv, TicketInv
<1> QED
  BY <1>1, <1>2, LeaveInv DEF Finish

\* Validation reads; its outcome is in seen.
LEMMA LookInv ==
  ASSUME CtxInv, NEW t \in Threads, Look(t)
  PROVE  CtxInv'
<1>1. /\ \A u \in Threads : At(u)' = At(u)
      /\ UNCHANGED <<state, ret_to, cur, from, to>>
      /\ \A u \in Threads \ {t} : pc'[u] = pc[u] /\ seen'[u] = seen[u]
      /\ pc[t] = "look"
      /\ pc'[t] \in {"trap", "demote"}
      /\ pc'[t] = "demote" => seen'[t] \in {"empty", "suspended"}
  BY DEF Look, Goto, At, CtxInv, CtxTypeOK, SwitchInv
<1>2. CtxTypeOK'
  BY DEF Look, Goto, CtxInv, CtxTypeOK, SwitchInv
<1>3. SwitchInv' /\ OneAt' /\ TicketInv'
  BY <1>1 DEF CtxInv, SwitchInv, OneAt, TicketInv
<1>4. LandInv' /\ FiberInv'
  BY <1>1 DEF CtxInv, LandInv, FiberInv
<1> QED
  BY <1>2, <1>3, <1>4 DEF CtxInv

\* The context that is left is in nobody's way: nobody switches into it.
LEMMA DemoteInv ==
  ASSUME CtxInv, NEW t \in Threads, Demote(t)
  PROVE  CtxInv'
<1>1. /\ \A u \in Threads : At(u)' = At(u)
      /\ UNCHANGED <<ret_to, from, to, seen>>
      /\ \A u \in Threads \ {t} : pc'[u] = pc[u] /\ cur'[u] = cur[u]
      /\ pc[t] = "demote" /\ pc'[t] = "arm" /\ cur'[t] = None
      /\ At(t) = from[t] /\ from[t] \in Contexts
  BY DEF Demote, Goto, At, CtxInv, CtxTypeOK, SwitchInv
<1>2. \A x \in Contexts : \/ state'[x] = state[x]
                          \/ x = from[t] /\ state'[x] = "suspended"
  BY <1>1 DEF Demote, CtxInv, CtxTypeOK
<1>3. CtxTypeOK'
  BY <1>1 DEF Demote, Goto, CtxInv, CtxTypeOK
<1>4. SwitchInv' /\ OneAt' /\ TicketInv'
  BY <1>1 DEF CtxInv, SwitchInv, OneAt, TicketInv
<1>5. LandInv'
  BY <1>1, <1>2 DEF CtxInv, LandInv, SwitchInv
<1>6. FiberInv'
  BY <1>1, <1>2 DEF CtxInv, FiberInv, OneAt, SwitchInv
<1> QED
  BY <1>3, <1>4, <1>5, <1>6 DEF CtxInv

\* The exclusive store succeeds: the state was not RUNNING, so that no fiber
\* of that record runs and nobody else has armed it; a thread's own context is
\* protected by its ticket.
LEMMA ArmInv ==
  ASSUME CtxInv, NEW t \in Threads, Arm(t)
  PROVE  CtxInv'
<1>1. /\ \A u \in Threads : At(u)' = At(u)
      /\ UNCHANGED <<ret_to, cur, from, to, seen>>
      /\ \A u \in Threads \ {t} : pc'[u] = pc[u]
      /\ pc[t] = "arm" /\ pc'[t] = "land" /\ to[t] \in Contexts
      /\ state[to[t]] \in {"empty", "suspended"}
  BY DEF Arm, Goto, At, CtxInv, CtxTypeOK, SwitchInv
<1>2. /\ \A x \in Contexts \ {to[t]} : state'[x] = state[x]
      /\ state'[to[t]] = "running"
  BY <1>1 DEF Arm, CtxInv, CtxTypeOK
<1>3. CtxTypeOK'
  BY <1>1 DEF Arm, Goto, CtxInv, CtxTypeOK
<1>4. SwitchInv' /\ OneAt' /\ TicketInv'
  BY <1>1 DEF CtxInv, SwitchInv, OneAt, TicketInv
<1>5. \A u \in Threads : /\ At(u) # to[t]
                         /\ pc[u] = "land" => to[u] # to[t]
  <2>1. CASE to[t] \in Fibers
    BY <1>1, <2>1, ContextsAssumption DEF CtxInv, SwitchInv, FiberInv, LandInv, At
  <2>2. CASE to[t] \in Threads
    BY <1>1, <2>2 DEF CtxInv, TicketInv
  <2> QED
    BY <1>1, <2>1, <2>2
<1>6. LandInv'
  BY <1>1, <1>2, <1>5 DEF CtxInv, LandInv, SwitchInv
<1>7. FiberInv'
  BY <1>1, <1>2 DEF CtxInv, FiberInv
<1> QED
  BY <1>3, <1>4, <1>6, <1>7 DEF CtxInv

LEMMA ArmLostInv ==
  ASSUME CtxInv, NEW t \in Threads, ArmLost(t)
  PROVE  CtxInv'
<1>1. /\ \A u \in Threads : At(u)' = At(u)
      /\ UNCHANGED <<state, ret_to, cur, from, to, seen>>
      /\ \A u \in Threads \ {t} : pc'[u] = pc[u]
      /\ pc[t] = "arm" /\ pc'[t] = "look"
  BY DEF ArmLost, Goto, At, CtxInv, CtxTypeOK, SwitchInv
<1>2. CtxTypeOK'
  BY DEF ArmLost, Goto, CtxInv, CtxTypeOK
<1>3. SwitchInv' /\ OneAt' /\ TicketInv'
  BY <1>1 DEF CtxInv, SwitchInv, OneAt, TicketInv
<1>4. LandInv' /\ FiberInv'
  BY <1>1 DEF CtxInv, LandInv, FiberInv
<1> QED
  BY <1>2, <1>3, <1>4 DEF CtxInv

\* Landing moves one thread to a context nobody was on, with a ticket back to
\* the context it comes from, which nobody is on either now.
LEMMA LandStepInv ==
  ASSUME CtxInv, NEW t \in Threads, Land(t)
  PROVE  CtxInv'
<1> DEFINE a == from[t]
           b == to[t]
<1>1. /\ UNCHANGED <<state, seen>>
      /\ \A u \in Threads \ {t} : /\ pc'[u] = pc[u] /\ cur'[u] = cur[u]
                                  /\ from'[u] = from[u] /\ to'[u] = to[u]
                                  /\ At(u)' = At(u)
      /\ pc[t] = "land" /\ pc'[t] = "run"
      /\ from'[t] = None /\ to'[t] = None /\ cur'[t] = b
      /\ At(t) = a /\ At(t)' = b
  BY DEF Land, Goto, At, CtxInv, CtxTypeOK, SwitchInv
<1>2. a \in Contexts /\ b \in Contexts /\ a # b /\ a # None /\ b # None
  BY <1>1, ContextsAssumption DEF CtxInv, SwitchInv
<1>3. /\ \A x \in Contexts \ {b} : ret_to'[x] = ret_to[x]
      /\ ret_to'[b] = a
  BY <1>2 DEF Land, CtxInv, CtxTypeOK
<1>4. CtxTypeOK'
  BY <1>2 DEF Land, Goto, CtxInv, CtxTypeOK
<1>5. \A u \in Threads \ {t} : At(u) # a /\ At(u) # b /\ At(u) \in Contexts
  BY <1>1 DEF CtxInv, OneAt, LandInv, SwitchInv
<1>6. SwitchInv'
  BY <1>1, <1>2 DEF CtxInv, SwitchInv
<1>7. OneAt'
  BY <1>1, <1>5 DEF CtxInv, OneAt
<1>8. TicketInv'
  <2>1. b \in Threads => a \in Fibers /\ ret_to[a] = b
    BY <1>1, <1>2 DEF CtxInv, TicketInv
  <2>2. (\A c \in Contexts : ret_to[c] # c)' /\ (\A x \in Threads : ret_to[x] \notin Threads)'
    BY <1>2, <1>3, <2>1, ContextsAssumption DEF CtxInv, TicketInv
  <2>3. (\A u \in Threads : to[u] \in Threads => ret_to[At(u)] = to[u])'
    BY <1>1, <1>3, <1>5, ContextsAssumption DEF CtxInv, TicketInv
  <2>4. ASSUME NEW u \in Threads, NEW v \in Threads, (ret_to[At(u)] \in Threads)'
        PROVE  (At(v) # ret_to[At(u)] /\ (ret_to[At(v)] = ret_to[At(u)] => u = v))'
    <3>1. CASE u # t /\ v # t
      BY <1>1, <1>3, <1>5, <2>4, <3>1 DEF CtxInv, TicketInv
    <3>2. CASE u = t /\ v # t
      BY <1>1, <1>2, <1>3, <1>5, <2>1, <2>4, <3>2 DEF CtxInv, TicketInv
    <3>3. CASE u # t /\ v = t
      BY <1>1, <1>2, <1>3, <1>5, <2>1, <2>4, <3>3 DEF CtxInv, TicketInv
    <3>4. CASE u = t /\ v = t
      BY <1>1, <1>2, <1>3, <3>4
    <3> QED
      BY <3>1, <3>2, <3>3, <3>4
  <2> QED
    BY <2>2, <2>3, <2>4 DEF TicketInv
<1>9. LandInv'
  BY <1>1, <1>5 DEF CtxInv, LandInv, SwitchInv
<1>10. FiberInv'
  BY <1>1, <1>2, <1>3, <1>5 DEF CtxInv, FiberInv, LandInv
<1> QED
  BY <1>4, <1>6, <1>7, <1>8, <1>9, <1>10 DEF CtxInv

\* A step of a thread.
LEMMA ContextStepInv ==
  ASSUME CtxInv, NEW t \in Threads, ContextStep(t)
  PROVE  CtxInv'
BY CaptureInv, FinishInv, LookInv, DemoteInv, ArmInv, ArmLostInv, LandStepInv,
   SwitchStepInv DEF ContextStep

-----------------------------------------------------------------------------
\* The stacks.  A mapping is a sequence of as many pages as were asked for.
LEMMA PagesAreMapping ==
  ASSUME NEW total \in Nat \ {0}, NEW k \in Nat
  PROVE  /\ Pages(total, k) \in Seq({"rw", "none"})
         /\ Len(Pages(total, k)) = total
         /\ Pages(total, k) # Unmapped
<1>1. Pages(total, k) \in [1..total -> {"rw", "none"}]
  BY DEF Pages
<1>2. Pages(total, k) \in Seq({"rw", "none"}) /\ DOMAIN Pages(total, k) = 1..total
  BY <1>1
<1>3. Len(Pages(total, k)) = total
  BY <1>2
<1> QED
  BY <1>2, <1>3 DEF Unmapped

LEMMA StacksInitially ==
  ASSUME Init
  PROVE  StackInv
<1> USE StackAssumption DEF Init, StackInit, NoStack, Unmapped
<1>1. StackTypeOK /\ HandleInv
  BY DEF StackTypeOK, HandleInv
<1>2. StackIsSound
  BY DEF StackIsSound
<1> QED
  BY <1>1, <1>2 DEF StackInv

\* A handle is not the empty one exactly when it has a base.
LEMMA HandleHasBase ==
  ASSUME StackTypeOK, NEW o \in Owners
  PROVE  /\ stack[o] # NoStack <=> stack[o].base # NoBase
         /\ stack[o] # NoStack => stack[o] \in Handles
         /\ stack[o] = NoStack => stack[o].base = NoBase
BY StackAssumption DEF StackTypeOK, Handles, NoStack

LEMMA StackAllocInv ==
  ASSUME StackInv, NEW o \in Owners, NEW b \in Bases, NEW usable \in 1..MaxUsable,
         NEW commit \in 1..(usable + 1), StackAlloc(o, b, usable, commit)
  PROVE  StackInv'
<1> DEFINE total == Guard + usable
           done == Committed(commit, usable)
           entry == [base |-> b, total |-> total]
<1>1. /\ usable \in Nat /\ done \in 1..usable /\ done \in Nat
      /\ total \in Nat \ {0}
  BY StackAssumption DEF Committed
<1>2. /\ Pages(total, done) \in Seq({"rw", "none"})
      /\ Pages(total, done) # Unmapped
  BY <1>1, PagesAreMapping
<1>3. /\ mem' = [mem EXCEPT ![b] = Pages(total, done)]
      /\ stack' = [stack EXCEPT ![o] = [base |-> b, usable |-> usable, committed |-> done]]
      /\ stack[o] = NoStack /\ mem[b] = Unmapped
  BY DEF StackAlloc
<1>4. /\ \A q \in Owners : stack[q].base # b
      /\ \A i \in DOMAIN resv : resv[i].base # b
  <2>1. \A q \in Owners : stack[q] # NoStack => stack[q].base # b
    <3> SUFFICES ASSUME NEW q \in Owners, stack[q] # NoStack, stack[q].base = b
                 PROVE  FALSE
      OBVIOUS
    <3>1. mem[b] = Pages(Guard + stack[q].usable, stack[q].committed)
      BY DEF StackInv, StackIsSound
    <3>2. stack[q] \in Handles
      BY HandleHasBase DEF StackInv
    <3>3. Guard + stack[q].usable \in Nat \ {0} /\ stack[q].committed \in Nat
      BY <3>2, StackAssumption DEF Handles
    <3>4. Pages(Guard + stack[q].usable, stack[q].committed) # Unmapped
      BY <3>3, PagesAreMapping
    <3> QED
      BY <1>3, <3>1, <3>4
  <2>2. \A q \in Owners : stack[q].base # b
    BY <2>1, HandleHasBase, StackAssumption DEF StackInv
  <2> QED
    BY <2>2 DEF StackInv, StackIsSound
<1>5. \E i \in Nat \ {0} :
        /\ DOMAIN resv' = DOMAIN resv \cup {i} /\ resv'[i] = entry
        /\ \A j \in DOMAIN resv : j # i => resv'[j] = resv[j]
        /\ i \in DOMAIN resv => resv[i].base = NoBase
        /\ resv' \in Seq([base : Bases \cup {NoBase}, total : Nat])
        /\ Len(resv') <= resv_cap' /\ resv_cap' \in Nat
  <2>1. /\ resv \in Seq([base : Bases \cup {NoBase}, total : Nat])
        /\ entry \in [base : Bases \cup {NoBase}, total : Nat]
        /\ resv_cap \in Nat /\ Len(resv) <= resv_cap /\ Len(resv) \in Nat
    BY <1>1 DEF StackInv, StackTypeOK, StackIsSound
  <2>2. CASE FreeSlots # {}
    <3>1. PICK i \in FreeSlots : resv' = [resv EXCEPT ![i] = entry] /\ resv_cap' = resv_cap
      BY <2>2 DEF StackAlloc
    <3>2. i \in DOMAIN resv /\ i \in Nat \ {0} /\ resv[i].base = NoBase
      BY <2>1 DEF FreeSlots
    <3>3. i \in 1..Len(resv) /\ DOMAIN resv = 1..Len(resv)
      BY <2>1, <3>2, LenProperties
    <3>4. /\ resv' \in Seq([base : Bases \cup {NoBase}, total : Nat])
          /\ Len(resv') = Len(resv)
          /\ \A j \in 1..Len(resv) : resv'[j] = IF j = i THEN entry ELSE resv[j]
      BY <2>1, <3>1, <3>3, ExceptSeq
    <3>5. DOMAIN resv' = DOMAIN resv /\ DOMAIN resv \cup {i} = DOMAIN resv
      BY <3>1, <3>2
    <3> QED
      BY <2>1, <3>1, <3>2, <3>3, <3>4, <3>5
  <2>3. CASE FreeSlots = {}
    <3>1. resv' = Append(resv, entry) /\ resv_cap' = CapFor(Len(resv))
      BY <2>3 DEF StackAlloc
    <3>2. resv_cap' \in Nat /\ Len(resv) + 1 <= resv_cap'
      BY <2>1, <3>1, StackAssumption DEF CapFor
    <3>3. /\ DOMAIN resv' = DOMAIN resv \cup {Len(resv) + 1}
          /\ resv'[Len(resv) + 1] = entry
          /\ \A j \in DOMAIN resv : resv'[j] = resv[j]
          /\ Len(resv') = Len(resv) + 1
          /\ resv' \in Seq([base : Bases \cup {NoBase}, total : Nat])
      BY <2>1, <3>1
    <3>4. Len(resv) + 1 \in Nat \ {0} /\ Len(resv) + 1 \notin DOMAIN resv
      BY <2>1, LenProperties
    <3> QED
      BY <3>2, <3>3, <3>4
  <2> QED
    BY <2>2, <2>3
<1>6. PICK i \in Nat \ {0} :
        /\ DOMAIN resv' = DOMAIN resv \cup {i} /\ resv'[i] = entry
        /\ \A j \in DOMAIN resv : j # i => resv'[j] = resv[j]
        /\ i \in DOMAIN resv => resv[i].base = NoBase
        /\ resv' \in Seq([base : Bases \cup {NoBase}, total : Nat])
        /\ Len(resv') <= resv_cap' /\ resv_cap' \in Nat
  BY <1>5
<1>7. /\ \A q \in Owners \ {o} : stack'[q] = stack[q]
      /\ stack'[o] = [base |-> b, usable |-> usable, committed |-> done]
      /\ stack'[o] # NoStack
      /\ \A x \in Bases \ {b} : mem'[x] = mem[x]
      /\ mem'[b] = Pages(total, done)
  BY <1>3, StackAssumption DEF StackInv, StackTypeOK, NoStack
<1>8. StackTypeOK'
  BY <1>1, <1>2, <1>3, <1>6 DEF StackInv, StackTypeOK, Handles
<1>9. HandleInv'
  BY <1>1, <1>4, <1>7 DEF StackInv, HandleInv
<1>10. StackIsSound'
  <2>1. ASSUME NEW q \in Owners, stack'[q] # NoStack
        PROVE  /\ mem'[stack'[q].base] = Pages(Guard + stack'[q].usable, stack'[q].committed)
               /\ \E j \in DOMAIN resv' :
                    /\ resv'[j] = [base |-> stack'[q].base, total |-> Guard + stack'[q].usable]
                    /\ \A k \in DOMAIN resv' : resv'[k].base = stack'[q].base => k = j
    <3>1. CASE q = o
      BY <1>4, <1>6, <1>7, <3>1
    <3>2. CASE q # o
      <4>1. stack'[q] = stack[q] /\ stack[q].base # b /\ stack[q] \in Handles
        BY <1>4, <1>7, <2>1, <3>2, HandleHasBase DEF StackInv
      <4>2. PICK j \in DOMAIN resv :
              /\ resv[j] = [base |-> stack[q].base, total |-> Guard + stack[q].usable]
              /\ \A k \in DOMAIN resv : resv[k].base = stack[q].base => k = j
        BY <2>1, <4>1 DEF StackInv, StackIsSound
      <4>3. j # i
        BY <1>6, <4>1, <4>2, StackAssumption DEF Handles
      <4>4. /\ mem'[stack[q].base] = mem[stack[q].base]
            /\ mem[stack[q].base] = Pages(Guard + stack[q].usable, stack[q].committed)
        BY <1>7, <2>1, <4>1 DEF StackInv, StackIsSound, Handles
      <4> QED
        BY <1>6, <4>1, <4>2, <4>3, <4>4
    <3> QED
      BY <3>1, <3>2
  <2>2. ASSUME NEW x \in Bases,
               mem'[x] # Unmapped \/ \E j \in DOMAIN resv' : resv'[j].base = x
        PROVE  \E q \in Owners : stack'[q].base = x
    <3>1. CASE x = b
      BY <1>7, <3>1
    <3>2. CASE x # b
      <4>1. mem[x] # Unmapped \/ \E j \in DOMAIN resv : resv[j].base = x
        BY <1>6, <1>7, <2>2, <3>2
      <4>2. PICK q \in Owners : stack[q].base = x
        BY <4>1 DEF StackInv, StackIsSound
      <4>3. q # o
        BY <1>3, <4>2, StackAssumption DEF NoStack
      <4> QED
        BY <1>7, <4>2, <4>3
    <3> QED
      BY <3>1, <3>2
  <2> QED
    BY <1>6, <2>1, <2>2 DEF StackIsSound
<1> QED
  BY <1>8, <1>9, <1>10 DEF StackInv

\* grow commits the pages right under the committed ones, and no lower.
LEMMA GrowInv ==
  ASSUME StackInv, NEW o \in Owners, NEW k \in 1..MaxUsable, Grow(o, k)
  PROVE  StackInv'
<1> DEFINE h == stack[o]
           total == Guard + h.usable
<1>1. h # NoStack /\ h \in Handles /\ h.committed \in 1..h.usable
      /\ mem[h.base] = Pages(total, h.committed)
  BY HandleHasBase DEF Grow, StackInv, HandleInv, StackIsSound
<1>2. /\ k \in Nat /\ total \in Nat \ {0} /\ h.committed + k \in 1..h.usable
      /\ h.committed + k \in Nat
      /\ h.base \in Bases /\ h.usable \in Nat /\ h.committed \in Nat
  BY <1>1, StackAssumption DEF Grow, Handles
<1>3. mem' = [mem EXCEPT ![h.base] = Pages(total, h.committed + k)]
  <2>1. mem' = [mem EXCEPT ![h.base] =
                  [p \in DOMAIN mem[h.base] |->
                     IF p \in (Frontier(o) - k + 1)..Frontier(o) THEN "rw" ELSE mem[h.base][p]]]
    BY DEF Grow, Commit
  <2>2. [p \in DOMAIN mem[h.base] |->
           IF p \in (Frontier(o) - k + 1)..Frontier(o) THEN "rw" ELSE mem[h.base][p]]
        = Pages(total, h.committed + k)
    <3>1. DOMAIN mem[h.base] = 1..total
      BY <1>1 DEF Pages
    <3>2. ASSUME NEW p \in 1..total
          PROVE  (IF p \in (Frontier(o) - k + 1)..Frontier(o) THEN "rw" ELSE mem[h.base][p])
                 = IF p > total - (h.committed + k) THEN "rw" ELSE "none"
      <4>1. mem[h.base][p] = IF p > total - h.committed THEN "rw" ELSE "none"
        BY <1>1 DEF Pages
      <4>2. p \in (Frontier(o) - k + 1)..Frontier(o)
              <=> p > total - (h.committed + k) /\ ~(p > total - h.committed)
        BY <1>2, StackAssumption DEF Frontier
      <4>3. p > total - h.committed => p > total - (h.committed + k)
        BY <1>2
      <4> QED
        BY <4>1, <4>2, <4>3
    <3> QED
      BY <3>1, <3>2 DEF Pages
  <2> QED
    BY <2>1, <2>2
<1>4. /\ UNCHANGED <<resv, resv_cap>>
      /\ \A q \in Owners \ {o} : stack'[q] = stack[q]
      /\ stack'[o] = [base |-> h.base, usable |-> h.usable, committed |-> h.committed + k]
      /\ stack' \in [Owners -> Handles \cup {NoStack}]
      /\ stack'[o] # NoStack
  <2> DEFINE grown == [base |-> h.base, usable |-> h.usable, committed |-> h.committed + k]
  <2>1. stack' = [stack EXCEPT ![o] = [h EXCEPT !.committed = h.committed + k]]
        /\ UNCHANGED <<resv, resv_cap>>
    BY DEF Grow
  <2>2. [h EXCEPT !.committed = h.committed + k] = grown
    BY <1>1 DEF Handles
  <2>3. grown \in Handles
    BY <1>2 DEF Handles
  <2>4. grown # NoStack
    BY <1>2, StackAssumption DEF NoStack
  <2> HIDE DEF grown
  <2>5. stack \in [Owners -> Handles \cup {NoStack}]
    BY DEF StackInv, StackTypeOK
  <2>6. stack' = [stack EXCEPT ![o] = grown]
    BY <2>1, <2>2
  <2>7. /\ \A q \in Owners \ {o} : stack'[q] = stack[q]
        /\ stack'[o] = grown /\ stack'[o] # NoStack
        /\ stack' \in [Owners -> Handles \cup {NoStack}]
    BY <2>3, <2>4, <2>5, <2>6
  <2> QED
    BY <2>1, <2>7 DEF grown
<1>5. Pages(total, h.committed + k) \in Seq({"rw", "none"})
  BY <1>2, PagesAreMapping
<1>6. StackTypeOK'
  BY <1>2, <1>3, <1>4, <1>5 DEF StackInv, StackTypeOK
<1>7. HandleInv'
  BY <1>1, <1>2, <1>4 DEF StackInv, HandleInv
<1>8. mem'[h.base] = Pages(total, h.committed + k) /\ \A x \in Bases \ {h.base} : mem'[x] = mem[x]
  BY <1>2, <1>3 DEF StackInv, StackTypeOK
<1>9. StackIsSound'
  <2>1. ASSUME NEW q \in Owners, stack'[q] # NoStack
        PROVE  /\ mem'[stack'[q].base] = Pages(Guard + stack'[q].usable, stack'[q].committed)
               /\ \E j \in DOMAIN resv' :
                    /\ resv'[j] = [base |-> stack'[q].base, total |-> Guard + stack'[q].usable]
                    /\ \A i \in DOMAIN resv' : resv'[i].base = stack'[q].base => i = j
    <3>1. stack[q] # NoStack /\ stack'[q].base = stack[q].base /\ stack'[q].usable = stack[q].usable
      BY <1>1, <1>4, <2>1
    <3>2. mem'[stack'[q].base] = Pages(Guard + stack'[q].usable, stack'[q].committed)
      <4>1. CASE q = o
        BY <1>4, <1>8, <4>1
      <4>2. CASE q # o
        <5>1. stack[q].base # h.base /\ stack[q].base \in Bases
          BY <1>1, <3>1, <4>2, HandleHasBase DEF StackInv, HandleInv, Handles
        <5> QED
          BY <1>4, <1>8, <3>1, <4>2, <5>1 DEF StackInv, StackIsSound
      <4> QED
        BY <4>1, <4>2
    <3> QED
      BY <1>4, <3>1, <3>2 DEF StackInv, StackIsSound
  <2>2. ASSUME NEW x \in Bases,
               mem'[x] # Unmapped \/ \E j \in DOMAIN resv' : resv'[j].base = x
        PROVE  \E q \in Owners : stack'[q].base = x
    <3>1. CASE x = h.base
      BY <1>4, <3>1
    <3>2. CASE x # h.base
      <4>1. PICK q \in Owners : stack[q].base = x
        BY <1>4, <1>8, <2>2, <3>2 DEF StackInv, StackIsSound
      <4> QED
        BY <1>4, <3>2, <4>1
    <3> QED
      BY <3>1, <3>2
  <2> QED
    BY <1>4, <2>1, <2>2 DEF StackInv, StackIsSound
<1> QED
  BY <1>6, <1>7, <1>9 DEF StackInv

\* free finds its own entry, and unmaps all of the mapping.
LEMMA StackFreeInv ==
  ASSUME StackInv, NEW o \in Owners, StackFree(o)
  PROVE  StackInv'
<1> DEFINE h == stack[o]
           total == Guard + h.usable
           gone == [base |-> NoBase, total |-> 0]
<1>1. h # NoStack /\ h \in Handles /\ mem[h.base] = Pages(total, h.committed)
  BY HandleHasBase DEF StackFree, StackInv, StackIsSound
<1>2. h.base \in Bases /\ h.base # NoBase /\ total \in Nat \ {0} /\ h.committed \in Nat
  BY <1>1, StackAssumption DEF Handles
<1>3. PICK i \in DOMAIN resv :
        /\ resv[i] = [base |-> h.base, total |-> total]
        /\ \A j \in DOMAIN resv : resv[j].base = h.base => j = i
  BY <1>1 DEF StackInv, StackIsSound
<1>4. /\ mem' = [mem EXCEPT ![h.base] = SubSeq(mem[h.base], total + 1, Len(mem[h.base]))]
      /\ resv' = [resv EXCEPT ![i] = gone]
      /\ stack' = [stack EXCEPT ![o] = NoStack]
      /\ resv_cap' = resv_cap
  <2>1. PICK j \in DOMAIN resv :
          /\ resv[j].base = h.base
          /\ mem' = [mem EXCEPT ![h.base] = SubSeq(mem[h.base], resv[j].total + 1, Len(mem[h.base]))]
          /\ resv' = [resv EXCEPT ![j] = gone]
    BY DEF StackFree
  <2>2. j = i /\ resv[i].total = total
    BY <1>3, <2>1
  <2>3. stack' = [stack EXCEPT ![o] = NoStack] /\ resv_cap' = resv_cap
    BY DEF StackFree
  <2> QED
    BY <2>1, <2>2, <2>3
<1>5. SubSeq(mem[h.base], total + 1, Len(mem[h.base])) = <<>>
  <2>1. Len(mem[h.base]) = total
    BY <1>1, <1>2, PagesAreMapping
  <2>2. total + 1 \in Int /\ total \in Int /\ total < total + 1
    BY <1>2
  <2> QED
    BY <2>1, <2>2, SubSeqEmpty
<1>6. /\ resv \in Seq([base : Bases \cup {NoBase}, total : Nat])
      /\ resv' \in Seq([base : Bases \cup {NoBase}, total : Nat])
      /\ DOMAIN resv' = DOMAIN resv /\ Len(resv') = Len(resv)
      /\ resv'[i] = gone /\ \A j \in DOMAIN resv : j # i => resv'[j] = resv[j]
  BY <1>3, <1>4 DEF StackInv, StackTypeOK
<1>7. /\ \A q \in Owners \ {o} : stack'[q] = stack[q]
      /\ stack'[o] = NoStack
      /\ mem'[h.base] = Unmapped
      /\ \A x \in Bases \ {h.base} : mem'[x] = mem[x]
  BY <1>2, <1>4, <1>5 DEF StackInv, StackTypeOK, Unmapped
<1>8. StackTypeOK'
  <2>1. <<>> \in Seq({"rw", "none"})
    BY EmptySeq
  <2>2. mem' \in [Bases -> Seq({"rw", "none"})]
    BY <1>2, <1>4, <1>5, <2>1 DEF StackInv, StackTypeOK
  <2> QED
    BY <1>4, <1>6, <2>2 DEF StackInv, StackTypeOK
<1>9. HandleInv'
  BY <1>7 DEF StackInv, HandleInv
<1>10. StackIsSound'
  <2>1. ASSUME NEW q \in Owners, stack'[q] # NoStack
        PROVE  /\ mem'[stack'[q].base] = Pages(Guard + stack'[q].usable, stack'[q].committed)
               /\ \E j \in DOMAIN resv' :
                    /\ resv'[j] = [base |-> stack'[q].base, total |-> Guard + stack'[q].usable]
                    /\ \A k \in DOMAIN resv' : resv'[k].base = stack'[q].base => k = j
    <3>1. q # o /\ stack'[q] = stack[q] /\ stack[q] # NoStack
      BY <1>7, <2>1
    <3>2. stack[q].base # h.base /\ stack[q].base \in Bases
      BY <1>1, <3>1, HandleHasBase DEF StackInv, HandleInv, Handles
    <3>3. PICK j \in DOMAIN resv :
            /\ resv[j] = [base |-> stack[q].base, total |-> Guard + stack[q].usable]
            /\ \A k \in DOMAIN resv : resv[k].base = stack[q].base => k = j
      BY <3>1 DEF StackInv, StackIsSound
    <3>4. j # i /\ \A k \in DOMAIN resv' : resv'[k].base = stack[q].base => k = j
      <4>1. j # i
        BY <1>3, <3>2, <3>3
      <4>2. resv'[i].base # stack[q].base
        BY <1>6, <3>2, StackAssumption
      <4> QED
        BY <1>6, <3>3, <4>1, <4>2
    <3> QED
      BY <1>6, <1>7, <3>1, <3>2, <3>3, <3>4 DEF StackInv, StackIsSound
  <2>2. ASSUME NEW x \in Bases,
               mem'[x] # Unmapped \/ \E j \in DOMAIN resv' : resv'[j].base = x
        PROVE  \E q \in Owners : stack'[q].base = x
    <3>1. x # h.base /\ (mem[x] # Unmapped \/ \E j \in DOMAIN resv : resv[j].base = x)
      <4>1. \A j \in DOMAIN resv' : resv'[j].base = x => j # i /\ resv[j].base = x
        BY <1>6, StackAssumption
      <4>2. x # h.base
        BY <1>3, <1>6, <1>7, <2>2, <4>1
      <4> QED
        BY <1>6, <1>7, <2>2, <4>1, <4>2
    <3>2. PICK q \in Owners : stack[q].base = x
      BY <3>1 DEF StackInv, StackIsSound
    <3> QED
      BY <1>7, <3>1, <3>2
  <2> QED
    BY <1>4, <1>6, <2>1, <2>2 DEF StackInv, StackIsSound
<1> QED
  BY <1>8, <1>9, <1>10 DEF StackInv

-----------------------------------------------------------------------------
\* A record that can be resumed, or that somebody is on.
Held(c) == state[c] \notin {"dead", "finished"} \/ \E t \in Threads : At(t) = c

\* No step of a thread makes use of a fiber that was not in use: a finished
\* record is left, an armed one could be resumed before it was armed.
LEMMA StepsKeepHeld ==
  ASSUME CtxInv, NEW t \in Threads, ContextStep(t), NEW c \in Fibers, Held(c)'
  PROVE  Held(c)
<1> USE ContextsAssumption
<1> DEFINE Same == \A u \in Threads : At(u)' = At(u)
<1>1. CASE Capture(t)
  <2>1. Same /\ state'[c] = state[c]
    BY <1>1 DEF Capture, At, CtxInv, CtxTypeOK
  <2> QED
    BY <2>1 DEF Held
<1>2. CASE \E x \in Contexts : Switch(t, x)
  <2>1. Same /\ state' = state
    BY <1>2 DEF Switch, Leave, Goto, Running, At, CtxInv, CtxTypeOK
  <2> QED
    BY <2>1 DEF Held
<1>3. CASE Finish(t)
  <2>1. Same /\ \A x \in Contexts : state'[x] # "finished" => state'[x] = state[x]
    BY <1>3 DEF Finish, Leave, Goto, Running, At, CtxInv, CtxTypeOK
  <2> QED
    BY <2>1 DEF Held
<1>4. CASE Look(t) \/ ArmLost(t)
  <2>1. Same /\ state' = state
    BY <1>4 DEF Look, ArmLost, Goto, At, CtxInv, CtxTypeOK
  <2> QED
    BY <2>1 DEF Held
<1>5. CASE Demote(t)
  <2>1. Same
    BY <1>5 DEF Demote, Goto, At, CtxInv, CtxTypeOK
  <2>2. state'[c] = state[c] \/ state[c] = "running"
    BY <1>5 DEF Demote, CtxInv, CtxTypeOK
  <2> QED
    BY <2>1, <2>2 DEF Held
<1>6. CASE Arm(t)
  <2>1. Same
    BY <1>6 DEF Arm, Goto, At, CtxInv, CtxTypeOK
  <2>2. state[to[t]] \in {"empty", "suspended"} /\ to[t] \in Contexts
    BY <1>6 DEF Arm, CtxInv, SwitchInv
  <2>3. state'[c] = state[c] \/ c = to[t]
    BY <1>6 DEF Arm, CtxInv, CtxTypeOK
  <2> QED
    BY <2>1, <2>2, <2>3 DEF Held
<1>7. CASE Land(t)
  <2>1. state' = state /\ \A u \in Threads \ {t} : At(u)' = At(u)
    BY <1>7 DEF Land, Goto, At, CtxInv, CtxTypeOK
  <2>2. At(t)' = to[t] /\ state[to[t]] = "running"
    BY <1>7 DEF Land, Goto, At, CtxInv, CtxTypeOK, LandInv
  <2> QED
    BY <2>1, <2>2 DEF Held
<1> QED
  BY <1>1, <1>2, <1>3, <1>4, <1>5, <1>6, <1>7 DEF ContextStep

\* A record nobody has left a stack with is nobody's context.
LEMMA LeftIsNotAt ==
  ASSUME NEW c, Left(c)
  PROVE  \A t \in Threads : At(t) # c
BY DEF Left, At

LEMMA Initially ==
  ASSUME Init
  PROVE  Inv
<1>1. HeldInv
  BY ContextsAssumption DEF Init, ContextsInit, HeldInv, At
<1> QED
  BY <1>1, ContextsInitially, StacksInitially DEF Inv

LEMMA CreateInv ==
  ASSUME Inv, NEW c \in Fibers, NEW b \in Bases, NEW n \in 1..MaxUsable,
         NEW k \in 1..(n + 1), Create(c, b, n, k)
  PROVE  Inv'
<1>1. \A t \in Threads : At(t) # c
  BY DEF Inv, CtxInv, FiberInv, Create
<1>2. CtxInv'
  BY <1>1, RecordInv DEF Inv, Create
<1>3. StackInv'
  BY StackAllocInv, FibersAssumption DEF Inv, Create
<1>4. HeldInv'
  <2>1. stack'[c] # NoStack
    BY FibersAssumption, StackAssumption
       DEF Inv, StackInv, StackTypeOK, Create, StackAlloc, NoStack
  <2>2. \A x \in Fibers \ {c} : stack'[x] = stack[x] /\ state'[x] = state[x]
    BY DEF Inv, StackInv, StackTypeOK, CtxInv, CtxTypeOK, Create, StackAlloc, ContextInit
  <2>3. \A t \in Threads : At(t)' = At(t)
    BY DEF Create, ContextInit, At
  <2> QED
    BY <2>1, <2>2, <2>3 DEF Inv, HeldInv
<1> QED
  BY <1>2, <1>3, <1>4 DEF Inv

LEMMA DestroyInv ==
  ASSUME Inv, NEW c \in Fibers, Destroy(c)
  PROVE  Inv'
<1>1. \A t \in Threads : At(t) # c
  BY LeftIsNotAt DEF Destroy
<1>2. CtxInv'
  BY <1>1, RecordInv DEF Inv, Destroy
<1>3. StackInv'
  BY DEF Inv, Destroy, stackVars, StackInv, StackTypeOK, HandleInv, StackIsSound
<1>4. HeldInv'
  <2>1. state'[c] = "dead" /\ \A x \in Fibers \ {c} : state'[x] = state[x]
    BY DEF Inv, CtxInv, CtxTypeOK, Destroy, ContextDestroy
  <2>2. stack' = stack /\ \A t \in Threads : At(t)' = At(t)
    BY DEF Destroy, ContextDestroy, At, stackVars
  <2> QED
    BY <1>1, <2>1, <2>2 DEF Inv, HeldInv
<1> QED
  BY <1>2, <1>3, <1>4 DEF Inv

LEMMA ExtendInv ==
  ASSUME Inv, NEW c \in Fibers, NEW n \in 1..MaxUsable, Extend(c, n)
  PROVE  Inv'
<1>1. StackInv'
  BY GrowInv, FibersAssumption DEF Inv, Extend
<1>2. CtxInv'
  BY DEF Inv, Extend, ctxVars, CtxInv, CtxTypeOK, SwitchInv, OneAt, TicketInv, LandInv,
         FiberInv, At
<1>3. HeldInv'
  <2>1. \A x \in Fibers : stack[x] # NoStack => stack'[x] # NoStack
    <3>1. \A x \in Fibers : stack'[x].base = stack[x].base
      BY HandleHasBase, FibersAssumption
         DEF Inv, StackInv, StackTypeOK, Extend, Grow, Handles
    <3> QED
      BY <1>1, <3>1, HandleHasBase, FibersAssumption DEF Inv, StackInv, NoStack
  <2>2. state' = state /\ \A t \in Threads : At(t)' = At(t)
    BY DEF Extend, ctxVars, At
  <2> QED
    BY <2>1, <2>2 DEF Inv, HeldInv
<1> QED
  BY <1>1, <1>2, <1>3 DEF Inv

LEMMA FreeInv ==
  ASSUME Inv, NEW c \in Fibers, Free(c)
  PROVE  Inv'
<1>1. StackInv'
  BY StackFreeInv, FibersAssumption DEF Inv, Free
<1>2. CtxInv'
  BY DEF Inv, Free, ctxVars, CtxInv, CtxTypeOK, SwitchInv, OneAt, TicketInv, LandInv,
         FiberInv, At
<1>3. HeldInv'
  <2>1. \A x \in Fibers \ {c} : stack'[x] = stack[x]
    BY DEF Inv, StackInv, StackTypeOK, Free, StackFree
  <2>2. state' = state /\ \A t \in Threads : At(t)' = At(t)
    BY DEF Free, ctxVars, At
  <2>3. state[c] \in {"dead", "finished"} /\ \A t \in Threads : At(t) # c
    BY LeftIsNotAt DEF Free
  <2> QED
    BY <2>1, <2>2, <2>3 DEF Inv, HeldInv
<1> QED
  BY <1>1, <1>2, <1>3 DEF Inv

LEMMA Inductive ==
  ASSUME Inv, [Next]_vars
  PROVE  Inv'
<1>1. CASE \E c \in Fibers, b \in Bases, n \in 1..MaxUsable :
             \E k \in 1..(n + 1) : Create(c, b, n, k)
  BY <1>1, CreateInv
<1>2. CASE \E c \in Fibers : Destroy(c) \/ Free(c) \/ \E n \in 1..MaxUsable : Extend(c, n)
  BY <1>2, DestroyInv, FreeInv, ExtendInv
<1>3. CASE \E t \in Threads : ContextStep(t) /\ UNCHANGED stackVars
  <2>1. PICK t \in Threads : ContextStep(t) /\ UNCHANGED stackVars
    BY <1>3
  <2>2. CtxInv'
    BY <2>1, ContextStepInv DEF Inv
  <2>3. StackInv' /\ stack' = stack
    BY <2>1 DEF Inv, stackVars, StackInv, StackTypeOK, HandleInv, StackIsSound
  <2>4. \A c \in Fibers : Held(c)' => Held(c)
    BY <2>1, StepsKeepHeld DEF Inv
  <2>5. HeldInv'
    BY <2>3, <2>4 DEF Inv, HeldInv, Held
  <2> QED
    BY <2>2, <2>3, <2>5 DEF Inv
<1>4. CASE UNCHANGED vars
  <2>1. CtxInv'
    BY <1>4 DEF Inv, vars, ctxVars, CtxInv, CtxTypeOK, SwitchInv, OneAt, TicketInv, LandInv,
                FiberInv, At
  <2>2. StackInv' /\ HeldInv'
    BY <1>4 DEF Inv, vars, ctxVars, stackVars, StackInv, StackTypeOK, HandleInv,
                StackIsSound, HeldInv, At
  <2> QED
    BY <2>1, <2>2 DEF Inv
<1> QED
  BY <1>1, <1>2, <1>3, <1>4 DEF Next

LEMMA AlwaysInv == Spec => []Inv
<1>1. Init => Inv
  BY Initially
<1>2. Inv /\ [Next]_vars => Inv'
  BY Inductive
<1> QED
  BY <1>1, <1>2, PTL DEF Spec

-----------------------------------------------------------------------------
\* Two threads that are on a context are at it.
LEMMA OneRunnerFollows ==
  ASSUME Inv
  PROVE  OneRunner
<1> SUFFICES ASSUME NEW t \in Threads, NEW u \in Threads, t # u, cur[t] # None,
                    cur[t] = cur[u]
             PROVE  FALSE
  BY DEF OneRunner
<1>1. At(t) = cur[t] /\ At(u) = cur[u]
  BY DEF Inv, CtxInv, SwitchInv, At
<1> QED
  BY <1>1 DEF Inv, CtxInv, OneAt

LEMMA MappedFollows ==
  ASSUME Inv
  PROVE  RunsOnMappedStack
<1> SUFFICES ASSUME NEW t \in Threads, NEW c \in Fibers,
                    cur[t] = c \/ (pc[t] = "land" /\ to[t] = c)
             PROVE  /\ stack[c] # NoStack
                    /\ mem[stack[c].base][Guard + stack[c].usable] = "rw"
  BY DEF RunsOnMappedStack
<1>1. stack[c] # NoStack
  <2>1. CASE cur[t] = c
    BY <2>1, ContextsAssumption DEF Inv, CtxInv, SwitchInv, At, HeldInv
  <2>2. CASE pc[t] = "land" /\ to[t] = c
    BY <2>2 DEF Inv, CtxInv, LandInv, HeldInv
  <2> QED
    BY <2>1, <2>2
<1>2. /\ stack[c] \in Handles /\ stack[c].committed \in 1..stack[c].usable
      /\ mem[stack[c].base] = Pages(Guard + stack[c].usable, stack[c].committed)
  BY <1>1, HandleHasBase, FibersAssumption DEF Inv, StackInv, HandleInv, StackIsSound
<1>3. /\ Guard + stack[c].usable \in 1..(Guard + stack[c].usable)
      /\ Guard + stack[c].usable > Guard + stack[c].usable - stack[c].committed
  BY <1>2, StackAssumption DEF Handles
<1> QED
  BY <1>1, <1>2, <1>3 DEF Pages

\* No two threads are ever on one context's stack, however many threads race
\* to resume it and however often the exclusive store of ms_context_switch is
\* lost and tried again.
THEOREM OneRunnerAlways == Spec => []OneRunner
<1>1. Inv => OneRunner
  BY OneRunnerFollows
<1> QED
  BY <1>1, AlwaysInv, PTL

\* Whatever fibers are created, destroyed and given back, page protections,
\* registry and handles of mjs_stack.c agree: a mapping has its guard, exactly
\* the committed span open, one registry entry, and one owner.
THEOREM StackIsSoundAlways == Spec => []StackIsSound
<1>1. Inv => StackIsSound
  BY DEF Inv, StackInv
<1> QED
  BY <1>1, AlwaysInv, PTL

\* A thread that is on a fiber, or has armed one in ms_context_switch, finds
\* the page its first frame is on mapped and accessible: the stack of a fiber
\* is not given back between the look at its state and the arming of it.
THEOREM RunsOnMappedStackAlways == Spec => []RunsOnMappedStack
<1>1. Inv => RunsOnMappedStack
  BY MappedFollows
<1> QED
  BY <1>1, AlwaysInv, PTL
==============================================================================
