------------------------- MODULE ThreadHandleProofs -------------------------
(***************************************************************************)
(* The safety of thread handles, for every set of children and statuses.   *)
(***************************************************************************)
EXTENDS ThreadHandle, TLAPS

Alive == {"running", "returned"}
Given == {"detached", "reaped"}

\* The owner's reference to c is held through *t or by a call under way.
Owned(c) == slot[c] # None \/ CallsOn(c) # {}

\* A call is made by a running thread, on one handle that no other call is on;
\* *t is the caller's until the call consumes it.
CallInv ==
  /\ \A t \in Threads :
       /\ at[t] = "idle" <=> arg[t] = None
       /\ at[t] # "idle" => Running(t)
       /\ at[t] \in {"joining", "reaped", "detaching"} => slot[arg[t]] = t
       /\ at[t] \in {"spawned", "consumed"} => slot[arg[t]] = None
  /\ \A t, u \in Threads : arg[t] = arg[u] /\ arg[t] # None => t = u

\* refs counts the trampoline and the owner, and the memory goes with the last.
RefInv ==
  \A c \in Children :
    /\ refs[c] = (IF life[c] \in Alive THEN 1 ELSE 0) + (IF Owned(c) THEN 1 ELSE 0)
    /\ allocated[c] <=> refs[c] # 0

\* A handle does not precede its thread, and the owner's reference is given up
\* only with the pthread.
LifeInv ==
  /\ \A c \in Children : life[c] = "unborn" => ~Owned(c)
  /\ \A c \in Children : life[c] # "unborn" /\ ~Owned(c) => os[c] \in Given
  /\ \A t \in Threads : at[t] = "consumed" => os[arg[t]] \in Given

\* What a join may rely on.
JoinInv ==
  /\ \A c \in Children : life[c] \in {"returned", "exited"} => status[c] \in Values
  /\ \A t \in Threads :
       at[t] = "reaped" => life[arg[t]] = "exited" /\ os[arg[t]] = "reaped"

\* While a detach is under way no join can be.
DetachInv ==
  \A t \in Threads : at[t] = "detaching" => state[arg[t]] = "DETACHED"

\* The inductive invariant.
Inv ==
  /\ TypeOK
  /\ CallInv
  /\ RefInv
  /\ LifeInv
  /\ JoinInv
  /\ DetachInv
  /\ FailedJoinLeavesJoinable

-----------------------------------------------------------------------------
\* Initially.
LEMMA InvInitially ==
  ASSUME Init
  PROVE  Inv
<1>1. TypeOK /\ CallInv /\ JoinInv /\ DetachInv /\ FailedJoinLeavesJoinable
  BY ThreadAssumption
     DEF Init, TypeOK, CallInv, JoinInv, DetachInv, FailedJoinLeavesJoinable, CallsOn,
         Threads
<1>2. \A c \in Children : ~Owned(c)
  BY ThreadAssumption DEF Init, Owned, CallsOn
<1>3. RefInv /\ LifeInv
  BY <1>2 DEF Init, RefInv, LifeInv, Alive, Threads
<1> QED
  BY <1>1, <1>3 DEF Inv

\* A handle that some call is on is a child's, and owned.
LEMMA CallOwns ==
  ASSUME Inv, NEW t \in Threads, at[t] # "idle"
  PROVE  /\ arg[t] \in Children /\ t \in CallsOn(arg[t]) /\ Owned(arg[t])
         /\ \A u \in Threads : arg[u] = arg[t] => u = t
         /\ \A u \in Threads : u # t => u \notin CallsOn(arg[t])
BY DEF Inv, TypeOK, CallInv, CallsOn, Owned

\* mjs_thread_spawn makes a handle with both references.
LEMMA SpawnKeepsInv ==
  ASSUME Inv, NEW t \in Threads, NEW c \in Children, Spawn(t, c)
  PROVE  Inv'
<1>1. /\ at[t] = "idle" /\ arg[t] = None /\ Running(t) /\ life[c] = "unborn" /\ ~Owned(c)
      /\ t # c
  BY ThreadAssumption DEF Spawn, Idle, Running, Inv, CallInv, LifeInv
<1>2. /\ refs' = [refs EXCEPT ![c] = 2] /\ state' = [state EXCEPT ![c] = "JOINABLE"]
      /\ allocated' = [allocated EXCEPT ![c] = TRUE]
      /\ life' = [life EXCEPT ![c] = "running"] /\ os' = [os EXCEPT ![c] = "joinable"]
      /\ at' = [at EXCEPT ![t] = "spawned"] /\ arg' = [arg EXCEPT ![t] = c]
      /\ status' = status /\ slot' = slot /\ result' = result
  BY DEF Spawn, Enter, Step
<1>3. Owned(c)' /\ \A d \in Children \ {c} : Owned(d)' <=> Owned(d)
  <2>1. t \in CallsOn(c)'
    BY <1>2 DEF CallsOn, Inv, TypeOK
  <2>2. \A d \in Children \ {c} : CallsOn(d)' = CallsOn(d)
    BY <1>1, <1>2, ThreadAssumption DEF CallsOn, Inv, TypeOK
  <2> QED
    BY <1>2, <2>1, <2>2 DEF Owned
<1>4. TypeOK'
  BY <1>2 DEF Inv, TypeOK
<1>5. CallInv'
  BY <1>1, <1>2, ThreadAssumption DEF Inv, TypeOK, CallInv, Running, Owned, CallsOn, Threads
<1>6. RefInv'
  BY <1>2, <1>3 DEF Inv, TypeOK, RefInv, Alive
<1>7. LifeInv'
  <2>1. \A u \in Threads : at[u] = "consumed" => arg[u] # c
    BY <1>1, CallOwns
  <2> QED
    BY <1>1, <1>2, <1>3, <2>1 DEF Inv, TypeOK, LifeInv, CallInv
<1>8. JoinInv' /\ DetachInv' /\ FailedJoinLeavesJoinable'
  <2>1. \A u \in Threads : at[u] # "idle" => arg[u] # c
    BY <1>1, CallOwns
  <2> QED
    BY <1>1, <1>2, <2>1
       DEF Inv, TypeOK, JoinInv, DetachInv, CallInv, FailedJoinLeavesJoinable, CallsOn
<1> QED
  BY <1>4, <1>5, <1>6, <1>7, <1>8 DEF Inv

\* *out = h, or a move of *t: the owner's reference changes hands.
LEMMA OwnerMovesKeepsInv ==
  ASSUME Inv, NEW t \in Threads,
         SpawnReturns(t) \/ \E u \in Threads, c \in Children : Move(t, u, c)
  PROVE  Inv'
<1>1. CASE SpawnReturns(t)
  <2>1. at[t] = "spawned" /\ arg[t] \in Children /\ slot[arg[t]] = None
    BY <1>1, CallOwns DEF SpawnReturns, Inv, CallInv
  <2>2. /\ slot' = [slot EXCEPT ![arg[t]] = t]
        /\ at' = [at EXCEPT ![t] = "idle"] /\ arg' = [arg EXCEPT ![t] = None]
        /\ UNCHANGED <<refs, state, status, allocated, life, os, result>>
    BY <1>1 DEF SpawnReturns, Exit, Enter, Step, handleVars
  <2>3. \A d \in Children : Owned(d)' <=> Owned(d)
    BY <2>1, <2>2, CallOwns, ThreadAssumption DEF Owned, CallsOn, Inv, TypeOK, Threads
  <2>4. TypeOK'
    BY <2>1, <2>2 DEF Inv, TypeOK
  <2>5. CallInv'
    BY <2>1, <2>2, CallOwns DEF Inv, TypeOK, CallInv, Running
  <2>6. RefInv' /\ LifeInv'
    BY <2>2, <2>3 DEF Inv, TypeOK, RefInv, LifeInv
  <2>7. JoinInv' /\ DetachInv' /\ FailedJoinLeavesJoinable'
    BY <2>1, <2>2 DEF Inv, TypeOK, JoinInv, DetachInv, FailedJoinLeavesJoinable, CallsOn
  <2> QED
    BY <2>4, <2>5, <2>6, <2>7 DEF Inv
<1>2. ASSUME NEW u \in Threads, NEW c \in Children, Move(t, u, c)
      PROVE  Inv'
  <2>1. /\ slot[c] = t /\ at[t] = "idle" /\ slot' = [slot EXCEPT ![c] = u]
        /\ UNCHANGED <<refs, state, status, allocated, life, os, at, arg, result>>
    BY <1>2 DEF Move, Idle, handleVars
  <2>2. \A d \in Children : Owned(d)' <=> Owned(d)
    BY <2>1, ThreadAssumption DEF Owned, CallsOn, Inv, TypeOK, Threads
  <2>3. TypeOK'
    BY <2>1 DEF Inv, TypeOK
  <2>4. CallInv'
    <3>1. \A v \in Threads : at[v] # "idle" => arg[v] # c
      BY <2>1, ThreadAssumption DEF Inv, TypeOK, CallInv, Threads
    <3> QED
      BY <2>1, <3>1 DEF Inv, TypeOK, CallInv, Running
  <2>5. RefInv' /\ LifeInv' /\ JoinInv' /\ DetachInv' /\ FailedJoinLeavesJoinable'
    BY <2>1, <2>2
       DEF Inv, TypeOK, RefInv, LifeInv, JoinInv, DetachInv, FailedJoinLeavesJoinable, CallsOn
  <2> QED
    BY <2>3, <2>4, <2>5 DEF Inv
<1> QED
  BY <1>1, <1>2

\* The entry function returns: nothing but the status and the child's life move.
LEMMA EntryReturnsKeepsInv ==
  ASSUME Inv, NEW c \in Children, NEW v \in Values, EntryReturns(c, v)
  PROVE  Inv'
<1>1. /\ life[c] = "running" /\ at[c] = "idle"
      /\ status' = [status EXCEPT ![c] = v] /\ life' = [life EXCEPT ![c] = "returned"]
      /\ UNCHANGED <<refs, state, allocated, slot, os, at, arg, result>>
  BY ThreadAssumption DEF EntryReturns, Idle, Running
<1>2. \A d \in Children : Owned(d)' <=> Owned(d)
  BY <1>1 DEF Owned, CallsOn
<1>3. TypeOK' /\ CallInv'
  BY <1>1 DEF Inv, TypeOK, CallInv, Running, Threads
<1>4. RefInv' /\ LifeInv' /\ JoinInv' /\ DetachInv' /\ FailedJoinLeavesJoinable'
  BY <1>1, <1>2
     DEF Inv, TypeOK, RefInv, Alive, LifeInv, JoinInv, DetachInv, FailedJoinLeavesJoinable, CallsOn
<1> QED
  BY <1>3, <1>4 DEF Inv

\* The trampoline drops its reference; if it is the last, it frees the handle.
LEMMA TrampolineEndsKeepsInv ==
  ASSUME Inv, NEW c \in Children, TrampolineEnds(c)
  PROVE  Inv'
<1>1. /\ life[c] = "returned" /\ refs' = [refs EXCEPT ![c] = @ - 1]
      /\ allocated' = [allocated EXCEPT ![c] = @ /\ refs[c] # 1]
      /\ life' = [life EXCEPT ![c] = "exited"]
      /\ UNCHANGED <<state, status, slot, os, at, arg, result>>
  BY DEF TrampolineEnds, unref
<1>2. \A d \in Children : Owned(d)' <=> Owned(d)
  BY <1>1 DEF Owned, CallsOn
<1>3. refs[c] \in {1, 2} /\ refs'[c] = refs[c] - 1 /\ (allocated'[c] <=> refs[c] = 2)
  <2>1. refs[c] = 1 + (IF Owned(c) THEN 1 ELSE 0)
    BY <1>1 DEF Inv, RefInv, Alive
  <2>2. refs[c] \in {1, 2} /\ allocated[c]
    BY <2>1 DEF Inv, RefInv
  <2>3. refs'[c] = refs[c] - 1
    BY <1>1 DEF Inv, TypeOK
  <2>4. allocated'[c] <=> allocated[c] /\ refs[c] # 1
    <3>1. c \in DOMAIN allocated
      BY DEF Inv, TypeOK
    <3> QED
      BY <1>1, <3>1, Zenon
  <2> QED
    BY <2>2, <2>3, <2>4
<1>4. TypeOK' /\ CallInv'
  BY <1>1, <1>3 DEF Inv, TypeOK, CallInv, Running, Threads
<1>5. RefInv'
  <2>1. ASSUME NEW d \in Children, d # c
        PROVE  refs'[d] = refs[d] /\ life'[d] = life[d] /\ (allocated'[d] <=> allocated[d])
    BY <1>1, <2>1 DEF Inv, TypeOK
  <2>2. life'[c] = "exited"
    BY <1>1 DEF Inv, TypeOK
  <2> QED
    BY <1>1, <1>2, <1>3, <2>1, <2>2 DEF Inv, RefInv, Alive
<1>6. LifeInv' /\ JoinInv' /\ DetachInv' /\ FailedJoinLeavesJoinable'
  BY <1>1, <1>2
     DEF Inv, TypeOK, LifeInv, JoinInv, DetachInv, FailedJoinLeavesJoinable, CallsOn
<1> QED
  BY <1>4, <1>5, <1>6 DEF Inv

\* Join and detach claim the handle by the compare-and-swap.
LEMMA ClaimKeepsInv ==
  ASSUME Inv, NEW t \in Threads, NEW c \in Children, Join(t, c) \/ Detach(t, c)
  PROVE  Inv'
<1>1. /\ at[t] = "idle" /\ arg[t] = None /\ Running(t) /\ slot[c] = t
      /\ UNCHANGED <<refs, status, allocated, slot, life, os, result>>
      /\ arg' = [arg EXCEPT ![t] = c]
  BY DEF Join, Detach, Idle, Enter, Inv, CallInv
<1>2. \/ at' = [at EXCEPT ![t] = "joining"] /\ state' = [state EXCEPT ![c] = "JOINED"]
      \/ at' = [at EXCEPT ![t] = "detaching"] /\ state' = [state EXCEPT ![c] = "DETACHED"]
  BY DEF Join, Detach, Enter, Step
<1>3. \A u \in Threads : arg[u] # c
  BY <1>1, ThreadAssumption DEF Inv, TypeOK, CallInv, Threads
<1>4. \A d \in Children : Owned(d)' <=> Owned(d)
  <2>1. \A d \in Children \ {c} : CallsOn(d)' = CallsOn(d)
    BY <1>1, ThreadAssumption DEF CallsOn, Inv, TypeOK
  <2> QED
    BY <1>1, <2>1, ThreadAssumption DEF Owned, Threads
<1>5. TypeOK'
  BY <1>1, <1>2 DEF Inv, TypeOK
<1>6. CallInv'
  BY <1>1, <1>2, <1>3, ThreadAssumption DEF Inv, TypeOK, CallInv, Running
<1>7. RefInv'
  BY <1>1, <1>4 DEF Inv, RefInv
<1>8. LifeInv'
  BY <1>1, <1>2, <1>3, <1>4 DEF Inv, TypeOK, LifeInv
<1>9. JoinInv' /\ DetachInv'
  <2>1. JoinInv'
    BY <1>1, <1>2 DEF Inv, TypeOK, JoinInv
  <2>2. ASSUME NEW u \in Threads, u # t, at'[u] = "detaching"
        PROVE  state'[arg'[u]] = "DETACHED"
    <3>1. at[u] = "detaching" /\ arg'[u] = arg[u] /\ arg[u] \in Children \ {c}
      BY <1>1, <1>2, <1>3, <2>2, CallOwns DEF Inv, TypeOK
    <3> QED
      BY <1>2, <3>1 DEF Inv, TypeOK, DetachInv
  <2>3. ASSUME at'[t] = "detaching"
        PROVE  state'[arg'[t]] = "DETACHED"
    BY <1>1, <1>2, <2>3 DEF Inv, TypeOK
  <2> QED
    BY <2>1, <2>2, <2>3 DEF DetachInv
<1>10. FailedJoinLeavesJoinable'
  <2>1. ASSUME NEW d \in Children, d # c, state'[d] = "JOINED"
        PROVE  os'[d] = "reaped" \/ \E u \in CallsOn(d)' : at'[u] = "joining"
    BY <1>1, <1>2, <2>1, ThreadAssumption
       DEF Inv, TypeOK, FailedJoinLeavesJoinable, CallsOn
  <2>2. ASSUME state'[c] = "JOINED"
        PROVE  t \in CallsOn(c)' /\ at'[t] = "joining"
    BY <1>1, <1>2, <2>2 DEF Inv, TypeOK, CallsOn
  <2> QED
    BY <2>1, <2>2 DEF FailedJoinLeavesJoinable
<1> QED
  BY <1>5, <1>6, <1>7, <1>8, <1>9, <1>10 DEF Inv

\* pthread_join succeeds.
LEMMA ReapedKeepsInv ==
  ASSUME Inv, NEW t \in Threads, Reaped(t)
  PROVE  Inv'
<1>1. /\ at[t] = "joining" /\ arg[t] \in Children /\ life[arg[t]] = "exited"
      /\ os' = [os EXCEPT ![arg[t]] = "reaped"] /\ at' = [at EXCEPT ![t] = "reaped"]
      /\ UNCHANGED <<refs, state, status, allocated, slot, life, arg, result>>
  BY CallOwns DEF Reaped, Step, handleVars
<1>2. \A d \in Children : Owned(d)' <=> Owned(d)
  BY <1>1 DEF Owned, CallsOn
<1>3. TypeOK' /\ CallInv'
  BY <1>1 DEF Inv, TypeOK, CallInv, Running
<1>4. RefInv' /\ LifeInv'
  BY <1>1, <1>2 DEF Inv, TypeOK, RefInv, LifeInv, Given
<1>5. JoinInv' /\ DetachInv' /\ FailedJoinLeavesJoinable'
  BY <1>1 DEF Inv, TypeOK, JoinInv, DetachInv, FailedJoinLeavesJoinable, CallsOn
<1> QED
  BY <1>3, <1>4, <1>5 DEF Inv

\* *t = NULL, in join after the status was published and in detach after
\* pthread_detach: the owner's reference is now the call's.
LEMMA ConsumeKeepsInv ==
  ASSUME Inv, NEW t \in Threads, Publish(t) \/ Detached(t)
  PROVE  Inv'
<1>1. /\ at[t] \in {"reaped", "detaching"} /\ arg[t] \in Children
      /\ slot' = [slot EXCEPT ![arg[t]] = None] /\ at' = [at EXCEPT ![t] = "consumed"]
      /\ UNCHANGED <<refs, state, status, allocated, life, arg>>
  BY CallOwns DEF Publish, Detached, Step, handleVars
<1>2. /\ os' \in [Children -> {"none", "joinable", "detached", "reaped"}]
      /\ os'[arg[t]] \in Given
      /\ \A d \in Children : os'[d] # os[d] => d = arg[t] /\ at[t] = "detaching"
  BY <1>1 DEF Publish, Detached, Inv, TypeOK, JoinInv, Given
<1>3. result' \in [Threads -> Values \cup {None}]
  BY <1>1 DEF Publish, Detached, Inv, TypeOK
<1>4. \A d \in Children : CallsOn(d)' = CallsOn(d)
  BY <1>1 DEF CallsOn
<1>5. \A d \in Children : Owned(d)' <=> Owned(d)
  BY <1>1, <1>4, CallOwns DEF Owned, Inv, TypeOK
<1>6. TypeOK'
  BY <1>1, <1>2, <1>3 DEF Inv, TypeOK
<1>7. CallInv'
  BY <1>1, CallOwns DEF Inv, TypeOK, CallInv, Running
<1>8. RefInv'
  BY <1>1, <1>5 DEF Inv, RefInv
<1>9. LifeInv'
  <2>1. \A d \in Children : os[d] \in Given => os'[d] \in Given
    BY <1>2
  <2> QED
    BY <1>1, <1>2, <1>5, <2>1, CallOwns DEF Inv, TypeOK, LifeInv, CallInv
<1>10. JoinInv' /\ DetachInv'
  <2>1. \A u \in Threads : at'[u] = "reaped" => u # t /\ at[u] = "reaped" /\ arg[u] # arg[t]
    BY <1>1, CallOwns DEF Inv, TypeOK
  <2>2. \A u \in Threads : at[u] = "reaped" => arg[u] \in Children
    BY CallOwns
  <2> QED
    BY <1>1, <1>2, <2>1, <2>2 DEF Inv, TypeOK, JoinInv, DetachInv
<1>11. FailedJoinLeavesJoinable'
  <2> SUFFICES ASSUME NEW d \in Children, state'[d] = "JOINED"
               PROVE  os'[d] = "reaped" \/ \E u \in CallsOn(d)' : at'[u] = "joining"
    BY DEF FailedJoinLeavesJoinable
  <2>1. CASE \E u \in CallsOn(d) : at[u] = "joining"
    BY <1>1, <1>4, <2>1 DEF Inv, TypeOK, CallsOn
  <2>2. CASE os[d] = "reaped" /\ ~\E u \in CallsOn(d) : at[u] = "joining"
    <3>1. CASE at[t] = "reaped"
      BY <2>2, <3>1, <1>2
    <3>2. CASE at[t] = "detaching" /\ d # arg[t]
      BY <2>2, <3>2, <1>2
    <3>3. CASE at[t] = "detaching" /\ d = arg[t]
      BY <3>3, <1>1 DEF Inv, DetachInv
    <3> QED
      BY <3>1, <3>2, <3>3, <1>1
  <2> QED
    BY <2>1, <2>2, <1>1 DEF Inv, FailedJoinLeavesJoinable
<1> QED
  BY <1>6, <1>7, <1>8, <1>9, <1>10, <1>11 DEF Inv

\* A refused pthread_join is rolled back; a refused pthread_detach just returns.
LEMMA RefusedKeepsInv ==
  ASSUME Inv, NEW t \in Threads, JoinFails(t) \/ DetachFails(t)
  PROVE  Inv'
<1>1. /\ at[t] \in {"joining", "detaching"} /\ arg[t] \in Children /\ slot[arg[t]] = t
      /\ at' = [at EXCEPT ![t] = "idle"] /\ arg' = [arg EXCEPT ![t] = None]
      /\ UNCHANGED <<refs, status, allocated, slot, life, os, result>>
  BY CallOwns DEF JoinFails, DetachFails, Exit, Enter, Step, handleVars, Inv, CallInv
<1>2. /\ state' \in [Children -> {"none", "JOINABLE", "DETACHED", "JOINED"}]
      /\ \A d \in Children \ {arg[t]} : state'[d] = state[d]
      /\ state'[arg[t]] # "JOINED"
      /\ state'[arg[t]] # state[arg[t]] => at[t] = "joining"
  BY <1>1 DEF JoinFails, DetachFails, handleVars, Inv, TypeOK, DetachInv
<1>3. \A d \in Children : Owned(d)' <=> Owned(d)
  <2>1. \A d \in Children \ {arg[t]} : CallsOn(d)' = CallsOn(d)
    BY <1>1, ThreadAssumption DEF CallsOn, Inv, TypeOK
  <2> QED
    BY <1>1, <2>1, ThreadAssumption DEF Owned, Threads
<1>4. TypeOK'
  BY <1>1, <1>2 DEF Inv, TypeOK
<1>5. CallInv'
  BY <1>1, CallOwns DEF Inv, TypeOK, CallInv, Running
<1>6. RefInv' /\ LifeInv' /\ JoinInv'
  BY <1>1, <1>3 DEF Inv, TypeOK, RefInv, LifeInv, JoinInv
<1>7. FailedJoinLeavesJoinable'
  BY <1>1, <1>2 DEF Inv, TypeOK, FailedJoinLeavesJoinable, CallsOn
<1>8. DetachInv'
  BY <1>1, <1>2, CallOwns DEF Inv, TypeOK, DetachInv
<1> QED
  BY <1>4, <1>5, <1>6, <1>7, <1>8 DEF Inv

\* The owner's side drops its reference; if it is the last, it frees the handle.
LEMMA OwnerUnrefKeepsInv ==
  ASSUME Inv, NEW t \in Threads, OwnerUnref(t)
  PROVE  Inv'
<1>0. PICK c \in Children : c = arg[t]
  BY CallOwns DEF OwnerUnref
<1>1. /\ at[t] = "consumed" /\ arg[t] = c /\ slot[c] = None /\ Owned(c)
      /\ os[c] \in Given /\ life[c] # "unborn"
  BY <1>0, CallOwns DEF OwnerUnref, Inv, CallInv, LifeInv
<1>2. /\ refs' = [refs EXCEPT ![c] = @ - 1]
      /\ allocated' = [allocated EXCEPT ![c] = @ /\ refs[c] # 1]
      /\ at' = [at EXCEPT ![t] = "idle"] /\ arg' = [arg EXCEPT ![t] = None]
      /\ UNCHANGED <<state, status, slot, life, os, result>>
  BY <1>0 DEF OwnerUnref, unref, Exit, Enter, Step
<1>3. ~Owned(c)' /\ \A d \in Children \ {c} : Owned(d)' <=> Owned(d)
  <2>1. CallsOn(c)' = {}
    BY <1>1, <1>2, CallOwns, ThreadAssumption DEF CallsOn, Inv, TypeOK
  <2>2. \A d \in Children \ {c} : CallsOn(d)' = CallsOn(d)
    BY <1>1, <1>2, ThreadAssumption DEF CallsOn, Inv, TypeOK
  <2>3. slot' = slot
    BY <1>2
  <2> QED
    BY <1>1, <2>1, <2>2, <2>3 DEF Owned
<1>4. refs[c] \in {1, 2} /\ refs'[c] = refs[c] - 1 /\ (allocated'[c] <=> refs[c] = 2)
  <2>1. refs[c] = (IF life[c] \in Alive THEN 1 ELSE 0) + 1
    BY <1>1 DEF Inv, RefInv
  <2>2. refs[c] \in {1, 2} /\ allocated[c]
    BY <1>1, <2>1 DEF Inv, RefInv
  <2>3. refs'[c] = refs[c] - 1
    BY <1>1, <1>2 DEF Inv, TypeOK
  <2>4. allocated'[c] <=> allocated[c] /\ refs[c] # 1
    <3>1. c \in DOMAIN allocated
      BY <1>1 DEF Inv, TypeOK
    <3> QED
      BY <1>2, <3>1, Zenon
  <2> QED
    BY <2>2, <2>3, <2>4
<1>5. TypeOK'
  BY <1>1, <1>2, <1>4 DEF Inv, TypeOK
<1>6. CallInv'
  BY <1>1, <1>2, CallOwns DEF Inv, TypeOK, CallInv, Running
<1>7. RefInv'
  <2>1. ASSUME NEW d \in Children, d # c
        PROVE  refs'[d] = refs[d] /\ (allocated'[d] <=> allocated[d])
    BY <1>1, <1>2, <2>1 DEF Inv, TypeOK
  <2>2. refs[c] = (IF life[c] \in Alive THEN 1 ELSE 0) + 1
    BY <1>1 DEF Inv, RefInv
  <2>3. life' = life
    BY <1>2
  <2> QED
    BY <1>1, <1>3, <1>4, <2>1, <2>2, <2>3 DEF Inv, RefInv
<1>8. LifeInv'
  BY <1>1, <1>2, <1>3 DEF Inv, TypeOK, LifeInv
<1>9. JoinInv' /\ DetachInv' /\ FailedJoinLeavesJoinable'
  BY <1>1, <1>2 DEF Inv, TypeOK, JoinInv, DetachInv, FailedJoinLeavesJoinable, CallsOn
<1> QED
  BY <1>5, <1>6, <1>7, <1>8, <1>9 DEF Inv

\* A step that changes nothing.
LEMMA StutterKeepsInv ==
  ASSUME Inv, UNCHANGED vars
  PROVE  Inv'
BY DEF vars, handleVars, Inv, TypeOK, CallInv, RefInv, LifeInv, JoinInv, DetachInv,
       FailedJoinLeavesJoinable, Owned, CallsOn, Running

\* Every step of every thread preserves the invariant.
LEMMA NextKeepsInv ==
  ASSUME Inv, [Next]_vars
  PROVE  Inv'
<1>1. ASSUME NEW t \in Threads, NEW c \in Children,
             \/ Spawn(t, c) \/ Join(t, c) \/ Detach(t, c)
             \/ \E u \in Threads : Move(t, u, c)
      PROVE  Inv'
  BY <1>1, SpawnKeepsInv, ClaimKeepsInv, OwnerMovesKeepsInv
<1>2. ASSUME NEW c \in Children,
             TrampolineEnds(c) \/ \E v \in Values : EntryReturns(c, v)
      PROVE  Inv'
  BY <1>2, TrampolineEndsKeepsInv, EntryReturnsKeepsInv
<1>3. ASSUME NEW t \in Threads,
             \/ SpawnReturns(t)
             \/ Reaped(t) \/ Publish(t) \/ JoinFails(t)
             \/ Detached(t) \/ DetachFails(t)
             \/ OwnerUnref(t)
      PROVE  Inv'
  BY <1>3, OwnerMovesKeepsInv, ReapedKeepsInv, ConsumeKeepsInv, RefusedKeepsInv,
     OwnerUnrefKeepsInv
<1> QED
  BY <1>1, <1>2, <1>3, StutterKeepsInv DEF Next

-----------------------------------------------------------------------------
\* The reference counts are exact, calls own what they work on, and a failed
\* join is undone, in every state the threads of mjs_thread.c can reach.
THEOREM ThreadInvariant == Spec => []Inv
<1>1. Init => Inv
  BY InvInitially
<1>2. Inv /\ [Next]_vars => Inv'
  BY NextKeepsInv
<1> QED
  BY <1>1, <1>2, PTL DEF Spec

\* h->refs stays in 0..2 and every field in its type.
THEOREM ThreadTypeCorrect == Spec => []TypeOK
<1>1. Inv => TypeOK
  BY DEF Inv
<1> QED
  BY <1>1, ThreadInvariant, PTL

\* A handle's memory lives exactly as long as somebody can reach it: no use
\* after free and no leak, whoever of owner and trampoline is last.
THEOREM ThreadFreedByTheLast == Spec => []FreedByTheLast
<1>1. Inv => FreedByTheLast
  BY DEF Inv, RefInv, Owned, Alive, FreedByTheLast
<1> QED
  BY <1>1, ThreadInvariant, PTL

\* A freed handle's pthread was joined or detached.
THEOREM ThreadNothingOutlivesExit == Spec => []NothingOutlivesExit
<1>1. Inv => NothingOutlivesExit
  BY DEF Inv, RefInv, LifeInv, Given, Alive, NothingOutlivesExit
<1> QED
  BY <1>1, ThreadInvariant, PTL

\* A mjs_thread_join that failed leaves the handle joinable.
THEOREM ThreadFailedJoinLeavesJoinable == Spec => []FailedJoinLeavesJoinable
<1>1. Inv => FailedJoinLeavesJoinable
  BY DEF Inv
<1> QED
  BY <1>1, ThreadInvariant, PTL

\* What a thread's step may do to a *out_result.
JoinStep ==
  \A t \in Threads :
    result'[t] # result[t] \/ (at[t] = "reaped" /\ at'[t] = "consumed") =>
      /\ life[arg[t]] = "exited"
      /\ result'[t] = status[arg[t]] /\ result'[t] \in Values

\* Only the assignment of Publish gives out a status, and the one it gives out
\* was stored by the child before it ended.
LEMMA NextIsJoinStep ==
  ASSUME Inv, [Next]_vars
  PROVE  JoinStep
<1>1. ASSUME NEW t \in Threads, Publish(t)
      PROVE  JoinStep
  <2>1. /\ at[t] = "reaped" /\ arg[t] \in Children /\ life[arg[t]] = "exited"
        /\ status[arg[t]] \in Values
    BY <1>1, CallOwns DEF Publish, Inv, JoinInv
  <2>2. /\ result' = [result EXCEPT ![t] = status[arg[t]]]
        /\ at' = [at EXCEPT ![t] = "consumed"]
    BY <1>1 DEF Publish, Step
  <2> QED
    BY <2>1, <2>2 DEF Inv, TypeOK, JoinStep
<1>2. ASSUME result' = result,
             \A t \in Threads : at[t] = "reaped" => at'[t] # "consumed"
      PROVE  JoinStep
  BY <1>2 DEF JoinStep
<1>3. ASSUME NEW t \in Threads, NEW l, at[t] # "reaped" \/ l # "consumed",
             at' = [at EXCEPT ![t] = l], result' = result
      PROVE  JoinStep
  BY <1>2, <1>3 DEF Inv, TypeOK
<1>4. ASSUME UNCHANGED <<at, result>>
      PROVE  JoinStep
  BY <1>2, <1>4
<1>5. ASSUME NEW t \in Threads, NEW c \in Children,
             \/ Spawn(t, c) \/ Join(t, c) \/ Detach(t, c)
             \/ \E u \in Threads : Move(t, u, c)
      PROVE  JoinStep
  BY <1>3, <1>4, <1>5 DEF Spawn, Join, Detach, Move, Enter, Step
<1>6. ASSUME NEW c \in Children,
             TrampolineEnds(c) \/ \E v \in Values : EntryReturns(c, v)
      PROVE  JoinStep
  BY <1>4, <1>6 DEF TrampolineEnds, EntryReturns
<1>7. ASSUME NEW t \in Threads,
             \/ SpawnReturns(t)
             \/ Reaped(t) \/ JoinFails(t)
             \/ Detached(t) \/ DetachFails(t)
             \/ OwnerUnref(t)
      PROVE  JoinStep
  BY <1>3, <1>7
     DEF SpawnReturns, Reaped, JoinFails, Detached, DetachFails, OwnerUnref, Exit, Enter, Step
<1> QED
  BY <1>1, <1>4, <1>5, <1>6, <1>7 DEF Next, vars

\* A successful mjs_thread_join hands out the child's own status, after it ended.
THEOREM ThreadJoinGetsStatus == Spec => JoinGetsStatus
<1>1. Inv /\ [Next]_vars => [JoinStep]_vars
  BY NextIsJoinStep
<1>2. Spec => [][JoinStep]_vars
  BY <1>1, ThreadInvariant, PTL DEF Spec
<1> QED
  BY <1>2 DEF JoinGetsStatus, JoinStep
=============================================================================
