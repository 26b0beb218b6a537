------------------------------ MODULE TlsProofs ------------------------------
(***************************************************************************)
(* The safety of thread-local storage keys, for every set of threads, host *)
(* keys and values and every number of ids.                                *)
(***************************************************************************)
EXTENDS Tls, SequenceTheorems, TLAPS

Live(s) == s \in DOMAIN slots /\ slots[s].live
Creating(t) == pc[t] \in {"entry", "locked"} /\ call[t].op = "create"

\* g_tls_lock is held exactly by the call that is in its locked part.
LockInv == \A t \in Threads : pc[t] \in {"locked", "use"} <=> lock = t

\* Live slots and calls under way own host keys that exist, no two the same,
\* and every host key has an owner.
OwnInv ==
  /\ \A s \in DOMAIN slots : Live(s) => slots[s].key \in host
  /\ \A t \in Threads : OwnsKey(t) => call[t].key \in host
  /\ \A s, r \in DOMAIN slots :
       Live(s) /\ Live(r) /\ slots[s].key = slots[r].key => s = r
  /\ \A t, u \in Threads :
       OwnsKey(t) /\ OwnsKey(u) /\ call[t].key = call[u].key => t = u
  /\ \A s \in DOMAIN slots, t \in Threads :
       Live(s) /\ OwnsKey(t) => slots[s].key # call[t].key
  /\ \A k \in host : \/ \E s \in DOMAIN slots : Live(s) /\ slots[s].key = k
                     \/ \E t \in Threads : OwnsKey(t) /\ call[t].key = k

\* No two live slots have one id.
IdInv == \A s, r \in DOMAIN slots :
           Live(s) /\ Live(r) /\ slots[s].id = slots[r].id => s = r

\* The host key of a live id holds what was bound under the id; nothing has
\* been bound under an id that is not minted yet, or to a key that is new.
ValueInv ==
  /\ \A s \in DOMAIN slots, t \in Threads :
       Live(s) => bound[t][slots[s].key] = meant[t][slots[s].id]
  /\ \A t \in Threads, i \in Ids : g_next_id <= i => meant[t][i] = None
  /\ \A t, u \in Threads : Creating(t) => bound[u][call[t].key] = None

\* A call at its host call has the key of a live slot.
UseInv ==
  \A t \in Threads : pc[t] = "use" =>
    \E s \in DOMAIN slots : /\ Live(s) /\ slots[s].id = call[t].id
                            /\ slots[s].key = call[t].key

\* The inductive invariant.
Inv == TypeOK /\ LockInv /\ OwnInv /\ IdInv /\ ValueInv /\ UseInv

-----------------------------------------------------------------------------
\* What a slot is made of.
LEMMA SlotType ==
  ASSUME TypeOK, NEW s \in DOMAIN slots
  PROVE  /\ slots[s] \in Slot /\ slots[s].key \in Keys
         /\ slots[s].id \in Ids /\ slots[s].id < g_next_id
<1>1. slots \in Seq(Slot) /\ s \in 1..Len(slots)
  BY DEF TypeOK
<1>2. slots[s] \in Slot
  BY <1>1, ElementOfSeq
<1> QED
  BY <1>2 DEF TypeOK, Slot

\* Storing a key in a call keeps its type.
LEMMA CallType ==
  ASSUME TypeOK, NEW t \in Threads, NEW k \in Keys
  PROVE  /\ [call EXCEPT ![t].key = k] \in
              [Threads -> [op : Ops, id : Ids \cup {0}, val : Values \cup {None},
                           key : Keys \cup {None}]]
         /\ [call EXCEPT ![t].key = k][t].key = k
         /\ [call EXCEPT ![t].key = k][t].id = call[t].id
         /\ \A u \in Threads \ {t} : [call EXCEPT ![t].key = k][u] = call[u]
  BY DEF TypeOK

\* Initially there is nothing.
LEMMA InvInitially ==
  ASSUME Init
  PROVE  Inv
<1> USE DEF Init, Live, OwnsKey, Creating, NoCall
<1>1. DOMAIN slots = {}
  OBVIOUS
<1>2. TypeOK
  BY <1>1, TlsAssumption, EmptySeq DEF TypeOK, Ops, Ids
<1>3. LockInv
  BY TlsAssumption DEF LockInv
<1>4. OwnInv
  BY <1>1 DEF OwnInv
<1>5. IdInv /\ ValueInv /\ UseInv
  BY <1>1 DEF IdInv, ValueInv, UseInv
<1> QED
  BY <1>2, <1>3, <1>4, <1>5 DEF Inv

\* pthread_key_create: the new key had no owner and is bound nowhere.
LEMMA KeyCreateInv ==
  ASSUME Inv, NEW t \in Threads, NEW k \in Keys, KeyCreate(t, k)
  PROVE  Inv'
<1> USE DEF KeyCreate, Goto, registry, NoCall
<1>1. TypeOK'
  BY DEF Inv, TypeOK, Ops, Ids
<1>2. LockInv'
  BY TlsAssumption DEF Inv, LockInv, TypeOK
<1>3. OwnInv'
  <2>1. call'[t].key = k /\ OwnsKey(t)' /\ ~OwnsKey(t)
    BY DEF Inv, TypeOK, OwnsKey
  <2>2. \A u \in Threads \ {t} : (OwnsKey(u)' <=> OwnsKey(u)) /\ call'[u] = call[u]
    BY DEF Inv, TypeOK, OwnsKey
  <2> QED
    BY <2>1, <2>2 DEF Inv, OwnInv, Live
<1>4. IdInv'
  BY DEF Inv, IdInv, Live
<1>5. ValueInv'
  <2>1. \A u \in Threads, j \in Keys : bound'[u][j] = IF j = k THEN None ELSE bound[u][j]
    BY DEF Inv, TypeOK
  <2>2. \A s \in DOMAIN slots : Live(s) => slots[s].key \in Keys /\ slots[s].key # k
    BY DEF Inv, OwnInv, TypeOK
  <2>3. \A u \in Threads \ {t} :
          Creating(u)' => Creating(u) /\ call'[u] = call[u] /\ call[u].key \in Keys \ {k}
    BY DEF Inv, TypeOK, Creating, OwnsKey, OwnInv
  <2>4. call'[t].key = k
    BY DEF Inv, TypeOK
  <2>5. (\A u, v \in Threads : Creating(u) => bound[v][call[u].key] = None)'
    BY <2>1, <2>3, <2>4 DEF Inv, ValueInv
  <2> QED
    BY <2>1, <2>2, <2>5 DEF Inv, ValueInv, Live
<1>6. UseInv'
  BY DEF Inv, UseInv, Live, TypeOK
<1> QED
  BY <1>1, <1>2, <1>3, <1>4, <1>5, <1>6 DEF Inv

-----------------------------------------------------------------------------
\* The actions of t that leave the registry, the host and the history alone,
\* and that neither take up nor put down a host key.
LEMMA QuietInv ==
  ASSUME Inv, NEW t \in Threads,
         UNCHANGED <<registry, host, bound, meant>>,
         TypeOK', LockInv',
         \A u \in Threads \ {t} : pc'[u] = pc[u] /\ call'[u] = call[u],
         OwnsKey(t)' <=> OwnsKey(t),
         OwnsKey(t) => call'[t].key = call[t].key,
         Creating(t)' => Creating(t),
         pc'[t] = "use" =>
           \E s \in DOMAIN slots : /\ Live(s) /\ slots[s].id = call'[t].id
                                   /\ slots[s].key = call'[t].key
  PROVE  Inv'
<1> USE DEF registry
<1>1. \A u \in Threads : /\ OwnsKey(u)' <=> OwnsKey(u)
                         /\ OwnsKey(u) => call'[u].key = call[u].key
                         /\ Creating(u)' => Creating(u)
  BY DEF OwnsKey, Creating
<1>2. OwnInv'
  BY <1>1 DEF Inv, OwnInv, Live
<1>3. IdInv'
  BY DEF Inv, IdInv, Live
<1>4. \A u \in Threads : Creating(u) => OwnsKey(u)
  BY DEF Creating, OwnsKey
<1>5. ValueInv'
  BY <1>1, <1>4 DEF Inv, ValueInv, Live
<1>6. UseInv'
  BY DEF Inv, UseInv, Live
<1> QED
  BY <1>2, <1>3, <1>5, <1>6 DEF Inv

LEMMA CallInv ==
  ASSUME Inv, NEW t \in Threads, NEW o \in Ops, NEW i \in Ids,
         NEW v \in Values \cup {None}, Call(t, o, i, v)
  PROVE  Inv'
<1> USE DEF Call, Goto, registry
<1>1. TypeOK'
  BY DEF Inv, TypeOK, Ops, Ids
<1>2. LockInv'
  BY TlsAssumption DEF Inv, LockInv, TypeOK
<1>3. /\ call'[t].op \in {"get", "set", "destroy"} /\ pc'[t] = "entry"
      /\ \A u \in Threads \ {t} : pc'[u] = pc[u] /\ call'[u] = call[u]
  BY DEF Inv, TypeOK
<1>4. ~OwnsKey(t) /\ ~OwnsKey(t)' /\ ~Creating(t)'
  BY <1>3 DEF OwnsKey, Creating
<1> QED
  BY <1>1, <1>2, <1>3, <1>4, QuietInv

LEMMA LockStepInv ==
  ASSUME Inv, NEW t \in Threads, Lock(t)
  PROVE  Inv'
<1> USE DEF Lock, Goto, registry
<1>1. TypeOK'
  BY DEF Inv, TypeOK
<1>2. LockInv'
  BY TlsAssumption DEF Inv, LockInv, TypeOK
<1>3. pc'[t] = "locked" /\ call' = call /\ \A u \in Threads \ {t} : pc'[u] = pc[u]
  BY DEF Inv, TypeOK
<1>4. (OwnsKey(t)' <=> OwnsKey(t)) /\ (Creating(t)' => Creating(t))
  BY <1>3 DEF OwnsKey, Creating
<1> QED
  BY <1>1, <1>2, <1>3, <1>4, QuietInv

\* A call returns that holds the lock and owns no key.
LEMMA ReturnInv ==
  ASSUME Inv, NEW t \in Threads, pc[t] \in {"locked", "use"}, ~OwnsKey(t),
         lock' = None, Return(t), UNCHANGED <<registry, host, bound, meant>>
  PROVE  Inv'
<1> USE DEF Return, Goto, registry
<1>1. TypeOK'
  BY DEF Inv, TypeOK, NoCall, Ops
<1>2. LockInv'
  BY TlsAssumption DEF Inv, LockInv, TypeOK
<1>3. pc'[t] = "idle" /\ \A u \in Threads \ {t} : pc'[u] = pc[u] /\ call'[u] = call[u]
  BY DEF Inv, TypeOK
<1>4. ~OwnsKey(t)' /\ ~Creating(t)'
  BY <1>3 DEF OwnsKey, Creating
<1> QED
  BY <1>1, <1>2, <1>3, <1>4, QuietInv

LEMMA MintFailsInv ==
  ASSUME Inv, NEW t \in Threads, MintFails(t)
  PROVE  Inv'
<1> USE DEF MintFails, Goto, registry
<1>1. TypeOK'
  BY DEF Inv, TypeOK
<1>2. LockInv'
  BY TlsAssumption DEF Inv, LockInv, TypeOK
<1>3. pc'[t] = "delete" /\ call' = call /\ \A u \in Threads \ {t} : pc'[u] = pc[u]
  BY DEF Inv, TypeOK
<1>4. OwnsKey(t) /\ OwnsKey(t)' /\ ~Creating(t)'
  BY <1>3 DEF OwnsKey, Creating
<1> QED
  BY <1>1, <1>2, <1>3, <1>4, QuietInv

LEMMA FindInv ==
  ASSUME Inv, NEW t \in Threads, Find(t)
  PROVE  Inv'
<1> USE DEF Find, Goto, registry
<1>1. PICK s \in tls_find(call[t].id) : call' = [call EXCEPT ![t].key = slots[s].key]
  OBVIOUS
<1>2. s \in DOMAIN slots /\ Live(s) /\ slots[s].id = call[t].id
  BY <1>1 DEF tls_find, Live
<1>3. TypeOK'
  <2>1. call' \in [Threads -> [op : Ops, id : Ids \cup {0}, val : Values \cup {None},
                               key : Keys \cup {None}]]
    BY <1>1, <1>2, SlotType, CallType DEF Inv
  <2> QED
    BY <2>1 DEF Inv, TypeOK
<1>4. LockInv'
  BY TlsAssumption DEF Inv, LockInv, TypeOK
<1>5. /\ pc'[t] = "use" /\ call'[t].key = slots[s].key /\ call'[t].id = call[t].id
      /\ \A u \in Threads \ {t} : pc'[u] = pc[u] /\ call'[u] = call[u]
  BY <1>1, <1>2, SlotType, CallType DEF Inv, TypeOK
<1>6. ~OwnsKey(t) /\ ~OwnsKey(t)' /\ ~Creating(t)'
  BY <1>5 DEF OwnsKey, Creating
<1> QED
  BY <1>2, <1>3, <1>4, <1>5, <1>6, QuietInv

-----------------------------------------------------------------------------
\* pthread_setspecific under the lock: only one slot has the key that is
\* written, and only one has the id.
LEMMA SetInv ==
  ASSUME Inv, NEW t \in Threads, Set(t)
  PROVE  Inv'
<1> USE DEF Set, registry
<1>1. ~OwnsKey(t) /\ pc[t] = "use"
  BY DEF OwnsKey
<1>2. CASE UNCHANGED <<bound, meant>>
  BY <1>1, <1>2, ReturnInv
<1>3. CASE /\ bound' = [bound EXCEPT ![t][call[t].key] = call[t].val]
           /\ meant' = [meant EXCEPT ![t][call[t].id] = call[t].val]
  <2>1. PICK s \in DOMAIN slots : Live(s) /\ slots[s].id = call[t].id
                                          /\ slots[s].key = call[t].key
    BY DEF Inv, UseInv
  <2>2. call[t].key \in Keys /\ call[t].id \in Ids /\ call[t].id < g_next_id
    BY <2>1, SlotType DEF Inv
  <2>3. call[t].val \in Values \cup {None}
    BY DEF Inv, TypeOK
  <2>4. \A u \in Threads, k \in Keys :
          bound'[u][k] = IF u = t /\ k = call[t].key THEN call[t].val ELSE bound[u][k]
    BY <1>3 DEF Inv, TypeOK
  <2>5. \A u \in Threads, i \in Ids :
          meant'[u][i] = IF u = t /\ i = call[t].id THEN call[t].val ELSE meant[u][i]
    BY <1>3 DEF Inv, TypeOK
  <2>6. /\ bound' \in [Threads -> [Keys -> Values \cup {None}]]
        /\ meant' \in [Threads -> [Ids -> Values \cup {None}]]
    BY <1>3, <2>2, <2>3 DEF Inv, TypeOK
  <2>7. /\ pc'[t] = "idle" /\ pc' \in [Threads -> {"idle", "entry", "locked", "use", "delete"}]
        /\ \A u \in Threads \ {t} : pc'[u] = pc[u] /\ call'[u] = call[u]
    BY DEF Inv, TypeOK, Return, Goto
  <2>8. TypeOK'
    <3>1. call' \in [Threads -> [op : Ops, id : Ids \cup {0}, val : Values \cup {None},
                                 key : Keys \cup {None}]]
      BY DEF Inv, TypeOK, Return, NoCall, Ops
    <3> QED
      BY <2>6, <2>7, <3>1 DEF Inv, TypeOK
  <2>9. LockInv'
    BY <2>7, TlsAssumption DEF Inv, LockInv
  <2>10. \A u \in Threads : /\ OwnsKey(u)' <=> OwnsKey(u)
                            /\ OwnsKey(u) => call'[u] = call[u]
                            /\ Creating(u)' => Creating(u) /\ OwnsKey(u)
    BY <1>1, <2>7 DEF OwnsKey, Creating
  <2>11. OwnInv'
    BY <2>10 DEF Inv, OwnInv, Live
  <2>12. IdInv' /\ UseInv'
    BY <2>7 DEF Inv, IdInv, UseInv, Live
  <2>13. ValueInv'
    <3>1. (\A r \in DOMAIN slots, u \in Threads :
            Live(r) => bound[u][slots[r].key] = meant[u][slots[r].id])'
      <4> SUFFICES ASSUME NEW r \in DOMAIN slots, NEW u \in Threads, Live(r)
                   PROVE  bound'[u][slots[r].key] = meant'[u][slots[r].id]
        BY DEF Live
      <4>1. slots[r].key = call[t].key <=> slots[r].id = call[t].id
        BY <2>1 DEF Inv, OwnInv, IdInv
      <4> QED
        BY <4>1, <2>4, <2>5, SlotType DEF Inv, ValueInv
    <3>2. (\A u \in Threads, i \in Ids : g_next_id <= i => meant[u][i] = None)'
      BY <2>2, <2>5, TlsAssumption DEF Inv, ValueInv, TypeOK, Ids
    <3>3. (\A u, v \in Threads : Creating(u) => bound[v][call[u].key] = None)'
      <4> SUFFICES ASSUME NEW u \in Threads, NEW v \in Threads, Creating(u)'
                   PROVE  bound'[v][call'[u].key] = None
        OBVIOUS
      <4>1. Creating(u) /\ OwnsKey(u) /\ call'[u] = call[u]
        BY <2>10
      <4>2. call[u].key \in Keys /\ call[u].key # call[t].key
        BY <4>1, <2>1 DEF Inv, OwnInv, TypeOK
      <4> QED
        BY <4>1, <4>2, <2>4 DEF Inv, ValueInv
    <3> QED
      BY <3>1, <3>2, <3>3 DEF ValueInv
  <2> QED
    BY <2>8, <2>9, <2>11, <2>12, <2>13 DEF Inv
<1> QED
  BY <1>2, <1>3

\* The key of the retired slot passes to the call that will delete it.
LEMMA RetireInv ==
  ASSUME Inv, NEW t \in Threads, Retire(t)
  PROVE  Inv'
<1> USE DEF Retire
<1>1. PICK s \in tls_find(call[t].id) :
         /\ call' = [call EXCEPT ![t].key = slots[s].key]
         /\ slots' = [slots EXCEPT ![s].live = FALSE]
  OBVIOUS
<1>2. s \in DOMAIN slots /\ Live(s) /\ slots[s].id = call[t].id
  BY <1>1 DEF tls_find, Live
<1>3. slots \in Seq(Slot) /\ slots[s] \in Slot /\ slots[s].key \in Keys
  BY <1>2, SlotType DEF Inv, TypeOK
<1>4. /\ slots' \in Seq(Slot) /\ DOMAIN slots' = DOMAIN slots /\ Len(slots') = Len(slots)
      /\ slots'[s] = [slots[s] EXCEPT !.live = FALSE]
      /\ \A r \in DOMAIN slots \ {s} : slots'[r] = slots[r]
  <2> DEFINE retired == [slots[s] EXCEPT !.live = FALSE]
  <2>1. retired \in Slot
    BY <1>3 DEF Slot
  <2>2. slots' = [slots EXCEPT ![s] = retired]
    BY <1>1
  <2>3. DOMAIN slots = 1..Len(slots)
    BY <1>3
  <2> HIDE DEF retired
  <2>4. /\ slots' \in Seq(Slot) /\ Len(slots') = Len(slots)
        /\ \A r \in 1..Len(slots) : slots'[r] = IF r = s THEN retired ELSE slots[r]
    BY <1>2, <1>3, <2>1, <2>2, <2>3, ExceptSeq
  <2>5. DOMAIN slots' = DOMAIN slots
    BY <2>2
  <2> QED
    BY <1>2, <2>3, <2>4, <2>5 DEF retired
<1>5. /\ slots'[s].key = slots[s].key /\ slots'[s].id = slots[s].id /\ ~slots'[s].live
  BY <1>3, <1>4 DEF Slot
<1>6. /\ call' \in [Threads -> [op : Ops, id : Ids \cup {0}, val : Values \cup {None},
                                key : Keys \cup {None}]]
      /\ call'[t].key = slots[s].key
      /\ \A u \in Threads \ {t} : call'[u] = call[u]
  <2>1. ASSUME NEW k \in Keys, NEW new, new = [call EXCEPT ![t].key = k]
        PROVE  /\ new \in [Threads -> [op : Ops, id : Ids \cup {0},
                                       val : Values \cup {None}, key : Keys \cup {None}]]
               /\ new[t].key = k
               /\ \A u \in Threads \ {t} : new[u] = call[u]
    BY <2>1, CallType DEF Inv
  <2> QED
    BY <1>1, <1>3, <2>1, ZenonT(30)
<1>7. /\ pc' \in [Threads -> {"idle", "entry", "locked", "use", "delete"}]
      /\ pc'[t] = "delete" /\ \A u \in Threads \ {t} : pc'[u] = pc[u]
  BY DEF Inv, TypeOK, Goto
<1>8. \A r \in DOMAIN slots : /\ slots'[r].id = slots[r].id /\ slots'[r].key = slots[r].key
                              /\ Live(r)' <=> Live(r) /\ r # s
  BY <1>2, <1>4, <1>5 DEF Live
<1>9. TypeOK'
  BY <1>4, <1>6, <1>7, <1>8 DEF Inv, TypeOK
<1>10. LockInv'
  BY <1>7, TlsAssumption DEF Inv, LockInv, TypeOK
<1>11. /\ OwnsKey(t)' /\ ~OwnsKey(t) /\ ~Creating(t)'
       /\ \A u \in Threads \ {t} : (OwnsKey(u)' <=> OwnsKey(u)) /\ (Creating(u)' => Creating(u))
  BY <1>6, <1>7 DEF OwnsKey, Creating
<1>12. OwnInv'
  <2>1. DOMAIN slots' = DOMAIN slots
    BY <1>4
  <2>2. (\A r \in DOMAIN slots : Live(r) => slots[r].key \in host)'
    BY <2>1, <1>8 DEF Inv, OwnInv
  <2>3. (\A u \in Threads : OwnsKey(u) => call[u].key \in host)'
    BY <1>2, <1>6, <1>11 DEF Inv, OwnInv
  <2>4. (\A r, q \in DOMAIN slots :
           Live(r) /\ Live(q) /\ slots[r].key = slots[q].key => r = q)'
    BY <2>1, <1>8 DEF Inv, OwnInv
  <2>5. (\A u, v \in Threads :
           OwnsKey(u) /\ OwnsKey(v) /\ call[u].key = call[v].key => u = v)'
    BY <1>2, <1>6, <1>11 DEF Inv, OwnInv
  <2>6. (\A r \in DOMAIN slots, u \in Threads :
           Live(r) /\ OwnsKey(u) => slots[r].key # call[u].key)'
    BY <2>1, <1>2, <1>6, <1>8, <1>11 DEF Inv, OwnInv
  <2>7. (\A k \in host : \/ \E r \in DOMAIN slots : Live(r) /\ slots[r].key = k
                         \/ \E u \in Threads : OwnsKey(u) /\ call[u].key = k)'
    <3> SUFFICES ASSUME NEW k \in host
                 PROVE  \/ \E r \in DOMAIN slots : Live(r)' /\ slots'[r].key = k
                        \/ \E u \in Threads : OwnsKey(u)' /\ call'[u].key = k
      BY <2>1
    <3>1. CASE k = slots[s].key
      BY <3>1, <1>6, <1>11
    <3>2. CASE k # slots[s].key
      BY <3>2, <1>6, <1>8, <1>11 DEF Inv, OwnInv
    <3> QED
      BY <3>1, <3>2
  <2> QED
    BY <2>2, <2>3, <2>4, <2>5, <2>6, <2>7 DEF OwnInv
<1>13. IdInv'
  BY <1>4, <1>8 DEF Inv, IdInv
<1>14. ValueInv'
  BY <1>4, <1>6, <1>8, <1>11 DEF Inv, ValueInv
<1>15. UseInv'
  <2>1. \A u \in Threads : pc'[u] # "use"
    BY <1>7 DEF Inv, LockInv
  <2> QED
    BY <2>1 DEF UseInv
<1> QED
  BY <1>9, <1>10, <1>12, <1>13, <1>14, <1>15 DEF Inv

\* pthread_key_delete: only the call owned the key.
LEMMA KeyDeleteInv ==
  ASSUME Inv, NEW t \in Threads, KeyDelete(t)
  PROVE  Inv'
<1> USE DEF KeyDelete, Return, Goto, registry
<1>1. TypeOK'
  BY DEF Inv, TypeOK, NoCall, Ops
<1>2. LockInv'
  BY TlsAssumption DEF Inv, LockInv, TypeOK
<1>3. pc'[t] = "idle" /\ \A u \in Threads \ {t} : pc'[u] = pc[u] /\ call'[u] = call[u]
  BY DEF Inv, TypeOK
<1>4. /\ OwnsKey(t) /\ ~OwnsKey(t)' /\ ~Creating(t)'
      /\ \A u \in Threads \ {t} : (OwnsKey(u)' <=> OwnsKey(u)) /\ (Creating(u)' => Creating(u))
  BY <1>3 DEF OwnsKey, Creating
<1>5. OwnInv'
  BY <1>3, <1>4 DEF Inv, OwnInv, Live
<1>6. IdInv' /\ UseInv'
  BY <1>3 DEF Inv, IdInv, UseInv, Live
<1>7. ValueInv'
  BY <1>3, <1>4 DEF Inv, ValueInv, Live
<1> QED
  BY <1>1, <1>2, <1>5, <1>6, <1>7 DEF Inv

\* A thread that ends forgets its values under every id.
LEMMA ExitInv ==
  ASSUME Inv, NEW t \in Threads, Exit(t)
  PROVE  Inv'
<1> USE DEF Exit, registry
<1>1. /\ bound' \in [Threads -> [Keys -> Values \cup {None}]]
      /\ meant' \in [Threads -> [Ids -> Values \cup {None}]]
  BY DEF Inv, TypeOK
<1>2. TypeOK'
  BY <1>1 DEF Inv, TypeOK
<1>3. LockInv' /\ OwnInv' /\ IdInv' /\ UseInv'
  BY DEF Inv, LockInv, OwnInv, IdInv, UseInv, Live, OwnsKey
<1>4. \A u \in Threads, k \in Keys : bound'[u][k] = IF u = t THEN None ELSE bound[u][k]
  BY DEF Inv, TypeOK
<1>5. \A u \in Threads, i \in Ids : meant'[u][i] = IF u = t THEN None ELSE meant[u][i]
  BY DEF Inv, TypeOK
<1>6. \A u \in Threads : /\ Creating(u)' => Creating(u)
                         /\ Creating(u) => call[u].key \in Keys
  BY DEF Creating, OwnsKey, Inv, OwnInv, TypeOK
<1>7. ValueInv'
  BY <1>4, <1>5, <1>6, SlotType DEF Inv, ValueInv, Live
<1> QED
  BY <1>2, <1>3, <1>7 DEF Inv

-----------------------------------------------------------------------------
\* Where a mint puts its slot: one that was dead, or a new one at the end.
MintedAt(t, n) ==
  /\ slots' \in Seq(Slot) /\ Len(slots') <= g_cap' /\ g_cap' \in Nat
  /\ DOMAIN slots' = DOMAIN slots \cup {n} /\ ~Live(n)
  /\ slots'[n] = Minted(t)
  /\ \A r \in DOMAIN slots \ {n} : slots'[r] = slots[r]

LEMMA MintedType ==
  ASSUME Inv, NEW t \in Threads, pc[t] = "locked", call[t].op = "create"
  PROVE  /\ OwnsKey(t) /\ Creating(t) /\ call[t].key \in host /\ call[t].key \in Keys
         /\ Minted(t) \in Slot /\ Minted(t).id = g_next_id
         /\ Minted(t).key = call[t].key /\ Minted(t).live
<1>1. OwnsKey(t) /\ Creating(t)
  BY DEF OwnsKey, Creating
<1>2. call[t].key \in host /\ call[t].key \in Keys /\ g_next_id \in Nat
  BY <1>1 DEF Inv, OwnInv, TypeOK
<1> QED
  BY <1>1, <1>2 DEF Minted, Slot

LEMMA MintReuseAt ==
  ASSUME Inv, NEW t \in Threads, MintReuse(t)
  PROVE  \E n : MintedAt(t, n)
<1>1. PICK i \in Dead : slots' = [slots EXCEPT ![i] = Minted(t)]
  BY DEF MintReuse
<1>2. /\ slots \in Seq(Slot) /\ i \in DOMAIN slots /\ i \in 1..Len(slots) /\ ~Live(i)
      /\ DOMAIN slots = 1..Len(slots)
  BY <1>1 DEF Dead, Live, Inv, TypeOK
<1>3. Minted(t) \in Slot
  BY MintedType DEF MintReuse
<1>4. /\ slots' \in Seq(Slot) /\ Len(slots') = Len(slots)
      /\ \A r \in 1..Len(slots) : slots'[r] = IF r = i THEN Minted(t) ELSE slots[r]
  BY <1>1, <1>2, <1>3, ExceptSeq
<1>5. DOMAIN slots' = DOMAIN slots \cup {i}
  BY <1>1, <1>2
<1>6. Len(slots') <= g_cap' /\ g_cap' \in Nat
  BY <1>4 DEF MintReuse, Inv, TypeOK
<1> QED
  BY <1>2, <1>4, <1>5, <1>6 DEF MintedAt

LEMMA MintAppendAt ==
  ASSUME Inv, NEW t \in Threads, MintAppend(t)
  PROVE  \E n : MintedAt(t, n)
<1> DEFINE n == Len(slots) + 1
<1>1. slots' = Append(slots, Minted(t)) /\ slots \in Seq(Slot) /\ DOMAIN slots = 1..Len(slots)
  BY DEF MintAppend, Inv, TypeOK
<1>2. Minted(t) \in Slot
  BY MintedType DEF MintAppend
<1>3. /\ slots' \in Seq(Slot) /\ Len(slots') = n /\ slots'[n] = Minted(t)
      /\ \A r \in 1..Len(slots) : slots'[r] = slots[r]
  BY <1>1, <1>2, AppendProperties
<1>4. DOMAIN slots' = DOMAIN slots \cup {n} /\ n \notin DOMAIN slots
  BY <1>1, <1>3
<1>5. n <= g_cap' /\ g_cap' \in Nat
  <2>1. g_cap \in Nat /\ Len(slots) \in Nat /\ Len(slots) <= g_cap
    BY DEF Inv, TypeOK
  <2>2. g_cap' = IF Len(slots) = g_cap THEN (IF g_cap = 0 THEN InitCap ELSE 2 * g_cap)
                 ELSE g_cap
    BY DEF MintAppend, Grown
  <2> QED
    BY <2>1, <2>2, TlsAssumption
<1> QED
  BY <1>1, <1>3, <1>4, <1>5 DEF MintedAt, Live

\* The host key passes from the call to the slot, and the id is new.
LEMMA MintInv ==
  ASSUME Inv, NEW t \in Threads, MintReuse(t) \/ MintAppend(t)
  PROVE  Inv'
<1>1. PICK n : MintedAt(t, n)
  BY MintReuseAt, MintAppendAt
<1>2. /\ pc[t] = "locked" /\ call[t].op = "create" /\ g_next_id <= MaxIds
      /\ g_next_id' = g_next_id + 1 /\ lock' = None /\ Return(t)
      /\ UNCHANGED <<host, bound, meant>>
  BY DEF MintReuse, MintAppend
<1>3. /\ OwnsKey(t) /\ Creating(t) /\ call[t].key \in host /\ call[t].key \in Keys
      /\ slots'[n].id = g_next_id /\ slots'[n].key = call[t].key /\ slots'[n].live
  BY <1>1, <1>2, MintedType DEF MintedAt
<1>4. /\ DOMAIN slots' = DOMAIN slots \cup {n} /\ n \in DOMAIN slots'
      /\ ~Live(n) /\ Live(n)' /\ \A r \in DOMAIN slots \ {n} : slots'[r] = slots[r]
  BY <1>1, <1>3 DEF MintedAt, Live
<1>5. \A r \in DOMAIN slots' \ {n} : r \in DOMAIN slots /\ (Live(r)' <=> Live(r))
  BY <1>4 DEF Live
<1>6. \A r \in DOMAIN slots : Live(r) => r # n /\ r \in DOMAIN slots' /\ Live(r)'
  BY <1>4 DEF Live
<1>7. /\ pc' \in [Threads -> {"idle", "entry", "locked", "use", "delete"}] /\ pc'[t] = "idle"
      /\ \A u \in Threads \ {t} : pc'[u] = pc[u] /\ call'[u] = call[u]
      /\ call' \in [Threads -> [op : Ops, id : Ids \cup {0}, val : Values \cup {None},
                                key : Keys \cup {None}]]
  BY <1>2 DEF Inv, TypeOK, Return, Goto, NoCall, Ops
<1>8. /\ ~OwnsKey(t)' /\ ~Creating(t)'
      /\ \A u \in Threads \ {t} : (OwnsKey(u)' <=> OwnsKey(u)) /\ (Creating(u)' => Creating(u))
  BY <1>7 DEF OwnsKey, Creating
<1>9. g_next_id \in Nat \ {0} /\ g_next_id \in Ids
  BY <1>2, TlsAssumption DEF Inv, TypeOK, Ids
<1>10. TypeOK'
  <2>1. \A r \in DOMAIN slots' : slots'[r].id \in Ids /\ slots'[r].id < g_next_id'
    BY <1>2, <1>3, <1>4, <1>9, SlotType DEF Inv, Ids
  <2> QED
    BY <1>1, <1>2, <1>7, <1>9, <2>1 DEF Inv, TypeOK, MintedAt
<1>11. LockInv'
  BY <1>2, <1>7, TlsAssumption DEF Inv, LockInv
<1>12. OwnInv'
  <2>1. (\A r \in DOMAIN slots : Live(r) => slots[r].key \in host)'
    BY <1>2, <1>3, <1>4, <1>5 DEF Inv, OwnInv
  <2>2. (\A u \in Threads : OwnsKey(u) => call[u].key \in host)'
    BY <1>2, <1>7, <1>8 DEF Inv, OwnInv
  <2>3. (\A r, q \in DOMAIN slots :
           Live(r) /\ Live(q) /\ slots[r].key = slots[q].key => r = q)'
    BY <1>3, <1>4, <1>5 DEF Inv, OwnInv
  <2>4. (\A u, v \in Threads :
           OwnsKey(u) /\ OwnsKey(v) /\ call[u].key = call[v].key => u = v)'
    BY <1>7, <1>8 DEF Inv, OwnInv
  <2>5. (\A r \in DOMAIN slots, u \in Threads :
           Live(r) /\ OwnsKey(u) => slots[r].key # call[u].key)'
    BY <1>3, <1>4, <1>5, <1>7, <1>8 DEF Inv, OwnInv
  <2>6. (\A k \in host : \/ \E r \in DOMAIN slots : Live(r) /\ slots[r].key = k
                         \/ \E u \in Threads : OwnsKey(u) /\ call[u].key = k)'
    <3> SUFFICES ASSUME NEW k \in host
                 PROVE  \/ \E r \in DOMAIN slots' : Live(r)' /\ slots'[r].key = k
                        \/ \E u \in Threads : OwnsKey(u)' /\ call'[u].key = k
      BY <1>2
    <3>1. CASE k = call[t].key
      BY <3>1, <1>3, <1>4
    <3>2. CASE k # call[t].key
      BY <3>2, <1>4, <1>6, <1>7, <1>8 DEF Inv, OwnInv
    <3> QED
      BY <3>1, <3>2
  <2> QED
    BY <2>1, <2>2, <2>3, <2>4, <2>5, <2>6 DEF OwnInv
<1>13. IdInv'
  <2>1. \A r \in DOMAIN slots : slots[r].id # g_next_id
    BY <1>9, SlotType DEF Inv, Ids
  <2> QED
    BY <1>3, <1>4, <1>5, <2>1 DEF Inv, IdInv
<1>14. ValueInv'
  <2>1. (\A r \in DOMAIN slots, u \in Threads :
           Live(r) => bound[u][slots[r].key] = meant[u][slots[r].id])'
    BY <1>2, <1>3, <1>4, <1>5, <1>9 DEF Inv, ValueInv
  <2>2. (\A u \in Threads, i \in Ids : g_next_id <= i => meant[u][i] = None)'
    BY <1>2, <1>9, TlsAssumption DEF Inv, ValueInv, Ids
  <2>3. (\A u, v \in Threads : Creating(u) => bound[v][call[u].key] = None)'
    BY <1>2, <1>7, <1>8 DEF Inv, ValueInv
  <2> QED
    BY <2>1, <2>2, <2>3 DEF ValueInv
<1>15. UseInv'
  <2>1. \A u \in Threads : pc'[u] # "use"
    BY <1>2, <1>7 DEF Inv, LockInv
  <2> QED
    BY <2>1 DEF UseInv
<1> QED
  BY <1>10, <1>11, <1>12, <1>13, <1>14, <1>15 DEF Inv

-----------------------------------------------------------------------------
\* Every step preserves the invariant.
LEMMA InvPreserved ==
  ASSUME Inv, [Next]_vars
  PROVE  Inv'
<1>1. CASE UNCHANGED vars
  BY <1>1 DEF vars, registry, Inv, TypeOK, LockInv, OwnInv, IdInv, ValueInv, UseInv,
              Live, OwnsKey, Creating
<1>2. ASSUME NEW t \in Threads, Step(t)
      PROVE  Inv'
  <2>1. CASE NotFound(t) \/ Get(t)
    BY <2>1, ReturnInv DEF NotFound, Get, OwnsKey
  <2>2. CASE \E k \in Keys : KeyCreate(t, k)
    BY <2>2, KeyCreateInv
  <2>3. CASE \E o \in Ops, i \in Ids, v \in Values \cup {None} : Call(t, o, i, v)
    BY <2>3, CallInv
  <2> QED
    BY <1>2, <2>1, <2>2, <2>3, LockStepInv, MintInv, MintFailsInv, FindInv, SetInv,
       RetireInv, KeyDeleteInv, ExitInv DEF Step
<1> QED
  BY <1>1, <1>2 DEF Next

LEMMA InvAlways == Spec => []Inv
<1>1. Init => Inv
  BY InvInitially
<1>2. Inv /\ [Next]_vars => Inv'
  BY InvPreserved
<1> QED
  BY <1>1, <1>2, PTL DEF Spec

\* The registry of mjs_tls.c keeps its types; it fits its allocation.
THEOREM TlsTypeCorrect == Spec => []TypeOK
<1>1. Inv => TypeOK
  BY DEF Inv
<1> QED
  BY <1>1, InvAlways, PTL

\* Create, destroy and the failed create hand host keys from call to slot and
\* back: an existing key always has one owner, a deleted one none.
THEOREM KeysHaveOneOwner == Spec => []KeyHasOneOwner
<1>1. Inv => KeyHasOneOwner
  <2> SUFFICES ASSUME Inv, NEW k \in Keys
               PROVE  IF k \in host THEN \E o \in Owners(k) : Owners(k) = {o}
                                    ELSE Owners(k) = {}
    BY DEF KeyHasOneOwner
  <2>1. \A o : o \in Owners(k) <=>
          \/ \E s \in DOMAIN slots : Live(s) /\ slots[s].key = k /\ o = <<"slot", s>>
          \/ \E t \in Threads : OwnsKey(t) /\ call[t].key = k /\ o = <<"call", t>>
    BY DEF Owners, Live
  <2>2. CASE k \notin host
    BY <2>1, <2>2 DEF Inv, OwnInv
  <2>3. CASE k \in host
    <3>1. CASE \E s \in DOMAIN slots : Live(s) /\ slots[s].key = k
      <4>1. PICK s \in DOMAIN slots : Live(s) /\ slots[s].key = k
        BY <3>1
      <4>2. \A o : o \in Owners(k) <=> o = <<"slot", s>>
        BY <4>1, <2>1 DEF Inv, OwnInv
      <4>3. <<"slot", s>> \in Owners(k) /\ Owners(k) = {<<"slot", s>>}
        BY <4>2
      <4> QED
        BY <4>3, <2>3
    <3>2. CASE \E t \in Threads : OwnsKey(t) /\ call[t].key = k
      <4>1. PICK t \in Threads : OwnsKey(t) /\ call[t].key = k
        BY <3>2
      <4>2. \A o : o \in Owners(k) <=> o = <<"call", t>>
        BY <4>1, <2>1 DEF Inv, OwnInv
      <4>3. <<"call", t>> \in Owners(k) /\ Owners(k) = {<<"call", t>>}
        BY <4>2
      <4> QED
        BY <4>3, <2>3
    <3> QED
      BY <2>3, <3>1, <3>2 DEF Inv, OwnInv
  <2> QED
    BY <2>2, <2>3
<1> QED
  BY <1>1, InvAlways, PTL

\* mjs_tls_get and mjs_tls_set never work on a deleted or recycled host key.
THEOREM ValuesAreReached == Spec => []ReachesOwnValue
<1>1. Inv => ReachesOwnValue
  <2> SUFFICES ASSUME Inv, NEW t \in Threads, pc[t] = "use"
               PROVE  call[t].key \in host /\ bound[t][call[t].key] = meant[t][call[t].id]
    BY DEF ReachesOwnValue
  <2>1. PICK s \in DOMAIN slots : Live(s) /\ slots[s].id = call[t].id
                                          /\ slots[s].key = call[t].key
    BY DEF Inv, UseInv
  <2> QED
    BY <2>1 DEF Inv, OwnInv, ValueInv
<1> QED
  BY <1>1, InvAlways, PTL
==============================================================================
