-------------------------- MODULE AtomicWaitProofs --------------------------
(***************************************************************************)
(* The safety of the waiter table of mjs_atomic_wait.c, and that it        *)
(* implements Futex, for every set of threads, addresses and values.       *)
(***************************************************************************)
EXTENDS AtomicWait, FiniteSetTheorems, WellFoundedInduction, TLAPS

Linked == ToSet(list)

DataTypes ==
  /\ word \in [Addrs -> Values]
  /\ key \in [Threads -> Addrs]
  /\ n \in [Threads -> Nat]
  /\ marked \in SUBSET Threads
  /\ list \in Seq(Threads)

\* What the status variable of a call says at each point of it.
StatusInv ==
  \A t \in Threads :
    /\ rc[t] \in {"ok", "ETIMEDOUT"}
    /\ rc[t] # "ok" => /\ op[t] \in Timed
                       /\ pc[t] \in {"body", "blocked", "leave", "return"}

\* Only the threads that wait are inside a wait.
WaitersSleep ==
  \A t \in Threads : pc[t] # "idle" /\ op[t] \in Blocking => t \in Sleepers

\* A record is linked at most once, and it is that of a thread inside its wait
\* which no wake has counted yet.
LinkedLive ==
  /\ IsInjective(list)
  /\ \A t \in Linked :
       op[t] \in Blocking /\ pc[t] \in {"body", "blocked"} /\ t \notin marked

\* The woken flag is that of a record whose frame is still there.
MarkedLive ==
  \A t \in marked : op[t] \in Blocking /\ pc[t] \in {"body", "blocked"}

\* Whoever is inside the condvar wait, asleep or on the way out of it, is linked
\* or marked; whoever sleeps unlinked has a broadcast coming.
SleepersFound ==
  /\ \A t \in Threads : pc[t] = "blocked" => t \in Linked \cup marked
  /\ \A t \in parked \ Linked : \E u \in Threads : pc[u] = "signal"

\* The inductive invariant.
Inv ==
  /\ FrameTypeOK(Ops)
  /\ FrameInv
  /\ handle = "live"
  /\ DataTypes
  /\ StatusInv
  /\ WaitersSleep
  /\ LinkedLive
  /\ MarkedLive
  /\ SleepersFound

-----------------------------------------------------------------------------
\* The walk of the list.

\* Every nonempty set of natural numbers has a least element.
LEMMA LeastElement ==
  ASSUME NEW S \in SUBSET Nat, S # {}
  PROVE  \E m \in S : \A k \in S : m <= k
<1>1. \A a, b \in Nat : a < b => <<a, b>> \in OpToRel(<, Nat)
  BY DEF OpToRel
<1>2. PICK R : IsWellFoundedOn(R, Nat) /\ \A a, b \in Nat : a < b => <<a, b>> \in R
  BY <1>1, NatLessThanWellFounded, Zenon
<1>3. PICK m \in S : \A k \in S : ~(<<k, m>> \in R)
  <2>1. IsWellFoundedOn(R, Nat) /\ S \subseteq Nat /\ S # {}
    BY <1>2, Zenon
  <2> QED
    BY <2>1, WFMin, Zenon
<1>4. ASSUME NEW k \in S PROVE m <= k
  <2>1. m \in Nat /\ k \in Nat /\ ~(k < m)
    BY <1>2, <1>3
  <2> QED
    BY <2>1
<1> QED
  BY <1>4

\* A function that climbs from 0 in steps of at most 1 climbs onto every value
\* up to its last.
LEMMA ClimbsOnto ==
  ASSUME NEW m \in Nat, NEW f \in [0..m -> Nat], f[0] = 0,
         \A i \in 1..m : f[i] <= f[i - 1] + 1,
         NEW j \in 1..f[m]
  PROVE  \E i \in 1..m : f[i] = j /\ f[i - 1] < f[i]
<1>1. PICK S : S = {i \in 0..m : f[i] >= j}
  OBVIOUS
<1>2. f[m] \in Nat /\ j \in Nat /\ j >= 1 /\ f[m] >= j
  OBVIOUS
<1>3. m \in S
  BY <1>1, <1>2
<1>4. PICK i \in S : \A k \in S : i <= k
  <2>1. \A k \in S : k \in Nat
    BY <1>1
  <2>2. S \in SUBSET Nat /\ S # {}
    BY <2>1, <1>3
  <2> QED
    BY <2>2, LeastElement
<1>5. i \in 0..m /\ f[i] >= j /\ f[i] \in Nat /\ i # 0
  BY <1>1, <1>2, <1>4
<1>6. i - 1 \in 0..m /\ i - 1 \notin S
  BY <1>4, <1>5
<1>7. f[i - 1] \in Nat /\ f[i - 1] < j /\ i \in 1..m
  BY <1>1, <1>2, <1>5, <1>6
<1>8. f[i] <= f[i - 1] + 1
  BY <1>7
<1>9. f[i] = j /\ f[i - 1] < f[i]
  <2> PICK a, b : a = f[i] /\ b = f[i - 1]
    OBVIOUS
  <2>1. a \in Nat /\ b \in Nat /\ j \in Nat /\ a >= j /\ b < j /\ a <= b + 1
    BY <1>2, <1>5, <1>7, <1>8
  <2>2. a = j /\ b < a
    BY <2>1
  <2> QED  BY <2>2
<1> QED
  BY <1>7, <1>9

\* The number of positions of K up to i, as a function of i: it starts at 0,
\* ends at the size of K and grows by one at exactly the positions of K.
LEMMA Rank ==
  ASSUME NEW m \in Nat, NEW K \in SUBSET (1..m)
  PROVE  /\ IsFiniteSet(K)
         /\ \E f \in [0..m -> Nat] :
              /\ f[0] = 0 /\ f[m] = Cardinality(K)
              /\ \A i \in 1..m : f[i] = f[i - 1] + (IF i \in K THEN 1 ELSE 0)
              /\ \A i \in 0..m : f[i] = Cardinality(K \cap 1..i)
<1>1. \A T \in SUBSET (1..m) : IsFiniteSet(T) /\ Cardinality(T) \in Nat
  <2>1. 1 \in Int /\ m \in Int
    OBVIOUS
  <2>2. IsFiniteSet(1..m)
    BY <2>1, FS_Interval
  <2> QED
    BY <2>2, FS_Subset, FS_CardinalityType
<1>2. PICK f : f = [i \in 0..m |-> Cardinality(K \cap 1..i)]
  OBVIOUS
<1>3. f \in [0..m -> Nat] /\ \A i \in 0..m : f[i] = Cardinality(K \cap 1..i)
  BY <1>1, <1>2
<1>4. f[0] = 0
  <2>1. K \cap 1..0 = {}
    OBVIOUS
  <2> QED
    BY <2>1, <1>3, FS_EmptySet
<1>5. f[m] = Cardinality(K)
  <2>1. K \cap 1..m = K
    OBVIOUS
  <2> QED
    BY <2>1, <1>3
<1>6. ASSUME NEW i \in 1..m
      PROVE  f[i] = f[i - 1] + (IF i \in K THEN 1 ELSE 0)
  <2>1. PICK P \in SUBSET (1..m) : P = K \cap 1..(i - 1)
    OBVIOUS
  <2>2. IsFiniteSet(P) /\ Cardinality(P) \in Nat /\ f[i - 1] = Cardinality(P)
    BY <2>1, <1>1, <1>3
  <2>3. f[i] = Cardinality(K \cap 1..i)
    BY <1>3
  <2>4. CASE i \in K
    <3>1. K \cap 1..i = P \cup {i} /\ i \notin P
      BY <2>1, <2>4
    <3> QED
      BY <2>2, <2>3, <2>4, <3>1, FS_AddElement
  <2>5. CASE i \notin K
    <3>1. K \cap 1..i = P
      BY <2>1, <2>5
    <3> QED
      BY <2>2, <2>3, <2>5, <3>1
  <2> QED
    BY <2>4, <2>5
<1> QED
  BY <1>1, <1>3, <1>4, <1>5, <1>6

\* Every number up to the size of K is the rank of a position of K.
LEMMA RankExists ==
  ASSUME NEW m \in Nat, NEW K \in SUBSET (1..m), NEW j \in 1..Cardinality(K)
  PROVE  \E i \in K : Cardinality(K \cap 1..i) = j
<1>1. PICK f \in [0..m -> Nat] :
        /\ f[0] = 0 /\ f[m] = Cardinality(K)
        /\ \A i \in 1..m : f[i] = f[i - 1] + (IF i \in K THEN 1 ELSE 0)
        /\ \A i \in 0..m : f[i] = Cardinality(K \cap 1..i)
  BY Rank
<1>2. j \in 1..f[m]
  BY <1>1
<1>3. ASSUME NEW i \in 1..m PROVE f[i] <= f[i - 1] + 1
  <2>1. f[i] = f[i - 1] + (IF i \in K THEN 1 ELSE 0) /\ f[i - 1] \in Nat
    BY <1>1
  <2> QED
    BY <2>1
<1>4. PICK i \in 1..m : f[i] = j /\ f[i - 1] < f[i]
  BY <1>1, <1>2, <1>3, ClimbsOnto, ZenonT(30)
<1>5. f[i] = f[i - 1] + (IF i \in K THEN 1 ELSE 0) /\ f[i - 1] \in Nat /\ i \in 0..m
  BY <1>1
<1>6. i \in K
  BY <1>4, <1>5
<1>7. f[i] = Cardinality(K \cap 1..i)
  BY <1>1, <1>5
<1> QED
  BY <1>4, <1>6, <1>7

\* Two positions of K have different ranks.
LEMMA RankUnique ==
  ASSUME NEW m \in Nat, NEW K \in SUBSET (1..m), NEW h \in K, NEW i \in K,
         Cardinality(K \cap 1..h) = Cardinality(K \cap 1..i)
  PROVE  h = i
<1>1. ASSUME NEW a \in K, NEW b \in K, a < b,
             Cardinality(K \cap 1..a) = Cardinality(K \cap 1..b)
      PROVE  FALSE
  <2>1. PICK A, B : A = K \cap 1..a /\ B = K \cap 1..b
    OBVIOUS
  <2>2. A \in SUBSET B /\ b \in B /\ b \notin A /\ B \in SUBSET K
    BY <1>1, <2>1
  <2>3. IsFiniteSet(B)
    BY <2>2, Rank, FS_Subset
  <2>4. A = B
    BY <2>1, <2>2, <2>3, <1>1, FS_Subset
  <2> QED
    BY <2>2, <2>4
<1>2. h \in Nat /\ i \in Nat
  OBVIOUS
<1> QED
  BY <1>1, <1>2

\* The rank of a position of K is between 1 and the size of K.
LEMMA RankBounded ==
  ASSUME NEW m \in Nat, NEW K \in SUBSET (1..m), NEW i \in K
  PROVE  Cardinality(K) \in Nat /\ Cardinality(K \cap 1..i) \in 1..Cardinality(K)
<1>1. PICK P : P = K \cap 1..i
  OBVIOUS
<1>2. P \in SUBSET K /\ P # {}
  BY <1>1
<1>3. IsFiniteSet(K)
  BY Rank
<1>4. IsFiniteSet(P) /\ Cardinality(P) <= Cardinality(K) /\ Cardinality(P) # 0
  BY <1>2, <1>3, FS_Subset, FS_EmptySet
<1>5. Cardinality(P) \in Nat /\ Cardinality(K) \in Nat
  BY <1>3, <1>4, FS_CardinalityType
<1> QED
  BY <1>1, <1>4, <1>5

\* What the walk of a list leaves: the records of S and no other, each once.
LEMMA OnlyKeeps ==
  ASSUME NEW T, NEW s \in Seq(T), IsInjective(s), NEW S
  PROVE  /\ Only(s, S) \in Seq(T)
         /\ IsInjective(Only(s, S))
         /\ ToSet(Only(s, S)) = ToSet(s) \cap S
<1>1. PICK K : K = {i \in DOMAIN s : s[i] \in S}
  OBVIOUS
<1>2. PICK m \in Nat : m = Len(s) /\ DOMAIN s = 1..m
  OBVIOUS
<1>3. K \in SUBSET (1..m)
  BY <1>1, <1>2
<1>4. PICK c \in Nat : c = Cardinality(K)
  BY <1>3, Rank, FS_CardinalityType
<1>5. PICK at : at = [j \in 1..c |-> CHOOSE i \in K : Cardinality(K \cap 1..i) = j]
  OBVIOUS
<1>6. ASSUME NEW j \in 1..c
      PROVE  at[j] \in K /\ Cardinality(K \cap 1..at[j]) = j
  <2>1. \E i \in K : Cardinality(K \cap 1..i) = j
    BY <1>3, <1>4, RankExists
  <2> QED
    BY <1>5, <2>1
<1>7. PICK r : r = Only(s, S)
  OBVIOUS
<1>8. r = [j \in 1..c |-> s[at[j]]]
  BY <1>1, <1>4, <1>5, <1>7 DEF Only
<1>9. ASSUME NEW j \in 1..c
      PROVE  at[j] \in 1..m /\ s[at[j]] \in T /\ s[at[j]] \in S
  <2>1. PICK i \in K : i = at[j]
    BY <1>6
  <2>2. i \in DOMAIN s /\ s[i] \in S /\ i \in 1..m /\ s[i] \in T
    BY <1>1, <1>2
  <2> QED
    BY <2>1, <2>2
<1>10. r \in Seq(T)
  BY <1>8, <1>9
<1>11. IsInjective(r)
  <2> SUFFICES ASSUME NEW h \in 1..c, NEW j \in 1..c, r[h] = r[j] PROVE h = j
    BY <1>8 DEF IsInjective
  <2>1. s[at[h]] = s[at[j]]
    BY <1>8
  <2>2. at[h] = at[j]
    BY <2>1, <1>2, <1>9 DEF IsInjective
  <2> QED
    BY <2>2, <1>6
<1>12. ASSUME NEW x \in ToSet(r) PROVE x \in ToSet(s) \cap S
  <2>1. PICK j \in 1..c : x = s[at[j]]
    BY <1>8 DEF ToSet
  <2> QED
    BY <2>1, <1>2, <1>9 DEF ToSet
<1>13. ASSUME NEW x \in ToSet(s) \cap S PROVE x \in ToSet(r)
  <2>1. PICK i \in 1..m : x = s[i]
    BY <1>2 DEF ToSet
  <2>2. i \in K
    BY <2>1, <1>1, <1>2
  <2>3. PICK j \in 1..c : j = Cardinality(K \cap 1..i)
    BY <2>2, <1>3, <1>4, RankBounded
  <2>4. at[j] = i
    <3>1. at[j] \in K /\ Cardinality(K \cap 1..at[j]) = Cardinality(K \cap 1..i)
      BY <2>3, <1>6
    <3> QED
      BY <3>1, <2>2, <1>3, RankUnique
  <2> QED
    BY <2>1, <2>4, <1>8 DEF ToSet
<1> QED
  BY <1>7, <1>10, <1>11, <1>12, <1>13

\* Linking at the tail.
LEMMA AppendLinks ==
  ASSUME NEW T, NEW s \in Seq(T), IsInjective(s), NEW x \in T, x \notin ToSet(s)
  PROVE  /\ Append(s, x) \in Seq(T)
         /\ IsInjective(Append(s, x))
         /\ ToSet(Append(s, x)) = ToSet(s) \cup {x}
<1>1. PICK m \in Nat : m = Len(s) /\ DOMAIN s = 1..m
  OBVIOUS
<1>2. PICK r : r = Append(s, x)
  OBVIOUS
<1>3. /\ r \in Seq(T) /\ DOMAIN r = 1..(m + 1) /\ r[m + 1] = x
      /\ \A i \in 1..m : r[i] = s[i]
  BY <1>1, <1>2
<1>4. \A i \in 1..m : s[i] # x
  BY <1>1 DEF ToSet
<1>5. IsInjective(r)
  <2> SUFFICES ASSUME NEW h \in 1..(m + 1), NEW i \in 1..(m + 1), r[h] = r[i]
               PROVE  h = i
    BY <1>3 DEF IsInjective
  <2>1. (h \in 1..m \/ h = m + 1) /\ (i \in 1..m \/ i = m + 1)
    OBVIOUS
  <2>2. CASE h \in 1..m /\ i \in 1..m
    BY <2>2, <1>1, <1>3 DEF IsInjective
  <2>3. CASE h = m + 1 \/ i = m + 1
    BY <2>1, <2>3, <1>3, <1>4
  <2> QED
    BY <2>1, <2>2, <2>3
<1>6. ASSUME NEW y \in ToSet(r) PROVE y \in ToSet(s) \cup {x}
  <2>1. PICK i \in 1..(m + 1) : y = r[i]
    BY <1>3 DEF ToSet
  <2>2. CASE i \in 1..m
    BY <2>1, <2>2, <1>1, <1>3 DEF ToSet
  <2>3. CASE i = m + 1
    BY <2>1, <2>3, <1>3
  <2> QED
    BY <2>2, <2>3
<1>7. ASSUME NEW y \in ToSet(s) \cup {x} PROVE y \in ToSet(r)
  <2>1. CASE y \in ToSet(s)
    <3>1. PICK i \in 1..m : y = s[i]
      BY <2>1, <1>1 DEF ToSet
    <3>2. i \in DOMAIN r /\ y = r[i]
      BY <3>1, <1>3
    <3> QED
      BY <3>2 DEF ToSet
  <2>2. CASE y = x
    <3>1. m + 1 \in DOMAIN r /\ y = r[m + 1]
      BY <2>2, <1>3
    <3> QED
      BY <3>1 DEF ToSet
  <2> QED
    BY <2>1, <2>2
<1> QED
  BY <1>2, <1>3, <1>5, <1>6, <1>7

\* A list that links each of some threads at most once is no longer than they
\* are many.
LEMMA LinkedOnceIsShort ==
  ASSUME NEW s, NEW T, s \in Seq(T), IsInjective(s), NEW S, IsFiniteSet(S), ToSet(s) \subseteq S
  PROVE  Len(s) <= Cardinality(S)
<1>1. PICK m \in Nat : m = Len(s) /\ DOMAIN s = 1..m
  OBVIOUS
<1>2. s \in Injection(1..m, S)
  <2>1. \A i \in 1..m : s[i] \in S
    BY <1>1 DEF ToSet
  <2>2. s \in [1..m -> S]
    BY <1>1, <2>1
  <2> QED
    BY <2>2, <1>1 DEF Injection, IsInjective
<1>3. Cardinality(1..m) <= Cardinality(S)
  BY <1>2, FS_Injection
<1>4. Cardinality(1..m) = m
  <2>1. 1 \in Int /\ m \in Int
    OBVIOUS
  <2> QED
    BY <2>1, FS_Interval
<1> QED
  BY <1>1, <1>3, <1>4

\* A record unlinked: the others stay, each once.
LEMMA UnlinkedIs ==
  ASSUME DataTypes, IsInjective(list), NEW t \in Threads
  PROVE  /\ Unlinked(t) \in Seq(Threads)
         /\ IsInjective(Unlinked(t))
         /\ ToSet(Unlinked(t)) = Linked \ {t}
<1>1. list \in Seq(Threads)
  BY DEF DataTypes
<1>2. Linked \subseteq Threads
  BY <1>1 DEF Linked, ToSet
<1>3. PICK S : S = Threads \ {t}
  OBVIOUS
<1>4. Unlinked(t) = Only(list, S)
  BY <1>3 DEF Unlinked
<1>5. /\ Only(list, S) \in Seq(Threads) /\ IsInjective(Only(list, S))
      /\ ToSet(Only(list, S)) = ToSet(list) \cap S
  BY <1>1, OnlyKeeps
<1> QED
  BY <1>2, <1>3, <1>4, <1>5 DEF Linked

\* What a wake takes: records of its own address; every one of them, or one if
\* there is one.
LEMMA ChosenIs ==
  ASSUME DataTypes, IsInjective(list), NEW t \in Threads, op[t] \in {"wake_one", "wake_all"}
  PROVE  LET M == {w \in Linked : key[w] = key[t]}
         IN  /\ Chosen(t) \subseteq M
             /\ op[t] = "wake_all" => Chosen(t) = M
             /\ op[t] = "wake_one" => Chosen(t) = {} \/ \E w : Chosen(t) = {w}
             /\ Chosen(t) = {} => M = {}
<1>1. list \in Seq(Threads)
  BY DEF DataTypes
<1>2. Linked \subseteq Threads
  BY <1>1 DEF Linked, ToSet
<1>3. PICK S : S = {w \in Threads : key[w] = key[t]}
  OBVIOUS
<1>4. PICK s : s = Matching(t)
  OBVIOUS
<1>5. s \in Seq(Threads) /\ ToSet(s) = Linked \cap S
  BY <1>1, <1>3, <1>4, OnlyKeeps DEF Matching, Linked
<1>6. Linked \cap S = {w \in Linked : key[w] = key[t]}
  BY <1>2, <1>3
<1>7. CASE op[t] = "wake_all"
  <2>1. Chosen(t) = ToSet(s)
    BY <1>4, <1>7 DEF Chosen
  <2> QED
    BY <2>1, <1>5, <1>6, <1>7
<1>8. CASE op[t] = "wake_one"
  <2>1. Chosen(t) = First(s)
    BY <1>4, <1>8 DEF Chosen
  <2>2. CASE Len(s) = 0
    <3>1. DOMAIN s = {}
      BY <1>5, <2>2
    <3>2. First(s) = {} /\ ToSet(s) = {}
      BY <3>1 DEF First, ToSet
    <3> QED
      BY <3>2, <2>1, <1>5, <1>6, <1>8
  <2>3. CASE Len(s) # 0
    <3>1. 1 \in DOMAIN s
      BY <1>5, <2>3
    <3>2. First(s) = {s[1]} /\ s[1] \in ToSet(s)
      BY <3>1 DEF First, ToSet
    <3> QED
      BY <3>2, <2>1, <1>5, <1>6, <1>8, ZenonT(30)
  <2> QED
    BY <2>2, <2>3
<1> QED
  BY <1>7, <1>8

-----------------------------------------------------------------------------
\* The frame.

USE DEF Blocking, Timed, InCall, Holding, Ops

\* The steps that take no decision.
LEMMA FrameStep ==
  ASSUME FrameTypeOK(Ops), FrameInv, NEW t \in Threads,
         \/ Enter(t) \/ Resume(t) \/ Leave(t) \/ SpuriousWake(t)
         \/ DeadlineExpires(t) \/ Return(t)
  PROVE  FrameTypeOK(Ops)' /\ FrameInv' /\ handle' = handle
<1> USE DEF FrameTypeOK, PairTypeOK, FrameInv
<1>1. CASE Enter(t)
  BY <1>1, NoThreadAssumption DEF Enter, mjs_mutex_lock, Goto
<1>2. CASE Resume(t)
  BY <1>2, NoThreadAssumption DEF Resume, condvar_return, Goto
<1>3. CASE Leave(t)
  BY <1>3, NoThreadAssumption DEF Leave, mjs_mutex_unlock, Goto
<1>4. CASE SpuriousWake(t)
  BY <1>4 DEF SpuriousWake, condvar_unpark
<1>5. CASE DeadlineExpires(t)
  BY <1>5 DEF DeadlineExpires, condvar_unpark, Status
<1>6. CASE Return(t)
  BY <1>6 DEF Return, Goto, Status, pairVars
<1> QED
  BY <1>1, <1>2, <1>3, <1>4, <1>5, <1>6

\* A step inside the critical section, and the broadcast.
LEMMA CriticalFrame ==
  ASSUME FrameTypeOK(Ops), FrameInv, NEW t \in Threads, CriticalStep(t),
         rc' \in [Threads -> {"ok", "ETIMEDOUT", "EBUSY"}]
  PROVE  /\ FrameTypeOK(Ops)' /\ FrameInv'
         /\ handle' = handle /\ parked' = parked /\ op' = op
<1>1. PICK l \in Holding : pc' = [pc EXCEPT ![t] = l]
  BY DEF CriticalStep, Goto
<1>2. UNCHANGED <<owner, parked, woken, op, handle>> /\ pc[t] \in Holding
  BY DEF CriticalStep, pairVars
<1> QED
  BY <1>1, <1>2 DEF FrameTypeOK, PairTypeOK, FrameInv

-----------------------------------------------------------------------------
\* The invariant.

\* Initially.
LEMMA InvInitially ==
  ASSUME Init
  PROVE  Inv
<1>1. FrameTypeOK(Ops) /\ FrameInv /\ handle = "live"
  BY NoThreadAssumption DEF Init, FrameInit, PairInit, FrameTypeOK, PairTypeOK, FrameInv
<1>2. NoAddr \in Addrs
  BY TableAssumption DEF NoAddr
<1>3. DataTypes
  BY <1>2, TableAssumption DEF Init, DataTypes
<1>4. StatusInv /\ WaitersSleep /\ MarkedLive
  BY DEF Init, FrameInit, StatusInv, WaitersSleep, MarkedLive
<1>5. Linked = {} /\ IsInjective(list)
  BY DEF Init, Linked, ToSet, IsInjective
<1>6. LinkedLive /\ SleepersFound
  BY <1>5 DEF Init, FrameInit, PairInit, LinkedLive, SleepersFound
<1> QED
  BY <1>1, <1>3, <1>4, <1>6 DEF Inv

\* A store by a client.
LEMMA StoreKeepsInv ==
  ASSUME Inv, NEW t \in Threads, NEW a \in Addrs, NEW v \in Values, StoreWord(t, a, v)
  PROVE  Inv'
<1>1. UNCHANGED <<owner, parked, woken, pc, op, rc, handle, key, list, marked, n>>
  BY DEF StoreWord, frameVars, pairVars
<1>2. DataTypes'
  BY <1>1 DEF StoreWord, Inv, DataTypes
<1> QED
  BY <1>1, <1>2
     DEF Inv, FrameTypeOK, PairTypeOK, FrameInv, StatusInv, WaitersSleep, LinkedLive,
         MarkedLive, SleepersFound, Linked

\* A call begins.
LEMMA CallKeepsInv ==
  ASSUME Inv, NEW t \in Threads, NEW o \in Ops, NEW a \in Addrs, Call(t, o, a),
         o \in Blocking => t \in Sleepers
  PROVE  Inv'
<1>1. /\ pc[t] = "idle" /\ pc' = [pc EXCEPT ![t] = "enter"] /\ op' = [op EXCEPT ![t] = o]
      /\ UNCHANGED <<owner, parked, woken, rc, handle, word, list, marked, n>>
      /\ key' = [key EXCEPT ![t] = a]
  BY DEF Call, Begin, Goto, pairVars
<1>2. FrameTypeOK(Ops)' /\ FrameInv' /\ handle' = "live"
  BY <1>1 DEF Inv, FrameTypeOK, PairTypeOK, FrameInv
<1>3. DataTypes' /\ Linked' = Linked /\ Linked \subseteq Threads
  BY <1>1 DEF Inv, DataTypes, Linked, ToSet
<1>4. StatusInv' /\ WaitersSleep'
  BY <1>1 DEF Inv, FrameTypeOK, StatusInv, WaitersSleep
<1>5. t \notin Linked /\ t \notin marked
  BY <1>1 DEF Inv, LinkedLive, MarkedLive
<1>6. LinkedLive' /\ MarkedLive'
  BY <1>1, <1>3, <1>5 DEF Inv, FrameTypeOK, DataTypes, LinkedLive, MarkedLive
<1>7. SleepersFound'
  BY <1>1, <1>3 DEF Inv, FrameTypeOK, SleepersFound
<1> QED
  BY <1>2, <1>3, <1>4, <1>6, <1>7 DEF Inv

\* The wait loop goes back to its test or to the return, its record unlinked.
LEMMA UnlinkKeepsInv ==
  ASSUME Inv, NEW t \in Threads, GivenUp(t) \/ Differs(t) \/ (Link(t) /\ PastDeadline(t))
  PROVE  Inv'
<1>1. /\ pc[t] = "body" /\ op[t] \in Blocking /\ t \notin marked
      /\ list' = Unlinked(t) /\ UNCHANGED <<word, key, marked, n>>
      /\ UNCHANGED <<pairVars, op, handle>>
  <2>1. CASE GivenUp(t)
    BY <2>1 DEF GivenUp, GiveUp
  <2>2. CASE Differs(t)
    BY <2>2 DEF Differs
  <2>3. CASE Link(t) /\ PastDeadline(t)
    <3>1. ~Sleep(t)
      BY <2>3 DEF Sleep, PastDeadline, Goto, Inv, FrameTypeOK
    <3> QED
      BY <2>3, <3>1 DEF Link, PastDeadline
  <2> QED
    BY <2>1, <2>2, <2>3
<1>2. PICK l \in {"body", "leave"} : pc' = [pc EXCEPT ![t] = l]
  BY <1>1 DEF GivenUp, GiveUp, Differs, Link, PastDeadline, Goto, Inv, FrameTypeOK
<1>3. rc' \in [Threads -> {"ok", "ETIMEDOUT", "EBUSY"}] /\ StatusInv'
  BY <1>1, <1>2 DEF GivenUp, GiveUp, Differs, Link, PastDeadline, Goto, Status, Inv,
                    FrameTypeOK, StatusInv
<1>4. FrameTypeOK(Ops)' /\ FrameInv' /\ handle' = "live" /\ parked' = parked
  <2>1. CriticalStep(t)
    BY <1>1, <1>2 DEF CriticalStep, Goto
  <2> QED
    BY <2>1, <1>3, CriticalFrame DEF Inv
<1>5. DataTypes' /\ IsInjective(list') /\ Linked' = Linked \ {t} /\ Linked \subseteq Threads
  <2>1. DataTypes /\ IsInjective(list)
    BY DEF Inv, LinkedLive
  <2>2. Linked' = ToSet(list')
    BY DEF Linked
  <2>3. Linked \subseteq Threads
    BY <2>1 DEF DataTypes, Linked, ToSet
  <2> QED
    BY <1>1, <2>1, <2>2, <2>3, UnlinkedIs DEF DataTypes
<1>6. t \notin parked
  BY <1>1 DEF Inv, FrameInv
<1>7. WaitersSleep' /\ LinkedLive' /\ MarkedLive'
  BY <1>1, <1>2, <1>5
     DEF Inv, FrameTypeOK, DataTypes, WaitersSleep, LinkedLive, MarkedLive
<1>8. SleepersFound'
  BY <1>1, <1>2, <1>4, <1>5, <1>6 DEF Inv, FrameTypeOK, SleepersFound
<1> QED
  BY <1>3, <1>4, <1>5, <1>7, <1>8 DEF Inv

\* The wait loop links the record and sleeps.
LEMMA SleepKeepsInv ==
  ASSUME Inv, NEW t \in Threads, Link(t), Sleep(t)
  PROVE  Inv'
<1>1. /\ pc[t] = "body" /\ op[t] \in Blocking /\ t \notin marked /\ rc[t] = "ok"
      /\ pc' = [pc EXCEPT ![t] = "blocked"] /\ parked' = parked \cup {t}
      /\ owner' = NoThread
      /\ UNCHANGED <<woken, op, rc, handle, word, key, marked, n>>
  BY DEF Link, Sleep, Goto, mjs_condvar_wait
<1>2. list' = Append(Unlinked(t), t)
  <2>1. ~PastDeadline(t)
    BY <1>1 DEF PastDeadline, Inv, FrameTypeOK
  <2> QED
    BY <2>1 DEF Link
<1>3. FrameTypeOK(Ops)' /\ FrameInv' /\ handle' = "live"
  BY <1>1, NoThreadAssumption DEF Inv, FrameTypeOK, PairTypeOK, FrameInv
<1>4. DataTypes' /\ IsInjective(list') /\ Linked' = Linked \cup {t} /\ Linked \subseteq Threads
  <2>1. DataTypes /\ IsInjective(list)
    BY DEF Inv, LinkedLive
  <2>2. PICK s : s = Unlinked(t)
    OBVIOUS
  <2>3. s \in Seq(Threads) /\ IsInjective(s) /\ ToSet(s) = Linked \ {t}
    BY <2>1, <2>2, UnlinkedIs
  <2>4. /\ Append(s, t) \in Seq(Threads) /\ IsInjective(Append(s, t))
        /\ ToSet(Append(s, t)) = ToSet(s) \cup {t}
    BY <2>3, AppendLinks
  <2>5. Linked' = ToSet(list')
    BY DEF Linked
  <2>6. list' \in Seq(Threads) /\ IsInjective(list') /\ Linked' = Linked \cup {t}
    BY <1>2, <2>2, <2>3, <2>4, <2>5
  <2>7. Linked \subseteq Threads
    BY <2>1 DEF DataTypes, Linked, ToSet
  <2> QED
    BY <1>1, <2>1, <2>6, <2>7 DEF DataTypes
<1>5. StatusInv' /\ WaitersSleep'
  BY <1>1 DEF Inv, FrameTypeOK, StatusInv, WaitersSleep
<1>6. LinkedLive' /\ MarkedLive'
  BY <1>1, <1>4 DEF Inv, FrameTypeOK, DataTypes, LinkedLive, MarkedLive
<1>7. SleepersFound'
  BY <1>1, <1>4 DEF Inv, FrameTypeOK, SleepersFound
<1> QED
  BY <1>3, <1>4, <1>5, <1>6, <1>7 DEF Inv

\* A marked thread sees its mark.
LEMMA HandoffKeepsInv ==
  ASSUME Inv, NEW t \in Threads, Handoff(t)
  PROVE  Inv'
<1>1. /\ pc[t] = "body" /\ t \in marked /\ marked' = marked \ {t}
      /\ pc' = [pc EXCEPT ![t] = "leave"] /\ rc' = [rc EXCEPT ![t] = "ok"]
      /\ UNCHANGED <<pairVars, op, handle, word, key, list, n>>
  BY DEF Handoff, Goto, Status
<1>2. FrameTypeOK(Ops)' /\ FrameInv' /\ handle' = "live" /\ parked' = parked
  <2>1. rc' \in [Threads -> {"ok", "ETIMEDOUT", "EBUSY"}]
    BY <1>1 DEF Inv, FrameTypeOK
  <2>2. CriticalStep(t)
    BY <1>1 DEF CriticalStep, Goto
  <2> QED
    BY <2>1, <2>2, CriticalFrame DEF Inv
<1>3. DataTypes' /\ Linked' = Linked /\ Linked \subseteq Threads
  BY <1>1 DEF Inv, DataTypes, Linked, ToSet
<1>4. StatusInv' /\ WaitersSleep'
  BY <1>1 DEF Inv, FrameTypeOK, StatusInv, WaitersSleep
<1>5. t \notin Linked
  BY <1>1 DEF Inv, LinkedLive
<1>6. LinkedLive' /\ MarkedLive'
  BY <1>1, <1>3, <1>5 DEF Inv, FrameTypeOK, DataTypes, LinkedLive, MarkedLive
<1>7. SleepersFound'
  BY <1>1, <1>2, <1>3 DEF Inv, FrameTypeOK, SleepersFound
<1> QED
  BY <1>2, <1>3, <1>4, <1>6, <1>7 DEF Inv

\* A wake unlinks and marks the records it takes; when there are some it goes on
\* to the broadcast.
LEMMA MarkKeepsInv ==
  ASSUME Inv, NEW t \in Threads, Mark(t)
  PROVE  Inv'
<1>1. PICK C : C = Chosen(t)
  OBVIOUS
<1>2. /\ pc[t] = "body" /\ op[t] \in {"wake_one", "wake_all"}
      /\ list' = Only(list, Threads \ C) /\ marked' = marked \cup C
      /\ n' = [n EXCEPT ![t] = Cardinality(C)]
      /\ pc' = [pc EXCEPT ![t] = IF C = {} THEN "leave" ELSE "signal"]
      /\ UNCHANGED <<pairVars, op, rc, handle, word, key>>
  BY <1>1 DEF Mark, Goto
<1>3. DataTypes /\ IsInjective(list) /\ Linked \subseteq Threads
  BY DEF Inv, LinkedLive, DataTypes, Linked, ToSet
<1>4. C \subseteq Linked /\ C \subseteq Threads
  BY <1>1, <1>2, <1>3, ChosenIs
<1>5. FrameTypeOK(Ops)' /\ FrameInv' /\ handle' = "live" /\ parked' = parked
  <2>1. rc' \in [Threads -> {"ok", "ETIMEDOUT", "EBUSY"}]
    BY <1>2 DEF Inv, FrameTypeOK
  <2>2. CriticalStep(t)
    BY <1>2 DEF CriticalStep, Goto
  <2> QED
    BY <2>1, <2>2, CriticalFrame DEF Inv
<1>6. list' \in Seq(Threads) /\ IsInjective(list') /\ Linked' = Linked \ C
  <2>1. PICK S : S = Threads \ C
    OBVIOUS
  <2>2. /\ Only(list, S) \in Seq(Threads) /\ IsInjective(Only(list, S))
        /\ ToSet(Only(list, S)) = ToSet(list) \cap S
    BY <1>3, OnlyKeeps DEF DataTypes
  <2>3. Linked' = ToSet(list') /\ Linked = ToSet(list)
    BY DEF Linked
  <2> QED
    BY <1>2, <1>3, <2>1, <2>2, <2>3
<1>7. DataTypes'
  <2>1. IsFiniteSet(C) /\ Cardinality(C) \in Nat
    BY <1>4, TableAssumption, FS_Subset, FS_CardinalityType
  <2> QED
    BY <2>1, <1>2, <1>3, <1>4, <1>6 DEF DataTypes
<1>8. t \notin Linked /\ t \notin marked
  BY <1>2 DEF Inv, LinkedLive, MarkedLive
<1>9. StatusInv' /\ WaitersSleep'
  BY <1>2 DEF Inv, FrameTypeOK, StatusInv, WaitersSleep
<1>10. LinkedLive' /\ MarkedLive'
  BY <1>2, <1>3, <1>4, <1>6, <1>8
     DEF Inv, FrameTypeOK, DataTypes, LinkedLive, MarkedLive
<1>11. SleepersFound'
  <2>1. \A u \in Threads : pc'[u] = "blocked" => u \in Linked' \cup marked'
    BY <1>2, <1>6 DEF Inv, FrameTypeOK, SleepersFound
  <2>2. ASSUME NEW u \in parked' \ Linked' PROVE \E w \in Threads : pc'[w] = "signal"
    <3>1. CASE C = {}
      BY <2>2, <3>1, <1>2, <1>5, <1>6 DEF Inv, FrameTypeOK, SleepersFound
    <3>2. CASE C # {}
      BY <3>2, <1>2 DEF Inv, FrameTypeOK
    <3> QED
      BY <3>1, <3>2
  <2> QED
    BY <2>1, <2>2 DEF SleepersFound
<1> QED
  BY <1>5, <1>7, <1>9, <1>10, <1>11 DEF Inv

\* The broadcast: nobody is left asleep.
LEMMA BroadcastKeepsInv ==
  ASSUME Inv, NEW t \in Threads, Broadcast(t)
  PROVE  Inv'
<1>1. /\ pc[t] = "signal" /\ pc' = [pc EXCEPT ![t] = "leave"]
      /\ parked' = {} /\ woken' = woken \cup parked /\ owner' = owner
      /\ UNCHANGED <<op, rc, handle, word, key, list, marked, n>>
  BY DEF Broadcast, mjs_condvar_broadcast, Goto, dataVars
<1>2. FrameTypeOK(Ops)' /\ FrameInv' /\ handle' = "live"
  BY <1>1 DEF Inv, FrameTypeOK, PairTypeOK, FrameInv
<1>3. DataTypes' /\ Linked' = Linked /\ Linked \subseteq Threads
  BY <1>1 DEF Inv, DataTypes, Linked, ToSet
<1>4. StatusInv' /\ WaitersSleep'
  BY <1>1 DEF Inv, FrameTypeOK, StatusInv, WaitersSleep
<1>5. LinkedLive' /\ MarkedLive'
  BY <1>1, <1>3 DEF Inv, FrameTypeOK, DataTypes, LinkedLive, MarkedLive
<1>6. SleepersFound'
  BY <1>1, <1>3 DEF Inv, FrameTypeOK, SleepersFound
<1> QED
  BY <1>2, <1>3, <1>4, <1>5, <1>6 DEF Inv

\* The steps that look at neither the words nor the list, and the return.
LEMMA FrameKeepsInv ==
  ASSUME Inv, NEW t \in Threads, Frame(t) \/ Finish(t)
  PROVE  Inv'
<1>1. \/ Enter(t) \/ Resume(t) \/ Leave(t) \/ SpuriousWake(t)
      \/ DeadlineExpires(t) \/ Return(t)
  BY DEF Frame, Finish
<1>2. FrameTypeOK(Ops)' /\ FrameInv' /\ handle' = "live"
  BY <1>1, FrameStep DEF Inv
<1>3. UNCHANGED <<word, list, marked>> /\ Linked' = Linked /\ Linked \subseteq Threads
  BY DEF Frame, Finish, dataVars, Inv, DataTypes, Linked, ToSet
<1>4. DataTypes'
  <2>1. NoAddr \in Addrs
    BY TableAssumption DEF NoAddr
  <2> QED
    BY <2>1, <1>3 DEF Frame, Finish, dataVars, Inv, DataTypes
<1>5. /\ StatusInv' /\ WaitersSleep' /\ LinkedLive' /\ MarkedLive'
      /\ \A u \in Threads : pc'[u] = "blocked" => pc[u] = "blocked"
      /\ \A u \in Threads : pc[u] = "signal" => pc'[u] = "signal"
      /\ parked' \subseteq parked
  <2> USE <1>3 DEF Inv, FrameTypeOK, DataTypes, StatusInv, WaitersSleep, LinkedLive,
                   MarkedLive
  <2>1. CASE Enter(t)
    BY <2>1 DEF Enter, mjs_mutex_lock, Goto
  <2>2. CASE Resume(t)
    BY <2>2 DEF Resume, condvar_return, Goto, FrameInv
  <2>3. CASE Leave(t)
    BY <2>3 DEF Leave, mjs_mutex_unlock, Goto
  <2>4. CASE SpuriousWake(t)
    BY <2>4 DEF SpuriousWake, condvar_unpark
  <2>5. CASE DeadlineExpires(t)
    BY <2>5 DEF DeadlineExpires, condvar_unpark, Status, FrameInv
  <2>6. CASE Return(t)
    BY <2>6 DEF Return, Goto, Status, pairVars
  <2> QED
    BY <1>1, <2>1, <2>2, <2>3, <2>4, <2>5, <2>6
<1>6. SleepersFound'
  BY <1>3, <1>5 DEF Inv, SleepersFound
<1> QED
  BY <1>2, <1>4, <1>5, <1>6 DEF Inv

\* Every step of every thread preserves the invariant.
LEMMA NextKeepsInv ==
  ASSUME Inv, [Next]_vars
  PROVE  Inv'
<1>1. ASSUME NEW t \in Threads, NEW a \in Addrs, NEW v \in Values, StoreWord(t, a, v)
      PROVE  Inv'
  BY <1>1, StoreKeepsInv
<1>2. ASSUME NEW t \in Threads, NEW o \in Ops, NEW a \in Addrs, Call(t, o, a),
             o \in Blocking => t \in Sleepers
      PROVE  Inv'
  BY <1>2, CallKeepsInv
<1>3. ASSUME NEW t \in Threads, GivenUp(t) \/ Differs(t) PROVE Inv'
  BY <1>3, UnlinkKeepsInv
<1>4. ASSUME NEW t \in Threads, Link(t) PROVE Inv'
  <2>1. Sleep(t) \/ PastDeadline(t)
    BY <1>4 DEF Link
  <2> QED
    BY <1>4, <2>1, UnlinkKeepsInv, SleepKeepsInv
<1>5. ASSUME NEW t \in Threads, Handoff(t) PROVE Inv'
  BY <1>5, HandoffKeepsInv
<1>6. ASSUME NEW t \in Threads, Mark(t) PROVE Inv'
  BY <1>6, MarkKeepsInv
<1>7. ASSUME NEW t \in Threads, Broadcast(t) PROVE Inv'
  BY <1>7, BroadcastKeepsInv
<1>8. ASSUME NEW t \in Threads, Frame(t) \/ Finish(t) PROVE Inv'
  BY <1>8, FrameKeepsInv
<1>9. CASE UNCHANGED vars
  BY <1>9 DEF vars, frameVars, pairVars, dataVars, Inv, FrameTypeOK, PairTypeOK, FrameInv,
     DataTypes, StatusInv, WaitersSleep, LinkedLive, MarkedLive, SleepersFound, Linked
<1> QED
  BY <1>1, <1>2, <1>3, <1>4, <1>5, <1>6, <1>7, <1>8, <1>9 DEF Next

\* The inductive invariant holds in every reachable state of the table.
THEOREM TableInvariant == Spec => []Inv
<1>1. Init => Inv
  BY InvInitially
<1>2. Inv /\ [Next]_vars => Inv'
  BY NextKeepsInv
<1> QED
  BY <1>1, <1>2, PTL DEF Spec

\* Every variable of the table keeps its type, and the list of waiter records
\* never outgrows the threads that wait, whatever is relinked how often.
THEOREM TableTypeCorrect == Spec => []TypeOK
<1>1. Inv => TypeOK
  <2> SUFFICES ASSUME Inv PROVE TypeOK
    OBVIOUS
  <2>1. Linked \subseteq Sleepers
    BY SMTT(20) DEF Inv, WaitersSleep, LinkedLive, DataTypes, Linked, ToSet
  <2>2. IsFiniteSet(Sleepers)
    BY TableAssumption, FS_Subset
  <2>3. Len(list) <= Cardinality(Sleepers)
    BY <2>1, <2>2, LinkedOnceIsShort DEF Inv, DataTypes, LinkedLive, Linked
  <2> QED
    BY <2>3 DEF Inv, DataTypes, TypeOK
<1> QED
  BY <1>1, TableInvariant, PTL

\* No waiter record outlives the frame it is in while it is linked, and no
\* sleeper of mjs_atomic_wait_fallback is out of reach of a wake.
THEOREM TableRecordsAreLive == Spec => []RecordsAreLive
<1>1. Inv => RecordsAreLive
  <2> SUFFICES ASSUME Inv PROVE RecordsAreLive
    OBVIOUS
  <2>1. \A t \in parked : t \in Threads /\ pc[t] = "blocked"
    BY DEF Inv, FrameTypeOK, PairTypeOK, FrameInv
  <2> QED
    BY <2>1 DEF Inv, LinkedLive, SleepersFound, RecordsAreLive, Linked
<1> QED
  BY <1>1, TableInvariant, PTL

-----------------------------------------------------------------------------
\* The implementation of Futex.

AbsCall == [t \in Threads |-> CallOf(t)]

\* A step of t that leaves the records and locals of the other threads alone
\* changes the abstract call of t at most.
LEMMA OneCallMoves ==
  ASSUME NEW t \in Threads,
         \A u \in Threads \ {t} :
           /\ pc'[u] = pc[u] /\ op'[u] = op[u] /\ rc'[u] = rc[u]
           /\ u \in marked' <=> u \in marked
           /\ u \in Linked' <=> u \in Linked
  PROVE  AbsCall' = [AbsCall EXCEPT ![t] = CallOf(t)']
<1>1. ASSUME NEW u \in Threads \ {t} PROVE CallOf(u)' = CallOf(u)
  BY <1>1 DEF CallOf, Linked
<1> QED
  BY <1>1 DEF AbsCall

\* A step that moves no thread's abstract call.
LEMMA NoCallMoves ==
  ASSUME NEW t \in Threads, AbsCall' = [AbsCall EXCEPT ![t] = CallOf(t)'],
         CallOf(t)' = CallOf(t)
  PROVE  AbsCall' = AbsCall
BY DEF AbsCall

\* A store by a client, and the beginning of a call.
LEMMA ClientSteps ==
  ASSUME Inv, NEW t \in Threads
  PROVE  /\ \A a \in Addrs, v \in Values : StoreWord(t, a, v) => Abstract!Store(a, v)
         /\ \A o \in Ops, a \in Addrs :
              Call(t, o, a) =>
                Abstract!Invoke(t, IF o \in Blocking THEN "wait" ELSE o, a)
<1>1. ASSUME NEW a \in Addrs, NEW v \in Values, StoreWord(t, a, v)
      PROVE  Abstract!Store(a, v)
  <2>1. UNCHANGED <<pc, op, rc, list, marked, key, n>> /\ word' = [word EXCEPT ![a] = v]
    BY <1>1 DEF StoreWord, frameVars
  <2>2. AbsCall' = AbsCall
    BY <2>1 DEF AbsCall, CallOf
  <2> QED
    BY <2>1, <2>2 DEF Abstract!Store, AbsCall
<1>2. ASSUME NEW o \in Ops, NEW a \in Addrs, Call(t, o, a)
      PROVE  Abstract!Invoke(t, IF o \in Blocking THEN "wait" ELSE o, a)
  <2>1. /\ pc[t] = "idle" /\ pc' = [pc EXCEPT ![t] = "enter"]
        /\ op' = [op EXCEPT ![t] = o] /\ key' = [key EXCEPT ![t] = a]
        /\ UNCHANGED <<rc, word, list, marked, n>> /\ Linked' = Linked
    BY <1>2 DEF Call, Begin, Goto, Linked
  <2>2. rc[t] = "ok" /\ t \notin Linked /\ t \notin marked
    BY <2>1 DEF Inv, StatusInv, LinkedLive, MarkedLive
  <2>3. pc'[t] = "enter" /\ op'[t] = o
    BY <2>1 DEF Inv, FrameTypeOK
  <2>4. CallOf(t) = "none" /\ CallOf(t)' = IF o \in Blocking THEN "wait" ELSE o
    BY <2>1, <2>2, <2>3 DEF CallOf, Linked
  <2>5. AbsCall' = [AbsCall EXCEPT ![t] = CallOf(t)']
    BY <2>1, OneCallMoves DEF Inv, FrameTypeOK
  <2>6. AbsCall[t] = "none"
    BY <2>4 DEF AbsCall
  <2> QED
    BY <2>1, <2>4, <2>5, <2>6 DEF Abstract!Invoke, AbsCall
<1> QED
  BY <1>1, <1>2

\* What a step of the wait loop that unlinks the record of t does to the others.
LEMMA UnlinkMoves ==
  ASSUME Inv, NEW t \in Threads, NEW l, pc' = [pc EXCEPT ![t] = l], op' = op,
         \A u \in Threads \ {t} : rc'[u] = rc[u],
         marked' = marked, list' = Unlinked(t)
  PROVE  AbsCall' = [AbsCall EXCEPT ![t] = CallOf(t)'] /\ Linked' = Linked \ {t}
<1>1. Linked' = Linked \ {t}
  <2>1. DataTypes /\ IsInjective(list)
    BY DEF Inv, LinkedLive
  <2>2. Linked' = ToSet(list')
    BY DEF Linked
  <2> QED
    BY <2>1, <2>2, UnlinkedIs
<1> QED
  BY <1>1, OneCallMoves DEF Inv, FrameTypeOK

\* The wait loop gives up, sees the word differ, or is about to wait (on).
LEMMA WaitSteps ==
  ASSUME Inv, NEW t \in Threads
  PROVE  /\ GivenUp(t) => Abstract!TimeOut(t)
         /\ Differs(t) => Abstract!Differs(t)
         /\ Link(t) => Abstract!Block(t) \/ UNCHANGED <<word, AbsCall, key, n>>
<1>a. AbsCall[t] = CallOf(t)
  BY DEF AbsCall
<1>1. ASSUME GivenUp(t) PROVE Abstract!TimeOut(t)
  <2>1. /\ pc[t] = "body" /\ op[t] \in Blocking /\ t \notin marked /\ rc[t] = "ETIMEDOUT"
        /\ pc' = [pc EXCEPT ![t] = "leave"] /\ list' = Unlinked(t)
        /\ UNCHANGED <<op, rc, word, key, marked, n>>
    BY <1>1 DEF GivenUp, GiveUp, Goto
  <2>2. pc'[t] = "leave"
    BY <2>1 DEF Inv, FrameTypeOK
  <2>3. CallOf(t) = "waiting" /\ CallOf(t)' = "timed_out"
    BY <2>1, <2>2 DEF CallOf
  <2>4. AbsCall' = [AbsCall EXCEPT ![t] = CallOf(t)']
    BY <2>1, UnlinkMoves
  <2> QED
    BY <1>a, <2>1, <2>3, <2>4 DEF Abstract!TimeOut, AbsCall
<1>2. ASSUME Differs(t) PROVE Abstract!Differs(t)
  <2>1. /\ pc[t] = "body" /\ op[t] \in Blocking /\ t \notin marked /\ rc[t] = "ok"
        /\ pc' = [pc EXCEPT ![t] = "leave"] /\ list' = Unlinked(t)
        /\ word[key[t]] # Zero
        /\ UNCHANGED <<op, rc, word, key, marked, n>>
    BY <1>2 DEF Differs, Goto
  <2>2. pc'[t] = "leave"
    BY <2>1 DEF Inv, FrameTypeOK
  <2>3. CallOf(t) \in {"wait", "waiting"} /\ CallOf(t)' = "ok"
    BY <2>1, <2>2 DEF CallOf
  <2>4. AbsCall' = [AbsCall EXCEPT ![t] = CallOf(t)']
    BY <2>1, UnlinkMoves
  <2> QED
    BY <1>a, <2>1, <2>3, <2>4 DEF Abstract!Differs, AbsCall
<1>3. ASSUME Link(t) PROVE Abstract!Block(t) \/ UNCHANGED <<word, AbsCall, key, n>>
  <2>1. /\ pc[t] = "body" /\ op[t] \in Blocking /\ t \notin marked /\ rc[t] = "ok"
        /\ word[key[t]] = Zero /\ UNCHANGED <<op, word, key, marked, n>>
    BY <1>3 DEF Link, Sleep, PastDeadline
  <2>2. CallOf(t)' = "waiting" /\ AbsCall' = [AbsCall EXCEPT ![t] = CallOf(t)']
    <3>1. CASE Sleep(t)
      <4>1. Inv'
        BY <1>3, <3>1, SleepKeepsInv
      <4>2. pc' = [pc EXCEPT ![t] = "blocked"] /\ rc' = rc
        BY <3>1 DEF Sleep, Goto
      <4>3. pc'[t] = "blocked"
        BY <4>2 DEF Inv, FrameTypeOK
      <4>4. t \in Linked'
        BY <4>1, <4>3, <2>1 DEF Inv, SleepersFound
      <4>5. CallOf(t)' = "waiting"
        BY <2>1, <4>3, <4>4 DEF CallOf, Linked
      <4>6. \A u \in Threads \ {t} : u \in Linked' <=> u \in Linked
        <5>1. list' = Append(Unlinked(t), t)
          <6>1. ~PastDeadline(t)
            BY <2>1, <4>2 DEF PastDeadline, Status, Inv, FrameTypeOK
          <6> QED
            BY <1>3, <6>1 DEF Link
        <5>2. PICK s : s = Unlinked(t)
          OBVIOUS
        <5>3. s \in Seq(Threads) /\ IsInjective(s) /\ ToSet(s) = Linked \ {t}
          BY <5>2, UnlinkedIs DEF Inv, LinkedLive
        <5>4. ToSet(Append(s, t)) = ToSet(s) \cup {t}
          BY <5>3, AppendLinks
        <5>5. Linked' = ToSet(list')
          BY DEF Linked
        <5> QED
          BY <5>1, <5>2, <5>3, <5>4, <5>5
      <4> QED
        BY <2>1, <4>2, <4>5, <4>6, OneCallMoves DEF Inv, FrameTypeOK
    <3>2. CASE PastDeadline(t)
      <4>1. /\ pc' = pc /\ rc' = [rc EXCEPT ![t] = "ETIMEDOUT"] /\ pc' = [pc EXCEPT ![t] = "body"]
        BY <3>2, <2>1 DEF PastDeadline, Status, Inv, FrameTypeOK
      <4>2. list' = Unlinked(t)
        <5>1. ~Sleep(t)
          BY <2>1, <4>1 DEF Sleep, Goto, Inv, FrameTypeOK
        <5> QED
          BY <1>3, <5>1 DEF Link
      <4>3. rc'[t] = "ETIMEDOUT" /\ \A u \in Threads \ {t} : rc'[u] = rc[u]
        BY <4>1 DEF Inv, FrameTypeOK
      <4>4. CallOf(t)' = "waiting"
        BY <2>1, <4>1, <4>3 DEF CallOf
      <4> QED
        BY <2>1, <4>1, <4>2, <4>3, <4>4, UnlinkMoves
    <3> QED
      BY <1>3, <3>1, <3>2 DEF Link
  <2>3. CallOf(t) \in {"wait", "waiting"}
    BY <2>1 DEF CallOf
  <2>4. CASE CallOf(t) = "wait"
    BY <1>a, <2>1, <2>2, <2>4 DEF Abstract!Block, AbsCall
  <2>5. CASE CallOf(t) = "waiting"
    <3>1. AbsCall' = AbsCall
      BY <2>2, <2>5, NoCallMoves
    <3> QED
      BY <3>1, <2>1
  <2> QED
    BY <2>3, <2>4, <2>5
<1> QED
  BY <1>1, <1>2, <1>3

\* While a wake holds the mutex, the linked records are the waiters.
LEMMA WaitersAreLinked ==
  ASSUME Inv, NEW t \in Threads, pc[t] = "body", op[t] \notin Blocking,
         NEW u \in Threads
  PROVE  CallOf(u) = "waiting" <=> u \in Linked
<1>1. ASSUME u \in Linked PROVE CallOf(u) = "waiting"
  <2>1. op[u] \in Blocking /\ pc[u] \in {"body", "blocked"} /\ u \notin marked
    BY <1>1 DEF Inv, LinkedLive
  <2> QED
    BY <1>1, <2>1 DEF CallOf, Linked
<1>2. ASSUME CallOf(u) = "waiting" PROVE u \in Linked
  <2>1. /\ u \notin marked /\ op[u] \in Blocking /\ pc[u] \in {"enter", "body", "blocked"}
        /\ u \in Linked \/ rc[u] # "ok"
    BY <1>2 DEF CallOf, Linked, Inv, FrameTypeOK
  <2>2. CASE rc[u] # "ok"
    <3>1. pc[u] \in {"body", "blocked"}
      BY <2>1, <2>2 DEF Inv, StatusInv
    <3>2. pc[u] # "body"
      BY <2>1 DEF Inv, FrameInv
    <3> QED
      BY <3>1, <3>2, <2>1 DEF Inv, SleepersFound
  <2> QED
    BY <2>1, <2>2
<1> QED
  BY <1>1, <1>2

\* Futex counts as the table does.
LEMMA SameCardinality ==
  ASSUME NEW S
  PROVE  Abstract!Cardinality(S) = Cardinality(S)
BY DEF Abstract!Cardinality, Cardinality, Abstract!IsFiniteSet, IsFiniteSet

\* A wake marks exactly the waiters the abstract wake takes.
LEMMA MarkStep ==
  ASSUME Inv, NEW t \in Threads, Mark(t)
  PROVE  Abstract!Wake(t)
<1>1. PICK C : C = Chosen(t)
  OBVIOUS
<1>2. /\ pc[t] = "body" /\ op[t] \in {"wake_one", "wake_all"}
      /\ list' = Only(list, Threads \ C) /\ marked' = marked \cup C
      /\ n' = [n EXCEPT ![t] = Cardinality(C)]
      /\ pc' = [pc EXCEPT ![t] = IF C = {} THEN "leave" ELSE "signal"]
      /\ UNCHANGED <<op, rc, word, key>>
  BY <1>1 DEF Mark, Goto
<1>3. DataTypes /\ IsInjective(list) /\ Linked \subseteq Threads
  BY DEF Inv, LinkedLive, DataTypes, Linked, ToSet
<1>4. PICK M : M = {w \in Linked : key[w] = key[t]}
  OBVIOUS
<1>5. /\ C \subseteq M /\ (op[t] = "wake_all" => C = M) /\ (C = {} => M = {})
      /\ op[t] = "wake_one" => C = {} \/ \E w : C = {w}
  BY <1>1, <1>2, <1>3, <1>4, ChosenIs
<1>6. M = Abstract!Waiters(key[t])
  <2>1. \A u \in Threads : CallOf(u) = "waiting" <=> u \in Linked
    BY <1>2, WaitersAreLinked
  <2> QED
    BY <2>1, <1>3, <1>4 DEF Abstract!Waiters
<1>7. t \notin Linked /\ t \notin marked /\ t \notin C
  BY <1>2, <1>4, <1>5 DEF Inv, LinkedLive, MarkedLive
<1>8. CallOf(t) = op[t]
  BY <1>2, <1>7 DEF CallOf
<1>9. CallOf(t)' = "woke"
  <2>1. pc'[t] \in {"leave", "signal"} /\ op'[t] = op[t] /\ t \notin marked'
    BY <1>2, <1>7 DEF Inv, FrameTypeOK
  <2> QED
    BY <2>1, <1>2 DEF CallOf
<1>10. ASSUME NEW u \in C PROVE u \in Threads /\ CallOf(u)' = "ok"
  <2>1. u \in Linked /\ u \in Threads /\ u # t /\ u \in marked'
    BY <1>2, <1>3, <1>4, <1>5, <1>7
  <2>2. pc'[u] = pc[u] /\ pc[u] # "idle"
    BY <2>1, <1>2 DEF Inv, FrameTypeOK, LinkedLive
  <2> QED
    BY <2>1, <2>2 DEF CallOf
<1>11. ASSUME NEW u \in Threads \ C, u # t PROVE CallOf(u)' = CallOf(u)
  <2>1. Linked' = Linked \ C
    <3>1. PICK S : S = Threads \ C
      OBVIOUS
    <3>2. ToSet(Only(list, S)) = ToSet(list) \cap S
      BY <1>3, OnlyKeeps DEF DataTypes
    <3>3. Linked' = ToSet(list') /\ Linked = ToSet(list)
      BY DEF Linked
    <3> QED
      BY <1>2, <1>3, <3>1, <3>2, <3>3
  <2>2. /\ pc'[u] = pc[u] /\ op'[u] = op[u] /\ rc'[u] = rc[u]
        /\ u \in marked' <=> u \in marked
        /\ u \in Linked' <=> u \in Linked
    BY <1>2, <1>11, <2>1 DEF Inv, FrameTypeOK
  <2> QED
    BY <2>2 DEF CallOf, Linked
<1>12. AbsCall' = [u \in Threads |->
                     IF u = t THEN "woke" ELSE IF u \in C THEN "ok" ELSE AbsCall[u]]
  BY <1>9, <1>10, <1>11 DEF AbsCall
<1>13. IF op[t] = "wake_all" \/ M = {} THEN C = M ELSE Cardinality(C) = 1
  BY <1>2, <1>5, FS_Singleton
<1>14. AbsCall[t] = op[t] /\ AbsCall[t] \in {"wake_one", "wake_all"}
  BY <1>2, <1>8 DEF AbsCall
<1>15. /\ C \in SUBSET Abstract!Waiters(key[t])
       /\ IF AbsCall[t] = "wake_all" \/ Abstract!Waiters(key[t]) = {}
            THEN C = Abstract!Waiters(key[t])
            ELSE Abstract!Cardinality(C) = 1
  BY <1>5, <1>6, <1>13, <1>14, SameCardinality
<1>16. /\ word' = word /\ key' = key
       /\ n' = [n EXCEPT ![t] = Abstract!Cardinality(C)]
  BY <1>2, SameCardinality
<1> QED
  BY <1>12, <1>14, <1>15, <1>16, Zenon DEF Abstract!Wake, AbsCall

\* The steps of the table that the abstract calls do not show.
LEMMA HiddenSteps ==
  ASSUME Inv, NEW t \in Threads, Handoff(t) \/ Broadcast(t) \/ Frame(t)
  PROVE  UNCHANGED <<word, AbsCall, key, n>>
<1>1. UNCHANGED <<word, key, list, n, op>> /\ Linked' = Linked
  BY DEF Handoff, Broadcast, Frame, dataVars, Enter, Resume, Leave, SpuriousWake,
         DeadlineExpires, Linked
<1>2. /\ \A u \in Threads \ {t} :
           /\ pc'[u] = pc[u] /\ rc'[u] = rc[u] /\ (u \in marked' <=> u \in marked)
      /\ CallOf(t)' = CallOf(t)
  <2> USE <1>1 DEF Inv, FrameTypeOK, CallOf
  <2>1. CASE Handoff(t)
    BY <2>1 DEF Handoff, Goto, Status, MarkedLive
  <2>2. CASE Broadcast(t)
    <3>1. t \notin Linked /\ t \notin marked
      BY <2>2 DEF Broadcast, LinkedLive, MarkedLive
    <3> QED
      BY <2>2, <3>1 DEF Broadcast, Goto, dataVars
  <2>3. CASE Frame(t) /\ Enter(t)
    BY <2>3 DEF Frame, Enter, Goto, dataVars
  <2>4. CASE Frame(t) /\ Resume(t)
    BY <2>4 DEF Frame, Resume, condvar_return, Goto, dataVars, FrameInv
  <2>5. CASE Frame(t) /\ Leave(t)
    BY <2>5 DEF Frame, Leave, Goto, dataVars
  <2>6. CASE Frame(t) /\ SpuriousWake(t)
    BY <2>6 DEF Frame, SpuriousWake, dataVars
  <2>7. CASE Frame(t) /\ DeadlineExpires(t)
    <3>1. pc[t] = "blocked" /\ t \in Linked \cup marked
      BY <2>7 DEF DeadlineExpires, condvar_unpark, FrameInv, SleepersFound
    <3> QED
      BY <2>7, <3>1 DEF Frame, DeadlineExpires, condvar_unpark, Status, dataVars, Linked
  <2> QED
    BY <2>1, <2>2, <2>3, <2>4, <2>5, <2>6, <2>7 DEF Frame
<1>3. AbsCall' = [AbsCall EXCEPT ![t] = CallOf(t)']
  BY <1>1, <1>2, OneCallMoves
<1>4. AbsCall' = AbsCall
  BY <1>2, <1>3, NoCallMoves
<1> QED
  BY <1>1, <1>4

\* The return of a call.
LEMMA FinishStep ==
  ASSUME Inv, NEW t \in Threads, Finish(t)
  PROVE  Abstract!Return(t)
<1>1. /\ pc[t] = "return" /\ pc' = [pc EXCEPT ![t] = "idle"]
      /\ op' = [op EXCEPT ![t] = "wait"] /\ rc' = [rc EXCEPT ![t] = "ok"]
      /\ key' = [key EXCEPT ![t] = NoAddr] /\ n' = [n EXCEPT ![t] = 0]
      /\ UNCHANGED <<word, list, marked>> /\ Linked' = Linked
  BY DEF Finish, Return, Goto, Status, Linked
<1>2. t \notin marked
  BY <1>1 DEF Inv, MarkedLive
<1>3. CallOf(t) \in {"ok", "timed_out", "woke"}
  BY <1>1, <1>2 DEF CallOf
<1>4. CallOf(t)' = "none"
  BY <1>1 DEF CallOf, Inv, FrameTypeOK
<1>5. AbsCall' = [AbsCall EXCEPT ![t] = CallOf(t)']
  BY <1>1, OneCallMoves DEF Inv, FrameTypeOK
<1>6. NoAddr \in Addrs /\ AbsCall[t] = CallOf(t)
  BY TableAssumption DEF NoAddr, AbsCall
<1> QED
  BY <1>1, <1>3, <1>4, <1>5, <1>6 DEF Abstract!Return, AbsCall

\* Under the mapping, a step of the table is a step of Futex or none.
LEMMA StepSimulation ==
  ASSUME Inv, [Next]_vars
  PROVE  [Abstract!Next]_(Abstract!futexVars)
<1>1. CASE UNCHANGED vars
  BY <1>1 DEF vars, frameVars, dataVars, Abstract!futexVars, CallOf
<1>2. CASE Next
  <2>1. PICK t \in Threads :
          \/ t \in Wakers /\ \E a \in Addrs, v \in Values : StoreWord(t, a, v)
          \/ t \in Sleepers /\ \E o \in Blocking, a \in Addrs : Call(t, o, a)
          \/ t \in Wakers /\ \E o \in Ops \ Blocking, a \in Addrs : Call(t, o, a)
          \/ GivenUp(t) \/ Differs(t) \/ Link(t) \/ Handoff(t)
          \/ Mark(t) \/ Broadcast(t)
          \/ Frame(t) \/ Finish(t)
    BY <1>2 DEF Next
  <2>2. CASE \E a \in Addrs, v \in Values : StoreWord(t, a, v)
    BY <2>2, ClientSteps DEF Abstract!Next
  <2>3. CASE \E o \in Ops, a \in Addrs : Call(t, o, a)
    <3>1. PICK o \in Ops, a \in Addrs : Call(t, o, a)
      BY <2>3
    <3>2. PICK p \in {"wait", "wake_one", "wake_all"} :
            p = IF o \in Blocking THEN "wait" ELSE o
      OBVIOUS
    <3>3. Abstract!Invoke(t, p, a)
      BY <3>1, <3>2, ClientSteps
    <3> QED
      BY <3>3 DEF Abstract!Next
  <2>4. CASE GivenUp(t) \/ Differs(t)
    BY <2>4, WaitSteps DEF Abstract!Next
  <2>5. CASE Link(t)
    BY <2>5, WaitSteps DEF Abstract!Next, Abstract!futexVars, AbsCall
  <2>6. CASE Mark(t)
    BY <2>6, MarkStep DEF Abstract!Next
  <2>7. CASE Handoff(t) \/ Broadcast(t) \/ Frame(t)
    BY <2>7, HiddenSteps DEF Abstract!futexVars, AbsCall
  <2>8. CASE Finish(t)
    BY <2>8, FinishStep DEF Abstract!Next
  <2> QED
    BY <2>1, <2>2, <2>3, <2>4, <2>5, <2>6, <2>7, <2>8
<1> QED
  BY <1>1, <1>2

\* The waits and wakes of the table are those of a futex whatever the threads
\* do and however addresses collide: the property the TLC run checks for three
\* threads and two addresses.
THEOREM TableImplementsFutex == Spec => ImplementsFutex
<1>1. Init => Abstract!Init
  <2> SUFFICES ASSUME Init PROVE Abstract!Init
    OBVIOUS
  <2>1. Inv
    BY InvInitially
  <2> QED
    BY <2>1 DEF Inv, DataTypes, Init, FrameInit, Abstract!Init, CallOf
<1>2. Inv /\ [Next]_vars => [Abstract!Next]_(Abstract!futexVars)
  BY StepSimulation
<1> QED
  BY <1>1, <1>2, TableInvariant, PTL DEF Spec, ImplementsFutex, Abstract!Spec

-----------------------------------------------------------------------------
\* The order of the records.

\* u's record is nearer the head of s than v's.
Before(s, u, v) == \E i, j \in DOMAIN s : i < j /\ s[i] = u /\ s[j] = v

\* A record is overtaken only by its own thread's doing: it came back from the
\* condvar without a mark, unlinked itself and linked again at the tail.
PlaceKept ==
  \A u, v \in ToSet(list') :
    Before(list, u, v) => Before(list', u, v) \/ (pc[u] = "body" /\ pc'[u] = "blocked")

KeepsItsPlace == [][PlaceKept]_vars

\* A wake that takes a record has taken every record of its address before it.
FirstTaken ==
  \A u, v \in Threads :
    Before(list, u, v) /\ key[u] = key[v] /\ v \in marked' \ marked => u \in marked'

WakesInOrder == [][FirstTaken]_vars

\* Ranks grow with the position.
LEMMA RankGrows ==
  ASSUME NEW m \in Nat, NEW K \in SUBSET (1..m), NEW a \in K, NEW b \in K, a < b
  PROVE  Cardinality(K \cap 1..a) < Cardinality(K \cap 1..b)
<1>1. PICK A, B : A = K \cap 1..a /\ B = K \cap 1..b
  OBVIOUS
<1>2. A \in SUBSET B /\ b \in B /\ b \notin A /\ B \in SUBSET K
  BY <1>1
<1>3. IsFiniteSet(A) /\ IsFiniteSet(B)
  BY <1>2, Rank, FS_Subset
<1>4. Cardinality(A) \in Nat /\ Cardinality(B) \in Nat
  BY <1>3, FS_CardinalityType
<1>5. Cardinality(A) <= Cardinality(B) /\ Cardinality(A) # Cardinality(B)
  BY <1>2, <1>3, FS_Subset
<1> QED
  BY <1>1, <1>4, <1>5

\* The walk keeps the order of what it leaves.
LEMMA OnlyOrder ==
  ASSUME NEW T, NEW s \in Seq(T), NEW S, NEW u \in S, NEW v \in S, Before(s, u, v)
  PROVE  Before(Only(s, S), u, v)
<1>1. PICK K : K = {i \in DOMAIN s : s[i] \in S}
  OBVIOUS
<1>2. PICK m \in Nat : m = Len(s) /\ DOMAIN s = 1..m
  OBVIOUS
<1>3. K \in SUBSET (1..m)
  BY <1>1, <1>2
<1>4. PICK c \in Nat : c = Cardinality(K)
  BY <1>3, Rank, FS_CardinalityType
<1>5. PICK r : r = Only(s, S)
  OBVIOUS
<1>6. r = [j \in 1..c |-> s[CHOOSE i \in K : Cardinality(K \cap 1..i) = j]]
  BY <1>1, <1>4, <1>5 DEF Only
<1>7. ASSUME NEW i \in K
      PROVE  Cardinality(K \cap 1..i) \in 1..c /\ r[Cardinality(K \cap 1..i)] = s[i]
  <2>1. PICK k \in 1..c : k = Cardinality(K \cap 1..i)
    BY <1>3, <1>4, RankBounded
  <2>2. PICK h : h = CHOOSE g \in K : Cardinality(K \cap 1..g) = k
    OBVIOUS
  <2>3. h \in K /\ Cardinality(K \cap 1..h) = Cardinality(K \cap 1..i)
    BY <2>1, <2>2
  <2>4. h = i
    BY <2>3, <1>3, RankUnique
  <2>5. r[k] = s[h]
    BY <1>6, <2>1, <2>2
  <2> QED
    BY <2>1, <2>4, <2>5
<1>8. PICK a \in K, b \in K : a < b /\ s[a] = u /\ s[b] = v
  BY <1>1 DEF Before
<1>9. PICK x, y : x = Cardinality(K \cap 1..a) /\ y = Cardinality(K \cap 1..b)
  OBVIOUS
<1>10. x \in 1..c /\ y \in 1..c /\ r[x] = u /\ r[y] = v
  BY <1>7, <1>8, <1>9
<1>11. x < y
  BY <1>3, <1>8, <1>9, RankGrows
<1>12. DOMAIN r = 1..c
  BY <1>6
<1> QED
  BY <1>5, <1>10, <1>11, <1>12 DEF Before

\* Linking at the tail keeps the order, and puts the record behind the others.
LEMMA AppendOrder ==
  ASSUME NEW T, NEW s \in Seq(T), NEW x, NEW u, NEW v,
         Before(s, u, v) \/ (u \in ToSet(s) /\ v = x)
  PROVE  Before(Append(s, x), u, v)
<1>1. PICK m \in Nat : m = Len(s) /\ DOMAIN s = 1..m
  OBVIOUS
<1>2. PICK r : r = Append(s, x)
  OBVIOUS
<1>3. DOMAIN r = 1..(m + 1) /\ r[m + 1] = x /\ \A i \in 1..m : r[i] = s[i]
  BY <1>1, <1>2
<1>4. \E i, j \in 1..(m + 1) : i < j /\ r[i] = u /\ r[j] = v
  <2>1. CASE Before(s, u, v)
    <3>1. PICK i \in 1..m, j \in 1..m : i < j /\ s[i] = u /\ s[j] = v
      BY <2>1, <1>1 DEF Before
    <3> QED
      BY <3>1, <1>3
  <2>2. CASE u \in ToSet(s) /\ v = x
    <3>1. PICK i \in 1..m : s[i] = u
      BY <2>2, <1>1 DEF ToSet
    <3> QED
      BY <3>1, <2>2, <1>3
  <2> QED
    BY <2>1, <2>2
<1> QED
  BY <1>2, <1>3, <1>4 DEF Before

\* What becomes of the list and the marks in a step.
LEMMA ListMoves ==
  ASSUME Inv, [Next]_vars
  PROVE  \/ list' = list /\ marked' \in SUBSET marked
         \/ \E t \in Threads : list' = Unlinked(t) /\ marked' = marked
         \/ \E t \in Threads : Link(t) /\ Sleep(t)
         \/ \E t \in Threads : Mark(t)
<1>1. ASSUME NEW t \in Threads, GivenUp(t) \/ Differs(t) \/ Link(t)
      PROVE  (list' = Unlinked(t) /\ marked' = marked) \/ (Link(t) /\ Sleep(t))
  BY <1>1 DEF GivenUp, Differs, Link
<1>2. ASSUME NEW t \in Threads, Handoff(t) \/ Broadcast(t) \/ Frame(t) \/ Finish(t)
      PROVE  list' = list /\ marked' \in SUBSET marked
  BY <1>2 DEF Handoff, Broadcast, Frame, Finish, dataVars
<1>3. ASSUME NEW t, NEW a, NEW v, StoreWord(t, a, v)
      PROVE  list' = list /\ marked' \in SUBSET marked
  BY <1>3 DEF StoreWord
<1>4. ASSUME NEW t, NEW o, NEW a, Call(t, o, a)
      PROVE  list' = list /\ marked' \in SUBSET marked
  BY <1>4 DEF Call
<1>5. CASE UNCHANGED vars
  BY <1>5 DEF vars, dataVars
<1> QED
  BY <1>1, <1>2, <1>3, <1>4, <1>5, Zenon DEF Next

\* A record a walk leaves keeps its place.
LEMMA WalkKeepsPlaces ==
  ASSUME Inv, NEW S, NEW u, NEW v, u \in S, v \in S, Before(list, u, v)
  PROVE  Before(Only(list, S), u, v)
BY OnlyOrder DEF Inv, DataTypes

\* PlaceKept, one kind of step after the other.
LEMMA PlaceStep ==
  ASSUME Inv, [Next]_vars
  PROVE  PlaceKept
<1> SUFFICES ASSUME NEW u \in ToSet(list'), NEW v \in ToSet(list'), Before(list, u, v)
             PROVE  Before(list', u, v) \/ (pc[u] = "body" /\ pc'[u] = "blocked")
  BY DEF PlaceKept
<1>1. list \in Seq(Threads) /\ IsInjective(list) /\ DataTypes
  BY DEF Inv, DataTypes, LinkedLive
<1>2. Linked \subseteq Threads
  BY <1>1 DEF Linked, ToSet
<1>3. CASE list' = list
  BY <1>3
<1>4. ASSUME NEW t \in Threads, list' = Unlinked(t) PROVE Before(list', u, v)
  <2>1. ToSet(list') = Linked \ {t}
    BY <1>1, <1>4, UnlinkedIs
  <2>2. u \in Threads \ {t} /\ v \in Threads \ {t}
    BY <2>1, <1>2
  <2> QED
    BY <1>4, <2>2, WalkKeepsPlaces DEF Unlinked
<1>5. ASSUME NEW t \in Threads, Link(t), Sleep(t)
      PROVE  Before(list', u, v) \/ (pc[u] = "body" /\ pc'[u] = "blocked")
  <2>1. pc[t] = "body" /\ pc'[t] = "blocked"
    BY <1>5 DEF Sleep, Goto, Inv, FrameTypeOK
  <2>2. PICK s : s = Unlinked(t)
    OBVIOUS
  <2>3. list' = Append(s, t)
    <3>1. ~PastDeadline(t)
      BY <2>1 DEF PastDeadline
    <3> QED
      BY <3>1, <1>5, <2>2 DEF Link
  <2>4. s \in Seq(Threads) /\ IsInjective(s) /\ ToSet(s) = Linked \ {t}
    BY <1>1, <2>2, UnlinkedIs
  <2>5. ToSet(list') = (Linked \ {t}) \cup {t}
    BY <2>3, <2>4, AppendLinks
  <2>6. CASE u = t
    BY <2>1, <2>6
  <2>7. CASE u # t /\ v = t
    BY <2>3, <2>4, <2>5, <2>7, AppendOrder
  <2>8. CASE u # t /\ v # t
    <3>1. u \in Threads \ {t} /\ v \in Threads \ {t}
      BY <2>5, <2>8, <1>2
    <3>2. Before(s, u, v)
      BY <3>1, <2>2, WalkKeepsPlaces DEF Unlinked
    <3> QED
      BY <3>2, <2>3, <2>4, AppendOrder
  <2> QED
    BY <2>6, <2>7, <2>8
<1>6. ASSUME NEW t \in Threads, Mark(t) PROVE Before(list', u, v)
  <2>1. PICK S : S = Threads \ Chosen(t)
    OBVIOUS
  <2>2. list' = Only(list, S)
    BY <1>6, <2>1 DEF Mark
  <2>3. ToSet(list') = ToSet(list) \cap S
    BY <1>1, <2>2, OnlyKeeps
  <2> QED
    BY <2>2, <2>3, WalkKeepsPlaces
<1> QED
  BY <1>3, <1>4, <1>5, <1>6, ListMoves

\* FirstTaken: the record wake_one takes is at the head of the matching ones, so
\* none of its address comes before it.
LEMMA FirstStep ==
  ASSUME Inv, [Next]_vars
  PROVE  FirstTaken
<1> SUFFICES ASSUME NEW u \in Threads, NEW v \in Threads, Before(list, u, v),
                    key[u] = key[v], v \in marked', v \notin marked
             PROVE  u \in marked'
  BY DEF FirstTaken
<1>1. list \in Seq(Threads) /\ IsInjective(list) /\ DataTypes
  BY DEF Inv, DataTypes, LinkedLive
<1>2. PICK t \in Threads : Mark(t)
  <2>1. ASSUME NEW w \in Threads, Link(w) PROVE marked' = marked
    BY <2>1 DEF Link
  <2> QED
    BY <2>1, ListMoves
<1>3. /\ pc[t] = "body" /\ op[t] \in {"wake_one", "wake_all"}
      /\ marked' = marked \cup Chosen(t) /\ v \in Chosen(t)
  BY <1>2 DEF Mark
<1>4. u \in Linked /\ v \in Linked
  BY DEF Before, Linked, ToSet
<1>5. key[v] = key[t]
  BY <1>1, <1>3, ChosenIs
<1>6. CASE op[t] = "wake_all"
  <2>1. u \in Chosen(t)
    BY <1>1, <1>3, <1>4, <1>5, <1>6, ChosenIs
  <2> QED
    BY <2>1, <1>3
<1>7. CASE op[t] = "wake_one"
  <2>1. PICK S : S = {w \in Threads : key[w] = key[t]}
    OBVIOUS
  <2>2. PICK s : s = Only(list, S)
    OBVIOUS
  <2>3. s = Matching(t) /\ s \in Seq(Threads) /\ IsInjective(s)
    BY <2>1, <2>2, <1>1, OnlyKeeps DEF Matching
  <2>4. Before(s, u, v)
    BY <2>1, <2>2, <1>5, WalkKeepsPlaces
  <2>5. 1 \in DOMAIN s /\ v = s[1]
    BY <2>3, <1>3, <1>7 DEF Chosen, First
  <2>6. PICK i \in DOMAIN s, j \in DOMAIN s : i < j /\ s[j] = v
    BY <2>4 DEF Before
  <2>7. j = 1
    BY <2>3, <2>5, <2>6 DEF IsInjective
  <2>8. i \in Nat \ {0}
    BY <2>3
  <2> QED
    BY <2>6, <2>7, <2>8
<1> QED
  BY <1>3, <1>6, <1>7

\* A record of mjs_atomic_wait_fallback loses its place in the list only by its
\* own thread going back to sleep after a return of the condvar without a mark:
\* no wake, timeout or arrival of others reorders the list.
THEOREM TableKeepsPlaces == Spec => KeepsItsPlace
<1>1. Inv /\ [Next]_vars => [PlaceKept]_vars
  BY PlaceStep
<1> QED
  BY <1>1, TableInvariant, PTL DEF Spec, KeepsItsPlace

\* mjs_atomic_wake_fallback never passes over a linked record of its address:
\* together with the theorem above, "FIFO wake choice within an address" (whose
\* claim for arrivals atomic_wait_fifo refutes) holds of the records' last links.
THEOREM TableWakesInOrder == Spec => WakesInOrder
<1>1. Inv /\ [Next]_vars => [FirstTaken]_vars
  BY FirstStep
<1> QED
  BY <1>1, TableInvariant, PTL DEF Spec, WakesInOrder
=============================================================================
