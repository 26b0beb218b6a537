---------------------------- MODULE IoUringProofs ----------------------------
(***************************************************************************)
(* The safety of the io_uring poller, for every table, every queue size    *)
(* and every bound.                                                        *)
(***************************************************************************)
EXTENDS IoUring, FiniteSetTheorems, SequenceTheorems, TLAPS

-----------------------------------------------------------------------------
\* What create holds.

Prefix(n) == {Stages[i] : i \in 1..n}

\* While it acquires, create holds the stages before the next one; a handle
\* that is out has them all.
HeldInv ==
  \/ pc = "none" /\ \E n \in 0..7 : held = Prefix(n)
  \/ pc \in {"enter", "short", "waiting", "drain", "idle"} /\ held = Prefix(7)
  \/ pc \in {"failed", "closed"} /\ held = {}

\* The stage create goes on with is the first it does not hold.
LEMMA NextOfPrefix ==
  ASSUME NEW n \in 0..7
  PROVE  Next_(Prefix(n)) = IF n = 7 THEN 0 ELSE n + 1
<1> DEFINE I == {i \in 1..Len(Stages) : Stages[i] \notin Prefix(n)}
<1>1. Len(Stages) = 7
  BY DEF Stages
<1>2. \A i, j \in 1..7 : Stages[i] = Stages[j] => i = j
  BY DEF Stages
<1>3. I = (n + 1)..7
  BY <1>1, <1>2 DEF Prefix
<1>4. Next_(Prefix(n)) = IF I # {} THEN Min(I) ELSE 0
  BY DEF Next_, SelectInSeq
<1>5. CASE n = 7
  BY <1>3, <1>4, <1>5
<1>6. CASE n < 7
  <2>1. n + 1 \in I /\ \A j \in I : n + 1 <= j
    BY <1>3, <1>6
  <2>2. Min(I) = n + 1
    <3> HIDE DEF I
    <3>1. \A x \in I : (\A y \in I : x <= y) => x = n + 1
      BY <2>1, <1>3
    <3> QED  BY <2>1, <3>1, Zenon DEF Min
  <2> QED  BY <2>1, <2>2, <1>4, <1>6
<1> QED  BY <1>5, <1>6

\* Whichever stage fails, the ladder gives back what the earlier ones took.
LEMMA UnwoundPrefix ==
  ASSUME NEW n \in 0..6
  PROVE  Unwound(Prefix(n), Stages[n + 1]) = {}
<1>1. CASE n = 0
  BY <1>1 DEF Unwound, iouring_unmap, Mappings, Prefix, Stages
<1>2. CASE n = 1
  BY <1>2 DEF Unwound, iouring_unmap, Mappings, Prefix, Stages
<1>3. CASE n = 2
  BY <1>3 DEF Unwound, iouring_unmap, Mappings, Prefix, Stages
<1>4. CASE n = 3
  BY <1>4 DEF Unwound, iouring_unmap, Mappings, Prefix, Stages
<1>5. CASE n = 4
  BY <1>5 DEF Unwound, iouring_unmap, Mappings, Prefix, Stages
<1>6. CASE n = 5
  BY <1>6 DEF Unwound, iouring_unmap, Mappings, Prefix, Stages
<1>7. CASE n = 6
  BY <1>7 DEF Unwound, iouring_unmap, Mappings, Prefix, Stages
<1> QED  BY <1>1, <1>2, <1>3, <1>4, <1>5, <1>6, <1>7

LEMMA HeldStep ==
  ASSUME HeldInv, [Next]_vars
  PROVE  HeldInv'
<1>1. CASE Acquire
  <2>1. PICK n \in 0..7 : held = Prefix(n)
    BY <1>1 DEF Acquire, HeldInv
  <2>2. n < 7 /\ held' = Prefix(n) \cup {Stages[n + 1]}
    BY <1>1, <2>1, NextOfPrefix DEF Acquire
  <2>3. held' = Prefix(n + 1)
    BY <2>2 DEF Prefix
  <2> QED  BY <1>1, <2>2, <2>3 DEF Acquire, HeldInv
<1>2. CASE AcquireFails
  <2>1. PICK n \in 0..7 : held = Prefix(n)
    BY <1>2 DEF AcquireFails, HeldInv
  <2>2. n < 7 /\ held' = Unwound(Prefix(n), Stages[n + 1])
    BY <1>2, <2>1, NextOfPrefix DEF AcquireFails
  <2> QED  BY <1>2, <2>2, UnwoundPrefix DEF AcquireFails, HeldInv
<1>3. CASE ArmWake
  <2>1. PICK n \in 0..7 : held = Prefix(n)
    BY <1>3 DEF ArmWake, HeldInv
  <2>2. n = 7
    BY <1>3, <2>1, NextOfPrefix DEF ArmWake
  <2> QED  BY <1>3, <2>1, <2>2 DEF ArmWake, Enter, HeldInv
<1>4. CASE Close
  <2>1. iouring_unmap(Prefix(7)) \ {"wake_fd", "ring", "tables", "handle"} = {}
    BY DEF iouring_unmap, Mappings, Prefix, Stages
  <2> QED  BY <1>4, <2>1 DEF Close, HeldInv
<1>5. CASE EnterFails
  <2>1. Unwound(Prefix(7) \ {"wake_fd"}, "armed") = {}
    BY DEF Unwound, iouring_unmap, Mappings, Prefix, Stages
  <2> QED  BY <1>5, <2>1 DEF EnterFails, HeldInv
<1>6. CASE Consume \/ ConsumeFails \/ TimerFires \/ WakeUp
  BY <1>6 DEF Consume, ConsumeFails, TimerFires, WakeUp, HeldInv
<1>7. ASSUME NEW p \in polls, NEW c, PollFires(p, c)
      PROVE  HeldInv'
  BY <1>7 DEF PollFires, HeldInv
<1>8. ASSUME NEW f \in Fds, NEW w \in Wants, RegisterNew(f, w) \/ Upsert(f, w)
      PROVE  HeldInv'
  BY <1>8 DEF RegisterNew, Upsert, Enter, HeldInv
<1>9. ASSUME NEW f \in Fds, Unregister(f)
      PROVE  HeldInv'
  BY <1>9 DEF Unregister, Enter, HeldInv
<1>10. ASSUME NEW timed \in BOOLEAN, WaitArm(timed)
       PROVE  HeldInv'
  BY <1>10 DEF WaitArm, Enter, HeldInv
<1>11. CASE StopsShort \/ Returns \/ WaitEndsEarly \/ WaitInterrupted
  BY <1>11 DEF StopsShort, Returns, Flushed, Registered, Unregistered, Created, Sleep,
       WaitReturns, Drain, Drained, WaitEndsEarly, WaitInterrupted, StartDrain,
       Submitted, Enter, HeldInv
<1>12. CASE UNCHANGED vars
  BY <1>12 DEF vars, HeldInv
<1> QED
  BY <1>1, <1>2, <1>3, <1>4, <1>5, <1>6, <1>7, <1>8, <1>9, <1>10, <1>11, <1>12
  DEF Next, WakePollFires

\* NothingLeaks: a failed create and a close give back everything create
\* acquired, whichever stage failed.
THEOREM NothingLeaksEver == Spec => []NothingLeaks
<1>1. Init => HeldInv
  <2>1. Prefix(0) = {}
    BY DEF Prefix
  <2> QED  BY <2>1 DEF Init, HeldInv
<1>2. HeldInv /\ [Next]_vars => HeldInv'
  BY HeldStep
<1>3. HeldInv => NothingLeaks
  BY DEF HeldInv, NothingLeaks
<1> QED  BY <1>1, <1>2, <1>3, PTL DEF Spec

-----------------------------------------------------------------------------
\* The types of the rest of the state.
Masks == Wants \cup {{}, {"r"}}
Toks == (0..MaxSeq) \cup {None}
Sqes == [op : {"add", "remove", "timeout", "untimeout"}, fd : Fds \cup {None},
         want : Masks, ud : 0..Timeout]
Polls == [fd : Fds \cup {None}, want : Masks, ud : 0..Timeout]
Cqes == [ud : 0..Timeout, ok : BOOLEAN, flags : SUBSET Flags]
Events == [fd : Fds, tok : Toks, flags : SUBSET Flags]
Calls == [op : {"none", "create", "register", "flush", "upsert", "unregister", "wait"},
          fd : Fds \cup {None}, want : Masks, tok : Toks, slot : Slots,
          seq : 0..MaxSeq, took : BOOLEAN, todo : Nat]

QueuesOK ==
  /\ sq \in Seq(Sqes) /\ cq \in Seq(Cqes)
  /\ polls \subseteq Polls /\ IsFiniteSet(polls) /\ timers \in Nat

TableOK ==
  /\ r_tok \in [Slots -> Toks] /\ r_int \in [Slots -> Masks]
  /\ reg \in [Fds -> Toks]

ReactorOK ==
  /\ wake_armed \in BOOLEAN /\ timeout_armed \in BOOLEAN
  /\ call \in Calls /\ out \in Seq(Events)
  /\ next_seq <= MaxSeq + 1

\* What a call has found out before it entered the kernel is still so when it
\* comes back, and the drain stays within the completions there are.
CallInv ==
  /\ pc = "none" => sq = <<>>
  /\ pc \in {"none", "idle", "failed", "closed"} => call = Idle
  /\ pc \in {"waiting", "drain"} => call.op = "wait"
  /\ pc = "drain" => call.todo <= Len(cq)
  /\ pc = "short" => call.took
  /\ call.op = "flush" /\ call.took => Room > 0
  /\ call.op \in {"register", "flush"} => call.fd \in Fds /\ r_fds[call.slot] = None
  /\ call.op \in {"upsert", "unregister"} =>
       call.fd \in Fds /\ r_fds[call.slot] = call.fd

Base == TypeOK /\ QueuesOK /\ TableOK /\ ReactorOK /\ CallInv /\ CountIsExact

\* Sequence numbers.  None has two outstanding polls, and those to come have
\* none; no two live slots share one, and the one of a call on its way is no
\* slot's.  A live slot's has one, and so has the eventfd's when it is armed.
Adding == call.op \in {"register", "flush", "upsert"}

AtMostOne == \A u \in 1..Wake : Outstanding(u) <= 1

Fresh == \A u \in 1..MaxSeq : u >= next_seq => Outstanding(u) = 0

Numbered ==
  /\ \A s \in Slots : r_seqs[s] < next_seq
  /\ \A s, t \in Slots : Live(s) /\ Live(t) /\ r_seqs[s] = r_seqs[t] /\ r_seqs[s] # 0
       => s = t
  /\ Adding => /\ call.seq \in 1..(next_seq - 1)
               /\ \A s \in Slots : Live(s) => r_seqs[s] # call.seq

InFlight ==
  Adding => \A u \in 1..MaxSeq :
              u = call.seq => Outstanding(u) = IF call.op = "flush" THEN 0 ELSE 1

Answered ==
  \A s \in Slots : Live(s) =>
    \A u \in 1..MaxSeq : u = r_seqs[s] => Outstanding(u) = 1

WakeOnce ==
  /\ pc = "none" => ~ wake_armed
  /\ Outstanding(Wake) = IF wake_armed \/ call.op = "create" THEN 1 ELSE 0

Accounted == AtMostOne /\ Fresh /\ Numbered /\ InFlight /\ Answered /\ WakeOnce

SeqInv == pc \in {"failed", "closed"} \/ Accounted

\* The probe of a descriptor goes k slots past its home.
StopsAt(f, k) ==
  /\ r_fds[Probe(f, k)] \in {None, f}
  /\ \A j \in 0..(k - 1) : r_fds[Probe(f, j)] \notin {None, f}

\* What probing relies on, as long as nothing was cut: a descriptor is in one
\* slot at most, no slot on the way to it is empty, and next to it is the token
\* it was last registered with.
ChainInv ==
  /\ \A s, t \in Slots : Live(s) /\ r_fds[s] = r_fds[t] => s = t
  /\ \A f \in Fds : \A k \in Slots : r_fds[Probe(f, k)] = f =>
       \A j \in 0..(k - 1) : r_fds[Probe(f, j)] # None
  /\ \A s \in Slots : Live(s) => r_tok[s] = reg[r_fds[s]] /\ r_tok[s] # None

CallsAreQuiet ==
  /\ call.op \notin {"none", "wait"} => out = <<>>
  /\ call.op \in {"register", "flush", "upsert"} => call.tok # None
  /\ call.op \in {"register", "flush", "upsert", "unregister"} =>
       \E k \in Slots : call.slot = Probe(call.fd, k) /\ StopsAt(call.fd, k)

-----------------------------------------------------------------------------
\* The table and the probe.

LEMMA LeastNat ==
  ASSUME NEW S \in SUBSET Nat, S # {}
  PROVE  \E k \in S : \A j \in S : k <= j
<1> DEFINE R == {ss \in Nat \X Nat : ss[1] < ss[2]}
<1>1. IsWellFoundedOn(R, Nat)
  BY NatLessThanWellFounded DEF OpToRel
<1> HIDE DEF R
<1>2. PICK x \in S : \A y \in S : ~ (<<y, x>> \in R)
  BY <1>1, WFMin
<1>3. ASSUME NEW y \in S PROVE x <= y
  <2>1. x \in Nat /\ y \in Nat
    OBVIOUS
  <2>2. y < x => <<y, x>> \in R
    BY <2>1 DEF R
  <2> QED  BY <1>2, <2>1, <2>2
<1> QED  BY <1>2, <1>3

LEMMA SlotsFinite == IsFiniteSet(Slots) /\ Cardinality(Slots) = Entries
BY FS_Interval, RingAssumption DEF Slots

LEMMA WrapsAround ==
  ASSUME NEW n \in Nat \ {0}, NEW a \in 0..(n - 1), NEW b \in 0..(n - 1)
  PROVE  (a + b) % n = IF a + b < n THEN a + b ELSE a + b - n
<1>1. CASE a + b < n
  BY <1>1
<1>2. CASE a + b >= n
  BY <1>2
<1> QED  BY <1>1, <1>2

\* The probe of a descriptor starts at its home slot and visits every slot
\* once.
LEMMA ProbeVisitsAll ==
  ASSUME NEW f \in Fds
  PROVE  /\ Probe(f, 0) = Hash[f]
         /\ \A k \in Slots : Probe(f, k) \in Slots
         /\ \A s \in Slots : \E k \in Slots : Probe(f, k) = s
         /\ \A j, k \in Slots : Probe(f, j) = Probe(f, k) => j = k
<1>1. Entries \in Nat \ {0} /\ Hash[f] \in 0..(Entries - 1)
  BY RingAssumption DEF Slots
<1>2. \A k \in Slots : Probe(f, k) = IF Hash[f] + k < Entries THEN Hash[f] + k
                                    ELSE Hash[f] + k - Entries
  BY <1>1, WrapsAround DEF Probe, Slots
<1>3. ASSUME NEW s \in Slots
      PROVE  \E k \in Slots : Probe(f, k) = s
  <2> DEFINE k == IF s >= Hash[f] THEN s - Hash[f] ELSE s - Hash[f] + Entries
  <2>1. k \in Slots /\ Probe(f, k) = s
    BY <1>1, <1>2 DEF Slots
  <2> QED  BY <2>1
<1>4. 0 \in Slots
  BY <1>1 DEF Slots
<1>5. \A j, k \in Slots : Probe(f, j) = Probe(f, k) => j = k
  BY <1>1, <1>2 DEF Slots
<1>6. Probe(f, 0) = Hash[f] /\ \A k \in Slots : Probe(f, k) \in Slots
  BY <1>1, <1>2, <1>4 DEF Slots
<1> QED
  BY <1>3, <1>5, <1>6

\* A probe ends in the table, and in a slot that is empty or the descriptor's
\* as long as the count says that there is room.
LEMMA ProbeEnds ==
  ASSUME NEW f \in Fds
  PROVE  /\ uring_slot(f) \in Slots
         /\ CountIsExact /\ r_count < Entries => r_fds[uring_slot(f)] \in {None, f}
         /\ r_fds[uring_slot(f)] \in {None, f} =>
              \E k \in Slots : uring_slot(f) = Probe(f, k) /\ StopsAt(f, k)
<1> DEFINE stops == {k \in Slots : r_fds[Probe(f, k)] \in {None, f}}
           Stop == CHOOSE k \in stops : \A j \in stops : k <= j
<1>1. Hash[f] \in Slots
  BY RingAssumption
<1>2. uring_slot(f) = IF stops = {} THEN Hash[f] ELSE Probe(f, Stop)
  BY DEF uring_slot
<1>3. stops \in SUBSET Nat
  BY RingAssumption DEF Slots
<1>4. stops # {} => Stop \in stops /\ \A j \in stops : Stop <= j
  <2> HIDE DEF stops
  <2>1. stops # {} => \E k \in stops : \A j \in stops : k <= j
    BY <1>3, LeastNat
  <2> QED  BY <2>1, Zenon
<1>5. CountIsExact /\ r_count < Entries => stops # {}
  <2> SUFFICES ASSUME CountIsExact, r_count < Entries
               PROVE  stops # {}
    OBVIOUS
  <2>1. {s \in Slots : Live(s)} # Slots
    BY SlotsFinite, RingAssumption, r_count # Entries DEF CountIsExact
  <2>2. PICK s \in Slots : r_fds[s] = None
    BY <2>1 DEF Live
  <2>3. PICK k \in Slots : Probe(f, k) = s
    BY ProbeVisitsAll
  <2>4. k \in stops
    BY <2>2, <2>3
  <2> QED  BY <2>4
<1>6. r_fds[Hash[f]] \in {None, f} => 0 \in stops
  BY ProbeVisitsAll, RingAssumption DEF Slots
<1>7. stops # {} => Stop \in Slots /\ r_fds[Probe(f, Stop)] \in {None, f}
  BY <1>4
<1>8. stops # {} => StopsAt(f, Stop)
  <2> SUFFICES ASSUME stops # {}, NEW j \in 0..(Stop - 1)
               PROVE  j \notin stops /\ j \in Slots
    BY <1>7 DEF StopsAt
  <2>1. Stop \in Slots /\ \A i \in stops : Stop <= i
    BY <1>4, <1>7
  <2> HIDE DEF stops, Stop
  <2> QED  BY <2>1, RingAssumption DEF Slots
<1> HIDE DEF stops, Stop
<1> QED
  BY <1>1, <1>2, <1>5, <1>6, <1>7, <1>8, ProbeVisitsAll

-----------------------------------------------------------------------------
\* Types and the count.

LEMMA Numbers ==
  /\ Entries \in Nat \ {0} /\ Cap \in Nat \ {0} /\ MaxSeq \in Nat
  /\ Wake = MaxSeq + 1 /\ Timeout = MaxSeq + 2 /\ 0 \in Slots
BY RingAssumption DEF Wake, Timeout, Slots

LEMMA IdleTyped == Idle \in Calls /\ Idle.op = "none"
BY Numbers DEF Idle, Calls, Masks, Toks

LEMMA BaseInit == Init => Base
<1> SUFFICES ASSUME Init PROVE Base
  OBVIOUS
<1>1. TypeOK
  BY Numbers DEF Init, TypeOK, Range
<1>2. QueuesOK
  BY FS_EmptySet DEF Init, QueuesOK
<1>3. TableOK
  BY DEF Init, TableOK, Toks, Masks
<1>4. ReactorOK /\ CallInv
  <2>1. ReactorOK
    <3>1. wake_armed \in BOOLEAN /\ timeout_armed \in BOOLEAN
      BY Zenon DEF Init
    <3>2. call \in Calls /\ out \in Seq(Events) /\ next_seq <= MaxSeq + 1
      BY IdleTyped, Numbers DEF Init
    <3> QED  BY <3>1, <3>2 DEF ReactorOK
  <2>2. CallInv
    BY IdleTyped DEF Init, CallInv
  <2> QED  BY <2>1, <2>2
<1>5. CountIsExact
  <2>1. {s \in Slots : Live(s)} = {}
    BY DEF Init, Live
  <2> QED  BY <2>1, FS_EmptySet DEF Init, CountIsExact
<1> QED  BY <1>1, <1>2, <1>3, <1>4, <1>5 DEF Base

\* A step that leaves the table alone.
LEMMA TableUnmoved ==
  ASSUME Base, UNCHANGED <<table, reg>>
  PROVE  /\ TableOK' /\ CountIsExact'
         /\ r_fds' = r_fds /\ r_fds \in [Slots -> Fds \cup {None}]
         /\ (r_seqs \in [Slots -> 0..MaxSeq])' /\ (r_count \in 0..Entries)'
BY DEF Base, TableOK, TypeOK, CountIsExact, Live, table

LEMMA AcquireBase ==
  ASSUME Base, HeldInv, HeldInv', Acquire \/ AcquireFails
  PROVE  Base'
<1> USE Numbers, TableUnmoved
<1>1. (held \subseteq Range(Stages))'
  BY DEF HeldInv, Prefix, Range, Stages
<1>2. TypeOK'
  BY <1>1 DEF Acquire, AcquireFails, Base, TypeOK, table
<1>3. QueuesOK' /\ ReactorOK' /\ CallInv' /\ TableOK' /\ CountIsExact'
  BY DEF Acquire, AcquireFails, Base, QueuesOK, ReactorOK, CallInv, kernel, table, armed, Room
<1> QED  BY <1>2, <1>3 DEF Base

LEMMA ArmWakeBase ==
  ASSUME Base, ArmWake
  PROVE  Base'
<1> USE Numbers, TableUnmoved
<1> DEFINE q == <<PollAdd(None, {"r"}, Wake)>>
           c == [Idle EXCEPT !.op = "create"]
<1>1. q \in Seq(Sqes) /\ Len(q) = 1
  BY DEF PollAdd, Sqes, Masks
<1>2. sq' = q /\ call' = c /\ pc' = "enter" /\ out' = <<>>
  BY <1>1 DEF ArmWake, Enter, Base, CallInv
<1>3. c \in Calls /\ c.op = "create"
  BY IdleTyped DEF Calls, Idle
<1> HIDE DEF q, c
<1>4. TypeOK'
  <2>1. Len(sq') <= Entries /\ Len(out') <= Cap
    <3>1. Len(sq') = 1 /\ Len(out') = 0
      BY <1>1, <1>2
    <3> QED  BY <3>1
  <2> QED  BY <1>2, <2>1 DEF ArmWake, Base, TypeOK, table
<1>5. QueuesOK'
  BY <1>1, <1>2 DEF ArmWake, Base, QueuesOK, kernel
<1>6. ReactorOK' /\ CallInv'
  BY <1>2, <1>3 DEF ArmWake, Base, ReactorOK, CallInv, armed
<1>7. TableOK' /\ CountIsExact'
  BY DEF ArmWake
<1> QED  BY <1>4, <1>5, <1>6, <1>7 DEF Base

LEMMA CloseBase ==
  ASSUME Base, Close
  PROVE  Base'
<1> USE Numbers, TableUnmoved
<1>1. TypeOK'
  BY DEF Close, Base, TypeOK, table, iouring_unmap
<1>2. QueuesOK'
  BY FS_EmptySet DEF Close, QueuesOK
<1>3. ReactorOK' /\ CallInv'
  BY IdleTyped DEF Close, Base, ReactorOK, CallInv, armed
<1>4. TableOK' /\ CountIsExact'
  BY DEF Close
<1> QED  BY <1>1, <1>2, <1>3, <1>4 DEF Base

\* The request the kernel takes, and what is left of the queue.
LEMMA Taken ==
  ASSUME Base, sq # <<>>
  PROVE  /\ Head(sq) \in Sqes /\ Tail(sq) \in Seq(Sqes)
         /\ Len(sq) \in Nat \ {0} /\ Len(Tail(sq)) = Len(sq) - 1
BY HeadTailProperties, EmptySeq DEF Base, QueuesOK

LEMMA Posted ==
  ASSUME Base, NEW c \in Cqes
  PROVE  Append(cq, c) \in Seq(Cqes) /\ Len(Append(cq, c)) = Len(cq) + 1
BY AppendProperties DEF Base, QueuesOK

LEMMA TakeBase ==
  ASSUME Base, pc = "enter", sq # <<>>, sq' = Tail(sq),
         call' = [call EXCEPT !.took = TRUE],
         cq' \in Seq(Cqes), polls' \subseteq Polls, IsFiniteSet(polls'), timers' \in Nat,
         UNCHANGED <<held, table, next_seq, armed, pc, out, reg>>
  PROVE  Base'
<1> USE Numbers, TableUnmoved
<1>1. TypeOK'
  BY Taken, SMTT(20) DEF Base, TypeOK, table
<1>2. QueuesOK'
  BY Taken DEF QueuesOK
<1>3. call' \in Calls /\ call'.op = call.op /\ call'.fd = call.fd /\ call'.slot = call.slot
  BY DEF Base, ReactorOK, Calls
<1>4. Room' > 0
  BY Taken DEF Base, TypeOK, Room
<1>5. ReactorOK' /\ CallInv'
  BY <1>3, <1>4 DEF Base, ReactorOK, CallInv, armed
<1>6. TableOK' /\ CountIsExact'
  OBVIOUS
<1> QED  BY <1>1, <1>2, <1>5, <1>6 DEF Base

LEMMA Completions ==
  ASSUME Base, sq # <<>>
  PROVE  LET r == Head(sq) IN
         /\ Failed(r.ud) \in Cqes /\ Failed(0) \in Cqes /\ Done(0, {}) \in Cqes
         /\ Failed(Timeout) \in Cqes
BY Taken, Numbers DEF Failed, Done, Cqes, Sqes

LEMMA ConsumeBase ==
  ASSUME Base, Consume \/ ConsumeFails
  PROVE  Base'
<1> USE Numbers
<1> PICK r : r = Head(sq)
  OBVIOUS
<1> PICK hit : hit = {p \in polls : p.ud = r.ud}
  OBVIOUS
<1> PICK new : new = [fd |-> r.fd, want |-> r.want, ud |-> r.ud]
  OBVIOUS
<1>1. sq # <<>> /\ r \in Sqes
  BY Taken DEF Consume, ConsumeFails
<1>2. /\ cq \in Seq(Cqes) /\ polls \subseteq Polls /\ IsFiniteSet(polls) /\ timers \in Nat
      /\ Failed(r.ud) \in Cqes /\ Failed(0) \in Cqes /\ Done(0, {}) \in Cqes
      /\ Failed(Timeout) \in Cqes
  BY <1>1, Completions DEF Base, QueuesOK
<1>3. /\ \/ cq' = cq
         \/ cq' = cq \o <<Failed(r.ud), Done(0, {})>>
         \/ cq' = cq \o <<Failed(Timeout), Done(0, {})>>
         \/ cq' = Append(cq, Failed(0)) \/ cq' = Append(cq, Failed(r.ud))
      /\ polls' = polls \/ polls' = polls \cup {new} \/ polls' = polls \ hit
      /\ timers' = timers \/ timers' = timers + 1 \/ (timers > 0 /\ timers' = timers - 1)
  <2>1. CASE Consume
    BY <2>1, Zenon DEF Consume
  <2>2. CASE ConsumeFails
    BY <2>2, Zenon DEF ConsumeFails
  <2> QED  BY <2>1, <2>2
<1>4. /\ pc = "enter" /\ sq' = Tail(sq) /\ call' = [call EXCEPT !.took = TRUE]
      /\ UNCHANGED <<held, table, next_seq, armed, pc, out, reg>>
  BY DEF Consume, ConsumeFails
<1>5. cq' \in Seq(Cqes)
  <2>1. \A c, d \in Cqes : cq \o <<c, d>> \in Seq(Cqes) /\ Append(cq, c) \in Seq(Cqes)
    BY <1>2
  <2> QED  BY <1>2, <1>3, <2>1
<1>6. polls' \subseteq Polls /\ IsFiniteSet(polls')
  <2>1. new \in Polls
    BY <1>1 DEF Sqes, Polls
  <2>2. IsFiniteSet(polls \cup {new}) /\ IsFiniteSet(polls \ hit)
    BY <1>2, FS_AddElement, FS_Difference
  <2> QED  BY <1>2, <1>3, <2>1, <2>2
<1>7. timers' \in Nat
  BY <1>2, <1>3
<1> QED
  BY <1>1, <1>4, <1>5, <1>6, <1>7, TakeBase

\* The enter comes back with an error, or short of the end of the queue.
LEMMA EnterFailsBase ==
  ASSUME Base, EnterFails
  PROVE  Base'
<1> USE Numbers, TableUnmoved
<1>1. sq' \in Seq(Sqes) /\ Len(sq') <= Entries
  <2>1. CASE call.op = "create"
    BY <2>1, EmptySeq DEF EnterFails
  <2>2. CASE call.op # "create"
    BY <2>2 DEF EnterFails, Base, QueuesOK, TypeOK
  <2> QED  BY <2>1, <2>2
<1>2. TypeOK'
  BY <1>1 DEF EnterFails, Base, TypeOK, table, Unwound, iouring_unmap
<1>3. QueuesOK'
  BY <1>1 DEF EnterFails, Base, QueuesOK, kernel
<1>4. ReactorOK' /\ CallInv'
  BY IdleTyped DEF EnterFails, Base, ReactorOK, CallInv, armed
<1>5. TableOK' /\ CountIsExact'
  BY DEF EnterFails
<1> QED  BY <1>2, <1>3, <1>4, <1>5 DEF Base

LEMMA StopsShortBase ==
  ASSUME Base, StopsShort \/ WakeUp
  PROVE  Base'
<1> USE TableUnmoved
<1>1. TypeOK'
  BY DEF StopsShort, WakeUp, Base, TypeOK, table
<1>2. QueuesOK' /\ ReactorOK' /\ CallInv'
  BY DEF StopsShort, WakeUp, Base, QueuesOK, ReactorOK, CallInv, kernel, armed, table, Room
<1>3. TableOK' /\ CountIsExact'
  BY DEF StopsShort, WakeUp
<1> QED  BY <1>1, <1>2, <1>3 DEF Base

LEMMA FiresBase ==
  ASSUME Base, NEW d \in Cqes, InKernel, cq' = Append(cq, d),
         polls' \subseteq polls, timers' \in Nat,
         UNCHANGED <<held, sq, table, next_seq, armed, pc, call, out, reg>>
  PROVE  Base'
<1> USE TableUnmoved
<1>1. TypeOK'
  BY DEF Base, TypeOK, table
<1>2. QueuesOK'
  BY Posted, FS_Subset DEF Base, QueuesOK
<1>3. ReactorOK' /\ CallInv'
  BY DEF Base, ReactorOK, CallInv, QueuesOK, armed, table, InKernel, Room
<1>4. TableOK' /\ CountIsExact'
  OBVIOUS
<1> QED  BY <1>1, <1>2, <1>3, <1>4 DEF Base

LEMMA PollFiresBase ==
  ASSUME Base, NEW p \in polls, NEW c \in Conds \cup {{"r"}}, PollFires(p, c)
  PROVE  Base'
<1>1. Done(p.ud, c \cap (p.want \cup {"eof"})) \in Cqes
  BY RingAssumption DEF Base, QueuesOK, Polls, Done, Cqes, Flags
<1> QED
  BY <1>1, FiresBase DEF PollFires, Base, QueuesOK

LEMMA TimerFiresBase ==
  ASSUME Base, TimerFires
  PROVE  Base'
<1>1. Failed(Timeout) \in Cqes /\ timers' \in Nat
  BY Numbers DEF TimerFires, Failed, Cqes, Base, QueuesOK
<1> QED
  BY <1>1, FiresBase DEF TimerFires

-----------------------------------------------------------------------------
\* A call stages its requests and enters the kernel.
LEMMA EnterBase ==
  ASSUME Base, NEW q \in Seq(Sqes), NEW c \in Calls, Len(q) <= Room, Enter(q, c),
         ~ c.took,
         c.op \in {"register", "flush"} => c.fd \in Fds /\ r_fds[c.slot] = None,
         c.op \in {"upsert", "unregister"} => c.fd \in Fds /\ r_fds[c.slot] = c.fd,
         next_seq' \in 1..(MaxSeq + 1),
         UNCHANGED <<held, kernel, table, armed, reg>>
  PROVE  Base'
<1> USE Numbers, TableUnmoved
<1>1. sq' \in Seq(Sqes) /\ Len(sq') <= Entries
  BY ConcatProperties DEF Enter, Room, Base, QueuesOK, TypeOK
<1>2. TypeOK'
  <2>1. Len(out') <= Cap
    BY EmptySeq DEF Enter
  <2> QED  BY <1>1, <2>1 DEF Enter, Base, TypeOK, table
<1>3. QueuesOK'
  BY <1>1 DEF Base, QueuesOK, kernel
<1>4. ReactorOK' /\ CallInv'
  BY DEF Enter, Base, ReactorOK, CallInv, armed, table
<1>5. TableOK' /\ CountIsExact'
  OBVIOUS
<1> QED  BY <1>2, <1>3, <1>4, <1>5 DEF Base

LEMMA RegisterNewBase ==
  ASSUME Base, NEW f \in Fds, NEW w \in Wants, RegisterNew(f, w)
  PROVE  Base'
<1> USE Numbers
<1> PICK s : s = uring_slot(f)
  OBVIOUS
<1>1. s \in Slots /\ r_fds[s] = None
  BY ProbeEnds DEF RegisterNew, Base
<1> DEFINE c == [op |-> "register", fd |-> f, want |-> w, tok |-> next_seq,
                 slot |-> s, seq |-> next_seq, took |-> FALSE, todo |-> 0]
           d == [c EXCEPT !.op = "flush"]
           q == <<PollAdd(f, w, next_seq)>>
<1>2. next_seq \in 1..MaxSeq /\ next_seq' = next_seq + 1
  BY DEF RegisterNew, Base, TypeOK
<1>3. c \in Calls /\ c.op = "register" /\ c.fd = f /\ c.slot = s /\ ~ c.took
  BY <1>1, <1>2 DEF Calls, Masks, Toks
<1>d. d \in Calls /\ d.op = "flush" /\ d.fd = f /\ d.slot = s /\ ~ d.took
  <2> HIDE DEF c
  <2> QED  BY <1>3 DEF Calls
<1>4. q \in Seq(Sqes) /\ Len(q) = 1
  BY <1>2 DEF PollAdd, Sqes, Masks
<1>5. Room \in Nat
  BY DEF Base, TypeOK, QueuesOK, Room
<1>6. (Room > 0 /\ Enter(q, c)) \/ Enter(<<>>, d)
  BY DEF RegisterNew
<1>7. UNCHANGED <<held, kernel, table, armed, reg>> /\ next_seq' \in 1..(MaxSeq + 1)
  BY <1>2 DEF RegisterNew
<1>8. <<>> \in Seq(Sqes) /\ Len(<<>>) = 0
  BY EmptySeq
<1> HIDE DEF c, d, q
<1>9. CASE Room > 0 /\ Enter(q, c)
  <2>1. Len(q) <= Room
    BY <1>4, <1>5, <1>9
  <2>2. c.op \in {"register", "flush"} => c.fd \in Fds /\ r_fds[c.slot] = None
    BY <1>1, <1>3
  <2>3. c.op \notin {"upsert", "unregister"}
    BY <1>3
  <2> QED  BY <1>3, <1>4, <1>7, <1>9, <2>1, <2>2, <2>3, EnterBase
<1>10. CASE Enter(<<>>, d)
  <2>1. Len(<<>>) <= Room
    BY <1>5, <1>8
  <2>2. d.op \in {"register", "flush"} => d.fd \in Fds /\ r_fds[d.slot] = None
    BY <1>1, <1>d
  <2>3. d.op \notin {"upsert", "unregister"}
    BY <1>d
  <2> QED  BY <1>d, <1>7, <1>8, <1>10, <2>1, <2>2, <2>3, EnterBase
<1> QED  BY <1>6, <1>9, <1>10

LEMMA FlushedBase ==
  ASSUME Base, Flushed
  PROVE  Base'
<1> USE Numbers
<1> DEFINE c == [call EXCEPT !.op = "register", !.took = FALSE]
           q == <<PollAdd(call.fd, call.want, call.seq)>>
<1>1. c \in Calls /\ c.op = "register" /\ ~ c.took /\ c.fd = call.fd /\ c.slot = call.slot
  BY DEF Base, ReactorOK, Calls
<1>2. q \in Seq(Sqes) /\ Len(q) = 1
  BY DEF Base, ReactorOK, Calls, PollAdd, Sqes
<1>3. call.fd \in Fds /\ r_fds[call.slot] = None
  BY DEF Flushed, Base, CallInv
<1>4. Len(q) <= Room
  <2>1. Room > 0 /\ Room \in Nat
    BY EmptySeq DEF Flushed, Submitted, Base, CallInv, QueuesOK, TypeOK, Room
  <2> QED  BY <2>1, <1>2
<1>5. /\ UNCHANGED <<held, kernel, table, armed, reg>> /\ next_seq' \in 1..(MaxSeq + 1)
      /\ Enter(q, c)
  BY DEF Flushed, Base, TypeOK, ReactorOK
<1> HIDE DEF c, q
<1> QED  BY <1>1, <1>2, <1>3, <1>4, <1>5, EnterBase

\* Without room a call leaves behind what it has staged.
LEMMA StagedBase ==
  ASSUME Base, pc = "idle", NEW q \in Seq(Sqes), Len(q) <= Room, sq' = sq \o q,
         out' = <<>>, next_seq' \in 1..(MaxSeq + 1),
         UNCHANGED <<held, kernel, table, armed, reg, pc, call>>
  PROVE  Base'
<1> USE Numbers, TableUnmoved
<1>1. sq' \in Seq(Sqes) /\ Len(sq') <= Entries
  BY ConcatProperties DEF Room, Base, QueuesOK, TypeOK
<1>2. TypeOK'
  <2>1. Len(out') <= Cap
    BY EmptySeq
  <2> QED  BY <1>1, <2>1 DEF Base, TypeOK, table
<1>3. QueuesOK'
  BY <1>1 DEF Base, QueuesOK, kernel
<1>4. ReactorOK' /\ CallInv'
  BY IdleTyped DEF Base, ReactorOK, CallInv, armed, table
<1>5. TableOK' /\ CountIsExact'
  OBVIOUS
<1> QED  BY <1>2, <1>3, <1>4, <1>5 DEF Base

LEMMA UpsertBase ==
  ASSUME Base, NEW f \in Fds, NEW w \in Wants, Upsert(f, w)
  PROVE  Base'
<1> USE Numbers
<1> PICK s : s = uring_slot(f)
  OBVIOUS
<1>1. s \in Slots /\ r_fds[s] = f /\ r_seqs[s] \in 0..MaxSeq
  BY ProbeEnds DEF Upsert, Base, TypeOK
<1> DEFINE c == [op |-> "upsert", fd |-> f, want |-> w, tok |-> next_seq,
                 slot |-> s, seq |-> next_seq, took |-> FALSE, todo |-> 0]
           both == <<PollRemove(r_seqs[s]), PollAdd(f, w, next_seq)>>
<1>2. next_seq \in 1..MaxSeq /\ next_seq' = next_seq + 1
  BY DEF Upsert, Base, TypeOK
<1>3. c \in Calls /\ c.op = "upsert" /\ c.fd = f /\ c.slot = s /\ ~ c.took
  BY <1>1, <1>2 DEF Calls, Masks, Toks
<1>4. both \in Seq(Sqes) /\ Len(both) = 2
  BY <1>1, <1>2 DEF PollAdd, PollRemove, Sqes, Masks
<1>5. Room \in Nat
  BY DEF Base, TypeOK, QueuesOK, Room
<1>6. UNCHANGED <<held, kernel, table, armed, reg>> /\ next_seq' \in 1..(MaxSeq + 1)
  BY <1>2 DEF Upsert
<1>7. pc = "idle"
  BY DEF Upsert
<1>8. \/ Room >= 2 /\ Enter(both, c)
      \/ /\ Room < 2 /\ sq' = sq \o SubSeq(both, 1, Room)
         /\ out' = <<>> /\ UNCHANGED <<pc, call>>
  BY <1>5 DEF Upsert
<1> HIDE DEF both, c
<1>9. CASE Room >= 2 /\ Enter(both, c)
  BY <1>1, <1>3, <1>4, <1>5, <1>6, <1>9, EnterBase
<1>10. ASSUME Room < 2, sq' = sq \o SubSeq(both, 1, Room), out' = <<>>, UNCHANGED <<pc, call>>
       PROVE  Base'
  <2>1. \A i \in 1..Room : both[i] \in Sqes
    <3>1. \A i \in 1..Room : i \in 1..Len(both)
      BY <1>4, <1>5, <1>10
    <3> QED  BY <1>4, <3>1, ElementOfSeq
  <2>2. SubSeq(both, 1, Room) \in Seq(Sqes) /\ Len(SubSeq(both, 1, Room)) <= Room
    BY <1>5, <2>1, SubSeqProperties
  <2> QED  BY <1>6, <1>7, <1>10, <2>2, StagedBase
<1> QED  BY <1>8, <1>9, <1>10

LEMMA UnregisterBase ==
  ASSUME Base, NEW f \in Fds, Unregister(f)
  PROVE  Base'
<1> USE Numbers
<1> PICK s : s = uring_slot(f)
  OBVIOUS
<1>1. s \in Slots /\ r_fds[s] = f /\ r_seqs[s] \in 0..MaxSeq
  BY ProbeEnds DEF Unregister, Base, TypeOK
<1> DEFINE c == [Idle EXCEPT !.op = "unregister", !.fd = f, !.slot = s]
           q == <<PollRemove(r_seqs[s])>>
<1>2. c \in Calls /\ c.op = "unregister" /\ c.fd = f /\ c.slot = s /\ ~ c.took
  BY <1>1, IdleTyped DEF Calls, Idle
<1>3. q \in Seq(Sqes) /\ Len(q) = 1
  BY <1>1 DEF PollRemove, Sqes, Masks
<1>4. /\ UNCHANGED <<held, kernel, table, armed, reg>> /\ next_seq' \in 1..(MaxSeq + 1)
      /\ Enter(q, c) /\ Room >= 1
  BY DEF Unregister, Base, TypeOK, ReactorOK, QueuesOK, Room
<1> HIDE DEF c, q
<1> QED  BY <1>1, <1>2, <1>3, <1>4, EnterBase

-----------------------------------------------------------------------------
\* The calls come back.

\* One slot changes hands: the live slots are one more, one less or the same.
LEMMA CountMoves ==
  ASSUME Base, NEW s \in Slots, NEW x \in Fds \cup {None},
         r_fds' = [r_fds EXCEPT ![s] = x],
         r_count' = r_count + (IF x = None THEN 0 ELSE 1) - (IF r_fds[s] = None THEN 0 ELSE 1)
  PROVE  CountIsExact' /\ (r_count \in 0..Entries)' /\ (r_fds \in [Slots -> Fds \cup {None}])'
<1> DEFINE L == {t \in Slots : Live(t)}
<1>1. r_fds \in [Slots -> Fds \cup {None}] /\ r_count = Cardinality(L) /\ r_count \in 0..Entries
  BY DEF Base, TypeOK, CountIsExact
<1>2. IsFiniteSet(L)
  BY SlotsFinite, FS_Subset
<1>3. r_fds' \in [Slots -> Fds \cup {None}]
  BY <1>1
<1>4. L' = IF x = None THEN L \ {s} ELSE L \cup {s}
  BY <1>1 DEF Live
<1>5. s \in L <=> r_fds[s] # None
  BY DEF Live
<1>6. Cardinality(L') = r_count'
  <2> HIDE DEF L
  <2>1. CASE x = None
    BY <1>1, <1>2, <1>4, <1>5, <2>1, Numbers, FS_RemoveElement, SMTT(20)
  <2>2. CASE x # None
    BY <1>1, <1>2, <1>4, <1>5, <2>2, Numbers, FS_AddElement
  <2> QED  BY <2>1, <2>2
<1>7. IsFiniteSet(L') /\ Cardinality(L') \in Nat /\ Cardinality(L') <= Entries
  BY SlotsFinite, FS_Subset, FS_CardinalityType
<1> QED
  BY <1>3, <1>6, <1>7, Numbers DEF CountIsExact

LEMMA RegisteredBase ==
  ASSUME Base, Registered
  PROVE  Base'
<1> USE Numbers
<1>1. /\ call \in Calls /\ call.slot \in Slots /\ call.fd \in Fds /\ call.seq \in 0..MaxSeq
      /\ call.tok \in Toks /\ call.want \in Masks
      /\ call.op = "register" => r_fds[call.slot] = None
      /\ call.op = "upsert" => r_fds[call.slot] = call.fd
  BY DEF Registered, Base, ReactorOK, CallInv, Calls
<1>2. call.fd # None
  BY <1>1, RingAssumption
<1>3. r_count \in Nat
  BY DEF Base, TypeOK
<1>4. CountIsExact' /\ (r_count \in 0..Entries)' /\ (r_fds \in [Slots -> Fds \cup {None}])'
  <2>1. r_count' = r_count + (IF call.fd = None THEN 0 ELSE 1)
                   - (IF r_fds[call.slot] = None THEN 0 ELSE 1)
    BY <1>1, <1>2, <1>3 DEF Registered
  <2>2. r_fds' = [r_fds EXCEPT ![call.slot] = call.fd]
    BY DEF Registered
  <2> QED  BY <1>1, <2>1, <2>2, CountMoves
<1>5. TypeOK'
  BY <1>1, <1>4 DEF Registered, Base, TypeOK
<1>6. QueuesOK'
  BY DEF Registered, Base, QueuesOK, kernel
<1>7. TableOK'
  BY <1>1 DEF Registered, Base, TableOK
<1>8. ReactorOK' /\ CallInv'
  BY IdleTyped DEF Registered, Base, ReactorOK, CallInv, armed
<1> QED  BY <1>4, <1>5, <1>6, <1>7, <1>8 DEF Base

LEMMA UnregisteredBase ==
  ASSUME Base, Unregistered
  PROVE  Base'
<1> USE Numbers
<1>1. call \in Calls /\ call.slot \in Slots /\ call.fd \in Fds /\ r_fds[call.slot] = call.fd
  BY DEF Unregistered, Base, ReactorOK, CallInv, Calls
<1>2. call.fd # None
  BY <1>1, RingAssumption
<1>3. r_count \in Nat
  BY DEF Base, TypeOK
<1>4. CountIsExact' /\ (r_count \in 0..Entries)' /\ (r_fds \in [Slots -> Fds \cup {None}])'
  <2>1. r_count' = r_count + (IF None = None THEN 0 ELSE 1)
                   - (IF r_fds[call.slot] = None THEN 0 ELSE 1)
    BY <1>1, <1>2, <1>3 DEF Unregistered
  <2>2. r_fds' = [r_fds EXCEPT ![call.slot] = None]
    BY DEF Unregistered
  <2> QED  BY <1>1, <2>1, <2>2, CountMoves
<1>5. TypeOK'
  BY <1>1, <1>4 DEF Unregistered, Base, TypeOK
<1>6. QueuesOK'
  BY DEF Unregistered, Base, QueuesOK, kernel
<1>7. TableOK'
  BY <1>1 DEF Unregistered, Base, TableOK, Toks
<1>8. ReactorOK' /\ CallInv'
  BY IdleTyped DEF Unregistered, Base, ReactorOK, CallInv, armed
<1> QED  BY <1>4, <1>5, <1>6, <1>7, <1>8 DEF Base

LEMMA CreatedBase ==
  ASSUME Base, Created \/ Drained \/ WaitInterrupted
  PROVE  Base'
<1> USE TableUnmoved
<1>1. UNCHANGED <<held, sq, kernel, table, next_seq, out, reg>> /\ pc' = "idle" /\ call' = Idle
  BY DEF Created, Drained, WaitInterrupted
<1>2. wake_armed' \in BOOLEAN /\ timeout_armed' \in BOOLEAN
  BY Zenon DEF Created, Drained, WaitInterrupted, Base, ReactorOK, armed
<1>3. TypeOK'
  BY <1>1 DEF Base, TypeOK, table
<1>4. QueuesOK' /\ CallInv'
  BY <1>1, IdleTyped DEF Base, QueuesOK, CallInv, kernel
<1>5. ReactorOK'
  BY <1>1, <1>2, IdleTyped DEF Base, ReactorOK
<1> QED  BY <1>1, <1>3, <1>4, <1>5 DEF Base

LEMMA SleepBase ==
  ASSUME Base, Sleep \/ WaitReturns \/ WaitEndsEarly
  PROVE  Base'
<1> USE TableUnmoved
<1>1. UNCHANGED <<held, sq, kernel, table, next_seq, armed, out, reg>> /\ call.op = "wait"
  BY DEF Sleep, WaitReturns, WaitEndsEarly, StartDrain, Base, CallInv
<1>2. /\ call' \in Calls /\ call'.op = "wait"
      /\ pc' \in {"waiting", "drain"}
      /\ pc' = "drain" => call'.todo = Len(cq)
  <2>1. call \in Calls /\ Len(cq) \in Nat
    BY LenProperties DEF Base, ReactorOK, QueuesOK
  <2>2. CASE Sleep
    BY <1>1, <2>1, <2>2 DEF Sleep
  <2>3. CASE StartDrain
    <3>1. call' = [call EXCEPT !.todo = Len(cq)] /\ pc' = "drain"
      BY <2>3 DEF StartDrain
    <3> QED  BY <1>1, <2>1, <3>1 DEF Calls
  <2> QED  BY <2>2, <2>3 DEF WaitReturns, WaitEndsEarly
<1>3. TypeOK'
  BY <1>1, <1>2 DEF Base, TypeOK, table
<1>4. QueuesOK' /\ CallInv' /\ ReactorOK'
  BY <1>1, <1>2 DEF Base, QueuesOK, ReactorOK, CallInv, kernel, armed
<1> QED  BY <1>1, <1>3, <1>4 DEF Base

\* The completion the drain looks at, and the slot that answers to it.
LEMMA Drawn ==
  ASSUME Base, pc = "drain", call.todo > 0
  PROVE  /\ cq # <<>> /\ Head(cq) \in Cqes /\ Tail(cq) \in Seq(Cqes)
         /\ Len(cq) \in Nat \ {0} /\ Len(Tail(cq)) = Len(cq) - 1
<1>1. cq \in Seq(Cqes) /\ call.todo \in Nat /\ call.todo <= Len(cq) /\ Len(cq) \in Nat
  BY LenProperties DEF Base, QueuesOK, ReactorOK, CallInv, Calls
<1>2. cq # <<>>
  BY <1>1, EmptySeq
<1> QED  BY <1>1, <1>2, HeadTailProperties, EmptySeq

LEMMA FirstMatch ==
  ASSUME NEW ud, Matches(ud) # {}
  PROVE  LET m == Matches(ud)
             s == CHOOSE x \in m : \A y \in m : x <= y
         IN  s \in Slots /\ Live(s) /\ r_seqs[s] = ud
<1> DEFINE m == Matches(ud)
           s == CHOOSE x \in m : \A y \in m : x <= y
<1>1. m \in SUBSET Nat
  BY RingAssumption DEF Matches, Slots
<1>2. s \in m
  <2> HIDE DEF m
  <2>1. \E x \in m : \A y \in m : x <= y
    BY <1>1, LeastNat DEF m
  <2> QED  BY <2>1, Zenon
<1> HIDE DEF s
<1>3. s \in Slots /\ Live(s) /\ r_seqs[s] = ud
  BY <1>2 DEF Matches, Live
<1> QED  BY <1>3 DEF s

\* What the drain does to the table: nothing, or one slot retired or fired.
LEMMA DrainMoves ==
  ASSUME Base, Drain
  PROVE  \/ UNCHANGED <<table, out, cut>>
         \/ \E s \in Slots : /\ Live(s) /\ r_seqs[s] = Head(cq).ud
                             /\ Head(cq).ud \notin {Timeout, Wake}
                             /\ Retire(s) \/ Fire(s, Head(cq).flags)
<1> PICK c : c = Head(cq)
  OBVIOUS
<1>1. UNCHANGED <<table, out, cut>> \/ (c.ud \notin {Timeout, Wake} /\ DrainPoll(c))
  BY DEF Drain
<1>2. ASSUME c.ud \notin {Timeout, Wake}, DrainPoll(c)
      PROVE  \/ UNCHANGED <<table, out, cut>>
             \/ \E s \in Slots : /\ Live(s) /\ r_seqs[s] = c.ud
                                 /\ Retire(s) \/ Fire(s, c.flags)
  <2> PICK s : s = CHOOSE x \in Matches(c.ud) : \A y \in Matches(c.ud) : x <= y
    OBVIOUS
  <2>1. \/ UNCHANGED <<table, out, cut>>
        \/ Matches(c.ud) # {} /\ (Retire(s) \/ Fire(s, c.flags))
    BY <1>2, Zenon DEF DrainPoll
  <2>2. Matches(c.ud) # {} => s \in Slots /\ Live(s) /\ r_seqs[s] = c.ud
    BY FirstMatch
  <2> QED  BY <2>1, <2>2
<1> QED  BY <1>1, <1>2

LEMMA DrainBase ==
  ASSUME Base, Drain
  PROVE  Base'
<1> USE Numbers
<1>1. /\ cq' = Tail(cq) /\ Head(cq) \in Cqes /\ Tail(cq) \in Seq(Cqes) /\ Len(cq) \in Nat \ {0}
      /\ Len(Tail(cq)) = Len(cq) - 1
  BY Drawn DEF Drain
<1>2. QueuesOK'
  BY <1>1 DEF Drain, Base, QueuesOK
<1>3. call' \in Calls /\ call'.op = "wait" /\ call'.todo <= Len(cq')
  <2>1. call \in Calls /\ call.op = "wait" /\ call.todo <= Len(cq) /\ call.todo > 0
    BY DEF Drain, Base, ReactorOK, CallInv
  <2>2. call' = [call EXCEPT !.todo = call.todo - 1]
    BY DEF Drain
  <2>3. call' \in Calls /\ call'.op = "wait" /\ call'.todo = call.todo - 1 /\ call.todo \in Nat
    BY <2>1, <2>2 DEF Calls
  <2> QED  BY <1>1, <2>1, <2>3
<1>4. CallInv'
  <2>1. pc' = "drain"
    BY DEF Drain
  <2> QED  BY <1>3, <2>1 DEF CallInv
<1>5. wake_armed' \in BOOLEAN /\ timeout_armed' \in BOOLEAN
  BY Zenon DEF Drain, Base, ReactorOK, armed
<1>6. UNCHANGED <<held, sq, next_seq, pc, reg>>
  BY DEF Drain
<1>7. CASE UNCHANGED <<table, out>>
  <2>1. TypeOK' /\ ReactorOK'
    BY <1>3, <1>5, <1>6, <1>7 DEF Base, TypeOK, ReactorOK, table
  <2> QED  BY <1>2, <1>4, <1>6, <1>7, <2>1, TableUnmoved DEF Base
<1>8. ASSUME NEW s \in Slots, Live(s), Retire(s)
      PROVE  Base'
  <2>1. r_count' = r_count + (IF None = None THEN 0 ELSE 1)
                   - (IF r_fds[s] = None THEN 0 ELSE 1)
    BY <1>8 DEF Retire, Base, TypeOK, Live
  <2>2. CountIsExact' /\ (r_count \in 0..Entries)' /\ (r_fds \in [Slots -> Fds \cup {None}])'
    BY <1>8, <2>1, CountMoves DEF Retire
  <2>3. TypeOK'
    BY <1>6, <1>8, <2>2 DEF Base, TypeOK, Retire
  <2>4. TableOK' /\ ReactorOK'
    BY <1>3, <1>5, <1>6, <1>8 DEF Base, TableOK, ReactorOK, Retire
  <2> QED  BY <1>2, <1>4, <2>2, <2>3, <2>4 DEF Base
<1>9. ASSUME NEW s \in Slots, Live(s), Fire(s, Head(cq).flags)
      PROVE  Base'
  <2>1. Event(s, Head(cq).flags) \in Events
    BY <1>1, <1>9 DEF Event, Events, Base, TypeOK, TableOK, Live, Cqes
  <2>2. out' \in Seq(Events) /\ Len(out') <= Cap
    <3>1. out \in Seq(Events) /\ Len(out) <= Cap /\ Len(out) \in Nat
      BY LenProperties DEF Base, ReactorOK, TypeOK
    <3>2. CASE Len(out) < Cap
      BY <1>9, <2>1, <3>1, <3>2, AppendProperties DEF Fire
    <3>3. CASE ~ (Len(out) < Cap)
      BY <1>9, <3>1, <3>3 DEF Fire
    <3> QED  BY <3>2, <3>3
  <2>3. TypeOK'
    BY <1>6, <1>9, <2>2 DEF Base, TypeOK, Fire
  <2>4. TableOK' /\ ReactorOK'
    BY <1>3, <1>5, <1>6, <1>9, <2>2 DEF Base, TableOK, ReactorOK, Fire
  <2>5. CountIsExact'
    BY <1>9 DEF Base, CountIsExact, Fire, Live
  <2> QED  BY <1>2, <1>4, <2>3, <2>4, <2>5 DEF Base
<1> QED  BY <1>7, <1>8, <1>9, DrainMoves

-----------------------------------------------------------------------------
\* What a wait stages.

\* The slots to arm are ranked from 0, in their order.
LEMMA Ranked ==
  /\ IsFiniteSet(Unarmed) /\ Cardinality(Unarmed) \in Nat
  /\ \A s \in Unarmed : Rank(s) \in 0..(Cardinality(Unarmed) - 1)
  /\ \A s, t \in Unarmed : Rank(s) = Rank(t) => s = t
<1>1. Unarmed \in SUBSET Slots /\ Unarmed \subseteq Nat
  BY RingAssumption DEF Unarmed, Slots
<1>2. IsFiniteSet(Unarmed) /\ Cardinality(Unarmed) \in Nat
  BY <1>1, SlotsFinite, FS_Subset, FS_CardinalityType
<1> DEFINE Below(s) == {t \in Unarmed : t < s}
<1>3. \A s \in Unarmed : IsFiniteSet(Below(s)) /\ Cardinality(Below(s)) \in Nat
  <2> TAKE s \in Unarmed
  <2>1. Below(s) \in SUBSET Unarmed
    OBVIOUS
  <2> HIDE DEF Below
  <2> QED  BY <1>2, <2>1, FS_Subset, FS_CardinalityType
<1>4. ASSUME NEW s \in Unarmed
      PROVE  Cardinality(Below(s)) < Cardinality(Unarmed)
  <2>1. Below(s) \in SUBSET Unarmed /\ s \notin Below(s)
    BY <1>1
  <2> HIDE DEF Below
  <2>2. Cardinality(Below(s)) <= Cardinality(Unarmed) /\ Cardinality(Below(s)) # Cardinality(Unarmed)
    BY <1>2, <2>1, FS_Subset
  <2> QED  BY <1>2, <1>3, <2>2
<1>5. ASSUME NEW s \in Unarmed, NEW t \in Unarmed, s < t
      PROVE  Cardinality(Below(s)) < Cardinality(Below(t))
  <2>1. Below(s) \in SUBSET Below(t) /\ s \in Below(t) /\ s \notin Below(s)
    <3>1. s \in Nat /\ t \in Nat /\ \A u \in Unarmed : u \in Nat
      BY <1>1
    <3>2. \A u \in Unarmed : u < s => u < t
      BY <3>1, <1>5
    <3>3. s < t /\ ~ (s < s)
      BY <3>1, <1>5
    <3>4. Below(s) \subseteq Below(t)
      BY <3>2
    <3> QED  BY <3>3, <3>4
  <2>2. IsFiniteSet(Below(t))
    BY <1>3
  <2> HIDE DEF Below
  <2>3. Cardinality(Below(s)) <= Cardinality(Below(t)) /\ Cardinality(Below(s)) # Cardinality(Below(t))
    BY <2>1, <2>2, FS_Subset
  <2> QED  BY <1>3, <2>3
<1>6. \A s : Rank(s) = Cardinality(Below(s))
  BY DEF Rank
<1> HIDE DEF Below
<1>7. \A s \in Unarmed : Rank(s) \in 0..(Cardinality(Unarmed) - 1)
  BY <1>2, <1>3, <1>4, <1>6
<1>8. ASSUME NEW s \in Unarmed, NEW t \in Unarmed, Rank(s) = Rank(t)
      PROVE  s = t
  <2>1. s \in Nat /\ t \in Nat
    BY <1>1
  <2>2. ~ (s < t) /\ ~ (t < s)
    BY <1>3, <1>5, <1>6, <1>8
  <2> QED  BY <2>1, <2>2
<1> QED  BY <1>2, <1>7, <1>8

\* Every rank below the number of slots to arm is some slot's.
LEMMA RankOnto ==
  ASSUME NEW i \in 1..Cardinality(Unarmed)
  PROVE  \E t \in Unarmed : Rank(t) = i - 1
<1> DEFINE N == Cardinality(Unarmed)
           f == [s \in Unarmed |-> Rank(s)]
<1>1. N \in Nat /\ IsFiniteSet(0..(N - 1)) /\ Cardinality(0..(N - 1)) = N
  <2>1. N \in Nat /\ N >= 1 /\ N - 1 \in Int /\ ~ (0 > N - 1)
    BY Ranked
  <2> HIDE DEF N
  <2>2. IsFiniteSet(0..(N - 1)) /\ Cardinality(0..(N - 1)) = (N - 1) - 0 + 1
    BY <2>1, FS_Interval
  <2> QED  BY <2>1, <2>2
<1>2. f \in Injection(Unarmed, 0..(N - 1))
  <2>1. f \in [Unarmed -> 0..(N - 1)]
    BY Ranked
  <2>2. \A s, t \in DOMAIN f : f[s] = f[t] => s = t
    BY Ranked
  <2> HIDE DEF f, N
  <2> QED  BY <2>1, <2>2 DEF Injection, IsInjective
<1>3. f \in Surjection(Unarmed, 0..(N - 1))
  <2> HIDE DEF f
  <2> QED  BY <1>1, <1>2, FS_Injection
<1>4. i - 1 \in 0..(N - 1)
  BY <1>1
<1> QED  BY <1>3, <1>4 DEF Surjection

LEMMA RearmsShape ==
  ASSUME Base, next_seq + Cardinality(Unarmed) <= MaxSeq + 1
  PROVE  /\ Rearms \in Seq(Sqes) /\ Len(Rearms) = Cardinality(Unarmed)
         /\ \A i \in 1..Cardinality(Unarmed) :
              Rearms[i].op = "add" /\ Rearms[i].ud = next_seq + i - 1
<1> USE Numbers
<1> DEFINE N == Cardinality(Unarmed)
<1>1. N \in Nat /\ next_seq \in Nat /\ next_seq + N <= MaxSeq + 1
  BY Ranked DEF Base, TypeOK
<1>2. ASSUME NEW i \in 1..N
      PROVE  /\ Rearms[i] \in Sqes
             /\ Rearms[i].op = "add" /\ Rearms[i].ud = next_seq + i - 1
  <2> PICK s : s = CHOOSE t \in Unarmed : Rank(t) = i - 1
    OBVIOUS
  <2>1. s \in Unarmed
    BY RankOnto, Zenon
  <2>2. r_fds[s] \in Fds \cup {None} /\ r_int[s] \in Masks
    BY <2>1 DEF Unarmed, Base, TypeOK, TableOK
  <2>3. Rearms[i] = PollAdd(r_fds[s], r_int[s], next_seq + i - 1)
    BY DEF Rearms
  <2>4. next_seq + i - 1 \in 0..Timeout
    BY <1>1
  <2> QED  BY <2>2, <2>3, <2>4 DEF PollAdd, Sqes
<1>3. Rearms \in [1..N -> Sqes]
  <2>1. Rearms = [i \in 1..N |-> Rearms[i]]
    BY DEF Rearms
  <2> QED  BY <1>2, <2>1
<1>4. Rearms \in Seq(Sqes) /\ Len(Rearms) = N
  <2> HIDE DEF N
  <2> QED  BY <1>1, <1>3
<1> QED  BY <1>2, <1>4

\* What a wait asks for: a poll for each slot to arm, numbered on from
\* next_seq, and then at most one for the eventfd, when none is armed.
LEMMA RequestsShape ==
  ASSUME Base, NEW timed \in BOOLEAN, next_seq + Cardinality(Unarmed) <= MaxSeq + 1
  PROVE  LET all == Requests(timed)
             N == Cardinality(Unarmed)
         IN  /\ all \in Seq(Sqes) /\ N <= Len(all)
             /\ \A i \in 1..N : all[i].op = "add" /\ all[i].ud = next_seq + i - 1
             /\ \A i \in (N + 1)..Len(all) : all[i].op = "add" \/ all[i].ud = Wake =>
                  all[i].op = "add" /\ all[i].ud = Wake /\ i = N + 1 /\ ~ wake_armed
             /\ ~ wake_armed => /\ N < Len(all)
                                /\ all[N + 1].op = "add" /\ all[N + 1].ud = Wake
<1> USE Numbers
<1> DEFINE N == Cardinality(Unarmed)
           A == IF wake_armed THEN <<>> ELSE <<PollAdd(None, {"r"}, Wake)>>
           B == IF timed /\ timeout_armed THEN <<TimeoutRemove>> ELSE <<>>
           C == IF timed THEN <<TimeoutSqe>> ELSE <<>>
           all == ((Rearms \o A) \o B) \o C
<1>1. Requests(timed) = all
  BY DEF Requests
<1>2. /\ PollAdd(None, {"r"}, Wake) \in Sqes /\ TimeoutRemove \in Sqes /\ TimeoutSqe \in Sqes
      /\ PollAdd(None, {"r"}, Wake).op = "add" /\ PollAdd(None, {"r"}, Wake).ud = Wake
      /\ TimeoutRemove.op # "add" /\ TimeoutRemove.ud # Wake
      /\ TimeoutSqe.op # "add" /\ TimeoutSqe.ud # Wake
  BY DEF PollAdd, TimeoutRemove, TimeoutSqe, Sqes, Masks
<1>3. /\ N \in Nat /\ Rearms \in Seq(Sqes) /\ Len(Rearms) = N
      /\ \A i \in 1..N : Rearms[i].op = "add" /\ Rearms[i].ud = next_seq + i - 1
  BY RearmsShape, Ranked
<1>4. /\ A \in Seq(Sqes) /\ Len(A) = IF wake_armed THEN 0 ELSE 1
      /\ ~ wake_armed => A[1].op = "add" /\ A[1].ud = Wake
  <2>1. CASE wake_armed
    BY <2>1, EmptySeq
  <2>2. CASE ~ wake_armed
    BY <1>2, <2>2
  <2> QED  BY <2>1, <2>2
<1>5. /\ B \in Seq(Sqes) /\ Len(B) \in Nat
      /\ \A i \in 1..Len(B) : B[i].op # "add" /\ B[i].ud # Wake
  <2>1. CASE timed /\ timeout_armed
    <3>1. B = <<TimeoutRemove>>
      BY <2>1
    <3> HIDE DEF B
    <3> QED  BY <1>2, <3>1
  <2>2. CASE ~ (timed /\ timeout_armed)
    BY <2>2, EmptySeq
  <2> QED  BY <2>1, <2>2
<1>6. /\ C \in Seq(Sqes) /\ Len(C) \in Nat
      /\ \A i \in 1..Len(C) : C[i].op # "add" /\ C[i].ud # Wake
  <2>1. CASE timed
    <3>1. C = <<TimeoutSqe>>
      BY <2>1
    <3> HIDE DEF C
    <3> QED  BY <1>2, <3>1
  <2>2. CASE ~ timed
    BY <2>2, EmptySeq
  <2> QED  BY <2>1, <2>2
<1> HIDE DEF A, B, C, N
<1>l. Len(A) \in Nat
  BY <1>4
<1> DEFINE D == Rearms \o A
           E == D \o B
<1>9. all = E \o C
  OBVIOUS
<1>7. /\ D \in Seq(Sqes) /\ Len(D) = N + Len(A)
      /\ \A i \in 1..(N + Len(A)) : D[i] = IF i <= N THEN Rearms[i] ELSE A[i - N]
  BY <1>3, <1>4, ConcatProperties, Zenon
<1> HIDE DEF D
<1>8. /\ E \in Seq(Sqes) /\ Len(E) = Len(D) + Len(B)
      /\ \A i \in 1..(Len(D) + Len(B)) : E[i] = IF i <= Len(D) THEN D[i] ELSE B[i - Len(D)]
  BY <1>5, <1>7, ConcatProperties, Zenon
<1> HIDE DEF E, all
<1>10. /\ all \in Seq(Sqes) /\ Len(all) = Len(E) + Len(C)
       /\ \A i \in 1..(Len(E) + Len(C)) : all[i] = IF i <= Len(E) THEN E[i] ELSE C[i - Len(E)]
  BY <1>6, <1>8, <1>9, ConcatProperties, Zenon
<1>11. \A i \in 1..N : all[i] = Rearms[i]
  <2> TAKE i \in 1..N
  <2>1. D[i] = Rearms[i]
    BY <1>3, <1>l, <1>7
  <2>2. E[i] = D[i]
    BY <1>3, <1>l, <1>5, <1>7, <1>8
  <2>3. all[i] = E[i]
    BY <1>3, <1>l, <1>5, <1>6, <1>7, <1>8, <1>10
  <2> QED  BY <2>1, <2>2, <2>3
<1>12. ~ wake_armed => N < Len(all) /\ all[N + 1] = A[1]
  <2> SUFFICES ASSUME ~ wake_armed PROVE N < Len(all) /\ all[N + 1] = A[1]
    OBVIOUS
  <2>1. Len(A) = 1
    BY <1>4
  <2>2. D[N + 1] = A[1] /\ N + 1 \in 1..Len(D)
    BY <1>3, <1>7, <2>1
  <2>3. E[N + 1] = D[N + 1] /\ N + 1 \in 1..Len(E)
    BY <1>3, <1>5, <1>7, <1>8, <2>1, <2>2
  <2>4. all[N + 1] = E[N + 1] /\ N + 1 \in 1..Len(all)
    BY <1>3, <1>5, <1>6, <1>7, <1>8, <1>10, <2>1, <2>3
  <2> QED  BY <1>3, <2>2, <2>3, <2>4
<1>13. ASSUME NEW i \in (N + 1)..Len(all), all[i].op = "add" \/ all[i].ud = Wake
       PROVE  all[i].op = "add" /\ all[i].ud = Wake /\ i = N + 1 /\ ~ wake_armed
  <2>1. CASE i <= Len(D)
    <3>1. ~ wake_armed /\ i = N + 1
      BY <1>3, <1>4, <1>7, <2>1
    <3> QED  BY <1>4, <1>12, <3>1
  <2>2. CASE Len(D) < i /\ i <= Len(E)
    <3>0. i \in 1..(Len(E) + Len(C)) /\ i <= Len(E)
      BY <1>3, <1>10, <2>2
    <3>1. all[i] = E[i]
      BY <1>10, <3>0
    <3>2. E[i] = B[i - Len(D)] /\ i - Len(D) \in 1..Len(B)
      BY <1>3, <1>l, <1>5, <1>7, <1>8, <2>2
    <3> QED  BY <1>5, <1>13, <3>1, <3>2
  <2>3. CASE Len(E) < i
    <3>1. all[i] = C[i - Len(E)] /\ i - Len(E) \in 1..Len(C)
      BY <1>3, <1>l, <1>5, <1>6, <1>7, <1>8, <1>10, <2>3
    <3> QED  BY <1>6, <1>13, <3>1
  <2> QED  BY <1>3, <1>4, <1>5, <1>7, <1>8, <2>1, <2>2, <2>3
<1>14. N <= Len(all)
  <2>1. Len(all) = N + Len(A) + Len(B) + Len(C)
    BY <1>7, <1>8, <1>10
  <2> QED  BY <1>3, <1>l, <1>5, <1>6, <2>1
<1> QED
  BY <1>1, <1>3, <1>4, <1>10, <1>11, <1>12, <1>13, <1>14 DEF N

LEMMA MinOfTwo ==
  ASSUME NEW a \in Nat, NEW b \in Nat
  PROVE  Min({a, b}) = IF a <= b THEN a ELSE b
<1> DEFINE m == IF a <= b THEN a ELSE b
<1>1. m \in {a, b} /\ \A y \in {a, b} : m <= y
  OBVIOUS
<1>2. \A x \in {a, b} : (\A y \in {a, b} : x <= y) => x = m
  OBVIOUS
<1> HIDE DEF m
<1>3. Min({a, b}) = m
  BY <1>1, <1>2, Zenon DEF Min
<1> QED  BY <1>3 DEF m

LEMMA PrefixOf ==
  ASSUME NEW T, NEW z \in Seq(T), NEW k \in 0..Len(z)
  PROVE  /\ SubSeq(z, 1, k) \in Seq(T) /\ Len(SubSeq(z, 1, k)) = k
         /\ \A i \in 1..k : SubSeq(z, 1, k)[i] = z[i]
<1>1. k \in Int /\ 1 \in Int /\ \A i \in 1..k : z[i] \in T
  BY LenProperties, ElementOfSeq
<1>2. SubSeq(z, 1, k) \in Seq(T)
  BY <1>1, SubSeqProperties
<1>3. Len(SubSeq(z, 1, k)) = k
  BY <1>1, SubSeqProperties
<1>4. \A i \in 1..k : SubSeq(z, 1, k)[i] = z[i]
  BY <1>1, SubSeqProperties
<1> QED  BY <1>2, <1>3, <1>4

\* What a wait stages is the part of its requests that fits.
LEMMA StagedShape ==
  ASSUME Base, NEW timed \in BOOLEAN, WaitArm(timed)
  PROVE  LET N == Cardinality(Unarmed) IN
         \E q \in Seq(Sqes) :
           /\ sq' = sq \o q /\ Len(q) <= Room /\ (N <= Len(q) \/ Len(q) = Room)
           /\ \A i \in 1..Len(q) : i <= N => q[i].op = "add" /\ q[i].ud = next_seq + i - 1
           /\ \A i \in 1..Len(q) : i > N /\ (q[i].op = "add" \/ q[i].ud = Wake) =>
                q[i].op = "add" /\ q[i].ud = Wake /\ i = N + 1 /\ ~ wake_armed
           /\ wake_armed' = (wake_armed \/ \E i \in 1..Len(q) : q[i].ud = Wake)
<1> USE Numbers
<1> DEFINE N == Cardinality(Unarmed)
<1> PICK all : all = Requests(timed)
  OBVIOUS
<1> PICK k : k = Min({Len(all), Room})
  OBVIOUS
<1> PICK q : q = SubSeq(all, 1, k)
  OBVIOUS
<1>1. /\ all \in Seq(Sqes) /\ N <= Len(all) /\ N \in Nat
      /\ \A i \in 1..N : all[i].op = "add" /\ all[i].ud = next_seq + i - 1
      /\ \A i \in (N + 1)..Len(all) : all[i].op = "add" \/ all[i].ud = Wake =>
           all[i].op = "add" /\ all[i].ud = Wake /\ i = N + 1 /\ ~ wake_armed
  BY RequestsShape, Ranked DEF WaitArm
<1> HIDE DEF N
<1>2. Len(all) \in Nat /\ Room \in Nat
  BY <1>1, LenProperties DEF Base, TypeOK, QueuesOK, Room
<1>3. k \in Nat /\ k <= Len(all) /\ k <= Room /\ (k = Len(all) \/ k = Room)
  BY <1>2, MinOfTwo
<1>4. \A i \in 1..k : i \in 1..Len(all) /\ all[i] \in Sqes
  BY <1>1, <1>2, <1>3, ElementOfSeq
<1>5. q \in Seq(Sqes) /\ Len(q) = k /\ \A i \in 1..k : q[i] = all[i]
  <2>1. k \in 0..Len(all)
    BY <1>2, <1>3
  <2> QED  BY <1>1, <2>1, PrefixOf, ZenonT(30)
<1>6. sq' = sq \o q
  <2>1. CASE Len(all) <= Room
    <3>1. k = Len(all)
      BY <1>2, <2>1, MinOfTwo
    <3>2. q = all
      BY <1>1, <3>1, SubSeqFull
    <3> QED  BY <2>1, <3>2 DEF WaitArm, Enter
  <2>2. CASE ~ (Len(all) <= Room)
    BY <2>2 DEF WaitArm
  <2> QED  BY <2>1, <2>2
<1>7. wake_armed' = (wake_armed \/ \E i \in DOMAIN q : q[i].ud = Wake)
  BY Zenon DEF WaitArm
<1>8. DOMAIN q = 1..Len(q)
  BY <1>5, LenProperties
<1>9. \A i \in 1..Len(q) : i <= N => q[i].op = "add" /\ q[i].ud = next_seq + i - 1
  <2> SUFFICES ASSUME NEW i \in 1..Len(q), i <= N
               PROVE  q[i].op = "add" /\ q[i].ud = next_seq + i - 1
    OBVIOUS
  <2>1. i \in 1..N /\ i \in 1..k
    BY <1>1, <1>3, <1>5
  <2> QED  BY <1>1, <1>5, <2>1
<1>10. \A i \in 1..Len(q) : i > N /\ (q[i].op = "add" \/ q[i].ud = Wake) =>
         q[i].op = "add" /\ q[i].ud = Wake /\ i = N + 1 /\ ~ wake_armed
  <2> SUFFICES ASSUME NEW i \in 1..Len(q), i > N, q[i].op = "add" \/ q[i].ud = Wake
               PROVE  q[i].op = "add" /\ q[i].ud = Wake /\ i = N + 1 /\ ~ wake_armed
    OBVIOUS
  <2>1. i \in 1..k /\ i \in (N + 1)..Len(all)
    BY <1>1, <1>2, <1>3, <1>5
  <2>2. q[i] = all[i]
    BY <1>5, <2>1
  <2> QED  BY <1>1, <2>1, <2>2
<1>11. Len(q) <= Room /\ (N <= Len(q) \/ Len(q) = Room)
  BY <1>1, <1>3, <1>5
<1>12. wake_armed' = (wake_armed \/ \E i \in 1..Len(q) : q[i].ud = Wake)
  BY <1>7, <1>8
<1> QED  BY <1>5, <1>6, <1>9, <1>10, <1>11, <1>12 DEF N

\* The sequence numbers of a wait: the slots that found room get theirs.
LEMMA WaitNumbers ==
  ASSUME Base, NEW timed \in BOOLEAN, WaitArm(timed)
  PROVE  LET N == Cardinality(Unarmed) IN
         /\ next_seq' = next_seq + (IF N <= Room THEN N ELSE Room + 1)
         /\ next_seq' \in next_seq..(MaxSeq + 1)
         /\ r_seqs' \in [Slots -> 0..MaxSeq]
         /\ \A s \in Slots : r_seqs'[s] = IF s \in Unarmed /\ Rank(s) < Room
                                          THEN next_seq + Rank(s) ELSE r_seqs[s]
         /\ \A s \in Unarmed : Rank(s) < Room => next_seq + Rank(s) < next_seq'
<1> USE Numbers
<1> DEFINE N == Cardinality(Unarmed)
<1>1. /\ N \in Nat /\ Room \in Nat /\ next_seq \in Nat \ {0} /\ next_seq + N <= MaxSeq + 1
      /\ r_seqs \in [Slots -> 0..MaxSeq]
  <2>1. Room \in Nat
    BY LenProperties DEF Base, TypeOK, QueuesOK, Room
  <2>2. next_seq + N <= MaxSeq + 1
    BY DEF WaitArm
  <2> QED  BY <2>1, <2>2, Ranked DEF Base, TypeOK
<1>2. \A s \in Unarmed : Rank(s) \in Nat /\ Rank(s) < N
  BY Ranked, <1>1
<1>3. next_seq' = next_seq + Min({N, Room + 1})
  BY DEF WaitArm
<1> HIDE DEF N
<1>4. next_seq' = next_seq + (IF N <= Room THEN N ELSE Room + 1)
  BY <1>1, <1>3, MinOfTwo
<1>5. next_seq' \in next_seq..(MaxSeq + 1)
  BY <1>1, <1>4
<1>6. r_seqs' = [s \in Slots |-> IF s \in Unarmed /\ Rank(s) < Room
                                 THEN next_seq + Rank(s) ELSE r_seqs[s]]
  BY DEF WaitArm
<1>7. r_seqs' \in [Slots -> 0..MaxSeq]
  <2>1. \A s \in Unarmed : next_seq + Rank(s) \in 0..MaxSeq
    BY <1>1, <1>2
  <2> QED  BY <1>1, <1>6, <2>1
<1>8. \A s \in Unarmed : Rank(s) < Room => next_seq + Rank(s) < next_seq'
  BY <1>1, <1>2, <1>4
<1> QED  BY <1>4, <1>5, <1>6, <1>7, <1>8 DEF N

LEMMA WaitArmBase ==
  ASSUME Base, NEW timed \in BOOLEAN, WaitArm(timed)
  PROVE  Base'
<1> USE Numbers
<1>1. PICK q \in Seq(Sqes) : sq' = sq \o q /\ Len(q) <= Room
  BY StagedShape
<1>2. sq' \in Seq(Sqes) /\ Len(sq') <= Entries
  BY <1>1, ConcatProperties DEF Room, Base, QueuesOK, TypeOK
<1>3. /\ next_seq \in Nat \ {0}
      /\ next_seq' \in next_seq..(MaxSeq + 1) /\ r_seqs' \in [Slots -> 0..MaxSeq]
  BY WaitNumbers DEF Base, TypeOK
<1>4. UNCHANGED <<held, kernel, r_fds, r_tok, r_int, r_count, reg>> /\ out' = <<>>
  BY DEF WaitArm, Enter
<1>5. TypeOK'
  <2>1. Len(out') <= Cap
    BY <1>4, EmptySeq
  <2>2. pc' \in {"enter", "idle"}
    BY DEF WaitArm, Enter
  <2> QED  BY <1>2, <1>3, <1>4, <2>1, <2>2 DEF Base, TypeOK
<1>6. QueuesOK'
  BY <1>2, <1>4 DEF Base, QueuesOK, kernel
<1>7. TableOK' /\ CountIsExact'
  BY <1>4 DEF Base, TableOK, CountIsExact, Live
<1>8. call' \in Calls /\ (pc' = "idle" => call' = Idle) /\ call'.op \in {"none", "wait"}
      /\ pc' \in {"enter", "idle"}
  <2>1. [Idle EXCEPT !.op = "wait"] \in Calls /\ [Idle EXCEPT !.op = "wait"].op = "wait"
    BY IdleTyped DEF Idle, Calls
  <2>2. call = Idle /\ pc = "idle"
    BY DEF WaitArm, Base, CallInv
  <2> QED  BY <2>1, <2>2, IdleTyped DEF WaitArm, Enter
<1>9. wake_armed' \in BOOLEAN /\ timeout_armed' \in BOOLEAN
  <2>1. wake_armed' \in BOOLEAN
    BY Zenon DEF WaitArm
  <2>2. timeout_armed' \in BOOLEAN
    BY Zenon DEF WaitArm, Base, ReactorOK
  <2> QED  BY <2>1, <2>2
<1>10. ReactorOK'
  BY <1>3, <1>4, <1>8, <1>9 DEF ReactorOK
<1>11. CallInv'
  BY <1>8 DEF CallInv
<1> QED  BY <1>5, <1>6, <1>7, <1>10, <1>11 DEF Base

LEMMA BaseStep ==
  ASSUME Base, HeldInv, [Next]_vars
  PROVE  Base'
<1>1. CASE Acquire \/ AcquireFails \/ ArmWake \/ Close
  BY <1>1, HeldStep, AcquireBase, ArmWakeBase, CloseBase
<1>2. CASE Consume \/ ConsumeFails \/ EnterFails \/ StopsShort \/ TimerFires
  BY <1>2, ConsumeBase, EnterFailsBase, StopsShortBase, TimerFiresBase
<1>3. CASE WakePollFires \/ \E p \in polls, c \in Conds : p.ud # Wake /\ PollFires(p, c)
  BY <1>3, PollFiresBase DEF WakePollFires
<1>4. CASE \E f \in Fds, w \in Wants : RegisterNew(f, w) \/ Upsert(f, w)
  BY <1>4, RegisterNewBase, UpsertBase
<1>5. CASE \E f \in Fds : Unregister(f)
  BY <1>5, UnregisterBase
<1>6. CASE \E timed \in BOOLEAN : WaitArm(timed)
  BY <1>6, WaitArmBase
<1>7. CASE Returns
  BY <1>7, FlushedBase, RegisteredBase, UnregisteredBase, CreatedBase, SleepBase, DrainBase
  DEF Returns
<1>8. CASE WaitEndsEarly \/ WaitInterrupted \/ WakeUp
  BY <1>8, SleepBase, CreatedBase, StopsShortBase
<1>9. CASE UNCHANGED vars
  <2> USE <1>9 DEF vars
  <2>1. TypeOK'
    BY DEF Base, TypeOK, table
  <2>2. QueuesOK' /\ ReactorOK' /\ CallInv'
    BY DEF Base, QueuesOK, ReactorOK, CallInv, kernel, armed, table, Room
  <2> QED  BY <2>1, <2>2, TableUnmoved DEF Base
<1> QED
  BY <1>1, <1>2, <1>3, <1>4, <1>5, <1>6, <1>7, <1>8, <1>9 DEF Next

LEMMA AlwaysBase == Spec => [](HeldInv /\ Base)
<1>1. Init => HeldInv
  <2>1. Prefix(0) = {}
    BY DEF Prefix
  <2> QED  BY <2>1 DEF Init, HeldInv
<1>2. (HeldInv /\ Base) /\ [Next]_vars => (HeldInv /\ Base)'
  BY HeldStep, BaseStep
<1> QED  BY <1>1, <1>2, BaseInit, PTL DEF Spec

\* TypeOK: the submission queue never holds more than its entries, the caller's
\* array is never overrun, and no sequence number reaches the sentinels.
THEOREM RingTyped == Spec => []TypeOK
<1>1. Base => TypeOK
  BY DEF Base
<1> QED  BY <1>1, AlwaysBase, PTL

\* CountIsExact: r_count counts the live slots, for every hash and across every
\* way a slot is emptied.
THEOREM CountIsExactAlways == Spec => []CountIsExact
<1>1. Base => CountIsExact
  BY DEF Base
<1> QED  BY <1>1, AlwaysBase, PTL

-----------------------------------------------------------------------------
\* Events carry the token of the registration.

Current == (cut \/ ChainInv) /\ CallsAreQuiet /\ EventIsCurrent

LEMMA NothingOut == Range(<<>>) = {}
BY EmptySeq DEF Range

\* A call looks its descriptor up where the probe stops.
LEMMA LookedUp ==
  ASSUME Base, NEW f \in Fds, r_count < Entries \/ r_fds[uring_slot(f)] = f
  PROVE  \E k \in Slots : uring_slot(f) = Probe(f, k) /\ StopsAt(f, k)
BY ProbeEnds DEF Base

\* A step that leaves the table and the events alone, or drops the events.
LEMMA CurrentUnmoved ==
  ASSUME Current, UNCHANGED <<r_fds, r_tok, reg, cut>>, out' = out \/ out' = <<>>,
         CallsAreQuiet'
  PROVE  Current'
<1>1. (cut \/ ChainInv)'
  BY DEF Current, ChainInv, Live
<1>2. EventIsCurrent'
  BY NothingOut DEF Current, EventIsCurrent, LastTokenWins
<1> QED  BY <1>1, <1>2 DEF Current

\* So does one that moves no call either, or ends it.
LEMMA CurrentKept ==
  ASSUME Current, UNCHANGED <<r_fds, r_tok, reg, cut>>, out' = out \/ out' = <<>>,
         \/ call' = Idle
         \/ call'.op = call.op /\ call'.fd = call.fd /\ call'.tok = call.tok /\ call'.slot = call.slot
  PROVE  Current'
<1>1. CallsAreQuiet'
  BY IdleTyped DEF Current, CallsAreQuiet, StopsAt
<1> QED  BY <1>1, CurrentUnmoved

LEMMA CurrentEnters ==
  ASSUME Base, Current, NEW f \in Fds, NEW w,
         RegisterNew(f, w) \/ Upsert(f, w) \/ Unregister(f)
  PROVE  Current'
<1> PICK s : s = uring_slot(f)
  OBVIOUS
<1>1. r_count < Entries \/ r_fds[s] = f
  BY DEF RegisterNew, Upsert, Unregister
<1>2. UNCHANGED <<r_fds, r_tok, reg, cut>> /\ out' = <<>>
  BY DEF RegisterNew, Upsert, Unregister, Enter, table
<1>3. PICK k \in Slots : s = Probe(f, k) /\ StopsAt(f, k)
  BY <1>1, LookedUp
<1>4. StopsAt(f, k)'
  BY <1>2, <1>3 DEF StopsAt
<1>5. CASE RegisterNew(f, w)
  <2>1. next_seq # None
    BY <1>5, RingAssumption, Numbers DEF RegisterNew, Base, TypeOK
  <2>2. /\ call'.op \in {"register", "flush"} /\ call'.fd = f
        /\ call'.tok = next_seq /\ call'.slot = s
    BY <1>5 DEF RegisterNew, Enter
  <2>3. CallsAreQuiet'
    BY <1>2, <1>3, <1>4, <2>1, <2>2 DEF CallsAreQuiet
  <2> QED  BY <1>2, <2>3, CurrentUnmoved
<1>6. CASE Upsert(f, w)
  <2>1. next_seq # None
    BY <1>6, RingAssumption, Numbers DEF Upsert, Base, TypeOK
  <2>2. \/ UNCHANGED call
        \/ call'.op = "upsert" /\ call'.fd = f /\ call'.tok = next_seq /\ call'.slot = s
    BY <1>6 DEF Upsert, Enter
  <2>3. CASE UNCHANGED call
    BY <1>2, <2>3, CurrentKept
  <2>4. CASE call'.op = "upsert" /\ call'.fd = f /\ call'.tok = next_seq /\ call'.slot = s
    <3>1. CallsAreQuiet'
      BY <1>2, <1>3, <1>4, <2>1, <2>4 DEF CallsAreQuiet
    <3> QED  BY <1>2, <3>1, CurrentUnmoved
  <2> QED  BY <2>2, <2>3, <2>4
<1>7. CASE Unregister(f)
  <2>1. call'.op = "unregister" /\ call'.fd = f /\ call'.slot = s
    BY <1>7 DEF Unregister, Enter, Idle
  <2>2. CallsAreQuiet'
    BY <1>2, <1>3, <1>4, <2>1 DEF CallsAreQuiet
  <2> QED  BY <1>2, <2>2, CurrentUnmoved
<1> QED  BY <1>5, <1>6, <1>7

\* A descriptor is nowhere else than where its probe stops.
LEMMA NowhereElse ==
  ASSUME ChainInv, NEW f \in Fds, NEW k \in Slots, StopsAt(f, k),
         NEW t \in Slots, r_fds[t] = f, None \notin Fds
  PROVE  t = Probe(f, k)
<1>1. PICK m \in Slots : Probe(f, m) = t
  BY ProbeVisitsAll
<1>2. k \in Nat /\ m \in Nat
  BY RingAssumption DEF Slots
<1>3. CASE m < k
  BY <1>1, <1>2, <1>3 DEF StopsAt
<1>4. CASE k < m
  <2>1. r_fds[Probe(f, k)] # None
    BY <1>1, <1>2, <1>4 DEF ChainInv
  <2>2. r_fds[Probe(f, k)] = f /\ Probe(f, k) \in Slots
    BY <2>1, ProbeVisitsAll DEF StopsAt
  <2> QED  BY <2>2 DEF ChainInv, Live
<1> QED  BY <1>1, <1>2, <1>3, <1>4

LEMMA CurrentRegistered ==
  ASSUME Base, Current, Registered
  PROVE  Current'
<1> DEFINE f == call.fd
<1>1. /\ call.tok # None /\ out = <<>> /\ f \in Fds /\ call.slot \in Slots
      /\ \E k \in Slots : call.slot = Probe(f, k) /\ StopsAt(f, k)
  BY DEF Registered, Base, CallInv, ReactorOK, Calls, Current, CallsAreQuiet
<1>2. /\ r_fds \in [Slots -> Fds \cup {None}] /\ r_tok \in [Slots -> Toks]
      /\ reg \in [Fds -> Toks] /\ None \notin Fds
  BY RingAssumption DEF Base, TypeOK, TableOK
<1>3. /\ r_fds' = [r_fds EXCEPT ![call.slot] = f]
      /\ r_tok' = [r_tok EXCEPT ![call.slot] = call.tok]
      /\ reg' = [reg EXCEPT ![f] = call.tok] /\ out' = out /\ call' = Idle /\ cut' = cut
  BY DEF Registered
<1> HIDE DEF f
<1>4. ASSUME ChainInv
      PROVE  ChainInv'
  <2>1. PICK k \in Slots : call.slot = Probe(f, k) /\ StopsAt(f, k)
    BY <1>1
  <2>2. ASSUME NEW t \in Slots, t # call.slot
        PROVE  r_fds'[t] = r_fds[t] /\ r_fds[t] # f /\ r_tok'[t] = r_tok[t]
    BY <1>1, <1>2, <1>3, <1>4, <2>1, <2>2, NowhereElse
  <2>3. r_fds'[call.slot] = f /\ r_tok'[call.slot] = call.tok /\ reg'[f] = call.tok
    BY <1>1, <1>2, <1>3
  <2>4. ASSUME NEW s \in Slots, NEW t \in Slots, r_fds'[s] # None, r_fds'[s] = r_fds'[t]
        PROVE  s = t
    BY <1>4, <2>2, <2>3, <2>4 DEF ChainInv, Live
  <2>5. ASSUME NEW t \in Slots, r_fds'[t] = None
        PROVE  r_fds[t] = None
    BY <1>1, <1>2, <2>2, <2>3, <2>5
  <2>6. ASSUME NEW g \in Fds, NEW m \in Slots, r_fds'[Probe(g, m)] = g, NEW j \in 0..(m - 1)
        PROVE  r_fds'[Probe(g, j)] # None
    <3>1. j \in Slots
      BY RingAssumption DEF Slots
    <3>2. Probe(g, j) \in Slots /\ Probe(g, m) \in Slots
      BY <3>1, ProbeVisitsAll
    <3>3. CASE g # f
      <4>1. r_fds[Probe(g, m)] = g
        BY <2>2, <2>3, <2>6, <3>2, <3>3
      <4> QED  BY <1>4, <2>5, <3>2, <4>1 DEF ChainInv
    <3>4. CASE g = f
      <4>1. Probe(f, m) = Probe(f, k)
        BY <2>1, <2>2, <2>6, <3>2, <3>4
      <4>2. m = k
        BY <1>1, <4>1, ProbeVisitsAll
      <4>3. r_fds[Probe(g, j)] # None
        BY <2>1, <3>4, <4>2 DEF StopsAt
      <4> QED  BY <2>5, <3>2, <4>3
    <3> QED  BY <3>3, <3>4
  <2>7. ASSUME NEW s \in Slots, r_fds'[s] # None
        PROVE  r_tok'[s] = reg'[r_fds'[s]] /\ r_tok'[s] # None
    <3>1. CASE s = call.slot
      BY <1>1, <2>3, <3>1
    <3>2. CASE s # call.slot
      <4>1. r_fds'[s] = r_fds[s] /\ r_fds[s] # f /\ r_tok'[s] = r_tok[s] /\ r_fds[s] \in Fds
        BY <1>2, <2>2, <2>7, <3>2
      <4>2. r_tok[s] = reg[r_fds[s]] /\ r_tok[s] # None
        BY <1>4, <2>7, <4>1 DEF ChainInv, Live
      <4>3. reg'[r_fds[s]] = reg[r_fds[s]]
        BY <1>2, <1>3, <4>1
      <4> QED  BY <4>1, <4>2, <4>3
    <3> QED  BY <3>1, <3>2
  <2> QED  BY <2>4, <2>6, <2>7 DEF ChainInv, Live
<1>5. EventIsCurrent' /\ CallsAreQuiet'
  BY <1>1, <1>3, NothingOut, IdleTyped DEF EventIsCurrent, LastTokenWins, CallsAreQuiet
<1> QED  BY <1>3, <1>4, <1>5 DEF Current

\* A slot is emptied that is on no other descriptor's probe: the other chains
\* stay whole.
LEMMA ChainsStayWhole ==
  ASSUME ChainInv, NEW s \in Slots, ~Severs(s), r_fds \in [Slots -> Fds \cup {None}],
         r_fds' = [r_fds EXCEPT ![s] = None], None \notin Fds
  PROVE  /\ \A t, u \in Slots : r_fds'[t] # None /\ r_fds'[t] = r_fds'[u] => t = u
         /\ \A f \in Fds : \A k \in Slots : r_fds'[Probe(f, k)] = f =>
              \A j \in 0..(k - 1) : r_fds'[Probe(f, j)] # None
<1>1. \A t \in Slots : r_fds'[t] = IF t = s THEN None ELSE r_fds[t]
  OBVIOUS
<1>2. ASSUME NEW f \in Fds, NEW k \in Slots, r_fds'[Probe(f, k)] = f, NEW j \in 0..(k - 1)
      PROVE  r_fds'[Probe(f, j)] # None
  <2>1. j \in Slots
    BY RingAssumption DEF Slots
  <2>2. Probe(f, j) \in Slots /\ Probe(f, k) \in Slots
    BY <2>1, ProbeVisitsAll
  <2>3. r_fds[Probe(f, k)] = f
    BY <1>1, <1>2, <2>2
  <2>4. r_fds[Probe(f, j)] # None
    BY <2>3 DEF ChainInv
  <2>5. Probe(f, j) # s
    <3> PICK t \in Slots : t = Probe(f, k)
      BY <2>2
    <3>1. r_fds[t] = f /\ r_fds[t] # None
      BY <2>3
    <3> QED  BY <3>1 DEF Severs
  <2> QED  BY <1>1, <2>2, <2>4, <2>5
<1>3. \A t, u \in Slots : r_fds'[t] # None /\ r_fds'[t] = r_fds'[u] => t = u
  BY <1>1 DEF ChainInv, Live
<1> QED  BY <1>2, <1>3

LEMMA CurrentUnregistered ==
  ASSUME Base, Current, Unregistered
  PROVE  Current'
<1>1. /\ out = <<>> /\ call.fd \in Fds /\ call.slot \in Slots /\ r_fds[call.slot] = call.fd
  BY DEF Unregistered, Base, CallInv, ReactorOK, Calls, Current, CallsAreQuiet
<1>2. r_fds \in [Slots -> Fds \cup {None}] /\ reg \in [Fds -> Toks] /\ None \notin Fds
  BY RingAssumption DEF Base, TypeOK, TableOK
<1>3. /\ r_fds' = [r_fds EXCEPT ![call.slot] = None] /\ r_tok' = r_tok
      /\ reg' = [reg EXCEPT ![call.fd] = None] /\ out' = out /\ call' = Idle
      /\ cut' = (cut \/ Severs(call.slot))
  BY DEF Unregistered
<1>4. ASSUME ChainInv, ~Severs(call.slot)
      PROVE  ChainInv'
  <2>1. ASSUME NEW s \in Slots, r_fds'[s] # None
        PROVE  r_tok'[s] = reg'[r_fds'[s]] /\ r_tok'[s] # None
    <3>1. s # call.slot
      BY <1>1, <1>2, <1>3, <2>1
    <3>2. r_fds'[s] = r_fds[s] /\ r_fds[s] \in Fds /\ r_fds[s] # None
      BY <1>2, <1>3, <2>1, <3>1
    <3>3. r_tok[s] = reg[r_fds[s]] /\ r_tok[s] # None /\ r_fds[s] # call.fd
      BY <1>1, <1>4, <3>1, <3>2 DEF ChainInv, Live
    <3>4. reg'[r_fds[s]] = reg[r_fds[s]]
      BY <1>2, <1>3, <3>2, <3>3
    <3> QED  BY <1>3, <3>2, <3>3, <3>4
  <2> QED  BY <1>1, <1>2, <1>3, <1>4, <2>1, ChainsStayWhole DEF ChainInv, Live
<1>5. EventIsCurrent' /\ CallsAreQuiet'
  BY <1>1, <1>3, NothingOut, IdleTyped DEF EventIsCurrent, LastTokenWins, CallsAreQuiet
<1> QED  BY <1>3, <1>4, <1>5 DEF Current

LEMMA CurrentDrain ==
  ASSUME Base, Current, Drain
  PROVE  Current'
<1>1. /\ call'.op = call.op /\ call'.fd = call.fd /\ call'.tok = call.tok
      /\ call'.slot = call.slot /\ call.op = "wait" /\ reg' = reg
  BY DEF Drain, Base, ReactorOK, CallInv, Calls
<1>2. CallsAreQuiet'
  BY <1>1 DEF CallsAreQuiet
<1>3. CASE UNCHANGED <<table, out, cut>>
  BY <1>1, <1>2, <1>3, CurrentUnmoved DEF table
<1>4. ASSUME NEW s \in Slots, Retire(s)
      PROVE  Current'
  <2>1. r_fds \in [Slots -> Fds \cup {None}] /\ None \notin Fds
    BY RingAssumption DEF Base, TypeOK
  <2>2. /\ r_fds' = [r_fds EXCEPT ![s] = None] /\ UNCHANGED <<r_tok, reg, out>>
        /\ cut' = (cut \/ Severs(s))
    BY <1>1, <1>4 DEF Retire
  <2>3. ASSUME ChainInv, ~Severs(s)
        PROVE  ChainInv'
    <3>1. \A t \in Slots : r_fds'[t] # None => r_fds'[t] = r_fds[t]
      BY <2>1, <2>2
    <3>2. \A t \in Slots : r_fds'[t] # None => r_tok'[t] = reg'[r_fds'[t]] /\ r_tok'[t] # None
      BY <2>2, <2>3, <3>1 DEF ChainInv, Live
    <3> QED  BY <2>1, <2>2, <2>3, <3>2, ChainsStayWhole DEF ChainInv, Live
  <2>4. EventIsCurrent'
    BY <2>2 DEF Current, EventIsCurrent, LastTokenWins
  <2> QED  BY <1>2, <2>2, <2>3, <2>4 DEF Current
<1>5. ASSUME NEW s \in Slots, Live(s), NEW flags, Fire(s, flags)
      PROVE  Current'
  <2>1. (cut \/ ChainInv)' /\ cut' = cut
    BY <1>1, <1>5 DEF Fire, Current, ChainInv, Live
  <2> PICK e : e = Event(s, flags)
    OBVIOUS
  <2>2. cut \/ (e.tok = reg[e.fd] /\ e.tok # None)
    BY <1>5 DEF Event, Current, ChainInv
  <2>3. \A x \in Range(out') : x \in Range(out) \/ x = e
    <3>1. out \in Seq(Events)
      BY DEF Base, ReactorOK
    <3>2. out \in Seq(Events \cup {e}) /\ e \in Events \cup {e}
      BY <3>1, SeqMonotonic
    <3>3. \A x \in Range(Append(out, e)) : x \in Range(out) \/ x = e
      BY <3>2 DEF Range
    <3>4. out' = out \/ out' = Append(out, e)
      BY <1>5 DEF Fire
    <3> QED  BY <3>3, <3>4
  <2>4. EventIsCurrent'
    BY <1>1, <2>1, <2>2, <2>3 DEF Current, EventIsCurrent, LastTokenWins
  <2> QED  BY <1>2, <2>1, <2>4 DEF Current
<1> QED  BY <1>3, <1>4, <1>5, DrainMoves

LEMMA CurrentStep ==
  ASSUME Base, Current, [Next]_vars
  PROVE  Current'
<1>1. CASE Acquire \/ AcquireFails \/ Close \/ TimerFires
  BY <1>1, CurrentKept DEF Acquire, AcquireFails, Close, TimerFires, table
<1>2. CASE ArmWake
  <2>1. call'.op = "create" /\ out' = <<>> /\ UNCHANGED <<r_fds, r_tok, reg, cut>>
    BY <1>2 DEF ArmWake, Enter, Idle, table
  <2>2. CallsAreQuiet'
    BY <2>1 DEF CallsAreQuiet
  <2> QED  BY <2>1, <2>2, CurrentUnmoved
<1>3. CASE Consume \/ ConsumeFails
  <2>1. call' = [call EXCEPT !.took = TRUE] /\ UNCHANGED <<r_fds, r_tok, reg, cut, out>>
    BY <1>3 DEF Consume, ConsumeFails, table
  <2>2. /\ call'.op = call.op /\ call'.fd = call.fd /\ call'.tok = call.tok
        /\ call'.slot = call.slot
    BY <2>1 DEF Base, ReactorOK, Calls
  <2> QED  BY <2>1, <2>2, CurrentKept
<1>4. CASE EnterFails \/ StopsShort \/ WaitInterrupted \/ WakeUp \/ Created \/ Drained \/ Sleep
  BY <1>4, CurrentKept
  DEF EnterFails, StopsShort, WaitInterrupted, WakeUp, Created, Drained, Sleep, table
<1>5. ASSUME NEW p \in polls, NEW c, PollFires(p, c)
      PROVE  Current'
  BY <1>5, CurrentKept DEF PollFires, table
<1>6. ASSUME NEW f \in Fds, NEW w \in Wants, RegisterNew(f, w) \/ Upsert(f, w)
      PROVE  Current'
  BY <1>6, CurrentEnters
<1>7. ASSUME NEW f \in Fds, Unregister(f)
      PROVE  Current'
  BY <1>7, CurrentEnters
<1>8. ASSUME NEW timed \in BOOLEAN, WaitArm(timed)
      PROVE  Current'
  <2>1. /\ UNCHANGED <<r_fds, r_tok, reg, cut>> /\ out' = <<>>
        /\ call'.op = "wait" \/ call' = call
    BY <1>8 DEF WaitArm, Enter, Idle
  <2>2. CallsAreQuiet'
    BY <2>1 DEF Current, CallsAreQuiet, StopsAt
  <2> QED  BY <2>1, <2>2, CurrentUnmoved
<1>9. CASE Flushed
  <2>1. call' = [call EXCEPT !.op = "register", !.took = FALSE] /\ out' = <<>>
        /\ UNCHANGED <<r_fds, r_tok, reg, cut>> /\ call.op = "flush"
    BY <1>9 DEF Flushed, Enter, table
  <2>2. /\ call'.op = "register" /\ call'.fd = call.fd /\ call'.tok = call.tok
        /\ call'.slot = call.slot
    BY <2>1 DEF Base, ReactorOK, Calls
  <2>3. CallsAreQuiet'
    BY <2>1, <2>2 DEF Current, CallsAreQuiet, StopsAt
  <2> QED  BY <2>1, <2>3, CurrentUnmoved
<1>10. CASE WaitReturns \/ WaitEndsEarly
  <2>1. call' = [call EXCEPT !.todo = Len(cq)] /\ UNCHANGED <<r_fds, r_tok, reg, cut, out>>
    BY <1>10 DEF WaitReturns, WaitEndsEarly, StartDrain, table
  <2>2. /\ call'.op = call.op /\ call'.fd = call.fd /\ call'.tok = call.tok
        /\ call'.slot = call.slot
    BY <2>1 DEF Base, ReactorOK, Calls
  <2> QED  BY <2>1, <2>2, CurrentKept
<1>11. CASE UNCHANGED vars
  BY <1>11, CurrentKept DEF vars, table
<1> QED
  BY <1>1, <1>2, <1>3, <1>4, <1>5, <1>6, <1>7, <1>8, <1>9, <1>10, <1>11,
     CurrentRegistered, CurrentUnregistered, CurrentDrain
  DEF Next, Returns, WakePollFires

\* EventIsCurrent: for every hash and every table, an event handed out carries
\* the token of its descriptor's last registration, and none is for a
\* descriptor that was unregistered, unless unregister or the drain has emptied
\* a slot that another descriptor's probe passes (uring_slot, r_fds).
THEOREM EventsAreCurrent == Spec => []EventIsCurrent
<1>1. Init => Current
  <2> SUFFICES ASSUME Init PROVE Current
    OBVIOUS
  <2>1. r_fds = [s \in Slots |-> None] /\ call = Idle /\ out = <<>>
    BY DEF Init
  <2>2. \A f \in Fds : \A k \in Slots : r_fds[Probe(f, k)] # f
    BY <2>1, ProbeVisitsAll, RingAssumption
  <2>3. ChainInv
    BY <2>1, <2>2 DEF ChainInv, Live
  <2>4. CallsAreQuiet /\ EventIsCurrent
    BY <2>1, NothingOut, IdleTyped DEF CallsAreQuiet, EventIsCurrent, LastTokenWins
  <2> QED  BY <2>3, <2>4 DEF Current
<1>2. Base /\ Current /\ [Next]_vars => Current'
  BY CurrentStep
<1>3. Current => EventIsCurrent
  BY DEF Current
<1> QED  BY <1>1, <1>2, <1>3, AlwaysBase, PTL DEF Spec

-----------------------------------------------------------------------------
\* Counting what is outstanding.

\* The places of a sequence that hold a member of a set.
Hits(q, R) == {i \in DOMAIN q : q[i] \in R}

LEMMA HitsFinite ==
  ASSUME NEW T, NEW R, NEW q \in Seq(T)
  PROVE  IsFiniteSet(Hits(q, R)) /\ Cardinality(Hits(q, R)) \in Nat
<1>1. Len(q) \in Nat /\ DOMAIN q = 1..Len(q)
  BY LenProperties
<1>2. Hits(q, R) \in SUBSET (1..Len(q))
  BY <1>1 DEF Hits
<1>3. IsFiniteSet(1..Len(q))
  BY <1>1, FS_Interval
<1> QED  BY <1>2, <1>3, FS_Subset, FS_CardinalityType

LEMMA HitsConcat ==
  ASSUME NEW T, NEW R, NEW y \in Seq(T), NEW z \in Seq(T)
  PROVE  Cardinality(Hits(y \o z, R)) = Cardinality(Hits(y, R)) + Cardinality(Hits(z, R))
<1> DEFINE n == Len(y)
           m == Len(z)
           Moved == {i \in (n + 1)..(n + m) : z[i - n] \in R}
           f == [i \in Hits(z, R) |-> i + n]
<1>1. n \in Nat /\ m \in Nat /\ DOMAIN y = 1..n /\ DOMAIN z = 1..m
  BY LenProperties
<1>2. /\ y \o z \in Seq(T) /\ Len(y \o z) = n + m
      /\ \A i \in 1..(n + m) : (y \o z)[i] = IF i <= n THEN y[i] ELSE z[i - n]
  BY ConcatProperties
<1>3. DOMAIN (y \o z) = 1..(n + m)
  BY <1>2, LenProperties
<1> HIDE DEF n, m
<1>4. Hits(y \o z, R) = Hits(y, R) \cup Moved
  BY <1>1, <1>2, <1>3 DEF Hits
<1>5. Hits(y, R) \cap Moved = {}
  BY <1>1 DEF Hits
<1>6. f \in Bijection(Hits(z, R), Moved)
  <2>1. f \in [Hits(z, R) -> Moved]
    BY <1>1 DEF Hits
  <2>2. \A i, j \in Hits(z, R) : f[i] = f[j] => i = j
    BY <1>1 DEF Hits
  <2>3. \A j \in Moved : \E i \in Hits(z, R) : f[i] = j
    <3> TAKE j \in Moved
    <3>1. j - n \in Hits(z, R) /\ (j - n) + n = j
      BY <1>1 DEF Hits
    <3> QED  BY <3>1
  <2> HIDE DEF f, Moved
  <2> QED  BY <2>1, <2>2, <2>3 DEF Bijection, Injection, Surjection, IsInjective
<1>7. IsFiniteSet(Hits(y, R)) /\ IsFiniteSet(Hits(z, R)) /\ Cardinality(Hits(y, R)) \in Nat
  BY HitsFinite
<1> HIDE DEF f, Moved
<1>8. IsFiniteSet(Moved) /\ Cardinality(Moved) = Cardinality(Hits(z, R)) /\ Cardinality(Moved) \in Nat
  BY <1>6, <1>7, FS_Bijection, FS_CardinalityType DEF ExistsBijection
<1>9. Cardinality(Hits(y \o z, R)) = Cardinality(Hits(y, R)) + Cardinality(Moved) - Cardinality({})
  BY <1>4, <1>5, <1>7, <1>8, FS_Union
<1> QED  BY <1>7, <1>8, <1>9, FS_EmptySet

LEMMA HitsOne ==
  ASSUME NEW x, NEW R
  PROVE  Cardinality(Hits(<<x>>, R)) = IF x \in R THEN 1 ELSE 0
<1>1. Hits(<<x>>, R) = IF x \in R THEN {1} ELSE {}
  BY DEF Hits
<1> QED  BY <1>1, FS_EmptySet, FS_Singleton

LEMMA HitsNone ==
  ASSUME NEW R
  PROVE  Cardinality(Hits(<<>>, R)) = 0
<1>1. Hits(<<>>, R) = {}
  BY DEF Hits
<1> QED  BY <1>1, FS_EmptySet

LEMMA HitsAppend ==
  ASSUME NEW T, NEW R, NEW q \in Seq(T), NEW x \in T
  PROVE  Cardinality(Hits(Append(q, x), R)) =
           Cardinality(Hits(q, R)) + IF x \in R THEN 1 ELSE 0
<1>1. Append(q, x) = q \o <<x>> /\ <<x>> \in Seq(T)
  OBVIOUS
<1>2. Cardinality(Hits(q \o <<x>>, R)) = Cardinality(Hits(q, R)) + Cardinality(Hits(<<x>>, R))
  BY <1>1, HitsConcat
<1> QED  BY <1>1, <1>2, HitsOne

LEMMA HitsTwo ==
  ASSUME NEW T, NEW R, NEW q \in Seq(T), NEW p \in Seq(T), Len(p) = 2
  PROVE  Cardinality(Hits(q \o p, R)) =
           Cardinality(Hits(q, R)) + (IF p[1] \in R THEN 1 ELSE 0) + (IF p[2] \in R THEN 1 ELSE 0)
<1>1. Hits(p, R) = {i \in {1, 2} : p[i] \in R}
  BY LenProperties DEF Hits
<1>2. Cardinality({1, 2}) = 2 /\ Cardinality({1}) = 1 /\ Cardinality({2}) = 1
  <2>1. Cardinality({1}) = 1 /\ Cardinality({2}) = 1 /\ IsFiniteSet({1})
    BY FS_Singleton
  <2>2. Cardinality({1} \cup {2}) = IF 2 \in {1} THEN Cardinality({1}) ELSE Cardinality({1}) + 1
    BY <2>1, FS_AddElement, Zenon
  <2>3. {1, 2} = {1} \cup {2} /\ 2 \notin {1}
    OBVIOUS
  <2>4. Cardinality({1} \cup {2}) = 1 + 1
    BY <2>1, <2>2, <2>3, Zenon
  <2>5. Cardinality({1, 2}) = 1 + 1
    BY <2>3, <2>4, Zenon
  <2> QED  BY <2>1, <2>5
<1>3. Cardinality(Hits(p, R)) = (IF p[1] \in R THEN 1 ELSE 0) + (IF p[2] \in R THEN 1 ELSE 0)
  <2>1. CASE p[1] \in R /\ p[2] \in R
    <3>1. Hits(p, R) = {1, 2}
      BY <1>1, <2>1
    <3> QED  BY <1>2, <2>1, <3>1
  <2>2. CASE p[1] \in R /\ p[2] \notin R
    <3>1. Hits(p, R) = {1}
      BY <1>1, <2>2
    <3> QED  BY <1>2, <2>2, <3>1
  <2>3. CASE p[1] \notin R /\ p[2] \in R
    <3>1. Hits(p, R) = {2}
      BY <1>1, <2>3
    <3> QED  BY <1>2, <2>3, <3>1
  <2>4. CASE p[1] \notin R /\ p[2] \notin R
    <3>1. Hits(p, R) = {}
      BY <1>1, <2>4
    <3> QED  BY <2>4, <3>1, FS_EmptySet
  <2> QED  BY <2>1, <2>2, <2>3, <2>4
<1>4. Cardinality(Hits(q \o p, R)) = Cardinality(Hits(q, R)) + Cardinality(Hits(p, R))
  BY HitsConcat
<1>5. Cardinality(Hits(q, R)) \in Nat
  BY HitsFinite
<1> QED  BY <1>3, <1>4, <1>5

LEMMA HitsTail ==
  ASSUME NEW T, NEW R, NEW q \in Seq(T), q # <<>>
  PROVE  Cardinality(Hits(Tail(q), R)) =
           Cardinality(Hits(q, R)) - IF Head(q) \in R THEN 1 ELSE 0
<1>1. Tail(q) \in Seq(T) /\ <<Head(q)>> \in Seq(T)
  BY HeadTailProperties
<1>2. q = <<Head(q)>> \o Tail(q)
  BY HeadTailProperties
<1>3. Cardinality(Hits(q, R)) = Cardinality(Hits(<<Head(q)>>, R)) + Cardinality(Hits(Tail(q), R))
  BY <1>1, <1>2, HitsConcat
<1>4. Cardinality(Hits(Tail(q), R)) \in Nat
  BY <1>1, HitsFinite
<1> QED  BY <1>3, <1>4, HitsOne

AddsOf(u) == {r \in Sqes : r.op = "add" /\ r.ud = u}
DonesOf(u) == {c \in Cqes : c.ud = u}
PollsOf(ps, u) == {p \in ps : p.ud = u}

LEMMA CountsAre ==
  ASSUME NEW q \in Seq(Sqes), NEW d \in Seq(Cqes), NEW ps, IsFiniteSet(ps), NEW u
  PROVE  /\ {i \in DOMAIN q : q[i].op = "add" /\ q[i].ud = u} = Hits(q, AddsOf(u))
         /\ {i \in DOMAIN d : d[i].ud = u} = Hits(d, DonesOf(u))
         /\ Cardinality(Hits(q, AddsOf(u))) \in Nat
         /\ Cardinality(Hits(d, DonesOf(u))) \in Nat
         /\ IsFiniteSet(PollsOf(ps, u)) /\ Cardinality(PollsOf(ps, u)) \in Nat
<1>1. {i \in DOMAIN q : q[i].op = "add" /\ q[i].ud = u} = Hits(q, AddsOf(u))
  <2>1. \A i \in DOMAIN q : q[i] \in Sqes
    OBVIOUS
  <2> QED  BY <2>1 DEF Hits, AddsOf
<1>2. {i \in DOMAIN d : d[i].ud = u} = Hits(d, DonesOf(u))
  <2>1. \A i \in DOMAIN d : d[i] \in Cqes
    OBVIOUS
  <2> QED  BY <2>1 DEF Hits, DonesOf
<1>3. IsFiniteSet(PollsOf(ps, u)) /\ Cardinality(PollsOf(ps, u)) \in Nat
  BY FS_Subset, FS_CardinalityType DEF PollsOf
<1> QED  BY <1>1, <1>2, <1>3, HitsFinite

\* The three terms of Outstanding, before and after a step.
LEMMA OutstandingIs ==
  ASSUME Base, Base', NEW u
  PROVE  /\ Outstanding(u) = Cardinality(Hits(sq, AddsOf(u))) + Cardinality(PollsOf(polls, u))
                             + Cardinality(Hits(cq, DonesOf(u)))
         /\ Cardinality(Hits(sq, AddsOf(u))) \in Nat
         /\ Cardinality(Hits(cq, DonesOf(u))) \in Nat
         /\ IsFiniteSet(PollsOf(polls, u)) /\ Cardinality(PollsOf(polls, u)) \in Nat
         /\ Outstanding(u)' = Cardinality(Hits(sq', AddsOf(u))) + Cardinality(PollsOf(polls', u))
                              + Cardinality(Hits(cq', DonesOf(u)))
         /\ Cardinality(Hits(sq', AddsOf(u))) \in Nat
         /\ Cardinality(Hits(cq', DonesOf(u))) \in Nat
         /\ IsFiniteSet(PollsOf(polls', u)) /\ Cardinality(PollsOf(polls', u)) \in Nat
<1>1. /\ sq \in Seq(Sqes) /\ cq \in Seq(Cqes) /\ IsFiniteSet(polls)
      /\ sq' \in Seq(Sqes) /\ cq' \in Seq(Cqes) /\ IsFiniteSet(polls')
  BY DEF Base, QueuesOK
<1>2. /\ Cardinality(Hits(sq, AddsOf(u))) \in Nat
      /\ Cardinality(Hits(cq, DonesOf(u))) \in Nat
      /\ IsFiniteSet(PollsOf(polls, u)) /\ Cardinality(PollsOf(polls, u)) \in Nat
      /\ Cardinality(Hits(sq', AddsOf(u))) \in Nat
      /\ Cardinality(Hits(cq', DonesOf(u))) \in Nat
      /\ IsFiniteSet(PollsOf(polls', u)) /\ Cardinality(PollsOf(polls', u)) \in Nat
  BY <1>1, CountsAre
<1>3. Outstanding(u) = Cardinality(Hits(sq, AddsOf(u))) + Cardinality(PollsOf(polls, u))
                       + Cardinality(Hits(cq, DonesOf(u)))
  BY <1>1, CountsAre DEF Outstanding, PollsOf
<1>4. Outstanding(u)' = Cardinality(Hits(sq', AddsOf(u))) + Cardinality(PollsOf(polls', u))
                        + Cardinality(Hits(cq', DonesOf(u)))
  BY <1>1, CountsAre DEF Outstanding, PollsOf
<1> QED  BY <1>2, <1>3, <1>4

-----------------------------------------------------------------------------
\* The kernel moves what is outstanding, and neither adds nor loses any.

\* The head leaves the submission queue.
LEMMA TakenCount ==
  ASSUME Base, sq # <<>>, sq' = Tail(sq), NEW u
  PROVE  /\ Cardinality(Hits(sq', AddsOf(u))) =
              Cardinality(Hits(sq, AddsOf(u)))
              - IF Head(sq).op = "add" /\ Head(sq).ud = u THEN 1 ELSE 0
         /\ Cardinality(Hits(sq', AddsOf(u))) \in Nat
<1>1. sq \in Seq(Sqes) /\ Head(sq) \in Sqes /\ Tail(sq) \in Seq(Sqes)
  BY Taken DEF Base, QueuesOK
<1>2. Head(sq) \in AddsOf(u) <=> Head(sq).op = "add" /\ Head(sq).ud = u
  BY <1>1 DEF AddsOf
<1> QED  BY <1>1, <1>2, HitsTail, HitsFinite

\* A completion joins the completion queue.
LEMMA PostedCount ==
  ASSUME Base, NEW c \in Cqes, cq' = Append(cq, c), NEW u
  PROVE  Cardinality(Hits(cq', DonesOf(u))) =
           Cardinality(Hits(cq, DonesOf(u))) + IF c.ud = u THEN 1 ELSE 0
<1>1. c \in DonesOf(u) <=> c.ud = u
  BY DEF DonesOf
<1> QED  BY <1>1, HitsAppend DEF Base, QueuesOK

LEMMA PostedTwo ==
  ASSUME Base, NEW p \in Seq(Cqes), Len(p) = 2, cq' = cq \o p, NEW u
  PROVE  Cardinality(Hits(cq', DonesOf(u))) =
           Cardinality(Hits(cq, DonesOf(u))) + (IF p[1].ud = u THEN 1 ELSE 0)
           + (IF p[2].ud = u THEN 1 ELSE 0)
<1>1. cq \in Seq(Cqes) /\ p[1] \in Cqes /\ p[2] \in Cqes
  <2>1. 1 \in 1..Len(p) /\ 2 \in 1..Len(p)
    OBVIOUS
  <2>2. p[1] \in Cqes /\ p[2] \in Cqes
    BY <2>1, ElementOfSeq, Zenon
  <2> QED  BY <2>2 DEF Base, QueuesOK
<1>2. /\ p[1] \in DonesOf(u) <=> p[1].ud = u
      /\ p[2] \in DonesOf(u) <=> p[2].ud = u
  BY <1>1, Zenon DEF DonesOf
<1>3. Cardinality(Hits(cq \o p, DonesOf(u))) =
        Cardinality(Hits(cq, DonesOf(u))) + (IF p[1] \in DonesOf(u) THEN 1 ELSE 0)
        + (IF p[2] \in DonesOf(u) THEN 1 ELSE 0)
  BY <1>1, HitsTwo
<1> QED  BY <1>2, <1>3

LEMMA ConsumeKeeps ==
  ASSUME Base, AtMostOne, Consume, NEW u \in 1..Wake
  PROVE  Outstanding(u)' = Outstanding(u)
<1> USE Numbers
<1> PICK r : r = Head(sq)
  OBVIOUS
<1> DEFINE S == Cardinality(Hits(sq, AddsOf(u)))
           P == Cardinality(PollsOf(polls, u))
           C == Cardinality(Hits(cq, DonesOf(u)))
<1>1. Base'
  BY ConsumeBase
<1>2. /\ Outstanding(u) = S + P + C /\ S \in Nat /\ P \in Nat /\ C \in Nat
      /\ IsFiniteSet(PollsOf(polls, u)) /\ Outstanding(u) <= 1
  BY <1>1, OutstandingIs DEF AtMostOne
<1>3. /\ Outstanding(u)' = S' + P' + C' /\ S' \in Nat /\ P' \in Nat /\ C' \in Nat
  BY <1>1, OutstandingIs
<1>4. sq # <<>> /\ sq' = Tail(sq) /\ r \in Sqes
  BY Taken DEF Consume
<1>5. S' = S - IF r.op = "add" /\ r.ud = u THEN 1 ELSE 0
  BY <1>4, TakenCount
<1>6. /\ Failed(r.ud) \in Cqes /\ Failed(0) \in Cqes /\ Done(0, {}) \in Cqes
      /\ Failed(Timeout) \in Cqes
      /\ Failed(r.ud).ud = r.ud /\ Failed(0).ud = 0 /\ Done(0, {}).ud = 0
      /\ Failed(Timeout).ud = Timeout
  BY <1>4, Completions DEF Failed, Done
<1>7. u # 0 /\ u # Timeout
  OBVIOUS
<1>8. ASSUME r.op = "add", polls' = polls \cup {[fd |-> r.fd, want |-> r.want, ud |-> r.ud]},
             cq' = cq
      PROVE  Outstanding(u)' = Outstanding(u)
  <2>1. C' = C
    BY <1>8
  <2>2. CASE r.ud = u
    <3>1. S >= 1 /\ P = 0
      BY <1>2, <1>3, <1>5, <1>8, <2>2
    <3>2. PollsOf(polls, u) = {}
      BY <1>2, <3>1, FS_EmptySet
    <3>3. PollsOf(polls', u) = {[fd |-> r.fd, want |-> r.want, ud |-> r.ud]}
      BY <1>8, <2>2, <3>2 DEF PollsOf
    <3>4. P' = 1
      BY <3>3, FS_Singleton
    <3> QED  BY <1>2, <1>3, <1>5, <1>8, <2>1, <2>2, <3>1, <3>4
  <2>3. CASE r.ud # u
    <3>1. PollsOf(polls', u) = PollsOf(polls, u)
      BY <1>8, <2>3 DEF PollsOf
    <3> QED  BY <1>2, <1>3, <1>5, <2>1, <2>3, <3>1
  <2> QED  BY <2>2, <2>3
<1>9. ASSUME r.op = "remove", {p \in polls : p.ud = r.ud} # {},
             polls' = polls \ {p \in polls : p.ud = r.ud},
             cq' = cq \o <<Failed(r.ud), Done(0, {})>>
      PROVE  Outstanding(u)' = Outstanding(u)
  <2>1. C' = C + (IF r.ud = u THEN 1 ELSE 0) + (IF 0 = u THEN 1 ELSE 0)
    <3> PICK p : p = <<Failed(r.ud), Done(0, {})>>
      OBVIOUS
    <3>1. p \in Seq(Cqes) /\ Len(p) = 2 /\ p[1].ud = r.ud /\ p[2].ud = 0 /\ cq' = cq \o p
      BY <1>6, <1>9
    <3>2. C' = C + (IF p[1].ud = u THEN 1 ELSE 0) + (IF p[2].ud = u THEN 1 ELSE 0)
      BY <3>1, PostedTwo
    <3> QED  BY <3>1, <3>2
  <2>2. S' = S
    BY <1>2, <1>5, <1>9
  <2>3. CASE r.ud = u
    <3>1. PollsOf(polls, u) # {} /\ PollsOf(polls', u) = {}
      BY <1>9, <2>3 DEF PollsOf
    <3>2. P # 0 /\ P' = 0
      BY <1>2, <3>1, FS_EmptySet
    <3> QED  BY <1>2, <1>3, <1>7, <2>1, <2>2, <2>3, <3>2
  <2>4. CASE r.ud # u
    <3>1. PollsOf(polls', u) = PollsOf(polls, u)
      BY <1>9, <2>4 DEF PollsOf
    <3> QED  BY <1>2, <1>3, <1>7, <2>1, <2>2, <2>4, <3>1
  <2> QED  BY <2>3, <2>4
<1>10. ASSUME r.op # "add", polls' = polls, cq' = cq \/ cq' = Append(cq, Failed(0))
                                         \/ cq' = cq \o <<Failed(Timeout), Done(0, {})>>
       PROVE  Outstanding(u)' = Outstanding(u)
  <2>1. P' = P /\ S' = S
    BY <1>2, <1>5, <1>10 DEF PollsOf
  <2>2. C' = C
    <3>1. CASE cq' = cq
      BY <3>1
    <3>2. CASE cq' = Append(cq, Failed(0))
      BY <1>2, <1>6, <1>7, <3>2, PostedCount
    <3>3. CASE cq' = cq \o <<Failed(Timeout), Done(0, {})>>
      <4> PICK p : p = <<Failed(Timeout), Done(0, {})>>
        OBVIOUS
      <4>1. p \in Seq(Cqes) /\ Len(p) = 2 /\ p[1].ud = Timeout /\ p[2].ud = 0 /\ cq' = cq \o p
        BY <1>6, <3>3
      <4>2. C' = C + (IF p[1].ud = u THEN 1 ELSE 0) + (IF p[2].ud = u THEN 1 ELSE 0)
        BY <4>1, PostedTwo
      <4> QED  BY <1>2, <1>7, <4>1, <4>2
    <3> QED  BY <1>10, <3>1, <3>2, <3>3
  <2> QED  BY <1>2, <1>3, <2>1, <2>2
<1> QED
  <2> HIDE DEF S, P, C
  <2> QED  BY <1>8, <1>9, <1>10 DEF Consume

LEMMA ConsumeFailsKeeps ==
  ASSUME Base, ConsumeFails, NEW u \in 1..Wake
  PROVE  Outstanding(u)' = Outstanding(u)
<1> USE Numbers
<1> PICK r : r = Head(sq)
  OBVIOUS
<1> DEFINE S == Cardinality(Hits(sq, AddsOf(u)))
           P == Cardinality(PollsOf(polls, u))
           C == Cardinality(Hits(cq, DonesOf(u)))
<1>1. Base'
  BY ConsumeBase
<1>2. /\ Outstanding(u) = S + P + C /\ S \in Nat /\ P \in Nat /\ C \in Nat
      /\ Outstanding(u)' = S' + P' + C'
  BY <1>1, OutstandingIs
<1>3. sq # <<>> /\ sq' = Tail(sq) /\ r \in Sqes
  BY Taken DEF ConsumeFails
<1>4. S' = S - IF r.op = "add" /\ r.ud = u THEN 1 ELSE 0
  BY <1>3, TakenCount
<1>5. P' = P
  BY DEF ConsumeFails, PollsOf
<1>6. Failed(r.ud) \in Cqes /\ Failed(0) \in Cqes /\ Failed(r.ud).ud = r.ud /\ Failed(0).ud = 0
  BY <1>3, Completions DEF Failed, Done
<1>7. CASE r.op = "add" /\ cq' = Append(cq, Failed(r.ud))
  <2>1. C' = C + IF r.ud = u THEN 1 ELSE 0
    BY <1>6, <1>7, PostedCount
  <2> QED  BY <1>2, <1>4, <1>5, <1>7, <2>1
<1>8. CASE r.op = "remove" /\ cq' = Append(cq, Failed(0))
  <2>1. C' = C + IF 0 = u THEN 1 ELSE 0
    BY <1>6, <1>8, PostedCount
  <2> QED  BY <1>2, <1>4, <1>5, <1>8, <2>1
<1> QED
  <2> HIDE DEF S, P, C
  <2> QED  BY <1>7, <1>8 DEF ConsumeFails

LEMMA PollFiresKeeps ==
  ASSUME Base, NEW p \in polls, NEW c \in Conds \cup {{"r"}}, PollFires(p, c), NEW u
  PROVE  Outstanding(u)' = Outstanding(u)
<1> DEFINE S == Cardinality(Hits(sq, AddsOf(u)))
           P == Cardinality(PollsOf(polls, u))
           C == Cardinality(Hits(cq, DonesOf(u)))
<1> PICK d : d = Done(p.ud, c \cap (p.want \cup {"eof"}))
  OBVIOUS
<1>1. /\ Outstanding(u) = S + P + C /\ S \in Nat /\ P \in Nat /\ C \in Nat
      /\ Outstanding(u)' = S' + P' + C' /\ IsFiniteSet(PollsOf(polls, u))
  BY PollFiresBase, OutstandingIs
<1>2. sq' = sq /\ polls' = polls \ {p} /\ cq' = Append(cq, d)
  BY DEF PollFires
<1>3. d \in Cqes /\ d.ud = p.ud
  BY RingAssumption DEF Base, QueuesOK, Polls, Done, Cqes, Flags
<1>4. S' = S
  BY <1>2
<1>5. C' = C + IF p.ud = u THEN 1 ELSE 0
  BY <1>2, <1>3, PostedCount
<1>6. P' = P - IF p.ud = u THEN 1 ELSE 0
  <2>1. PollsOf(polls', u) = PollsOf(polls, u) \ {p}
    BY <1>2 DEF PollsOf
  <2>2. p \in PollsOf(polls, u) <=> p.ud = u
    BY DEF PollsOf
  <2>3. Cardinality(PollsOf(polls, u) \ {p}) = IF p \in PollsOf(polls, u) THEN P - 1 ELSE P
    BY <1>1, FS_RemoveElement
  <2> QED  BY <1>1, <2>1, <2>2, <2>3
<1> HIDE DEF S, P, C
<1> QED  BY <1>1, <1>4, <1>5, <1>6

LEMMA TimerFiresKeeps ==
  ASSUME Base, TimerFires, NEW u \in 1..Wake
  PROVE  Outstanding(u)' = Outstanding(u)
<1> DEFINE S == Cardinality(Hits(sq, AddsOf(u)))
           P == Cardinality(PollsOf(polls, u))
           C == Cardinality(Hits(cq, DonesOf(u)))
<1>1. /\ Outstanding(u) = S + P + C /\ S \in Nat /\ P \in Nat /\ C \in Nat
      /\ Outstanding(u)' = S' + P' + C'
  BY TimerFiresBase, OutstandingIs
<1>2. Failed(Timeout) \in Cqes /\ Failed(Timeout).ud # u
  BY Numbers DEF Failed, Cqes
<1>3. S' = S /\ P' = P
  BY DEF TimerFires
<1>4. C' = C
  BY <1>1, <1>2, PostedCount DEF TimerFires
<1> HIDE DEF S, P, C
<1> QED  BY <1>1, <1>3, <1>4

\* Requests join the submission queue.
LEMMA StagedCount ==
  ASSUME Base, Base', NEW q \in Seq(Sqes), sq' = sq \o q, UNCHANGED <<polls, cq>>, NEW u
  PROVE  /\ Outstanding(u)' = Outstanding(u) + Cardinality(Hits(q, AddsOf(u)))
         /\ Outstanding(u) \in Nat /\ Cardinality(Hits(q, AddsOf(u))) \in Nat
<1> DEFINE S == Cardinality(Hits(sq, AddsOf(u)))
           P == Cardinality(PollsOf(polls, u))
           C == Cardinality(Hits(cq, DonesOf(u)))
           Q == Cardinality(Hits(q, AddsOf(u)))
<1>1. /\ Outstanding(u) = S + P + C /\ S \in Nat /\ P \in Nat /\ C \in Nat
      /\ Outstanding(u)' = S' + P' + C'
  BY OutstandingIs
<1>2. Cardinality(Hits(sq \o q, AddsOf(u))) = S + Q /\ Q \in Nat
  BY HitsConcat, HitsFinite, Zenon DEF Base, QueuesOK
<1>3. S' = S + Q /\ P' = P /\ C' = C
  BY <1>2
<1> HIDE DEF S, P, C
<1> QED  BY <1>1, <1>2, <1>3

LEMMA OutstandingType ==
  ASSUME Base, NEW u
  PROVE  Outstanding(u) \in Nat
<1>1. sq \in Seq(Sqes) /\ cq \in Seq(Cqes) /\ IsFiniteSet(polls)
  BY DEF Base, QueuesOK
<1>2. /\ Cardinality(Hits(sq, AddsOf(u))) \in Nat
      /\ Cardinality(Hits(cq, DonesOf(u))) \in Nat
      /\ Cardinality(PollsOf(polls, u)) \in Nat
  BY <1>1, CountsAre
<1>3. Outstanding(u) = Cardinality(Hits(sq, AddsOf(u))) + Cardinality(PollsOf(polls, u))
                       + Cardinality(Hits(cq, DonesOf(u)))
  BY <1>1, CountsAre DEF Outstanding, PollsOf
<1> QED  BY <1>2, <1>3

-----------------------------------------------------------------------------
\* The account is kept.

\* A step that moves what is outstanding about at most, and whose call goes on,
\* or ends and was not create's.
LEMMA AccountUnmoved ==
  ASSUME Accounted, \A u \in 1..Wake : Outstanding(u)' = Outstanding(u),
         UNCHANGED <<r_fds, r_seqs, next_seq, wake_armed>>,
         pc' = "none" => pc = "none",
         \/ call'.op = call.op /\ call'.seq = call.seq
         \/ call'.op = "none" /\ call.op # "create"
  PROVE  Accounted'
<1> USE Numbers
<1>1. AtMostOne' /\ Fresh'
  BY DEF Accounted, AtMostOne, Fresh
<1>2. Numbered'
  BY DEF Accounted, Numbered, Adding, Live
<1>3. InFlight'
  BY DEF Accounted, InFlight, Adding
<1>4. Answered'
  BY DEF Accounted, Answered, Live
<1>5. WakeOnce'
  BY DEF Accounted, WakeOnce
<1> QED  BY <1>1, <1>2, <1>3, <1>4, <1>5 DEF Accounted

\* A step of the kernel.
LEMMA AccountKernel ==
  ASSUME Base, Base', Accounted, pc' = pc,
         \A u \in 1..Wake : Outstanding(u)' = Outstanding(u),
         UNCHANGED <<table, next_seq, armed>>,
         call' = call \/ call' = [call EXCEPT !.took = TRUE]
  PROVE  Accounted'
<1>1. call'.op = call.op /\ call'.seq = call.seq
  BY DEF Base, ReactorOK, Calls
<1>2. UNCHANGED <<r_fds, r_seqs, next_seq, wake_armed>>
  BY DEF table, armed
<1> QED  BY <1>1, <1>2, AccountUnmoved

\* A step that leaves the queues and the polls alone.
LEMMA AccountQuiet ==
  ASSUME Accounted, UNCHANGED <<sq, cq, polls, table, next_seq, wake_armed>>,
         pc' = "none" => pc = "none",
         \/ call'.op = call.op /\ call'.seq = call.seq
         \/ call'.op = "none" /\ call.op # "create"
  PROVE  Accounted'
<1>1. \A u \in 1..Wake : Outstanding(u)' = Outstanding(u)
  BY DEF Outstanding
<1>2. UNCHANGED <<r_fds, r_seqs, next_seq, wake_armed>>
  BY DEF table
<1> QED  BY <1>1, <1>2, AccountUnmoved

\* A poll numbered next_seq is added, or none, and the number is spent.
LEMMA AccountAdds ==
  ASSUME Base, Base', Accounted, NEW q \in Seq(Sqes), sq' = sq \o q,
         UNCHANGED <<kernel, table, armed>>,
         next_seq \in 1..MaxSeq, next_seq' = next_seq + 1,
         pc' # "none", call.op = "none",
         \A u \in 1..Wake : Cardinality(Hits(q, AddsOf(u))) = 0
                            \/ (u = next_seq /\ Cardinality(Hits(q, AddsOf(u))) = 1),
         \/ call'.op = "none"
         \/ /\ call'.op \in {"register", "upsert"} /\ call'.seq = next_seq
            /\ Cardinality(Hits(q, AddsOf(next_seq))) = 1
         \/ /\ call'.op = "flush" /\ call'.seq = next_seq
            /\ Cardinality(Hits(q, AddsOf(next_seq))) = 0
  PROVE  Accounted'
<1> USE Numbers
<1>1. \A u \in 1..Wake : /\ Outstanding(u)' = Outstanding(u) + Cardinality(Hits(q, AddsOf(u)))
                         /\ Outstanding(u) \in Nat
  BY StagedCount DEF kernel
<1>2. r_fds' = r_fds /\ r_seqs' = r_seqs /\ wake_armed' = wake_armed
  BY DEF table, armed
<1>3. Outstanding(next_seq) = 0 /\ next_seq \in 1..Wake
  BY DEF Accounted, Fresh
<1>4. \A u \in 1..Wake : u # next_seq => Outstanding(u)' = Outstanding(u)
  BY <1>1
<1>5. r_seqs \in [Slots -> 0..MaxSeq] /\ \A s \in Slots : r_seqs[s] < next_seq
  BY DEF Base, TypeOK, Accounted, Numbered
<1>6. AtMostOne'
  BY <1>1, <1>3 DEF Accounted, AtMostOne
<1>7. Fresh'
  BY <1>4 DEF Accounted, Fresh
<1>8. Numbered'
  BY <1>2, <1>5 DEF Accounted, Numbered, Adding, Live
<1>9. InFlight'
  BY <1>1, <1>3 DEF InFlight, Adding
<1>10. Answered'
  BY <1>2, <1>4, <1>5 DEF Accounted, Answered, Live
<1>11. WakeOnce'
  BY <1>2, <1>4 DEF Accounted, WakeOnce
<1> QED  BY <1>6, <1>7, <1>8, <1>9, <1>10, <1>11 DEF Accounted

LEMMA PollAddCount ==
  ASSUME NEW f \in Fds \cup {None}, NEW w \in Masks, NEW n \in 0..Timeout, NEW u
  PROVE  /\ <<PollAdd(f, w, n)>> \in Seq(Sqes)
         /\ Cardinality(Hits(<<PollAdd(f, w, n)>>, AddsOf(u))) = IF u = n THEN 1 ELSE 0
<1>1. PollAdd(f, w, n) \in Sqes /\ (PollAdd(f, w, n) \in AddsOf(u) <=> u = n)
  BY DEF PollAdd, Sqes, AddsOf
<1> HIDE DEF PollAdd
<1> QED  BY <1>1, HitsOne

LEMMA PollRemoveCount ==
  ASSUME NEW n \in 0..Timeout, NEW u
  PROVE  /\ PollRemove(n) \in Sqes /\ PollRemove(n) \notin AddsOf(u)
         /\ <<PollRemove(n)>> \in Seq(Sqes)
         /\ Cardinality(Hits(<<PollRemove(n)>>, AddsOf(u))) = 0
<1>1. PollRemove(n) \in Sqes /\ PollRemove(n) \notin AddsOf(u)
  BY DEF PollRemove, Sqes, Masks, AddsOf
<1> HIDE DEF PollRemove
<1> QED  BY <1>1, HitsOne

LEMMA PairIs ==
  ASSUME NEW T, NEW x \in T, NEW y \in T
  PROVE  <<x>> \o <<y>> = <<x, y>>
<1>1. <<x>> \in Seq(T) /\ <<y>> \in Seq(T) /\ <<x, y>> \in Seq(T)
  OBVIOUS
<1>2. Len(<<x>>) = 1 /\ Len(<<y>>) = 1 /\ Len(<<x, y>>) = 2
  OBVIOUS
<1>3. <<x>> \o <<y>> \in Seq(T) /\ Len(<<x>> \o <<y>>) = 2
  BY <1>1, <1>2, ConcatProperties
<1>4. \A i \in 1..2 : (<<x>> \o <<y>>)[i] = <<x, y>>[i]
  BY <1>1, <1>2, ConcatProperties
<1> QED  BY <1>1, <1>2, <1>3, <1>4, SeqEqual

LEMMA ArmWakeAccount ==
  ASSUME Base, Base', Accounted, ArmWake
  PROVE  Accounted'
<1> USE Numbers
<1> DEFINE q == <<PollAdd(None, {"r"}, Wake)>>
<1>1. /\ q \in Seq(Sqes)
      /\ \A u : Cardinality(Hits(q, AddsOf(u))) = IF u = Wake THEN 1 ELSE 0
  BY PollAddCount DEF Masks
<1>2. /\ sq' = sq \o q /\ call'.op = "create" /\ pc = "none" /\ pc' = "enter"
      /\ UNCHANGED <<kernel, table, next_seq, armed>>
  BY DEF ArmWake, Enter, Idle
<1> HIDE DEF q
<1>3. \A u \in 1..Wake : /\ Outstanding(u)' = Outstanding(u) + Cardinality(Hits(q, AddsOf(u)))
                         /\ Outstanding(u) \in Nat
  BY <1>1, <1>2, StagedCount DEF kernel
<1>4. \A u \in 1..MaxSeq : Outstanding(u)' = Outstanding(u)
  BY <1>1, <1>3
<1>5. r_fds' = r_fds /\ r_seqs' = r_seqs /\ wake_armed' = wake_armed /\ next_seq' = next_seq
  BY <1>2 DEF table, armed
<1>6. Outstanding(Wake)' = 1
  <2>1. Outstanding(Wake) = 0
    BY <1>2, IdleTyped DEF Accounted, WakeOnce, Base, CallInv
  <2> QED  BY <1>1, <1>3, <2>1
<1>7. AtMostOne'
  <2>1. \A u \in 1..Wake : u \in 1..MaxSeq \/ u = Wake
    OBVIOUS
  <2> QED  BY <1>4, <1>6, <2>1 DEF Accounted, AtMostOne
<1>8. Fresh'
  BY <1>4, <1>5 DEF Accounted, Fresh
<1>9. Numbered' /\ InFlight'
  BY <1>2, <1>5 DEF Accounted, Numbered, InFlight, Adding, Live
<1>10. Answered'
  BY <1>4, <1>5 DEF Accounted, Answered, Live
<1>11. WakeOnce'
  BY <1>2, <1>6 DEF WakeOnce
<1> QED  BY <1>7, <1>8, <1>9, <1>10, <1>11 DEF Accounted

LEMMA RegisterNewAccount ==
  ASSUME Base, Base', Accounted, NEW f \in Fds, NEW w \in Wants, RegisterNew(f, w)
  PROVE  Accounted'
<1> USE Numbers
<1>1. /\ next_seq \in 1..MaxSeq /\ next_seq' = next_seq + 1 /\ pc = "idle"
      /\ UNCHANGED <<kernel, table, armed>>
  BY DEF RegisterNew, Base, TypeOK
<1>2. call.op = "none"
  BY <1>1, IdleTyped DEF Base, CallInv
<1> DEFINE q == <<PollAdd(f, w, next_seq)>>
<1>3. /\ q \in Seq(Sqes)
      /\ \A u : Cardinality(Hits(q, AddsOf(u))) = IF u = next_seq THEN 1 ELSE 0
  BY <1>1, PollAddCount DEF Masks
<1>4. /\ pc' = "enter" /\ call'.seq = next_seq
      /\ \/ sq' = sq \o q /\ call'.op = "register"
         \/ sq' = sq \o <<>> /\ call'.op = "flush"
  BY DEF RegisterNew, Enter
<1>5. <<>> \in Seq(Sqes) /\ \A u : Cardinality(Hits(<<>>, AddsOf(u))) = 0
  BY HitsNone
<1> HIDE DEF q
<1>6. CASE sq' = sq \o q /\ call'.op = "register"
  <2>1. /\ \A u \in 1..Wake : Cardinality(Hits(q, AddsOf(u))) = 0
                               \/ (u = next_seq /\ Cardinality(Hits(q, AddsOf(u))) = 1)
        /\ call'.op \in {"register", "upsert"} /\ Cardinality(Hits(q, AddsOf(next_seq))) = 1
        /\ pc' # "none"
    BY <1>3, <1>4, <1>6
  <2> QED  BY <1>1, <1>2, <1>3, <1>4, <1>6, <2>1, AccountAdds
<1>7. CASE sq' = sq \o <<>> /\ call'.op = "flush"
  <2> PICK e : e = <<>>
    OBVIOUS
  <2>1. /\ e \in Seq(Sqes) /\ sq' = sq \o e
        /\ \A u : Cardinality(Hits(e, AddsOf(u))) = 0
    BY <1>5, <1>7
  <2>2. pc' # "none"
    BY <1>4
  <2> QED  BY <1>1, <1>2, <1>4, <1>7, <2>1, <2>2, AccountAdds
<1> QED  BY <1>4, <1>6, <1>7

LEMMA UpsertAccount ==
  ASSUME Base, Base', Accounted, NEW f \in Fds, NEW w \in Wants, Upsert(f, w)
  PROVE  Accounted'
<1> USE Numbers
<1> PICK s : s = uring_slot(f)
  OBVIOUS
<1> PICK n : n = r_seqs[s]
  OBVIOUS
<1>1. /\ next_seq \in 1..MaxSeq /\ next_seq' = next_seq + 1 /\ pc = "idle"
      /\ UNCHANGED <<kernel, table, armed>> /\ n \in 0..MaxSeq
  BY ProbeEnds DEF Upsert, Base, TypeOK
<1>2. call.op = "none" /\ Room \in Nat
  BY <1>1, IdleTyped, LenProperties DEF Base, CallInv, TypeOK, QueuesOK, Room
<1> PICK x : x = PollRemove(n)
  OBVIOUS
<1> PICK y : y = PollAdd(f, w, next_seq)
  OBVIOUS
<1>3. /\ <<x>> \in Seq(Sqes) /\ <<y>> \in Seq(Sqes) /\ x \in Sqes /\ y \in Sqes
      /\ \A u : Cardinality(Hits(<<x>>, AddsOf(u))) = 0 /\ x \notin AddsOf(u)
      /\ \A u : Cardinality(Hits(<<y>>, AddsOf(u))) = IF u = next_seq THEN 1 ELSE 0
  BY <1>1, PollAddCount, PollRemoveCount DEF Masks
<1>4. \/ /\ sq' = sq \o <<x, y>> /\ pc' = "enter"
         /\ call'.op = "upsert" /\ call'.seq = next_seq
      \/ /\ Room < 2 /\ sq' = sq \o SubSeq(<<x, y>>, 1, Room)
         /\ UNCHANGED <<pc, call>>
  <2> DEFINE c == [op |-> "upsert", fd |-> f, want |-> w, tok |-> next_seq,
                   slot |-> s, seq |-> next_seq, took |-> FALSE, todo |-> 0]
  <2>1. IF Room >= 2
        THEN Enter(<<x, y>>, c)
        ELSE /\ sq' = sq \o SubSeq(<<x, y>>, 1, Room)
             /\ UNCHANGED <<pc, call>>
    BY Zenon DEF Upsert
  <2>2. c.op = "upsert" /\ c.seq = next_seq
    OBVIOUS
  <2> HIDE DEF c
  <2>3. CASE Room >= 2
    BY <2>1, <2>2, <2>3 DEF Enter
  <2>4. CASE ~ (Room >= 2)
    <3>1. Room < 2
      BY <1>2, <2>4
    <3> QED  BY <2>1, <2>4, <3>1
  <2> QED  BY <2>3, <2>4
<1>5. ASSUME sq' = sq \o <<x, y>>, pc' = "enter", call'.op = "upsert", call'.seq = next_seq
      PROVE  Accounted'
  <2> PICK q : q = <<x>> \o <<y>>
    OBVIOUS
  <2>1. q \in Seq(Sqes) /\ q = <<x, y>>
    <3>1. <<x>> \o <<y>> = <<x, y>>
      BY <1>3, PairIs, Zenon
    <3>2. <<x, y>> \in Seq(Sqes)
      BY <1>3
    <3> QED  BY <3>1, <3>2
  <2>2. \A u : Cardinality(Hits(q, AddsOf(u))) = IF u = next_seq THEN 1 ELSE 0
    <3> TAKE u
    <3> PICK a : a = <<x>>
      OBVIOUS
    <3> PICK b : b = <<y>>
      OBVIOUS
    <3>1. a \in Seq(Sqes) /\ b \in Seq(Sqes) /\ q = a \o b
      BY <1>3
    <3>2. Cardinality(Hits(a \o b, AddsOf(u))) =
            Cardinality(Hits(a, AddsOf(u))) + Cardinality(Hits(b, AddsOf(u)))
      BY <3>1, HitsConcat, ZenonT(30)
    <3> QED  BY <1>3, <3>1, <3>2
  <2>3. sq' = sq \o q
    BY <1>5, <2>1
  <2>4. /\ \A u \in 1..Wake : Cardinality(Hits(q, AddsOf(u))) = 0
                               \/ (u = next_seq /\ Cardinality(Hits(q, AddsOf(u))) = 1)
        /\ call'.op \in {"register", "upsert"} /\ Cardinality(Hits(q, AddsOf(next_seq))) = 1
        /\ pc' # "none"
    BY <1>5, <2>2
  <2> QED  BY <1>1, <1>2, <1>5, <2>1, <2>3, <2>4, AccountAdds
<1>6. ASSUME Room < 2, sq' = sq \o SubSeq(<<x, y>>, 1, Room), UNCHANGED <<pc, call>>
      PROVE  Accounted'
  <2> PICK both : both = <<x, y>>
    OBVIOUS
  <2>1. both \in Seq(Sqes) /\ Len(both) = 2 /\ both[1] = x
    BY <1>3
  <2> PICK q : q = SubSeq(both, 1, Room)
    OBVIOUS
  <2>2. q \in Seq(Sqes) /\ Len(q) = Room /\ \A i \in 1..Room : q[i] = both[i]
    <3>1. Room \in 0..Len(both)
      BY <1>2, <1>6, <2>1
    <3> QED  BY <2>1, <3>1, PrefixOf
  <2>3. \A i \in DOMAIN q : q[i] = x
    <3>1. DOMAIN q = 1..Room
      BY <2>2, LenProperties
    <3>2. \A i \in 1..Room : i = 1
      BY <1>2, <1>6
    <3> QED  BY <2>1, <2>2, <3>1, <3>2
  <2>4. \A u : Cardinality(Hits(q, AddsOf(u))) = 0
    <3> TAKE u
    <3>1. Hits(q, AddsOf(u)) = {}
      BY <1>3, <2>3 DEF Hits
    <3> QED  BY <3>1, FS_EmptySet
  <2>5. sq' = sq \o q
    BY <1>6
  <2>6. pc' # "none" /\ call'.op = "none"
    BY <1>1, <1>2, <1>6
  <2> QED  BY <1>1, <1>2, <2>2, <2>4, <2>5, <2>6, AccountAdds
<1> QED  BY <1>4, <1>5, <1>6

LEMMA UnregisterAccount ==
  ASSUME Base, Base', Accounted, NEW f \in Fds, Unregister(f)
  PROVE  Accounted'
<1> USE Numbers
<1> PICK s : s = uring_slot(f)
  OBVIOUS
<1> PICK n : n = r_seqs[s]
  OBVIOUS
<1>1. /\ pc = "idle" /\ n \in 0..MaxSeq /\ pc' = "enter"
      /\ UNCHANGED <<kernel, table, next_seq, armed>>
      /\ sq' = sq \o <<PollRemove(n)>> /\ call'.op = "unregister"
  BY ProbeEnds DEF Unregister, Base, TypeOK, Enter, Idle
<1> PICK q : q = <<PollRemove(n)>>
  OBVIOUS
<1>2. q \in Seq(Sqes) /\ \A u : Cardinality(Hits(q, AddsOf(u))) = 0
  BY <1>1, PollRemoveCount
<1>3. \A u \in 1..Wake : Outstanding(u)' = Outstanding(u)
  <2> TAKE u \in 1..Wake
  <2>1. /\ Outstanding(u)' = Outstanding(u) + Cardinality(Hits(q, AddsOf(u)))
        /\ Outstanding(u) \in Nat
    BY <1>1, <1>2, StagedCount DEF kernel
  <2> QED  BY <1>2, <2>1
<1>4. call.op = "none"
  BY <1>1, IdleTyped DEF Base, CallInv
<1>5. r_fds' = r_fds /\ r_seqs' = r_seqs /\ wake_armed' = wake_armed /\ next_seq' = next_seq
  BY <1>1 DEF table, armed
<1>6. AtMostOne' /\ Fresh' /\ WakeOnce'
  BY <1>1, <1>3, <1>4, <1>5 DEF Accounted, AtMostOne, Fresh, WakeOnce
<1>7. Numbered' /\ InFlight' /\ Answered'
  BY <1>1, <1>3, <1>5 DEF Accounted, Numbered, InFlight, Answered, Adding, Live
<1> QED  BY <1>6, <1>7 DEF Accounted

LEMMA FlushedAccount ==
  ASSUME Base, Base', Accounted, Flushed
  PROVE  Accounted'
<1> USE Numbers
<1> PICK n : n = call.seq
  OBVIOUS
<1>1. /\ call \in Calls /\ call.op = "flush" /\ n \in 1..(next_seq - 1) /\ n \in 1..MaxSeq
      /\ next_seq \in Nat
  BY SMTT(20) DEF Flushed, Accounted, Numbered, Adding, Base, ReactorOK, TypeOK
<1> PICK q : q = <<PollAdd(call.fd, call.want, n)>>
  OBVIOUS
<1>2. /\ q \in Seq(Sqes)
      /\ \A u : Cardinality(Hits(q, AddsOf(u))) = IF u = n THEN 1 ELSE 0
  BY <1>1, PollAddCount DEF Calls
<1>3. /\ sq' = sq \o q /\ call' = [call EXCEPT !.op = "register", !.took = FALSE]
      /\ UNCHANGED <<kernel, table, next_seq, armed>> /\ pc' = "enter"
  BY DEF Flushed, Enter
<1>4. call'.op = "register" /\ call'.seq = n
  BY <1>1, <1>3 DEF Calls
<1>5. \A u \in 1..Wake : /\ Outstanding(u)' = Outstanding(u) + Cardinality(Hits(q, AddsOf(u)))
                         /\ Outstanding(u) \in Nat
  BY <1>2, <1>3, StagedCount DEF kernel
<1>6. r_fds' = r_fds /\ r_seqs' = r_seqs /\ wake_armed' = wake_armed /\ next_seq' = next_seq
  BY <1>3 DEF table, armed
<1>7. Outstanding(n) = 0 /\ Outstanding(n)' = 1
  <2>1. Outstanding(n) = 0
    BY <1>1 DEF Accounted, InFlight, Adding
  <2> QED  BY <1>1, <1>2, <1>5, <2>1
<1>8. \A u \in 1..Wake : u # n => Outstanding(u)' = Outstanding(u)
  BY <1>2, <1>5
<1>9. AtMostOne' /\ Fresh'
  BY <1>1, <1>6, <1>7, <1>8 DEF Accounted, AtMostOne, Fresh
<1>10. Numbered' /\ InFlight'
  BY <1>1, <1>4, <1>6, <1>7 DEF Accounted, Numbered, InFlight, Adding, Live
<1>11. Answered'
  BY <1>1, <1>6, <1>8 DEF Accounted, Answered, Numbered, Adding, Live
<1>12. WakeOnce'
  BY <1>1, <1>3, <1>4, <1>6, <1>8 DEF Accounted, WakeOnce
<1> QED  BY <1>9, <1>10, <1>11, <1>12 DEF Accounted

LEMMA RegisteredAccount ==
  ASSUME Base, Base', Accounted, Registered
  PROVE  Accounted'
<1> USE Numbers
<1>1. /\ call.op \in {"register", "upsert"} /\ call.slot \in Slots
      /\ call.seq \in 1..(next_seq - 1) /\ call.seq \in 1..MaxSeq /\ next_seq \in Nat
      /\ \A s \in Slots : Live(s) => r_seqs[s] # call.seq
  BY DEF Registered, Accounted, Numbered, Adding, Base, ReactorOK, Calls, TypeOK
<1>2. r_fds \in [Slots -> Fds \cup {None}] /\ r_seqs \in [Slots -> 0..MaxSeq]
  BY DEF Base, TypeOK
<1>3. /\ r_fds' = [r_fds EXCEPT ![call.slot] = call.fd]
      /\ r_seqs' = [r_seqs EXCEPT ![call.slot] = call.seq]
      /\ call' = Idle /\ pc' = "idle" /\ UNCHANGED <<sq, kernel, next_seq, armed>>
  BY DEF Registered
<1>4. \A u \in 1..Wake : Outstanding(u)' = Outstanding(u)
  BY <1>3 DEF Outstanding, kernel
<1>5. AtMostOne' /\ Fresh' /\ WakeOnce' /\ InFlight'
  BY <1>1, <1>3, <1>4, IdleTyped
  DEF Accounted, AtMostOne, Fresh, WakeOnce, InFlight, Adding, armed
<1>6. Numbered'
  <2>1. \A s \in Slots : /\ r_seqs'[s] = IF s = call.slot THEN call.seq ELSE r_seqs[s]
                         /\ s # call.slot => r_fds'[s] = r_fds[s]
    BY <1>2, <1>3
  <2>2. \A s \in Slots : r_seqs'[s] < next_seq'
    BY <1>1, <1>2, <1>3, <2>1 DEF Accounted, Numbered
  <2>3. ASSUME NEW s \in Slots, NEW t \in Slots, r_fds'[s] # None, r_fds'[t] # None,
               r_seqs'[s] = r_seqs'[t], r_seqs'[s] # 0
        PROVE  s = t
    BY <1>1, <2>1, <2>3 DEF Accounted, Numbered, Live
  <2> QED  BY <1>3, <2>2, <2>3, IdleTyped DEF Numbered, Adding, Live
<1>7. Answered'
  <2>1. ASSUME NEW s \in Slots, r_fds'[s] # None, NEW u \in 1..MaxSeq, u = r_seqs'[s]
        PROVE  Outstanding(u)' = 1
    <3>1. CASE s = call.slot
      BY <1>1, <1>2, <1>3, <1>4, <2>1, <3>1 DEF Accounted, InFlight, Adding
    <3>2. CASE s # call.slot
      BY <1>2, <1>3, <1>4, <2>1, <3>2 DEF Accounted, Answered, Live
    <3> QED  BY <3>1, <3>2
  <2> QED  BY <2>1 DEF Answered, Live
<1> QED  BY <1>5, <1>6, <1>7 DEF Accounted

\* A step that empties slots, and lets what is outstanding be.
LEMMA AccountEmpties ==
  ASSUME Base, Accounted, UNCHANGED <<sq, kernel, r_seqs, next_seq, armed>>,
         NEW s \in Slots, r_fds' = [r_fds EXCEPT ![s] = None],
         pc' # "none", call' = Idle, call.op # "create"
  PROVE  Accounted'
<1> USE Numbers
<1>1. r_fds \in [Slots -> Fds \cup {None}]
  BY DEF Base, TypeOK
<1>2. \A u \in 1..Wake : Outstanding(u)' = Outstanding(u)
  BY DEF Outstanding, kernel
<1>3. AtMostOne' /\ Fresh' /\ WakeOnce' /\ InFlight'
  BY <1>2, IdleTyped DEF Accounted, AtMostOne, Fresh, WakeOnce, InFlight, Adding, armed
<1>4. \A t \in Slots : Live(t)' => Live(t)
  BY <1>1 DEF Live
<1>5. Numbered'
  BY <1>4, IdleTyped DEF Accounted, Numbered, Adding
<1>6. Answered'
  BY <1>2, <1>4 DEF Accounted, Answered
<1> QED  BY <1>3, <1>5, <1>6 DEF Accounted

LEMMA CreatedAccount ==
  ASSUME Accounted, Created
  PROVE  Accounted'
<1> USE Numbers
<1>1. /\ call.op = "create" /\ wake_armed' = TRUE /\ pc' = "idle" /\ call' = Idle
      /\ UNCHANGED <<sq, kernel, table, next_seq>>
  BY DEF Created
<1>2. \A u \in 1..Wake : Outstanding(u)' = Outstanding(u)
  BY <1>1 DEF Outstanding, kernel
<1>3. AtMostOne' /\ Fresh' /\ InFlight'
  BY <1>1, <1>2, IdleTyped DEF Accounted, AtMostOne, Fresh, InFlight, Adding
<1>4. Numbered' /\ Answered'
  BY <1>1, <1>2, IdleTyped DEF Accounted, Numbered, Answered, Adding, Live, table
<1>5. WakeOnce'
  BY <1>1, <1>2 DEF Accounted, WakeOnce
<1> QED  BY <1>3, <1>4, <1>5 DEF Accounted

\* What the drain sees in a completion.
LEMMA DrainSees ==
  ASSUME Base, Drain
  PROVE  \/ Head(cq).ud = Timeout /\ UNCHANGED <<table, wake_armed>>
         \/ Head(cq).ud = Wake /\ wake_armed' = FALSE /\ UNCHANGED table
         \/ /\ Head(cq).ud \notin {Timeout, Wake} /\ UNCHANGED wake_armed
            /\ \/ Matches(Head(cq).ud) = {} /\ UNCHANGED table
               \/ \E s \in Slots : /\ Live(s) /\ r_seqs[s] = Head(cq).ud
                                   /\ Retire(s) \/ Fire(s, Head(cq).flags)
<1> PICK c : c = Head(cq)
  OBVIOUS
<1>1. \/ c.ud = Timeout /\ UNCHANGED <<table, wake_armed>>
      \/ c.ud = Wake /\ wake_armed' = FALSE /\ UNCHANGED table
      \/ c.ud \notin {Timeout, Wake} /\ UNCHANGED wake_armed /\ DrainPoll(c)
  BY DEF Drain, armed
<1>2. ASSUME DrainPoll(c)
      PROVE  \/ Matches(c.ud) = {} /\ UNCHANGED table
             \/ \E s \in Slots : /\ Live(s) /\ r_seqs[s] = c.ud
                                 /\ Retire(s) \/ Fire(s, c.flags)
  <2> PICK s : s = CHOOSE x \in Matches(c.ud) : \A y \in Matches(c.ud) : x <= y
    OBVIOUS
  <2>1. \/ Matches(c.ud) = {} /\ UNCHANGED table
        \/ Matches(c.ud) # {} /\ (Retire(s) \/ Fire(s, c.flags))
    BY <1>2, Zenon DEF DrainPoll
  <2>2. Matches(c.ud) # {} => s \in Slots /\ Live(s) /\ r_seqs[s] = c.ud
    BY FirstMatch
  <2> QED  BY <2>1, <2>2
<1> QED  BY <1>1, <1>2

LEMMA DrainAccount ==
  ASSUME Base, Base', Accounted, Drain
  PROVE  Accounted'
<1> USE Numbers
<1> PICK d : d = Head(cq).ud
  OBVIOUS
<1>1. /\ cq # <<>> /\ cq' = Tail(cq) /\ Head(cq) \in Cqes /\ d \in 0..Timeout
      /\ UNCHANGED <<sq, polls, next_seq, pc>>
  BY Drawn DEF Drain, Cqes
<1>2. call.op = "wait" /\ call'.op = "wait" /\ pc' = "drain"
  BY DEF Drain, Base, CallInv, ReactorOK, Calls
<1>3. \A u \in 1..Wake : /\ Outstanding(u) \in Nat /\ Outstanding(u)' \in Nat
                         /\ Outstanding(u)' = Outstanding(u) - IF u = d THEN 1 ELSE 0
  <2> TAKE u \in 1..Wake
  <2> DEFINE S == Cardinality(Hits(sq, AddsOf(u)))
             P == Cardinality(PollsOf(polls, u))
             C == Cardinality(Hits(cq, DonesOf(u)))
  <2>1. /\ Outstanding(u) = S + P + C /\ S \in Nat /\ P \in Nat /\ C \in Nat
        /\ Outstanding(u)' = S' + P' + C' /\ C' \in Nat
    BY OutstandingIs
  <2>2. S' = S /\ P' = P
    BY <1>1
  <2>3. Head(cq) \in DonesOf(u) <=> u = d
    BY <1>1 DEF DonesOf
  <2>4. C' = C - IF Head(cq) \in DonesOf(u) THEN 1 ELSE 0
    BY <1>1, HitsTail DEF Base, QueuesOK
  <2> HIDE DEF S, P, C
  <2> QED  BY <2>1, <2>2, <2>3, <2>4
<1>4. AtMostOne' /\ Fresh' /\ InFlight'
  <2>1. AtMostOne'
    BY <1>3 DEF Accounted, AtMostOne
  <2>2. Fresh'
    <3>1. ASSUME NEW u \in 1..MaxSeq, u >= next_seq
          PROVE  Outstanding(u)' = 0
      <4>1. Outstanding(u) = 0 /\ u \in 1..Wake
        BY <3>1 DEF Accounted, Fresh
      <4> QED  BY <1>3, <4>1
    <3> QED  BY <1>1, <3>1 DEF Fresh
  <2> QED  BY <1>2, <2>1, <2>2 DEF InFlight, Adding
<1>5. r_fds \in [Slots -> Fds \cup {None}] /\ r_seqs \in [Slots -> 0..MaxSeq] /\ next_seq \in Nat \ {0}
  BY DEF Base, TypeOK
\* Whatever slot answered to the completion no longer does.
<1>6. /\ \A s \in Slots : r_fds'[s] # None => Live(s)
      /\ \A s \in Slots : r_seqs'[s] = r_seqs[s] \/ r_seqs'[s] = 0
      /\ \A s \in Slots : r_fds'[s] # None /\ r_seqs'[s] = d => d \notin 1..MaxSeq
  <2>1. CASE d \in {Timeout, Wake} /\ UNCHANGED table
    BY <1>5, <2>1 DEF Live, table
  <2>2. CASE Matches(d) = {} /\ UNCHANGED table
    BY <2>2 DEF Live, table, Matches
  <2>3. ASSUME NEW s \in Slots, Live(s), r_seqs[s] = d, Retire(s)
        PROVE  /\ \A t \in Slots : r_fds'[t] # None => Live(t)
               /\ \A t \in Slots : r_seqs'[t] = r_seqs[t] \/ r_seqs'[t] = 0
               /\ \A t \in Slots : r_fds'[t] # None /\ r_seqs'[t] = d => d \notin 1..MaxSeq
    <3>1. r_seqs' = r_seqs /\ \A t \in Slots : r_fds'[t] = IF t = s THEN None ELSE r_fds[t]
      BY <1>5, <2>3 DEF Retire
    <3>2. \A t \in Slots : Live(t) /\ r_seqs[t] = d /\ d \in 1..MaxSeq => t = s
      BY <2>3 DEF Accounted, Numbered
    <3> QED  BY <3>1, <3>2 DEF Live
  <2>4. ASSUME NEW s \in Slots, Live(s), r_seqs[s] = d, Fire(s, Head(cq).flags)
        PROVE  /\ \A t \in Slots : r_fds'[t] # None => Live(t)
               /\ \A t \in Slots : r_seqs'[t] = r_seqs[t] \/ r_seqs'[t] = 0
               /\ \A t \in Slots : r_fds'[t] # None /\ r_seqs'[t] = d => d \notin 1..MaxSeq
    <3>1. r_fds' = r_fds /\ \A t \in Slots : r_seqs'[t] = IF t = s THEN 0 ELSE r_seqs[t]
      BY <1>5, <2>4 DEF Fire
    <3>2. \A t \in Slots : Live(t) /\ r_seqs[t] = d /\ d \in 1..MaxSeq => t = s
      BY <2>4 DEF Accounted, Numbered
    <3> QED  BY <3>1, <3>2 DEF Live
  <2> QED  BY <2>1, <2>2, <2>3, <2>4, DrainSees
<1>7. Numbered'
  <2>1. \A s \in Slots : r_seqs'[s] < next_seq'
    BY <1>1, <1>5, <1>6 DEF Accounted, Numbered
  <2>2. ASSUME NEW s \in Slots, NEW t \in Slots, r_fds'[s] # None, r_fds'[t] # None,
               r_seqs'[s] = r_seqs'[t], r_seqs'[s] # 0
        PROVE  s = t
    <3>1. Live(s) /\ Live(t) /\ r_seqs[s] = r_seqs[t] /\ r_seqs[s] # 0
      BY <1>6, <2>2
    <3> QED  BY <3>1 DEF Accounted, Numbered
  <2> QED  BY <1>2, <2>1, <2>2 DEF Numbered, Adding, Live
<1>8. Answered'
  <2>1. ASSUME NEW s \in Slots, r_fds'[s] # None, NEW u \in 1..MaxSeq, u = r_seqs'[s]
        PROVE  Outstanding(u)' = 1
    <3>1. Live(s) /\ u = r_seqs[s] /\ u # d /\ u \in 1..Wake
      BY <1>6, <2>1
    <3>2. Outstanding(u) = 1
      BY <3>1 DEF Accounted, Answered
    <3> QED  BY <1>3, <3>1, <3>2
  <2> QED  BY <2>1 DEF Answered, Live
<1>9. WakeOnce'
  <2>1. Outstanding(Wake) = IF wake_armed THEN 1 ELSE 0
    BY <1>2 DEF Accounted, WakeOnce
  <2>2. /\ Outstanding(Wake)' = Outstanding(Wake) - IF Wake = d THEN 1 ELSE 0
        /\ Outstanding(Wake)' \in Nat
    BY <1>3
  <2>3. (d = Wake /\ wake_armed' = FALSE) \/ (d # Wake /\ wake_armed' = wake_armed)
    <3>1. \/ d = Timeout /\ wake_armed' = wake_armed
          \/ d = Wake /\ wake_armed' = FALSE
          \/ d \notin {Timeout, Wake} /\ wake_armed' = wake_armed
      BY DrainSees, Zenon
    <3> QED  BY <3>1
  <2>4. CASE d = Wake /\ wake_armed' = FALSE
    BY <1>2, <2>1, <2>2, <2>4 DEF WakeOnce
  <2>5. CASE d # Wake /\ wake_armed' = wake_armed
    BY <1>2, <2>1, <2>2, <2>5 DEF WakeOnce
  <2> QED  BY <2>3, <2>4, <2>5
<1> QED  BY <1>4, <1>7, <1>8, <1>9 DEF Accounted

\* The polls among what a wait stages: one for each number from n on that found
\* room, and one for the eventfd if there is one at all.
LEMMA StagedHits ==
  ASSUME NEW q \in Seq(Sqes), NEW n \in Nat \ {0}, NEW N \in Nat, n + N <= MaxSeq + 1,
         \A i \in 1..Len(q) : i <= N => q[i].op = "add" /\ q[i].ud = n + i - 1,
         \A i \in 1..Len(q) : i > N /\ (q[i].op = "add" \/ q[i].ud = Wake) =>
           q[i].op = "add" /\ q[i].ud = Wake /\ i = N + 1
  PROVE  /\ \A u \in 1..MaxSeq : Cardinality(Hits(q, AddsOf(u))) =
              IF n <= u /\ u < n + N /\ u - n < Len(q) THEN 1 ELSE 0
         /\ Cardinality(Hits(q, AddsOf(Wake))) =
              IF \E i \in 1..Len(q) : q[i].ud = Wake THEN 1 ELSE 0
<1> USE Numbers
<1>1. Len(q) \in Nat /\ DOMAIN q = 1..Len(q) /\ \A i \in 1..Len(q) : q[i] \in Sqes
  BY LenProperties, ElementOfSeq
<1>2. \A i \in 1..Len(q) : q[i].op = "add" => q[i].ud = IF i <= N THEN n + i - 1 ELSE Wake
  BY <1>1
<1>3. \A u : Hits(q, AddsOf(u)) = {i \in 1..Len(q) : q[i].op = "add" /\ q[i].ud = u}
  BY <1>1 DEF Hits, AddsOf
<1>4. ASSUME NEW u \in 1..MaxSeq
      PROVE  Cardinality(Hits(q, AddsOf(u))) =
               IF n <= u /\ u < n + N /\ u - n < Len(q) THEN 1 ELSE 0
  <2>1. \A i \in 1..Len(q) : q[i].op = "add" /\ q[i].ud = u => i <= N /\ i = u - n + 1
    BY <1>1, <1>2
  <2>2. CASE n <= u /\ u < n + N /\ u - n < Len(q)
    <3>1. u - n + 1 \in 1..Len(q) /\ u - n + 1 <= N /\ n + (u - n + 1) - 1 = u
      BY <1>1, <2>2
    <3>2. Hits(q, AddsOf(u)) = {u - n + 1}
      BY <1>3, <2>1, <3>1
    <3> QED  BY <2>2, <3>2, FS_Singleton
  <2>3. CASE ~ (n <= u /\ u < n + N /\ u - n < Len(q))
    <3>1. Hits(q, AddsOf(u)) = {}
      BY <1>1, <1>3, <2>1, <2>3
    <3> QED  BY <2>3, <3>1, FS_EmptySet
  <2> QED  BY <2>2, <2>3
<1>5. \A i \in 1..Len(q) : q[i].ud = Wake => i = N + 1 /\ q[i].op = "add"
  BY <1>1
<1>6. CASE \E i \in 1..Len(q) : q[i].ud = Wake
  <2>1. Hits(q, AddsOf(Wake)) = {N + 1}
    BY <1>3, <1>5, <1>6
  <2> QED  BY <1>4, <1>6, <2>1, FS_Singleton
<1>7. CASE ~ \E i \in 1..Len(q) : q[i].ud = Wake
  <2>1. Hits(q, AddsOf(Wake)) = {}
    BY <1>3, <1>7
  <2> QED  BY <1>4, <1>7, <2>1, FS_EmptySet
<1> QED  BY <1>6, <1>7

LEMMA WaitArmAccount ==
  ASSUME Base, Base', Accounted, NEW timed \in BOOLEAN, WaitArm(timed)
  PROVE  Accounted'
<1> USE Numbers
<1> PICK N : N = Cardinality(Unarmed)
  OBVIOUS
<1> PICK n : n = next_seq
  OBVIOUS
<1> PICK R : R = Room
  OBVIOUS
<1>1. PICK q \in Seq(Sqes) :
           /\ sq' = sq \o q /\ Len(q) <= R /\ (N <= Len(q) \/ Len(q) = R)
           /\ \A i \in 1..Len(q) : i <= N => q[i].op = "add" /\ q[i].ud = n + i - 1
           /\ \A i \in 1..Len(q) : i > N /\ (q[i].op = "add" \/ q[i].ud = Wake) =>
                q[i].op = "add" /\ q[i].ud = Wake /\ i = N + 1 /\ ~ wake_armed
           /\ wake_armed' = (wake_armed \/ \E i \in 1..Len(q) : q[i].ud = Wake)
  BY StagedShape
<1>2. /\ N \in Nat /\ R \in Nat /\ n \in Nat \ {0} /\ n + N <= MaxSeq + 1 /\ Len(q) \in Nat
      /\ UNCHANGED <<r_fds, polls, cq>> /\ r_seqs \in [Slots -> 0..MaxSeq]
  <2>1. R \in Nat
    BY LenProperties DEF Base, TypeOK, QueuesOK, Room
  <2>2. N \in Nat /\ Len(q) \in Nat
    BY Ranked, LenProperties
  <2>3. n + N <= MaxSeq + 1 /\ UNCHANGED <<r_fds, polls, cq>>
    BY DEF WaitArm, kernel
  <2>4. n \in Nat \ {0} /\ r_seqs \in [Slots -> 0..MaxSeq]
    BY DEF Base, TypeOK
  <2> QED  BY <2>1, <2>2, <2>3, <2>4
<1>3. call.op = "none" /\ call'.op \in {"none", "wait"} /\ pc' # "none"
  <2>1. call = Idle /\ pc = "idle" /\ [Idle EXCEPT !.op = "wait"].op = "wait"
    BY DEF WaitArm, Base, CallInv, Idle
  <2> QED  BY <2>1, IdleTyped DEF WaitArm, Enter
<1>4. /\ next_seq' = n + (IF N <= R THEN N ELSE R + 1)
      /\ \A s \in Slots : r_seqs'[s] = IF s \in Unarmed /\ Rank(s) < R
                                       THEN n + Rank(s) ELSE r_seqs[s]
  BY WaitNumbers
<1>5. /\ \A s \in Unarmed : Rank(s) \in Nat /\ Rank(s) < N
      /\ \A s, t \in Unarmed : Rank(s) = Rank(t) => s = t
  BY Ranked, <1>2
<1>6. /\ \A u \in 1..MaxSeq : Cardinality(Hits(q, AddsOf(u))) =
           IF n <= u /\ u < n + N /\ u - n < Len(q) THEN 1 ELSE 0
      /\ Cardinality(Hits(q, AddsOf(Wake))) =
           IF \E i \in 1..Len(q) : q[i].ud = Wake THEN 1 ELSE 0
  <2>1. \A i \in 1..Len(q) : i > N /\ (q[i].op = "add" \/ q[i].ud = Wake) =>
           q[i].op = "add" /\ q[i].ud = Wake /\ i = N + 1
    BY <1>1
  <2>2. \A i \in 1..Len(q) : i <= N => q[i].op = "add" /\ q[i].ud = n + i - 1
    BY <1>1
  <2> QED  BY <1>2, <2>1, <2>2, StagedHits, ZenonT(30)
<1>7. \A u \in 1..Wake : /\ Outstanding(u)' = Outstanding(u) + Cardinality(Hits(q, AddsOf(u)))
                         /\ Outstanding(u) \in Nat
  BY <1>1, <1>2, StagedCount
<1>8. \A u \in 1..MaxSeq : n <= u => Outstanding(u) = 0
  BY DEF Accounted, Fresh
<1>9. \A u \in 1..MaxSeq : u < n => Outstanding(u)' = Outstanding(u)
  BY <1>2, <1>6, <1>7
\* The slots that found room got a number of their own, staged once.
<1>10. ASSUME NEW s \in Slots, s \in Unarmed, Rank(s) < R
       PROVE  /\ n + Rank(s) \in 1..MaxSeq /\ n + Rank(s) < next_seq'
              /\ Cardinality(Hits(q, AddsOf(n + Rank(s)))) = 1
              /\ \A u \in 1..MaxSeq : u = n + Rank(s) => Outstanding(u)' = 1
  <2> PICK k : k = Rank(s)
    OBVIOUS
  <2>1. k \in Nat /\ k < N /\ k < R
    BY <1>5, <1>10
  <2> PICK v : v = n + k
    OBVIOUS
  <2>2. v \in 1..MaxSeq /\ v \in 1..Wake /\ v < next_seq' /\ v - n < Len(q) /\ n <= v /\ v < n + N
    <3>1. v - n = k /\ k < Len(q)
      BY <1>1, <1>2, <2>1, SMTT(20)
    <3>2. k < IF N <= R THEN N ELSE R + 1
      BY <1>2, <2>1
    <3>3. v < next_seq'
      BY <1>2, <1>4, <2>1, <3>2
    <3>4. v \in 1..MaxSeq /\ v \in 1..Wake /\ n <= v /\ v < n + N
      BY <1>2, <2>1
    <3> QED  BY <3>1, <3>3, <3>4
  <2>3. Cardinality(Hits(q, AddsOf(v))) = 1
    BY <1>6, <2>2
  <2>4. Outstanding(v) = 0
    BY <1>8, <2>2
  <2>5. Outstanding(v)' = 1
    BY <1>7, <2>2, <2>3, <2>4
  <2> QED  BY <2>2, <2>3, <2>5
<1>11. \A s \in Slots : r_seqs[s] \in 0..MaxSeq /\ r_seqs[s] < n
  BY <1>2 DEF Accounted, Numbered
<1>12. Outstanding(Wake)' = IF wake_armed' THEN 1 ELSE 0
  <2>1. Outstanding(Wake) = IF wake_armed THEN 1 ELSE 0
    BY <1>3 DEF Accounted, WakeOnce
  <2>2. Outstanding(Wake)' = Outstanding(Wake) + Cardinality(Hits(q, AddsOf(Wake)))
    BY <1>7
  <2>3. (\E i \in 1..Len(q) : q[i].ud = Wake) => ~ wake_armed
    <3> SUFFICES ASSUME NEW i \in 1..Len(q), q[i].ud = Wake PROVE ~ wake_armed
      OBVIOUS
    <3>1. i > N
      <4>1. i <= N => q[i].ud = n + i - 1
        BY <1>1
      <4> QED  BY <1>2, <4>1
    <3> QED  BY <1>1, <3>1
  <2>4. CASE \E i \in 1..Len(q) : q[i].ud = Wake
    <3>1. Cardinality(Hits(q, AddsOf(Wake))) = 1 /\ ~ wake_armed /\ wake_armed'
      BY <1>1, <1>6, <2>3, <2>4, Zenon
    <3> QED  BY <2>1, <2>2, <3>1
  <2>5. CASE ~ \E i \in 1..Len(q) : q[i].ud = Wake
    <3>1. Cardinality(Hits(q, AddsOf(Wake))) = 0 /\ (wake_armed' <=> wake_armed)
      BY <1>1, <1>6, <2>5, Zenon
    <3> QED  BY <2>1, <2>2, <3>1
  <2> QED  BY <2>4, <2>5
<1>13. WakeOnce'
  BY <1>3, <1>12 DEF WakeOnce
<1>14. AtMostOne'
  <2>1. ASSUME NEW u \in 1..Wake
        PROVE  Outstanding(u)' <= 1
    <3>1. CASE u = Wake
      BY <1>12, <3>1
    <3>2. CASE u # Wake /\ n <= u
      <4>1. u \in 1..MaxSeq
        BY <3>2
      <4>2. Cardinality(Hits(q, AddsOf(u))) \in {0, 1}
        BY <1>6, <4>1
      <4>3. Outstanding(u) = 0
        BY <1>8, <3>2, <4>1
      <4> QED  BY <1>7, <4>2, <4>3
    <3>3. CASE u # Wake /\ u < n
      <4>1. u \in 1..MaxSeq
        BY <3>3
      <4> QED  BY <1>9, <3>3, <4>1 DEF Accounted, AtMostOne
    <3> QED  BY <1>2, <3>1, <3>2, <3>3
  <2> QED  BY <2>1 DEF AtMostOne
<1>15. Fresh'
  <2>1. ASSUME NEW u \in 1..MaxSeq, u >= next_seq'
        PROVE  Outstanding(u)' = 0
    <3>1. n <= u /\ ~ (u < n + N /\ u - n < Len(q))
      <4>1. u >= n + (IF N <= R THEN N ELSE R + 1)
        BY <1>4, <2>1
      <4>2. Len(q) <= R
        BY <1>1
      <4>3. CASE N <= R
        BY <1>2, <4>1, <4>3
      <4>4. CASE ~(N <= R)
        BY <1>2, <4>1, <4>2, <4>4
      <4> QED  BY <4>3, <4>4
    <3>2. Outstanding(u) = 0 /\ Cardinality(Hits(q, AddsOf(u))) = 0 /\ u \in 1..Wake
      BY <1>6, <1>8, <3>1
    <3> QED  BY <1>7, <3>2
  <2> QED  BY <2>1 DEF Fresh
<1>16. Numbered'
  <2>1. \A s \in Slots : r_seqs'[s] < next_seq'
    <3> TAKE s \in Slots
    <3>1. CASE s \in Unarmed /\ Rank(s) < R
      BY <1>4, <1>10, <3>1
    <3>2. CASE ~ (s \in Unarmed /\ Rank(s) < R)
      BY <1>2, <1>4, <1>11, <3>2
    <3> QED  BY <3>1, <3>2
  <2>2. ASSUME NEW s \in Slots, NEW t \in Slots, Live(s), Live(t),
               r_seqs'[s] = r_seqs'[t], r_seqs'[s] # 0
        PROVE  s = t
    <3>1. CASE (s \in Unarmed /\ Rank(s) < R) /\ (t \in Unarmed /\ Rank(t) < R)
      <4>1. n + Rank(s) = n + Rank(t)
        BY <1>4, <2>2, <3>1
      <4> QED  BY <1>2, <1>5, <3>1, <4>1
    <3>2. CASE (s \in Unarmed /\ Rank(s) < R) /\ ~ (t \in Unarmed /\ Rank(t) < R)
      <4>1. n + Rank(s) = r_seqs[t]
        BY <1>4, <2>2, <3>2
      <4> QED  BY <1>2, <1>5, <1>11, <3>2, <4>1
    <3>3. CASE ~ (s \in Unarmed /\ Rank(s) < R) /\ (t \in Unarmed /\ Rank(t) < R)
      <4>1. n + Rank(t) = r_seqs[s]
        BY <1>4, <2>2, <3>3
      <4> QED  BY <1>2, <1>5, <1>11, <3>3, <4>1
    <3>4. CASE ~ (s \in Unarmed /\ Rank(s) < R) /\ ~ (t \in Unarmed /\ Rank(t) < R)
      <4>1. r_seqs[s] = r_seqs[t] /\ r_seqs[s] # 0
        BY <1>4, <2>2, <3>4
      <4> QED  BY <2>2, <4>1 DEF Accounted, Numbered
    <3> QED  BY <3>1, <3>2, <3>3, <3>4
  <2> QED  BY <1>2, <1>3, <2>1, <2>2 DEF Numbered, Adding, Live
<1>17. Answered'
  <2>1. ASSUME NEW s \in Slots, Live(s), NEW u \in 1..MaxSeq, u = r_seqs'[s]
        PROVE  Outstanding(u)' = 1
    <3>1. CASE s \in Unarmed /\ Rank(s) < R
      BY <1>4, <1>10, <2>1, <3>1
    <3>2. CASE ~ (s \in Unarmed /\ Rank(s) < R)
      <4>1. u = r_seqs[s]
        BY <1>4, <2>1, <3>2
      <4> QED  BY <1>9, <1>11, <2>1, <4>1 DEF Accounted, Answered
    <3> QED  BY <3>1, <3>2
  <2> QED  BY <1>2, <2>1 DEF Answered, Live
<1>18. InFlight'
  BY <1>3 DEF InFlight, Adding
<1> QED  BY <1>13, <1>14, <1>15, <1>16, <1>17, <1>18 DEF Accounted

\* A handle that failed or was closed takes no step.
LEMMA GoneStays ==
  ASSUME pc \in {"failed", "closed"}, Next
  PROVE  FALSE
BY DEF Next, Acquire, AcquireFails, ArmWake, Close, Consume, ConsumeFails, EnterFails,
       StopsShort, TimerFires, WakePollFires, PollFires, InKernel, RegisterNew, Upsert,
       Unregister, WaitArm, Returns, Flushed, Registered, Unregistered, Created, Submitted,
       Sleep, WaitReturns, Drain, Drained, WaitEndsEarly, WaitInterrupted, WakeUp

LEMMA KernelAccount ==
  ASSUME Base, Base', Accounted
  PROVE  /\ Consume \/ ConsumeFails \/ TimerFires => Accounted'
         /\ \A p \in polls, c \in Conds \cup {{"r"}} : PollFires(p, c) => Accounted'
<1>1. CASE Consume
  <2>1. \A u \in 1..Wake : Outstanding(u)' = Outstanding(u)
    BY <1>1, ConsumeKeeps DEF Accounted
  <2>2. pc' = pc /\ UNCHANGED <<table, next_seq, armed>> /\ call' = [call EXCEPT !.took = TRUE]
    BY <1>1 DEF Consume
  <2> QED  BY <2>1, <2>2, AccountKernel
<1>2. CASE ConsumeFails
  <2>1. \A u \in 1..Wake : Outstanding(u)' = Outstanding(u)
    BY <1>2, ConsumeFailsKeeps
  <2>2. pc' = pc /\ UNCHANGED <<table, next_seq, armed>> /\ call' = [call EXCEPT !.took = TRUE]
    BY <1>2 DEF ConsumeFails
  <2> QED  BY <2>1, <2>2, AccountKernel
<1>3. CASE TimerFires
  <2>1. \A u \in 1..Wake : Outstanding(u)' = Outstanding(u)
    BY <1>3, TimerFiresKeeps
  <2>2. pc' = pc /\ UNCHANGED <<table, next_seq, armed>> /\ call' = call
    BY <1>3 DEF TimerFires
  <2> QED  BY <2>1, <2>2, AccountKernel
<1>4. ASSUME NEW p \in polls, NEW c \in Conds \cup {{"r"}}, PollFires(p, c)
      PROVE  Accounted'
  <2>1. \A u \in 1..Wake : Outstanding(u)' = Outstanding(u)
    BY <1>4, PollFiresKeeps
  <2>2. pc' = pc /\ UNCHANGED <<table, next_seq, armed>> /\ call' = call
    BY <1>4 DEF PollFires
  <2> QED  BY <2>1, <2>2, AccountKernel
<1> QED  BY <1>1, <1>2, <1>3, <1>4

\* The steps that move no request: create going on, a failed or short enter,
\* the ends of a wait, and a wake.
LEMMA QuietAccount ==
  ASSUME Base, Accounted,
         \/ Acquire \/ StopsShort \/ WakeUp \/ Sleep \/ WaitReturns \/ WaitEndsEarly
         \/ WaitInterrupted \/ Drained \/ UNCHANGED vars
         \/ (EnterFails /\ call.op # "create")
  PROVE  Accounted'
<1>1. UNCHANGED <<sq, cq, polls, table, next_seq, wake_armed>>
  BY DEF Acquire, StopsShort, WakeUp, Sleep, WaitReturns, WaitEndsEarly, StartDrain,
         WaitInterrupted, Drained, EnterFails, vars, kernel, armed
<1>2. pc' = "none" => pc = "none"
  BY DEF Acquire, StopsShort, WakeUp, Sleep, WaitReturns, WaitEndsEarly, StartDrain,
         WaitInterrupted, Drained, EnterFails, vars
<1>3. \/ call'.op = call.op /\ call'.seq = call.seq
      \/ call'.op = "none" /\ call.op # "create"
  <2>1. CASE Acquire \/ StopsShort \/ WakeUp \/ Sleep \/ UNCHANGED vars
    BY <2>1 DEF Acquire, StopsShort, WakeUp, Sleep, vars
  <2>2. CASE WaitReturns \/ WaitEndsEarly
    BY <2>2 DEF WaitReturns, WaitEndsEarly, StartDrain, Base, ReactorOK, Calls
  <2>3. CASE WaitInterrupted \/ Drained
    BY <2>3, IdleTyped DEF WaitInterrupted, Drained, Base, CallInv
  <2>4. CASE EnterFails /\ call.op # "create"
    BY <2>4, IdleTyped DEF EnterFails
  <2> QED  BY <2>1, <2>2, <2>3, <2>4
<1> QED  BY <1>1, <1>2, <1>3, AccountQuiet

LEMMA SeqStep ==
  ASSUME Base, Base', SeqInv, [Next]_vars
  PROVE  SeqInv'
<1>1. CASE pc \in {"failed", "closed"}
  <2>1. UNCHANGED vars
    BY <1>1, GoneStays
  <2> QED  BY <1>1, <2>1 DEF SeqInv, vars
<1> SUFFICES ASSUME Accounted PROVE Accounted' \/ pc' \in {"failed", "closed"}
  BY <1>1 DEF SeqInv
<1>2. CASE AcquireFails \/ Close \/ (EnterFails /\ call.op = "create")
  BY <1>2 DEF AcquireFails, Close, EnterFails
<1>3. CASE Consume \/ ConsumeFails \/ TimerFires
  BY <1>3, KernelAccount
<1>4. CASE WakePollFires \/ \E p \in polls, c \in Conds : p.ud # Wake /\ PollFires(p, c)
  BY <1>4, KernelAccount DEF WakePollFires
<1>5. CASE \/ Acquire \/ StopsShort \/ WakeUp \/ Sleep \/ WaitReturns \/ WaitEndsEarly
           \/ WaitInterrupted \/ Drained \/ UNCHANGED vars
           \/ (EnterFails /\ call.op # "create")
  BY <1>5, QuietAccount
<1>6. CASE ArmWake \/ Created \/ Flushed \/ Registered \/ Drain
  BY <1>6, ArmWakeAccount, CreatedAccount, FlushedAccount, RegisteredAccount, DrainAccount
<1>7. CASE Unregistered
  <2>1. /\ UNCHANGED <<sq, kernel, r_seqs, next_seq, armed>> /\ call.slot \in Slots
        /\ r_fds' = [r_fds EXCEPT ![call.slot] = None]
        /\ pc' # "none" /\ call' = Idle /\ call.op # "create"
    BY <1>7 DEF Unregistered, Base, ReactorOK, Calls
  <2> QED  BY <2>1, AccountEmpties
<1>8. CASE \E f \in Fds, w \in Wants : RegisterNew(f, w) \/ Upsert(f, w)
  BY <1>8, RegisterNewAccount, UpsertAccount
<1>9. CASE \E f \in Fds : Unregister(f)
  BY <1>9, UnregisterAccount
<1>10. CASE \E timed \in BOOLEAN : WaitArm(timed)
  BY <1>10, WaitArmAccount
<1> QED
  BY <1>2, <1>3, <1>4, <1>5, <1>6, <1>7, <1>8, <1>9, <1>10 DEF Next, Returns

\* Nothing is outstanding at first.
LEMMA SeqInit == Init => SeqInv
<1> SUFFICES ASSUME Init PROVE Accounted
  BY DEF SeqInv
<1> USE Numbers
<1>1. \A u \in 1..Wake : Outstanding(u) = 0
  <2> TAKE u \in 1..Wake
  <2> DEFINE S == {i \in DOMAIN sq : sq[i].op = "add" /\ sq[i].ud = u}
             P == {p \in polls : p.ud = u}
             C == {i \in DOMAIN cq : cq[i].ud = u}
  <2>1. S = {} /\ P = {} /\ C = {}
    BY DEF Init
  <2>2. Outstanding(u) = Cardinality(S) + Cardinality(P) + Cardinality(C)
    BY DEF Outstanding
  <2> HIDE DEF S, P, C
  <2> QED  BY <2>1, <2>2, FS_EmptySet
<1>2. call.op = "none" /\ wake_armed = FALSE /\ next_seq = 1
      /\ \A s \in Slots : r_fds[s] = None /\ r_seqs[s] = 0
  BY IdleTyped DEF Init
<1>3. AtMostOne /\ Fresh /\ WakeOnce
  BY <1>1, <1>2 DEF AtMostOne, Fresh, WakeOnce
<1>4. Numbered /\ InFlight /\ Answered
  BY <1>2 DEF Numbered, InFlight, Answered, Adding, Live
<1> QED  BY <1>3, <1>4 DEF Accounted

\* ArmedIsOutstanding: a slot that believes it is armed has exactly one request,
\* armed poll or undrained completion, and so has the wake poll, across failed
\* and short submits, upserts that ran out of room and waits that did.
THEOREM ArmedIsOutstandingAlways == Spec => []ArmedIsOutstanding
<1>1. Base /\ SeqInv => ArmedIsOutstanding
  <2> SUFFICES ASSUME Base, SeqInv, pc \notin {"failed", "closed"}
               PROVE  /\ \A s \in Slots : Live(s) /\ r_seqs[s] # 0 => Outstanding(r_seqs[s]) = 1
                      /\ wake_armed => Outstanding(Wake) = 1
    BY DEF ArmedIsOutstanding
  <2>1. \A s \in Slots : r_seqs[s] # 0 => r_seqs[s] \in 1..MaxSeq
    BY Numbers DEF Base, TypeOK
  <2>2. Answered /\ WakeOnce
    BY DEF SeqInv, Accounted
  <2>3. \A s \in Slots : Live(s) /\ r_seqs[s] # 0 => Outstanding(r_seqs[s]) = 1
    BY <2>1, <2>2 DEF Answered
  <2>4. wake_armed => Outstanding(Wake) = 1
    BY <2>2 DEF WakeOnce
  <2> QED  BY <2>3, <2>4
<1>2. (Base /\ SeqInv) /\ Base' /\ [Next]_vars => SeqInv'
  BY SeqStep
<1> QED  BY <1>1, <1>2, SeqInit, AlwaysBase, PTL DEF Spec
-----------------------------------------------------------------------------
\* RegistrationSurvives for the slots that are armed, with the completion named:
\* a registration whose poll is out ends by the unregister of its descriptor, or
\* when the drain takes a failed completion of that very poll.
ArmedSlotsStay ==
  \A s \in Slots : Live(s) /\ r_seqs[s] # 0 /\ r_fds'[s] = None =>
    \/ call.op = "unregister" /\ call.fd = r_fds[s]
    \/ pc = "drain" /\ Head(cq).ud = r_seqs[s] /\ ~Head(cq).ok

ArmedRegistrationSurvives == [][ArmedSlotsStay]_vars

\* A drain empties a slot only for a failed completion of the slot's number.
LEMMA DrainRetires ==
  ASSUME Base, Drain
  PROVE  \/ UNCHANGED r_fds
         \/ \E x \in Slots : /\ r_fds' = [r_fds EXCEPT ![x] = None]
                             /\ r_seqs[x] = Head(cq).ud /\ ~Head(cq).ok
<1> PICK c : c = Head(cq)
  OBVIOUS
<1>1. UNCHANGED r_fds \/ DrainPoll(c)
  BY DEF Drain, table
<1>2. ASSUME DrainPoll(c)
      PROVE  \/ UNCHANGED r_fds
             \/ \E x \in Slots : /\ r_fds' = [r_fds EXCEPT ![x] = None]
                                 /\ r_seqs[x] = c.ud /\ ~c.ok
  <2> PICK x : x = CHOOSE y \in Matches(c.ud) : \A z \in Matches(c.ud) : y <= z
    OBVIOUS
  <2>1. \/ UNCHANGED table
        \/ Matches(c.ud) # {} /\ ~c.ok /\ Retire(x)
        \/ Matches(c.ud) # {} /\ Fire(x, c.flags)
    BY <1>2, Zenon DEF DrainPoll
  <2>2. Matches(c.ud) # {} => x \in Slots /\ r_seqs[x] = c.ud
    BY FirstMatch
  <2> QED  BY <2>1, <2>2 DEF Retire, Fire, table
<1> QED  BY <1>1, <1>2

\* Three steps write r_fds; the one that fills a slot empties none.
LEMMA ArmedStep ==
  ASSUME Base, [Next]_vars
  PROVE  ArmedSlotsStay
<1> SUFFICES ASSUME NEW s \in Slots, Live(s), r_seqs[s] # 0, r_fds'[s] = None
             PROVE  \/ call.op = "unregister" /\ call.fd = r_fds[s]
                    \/ pc = "drain" /\ Head(cq).ud = r_seqs[s] /\ ~Head(cq).ok
  BY DEF ArmedSlotsStay
<1>1. r_fds' # r_fds /\ r_fds \in [Slots -> Fds \cup {None}]
  BY DEF Live, Base, TypeOK
<1>2. Registered \/ Unregistered \/ Drain
  <2>1. ~(\/ Acquire \/ AcquireFails \/ ArmWake \/ Close \/ Consume \/ ConsumeFails
          \/ EnterFails \/ StopsShort \/ TimerFires)
    BY <1>1 DEF Acquire, AcquireFails, ArmWake, Close, Consume, ConsumeFails,
       EnterFails, StopsShort, TimerFires, table
  <2>2. \A p, c : ~PollFires(p, c)
    BY <1>1 DEF PollFires, table
  <2>3. \A f, w : ~RegisterNew(f, w) /\ ~Upsert(f, w) /\ ~Unregister(f)
    <3> TAKE f, w
    <3>1. ~RegisterNew(f, w)
      BY <1>1, Zenon DEF RegisterNew, table
    <3>2. ~Upsert(f, w)
      BY <1>1, Zenon DEF Upsert, table
    <3>3. ~Unregister(f)
      BY <1>1, Zenon DEF Unregister, table
    <3> QED  BY <3>1, <3>2, <3>3
  <2>4. \A timed : ~WaitArm(timed)
    BY <1>1, Zenon DEF WaitArm
  <2>5. ~(\/ Flushed \/ Created \/ Sleep \/ WaitReturns \/ Drained \/ WaitEndsEarly
          \/ WaitInterrupted \/ WakeUp \/ UNCHANGED vars)
    BY <1>1 DEF Flushed, Created, Sleep, WaitReturns, StartDrain, Drained,
       WaitEndsEarly, WaitInterrupted, WakeUp, table, vars
  <2> QED  BY <2>1, <2>2, <2>3, <2>4, <2>5, Zenon DEF Next, Returns, WakePollFires
<1>3. CASE Registered
  <2>1. r_fds' = [r_fds EXCEPT ![call.slot] = call.fd] /\ call.fd \in Fds
    BY <1>3 DEF Registered, Base, CallInv
  <2> QED  BY <2>1, <1>1, RingAssumption DEF Live
<1>4. CASE Unregistered
  <2>1. /\ r_fds' = [r_fds EXCEPT ![call.slot] = None]
        /\ call.op = "unregister" /\ r_fds[call.slot] = call.fd
    BY <1>4 DEF Unregistered, Base, CallInv
  <2> QED  BY <2>1, <1>1 DEF Live
<1>5. CASE Drain
  <2> PICK c : c = Head(cq)
    OBVIOUS
  <2>1. PICK x \in Slots : r_fds' = [r_fds EXCEPT ![x] = None] /\ r_seqs[x] = c.ud /\ ~c.ok
    BY <1>5, <1>1, DrainRetires
  <2>2. x = s
    BY <2>1, <1>1 DEF Live
  <2>3. pc = "drain"
    BY <1>5 DEF Drain
  <2> QED  BY <2>1, <2>2, <2>3
<1> QED  BY <1>2, <1>3, <1>4, <1>5

\* The flaw behind RegistrationSurvives reaches no other slots: a registration
\* whose poll is staged, armed or completed is retired only with its own poll's
\* failure or by its caller, for every hash and across failed submits.
THEOREM ArmedRegistrationsSurvive == Spec => ArmedRegistrationSurvives
<1>1. Base /\ [Next]_vars => [ArmedSlotsStay]_vars
  BY ArmedStep
<1> QED  BY <1>1, AlwaysBase, PTL DEF Spec, ArmedRegistrationSurvives
==============================================================================
