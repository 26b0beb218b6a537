---------------------------- MODULE PollersProofs ----------------------------
(***************************************************************************)
(* The safety of the readiness pollers: of epoll for every table size and  *)
(* every hash, of kqueue for every set of descriptors.                     *)
(***************************************************************************)
EXTENDS Pollers, FiniteSetTheorems, TLAPS

\* No token is a descriptor's number: the probe that finds the table full
\* reads a token as a descriptor.
TokensAreOpaque == \A t \in Tokens : LowWord[t] = None

Args == [fd : Fds, want : Interests, tok : Tokens]

\* The descriptor a register or modify is half way through.
Changing(f) == pc = "set" /\ arg.fd = f

\* One backend has state.
StubInv ==
  /\ backend \in {"epoll", "kqueue"}
  /\ backend = "kqueue" => kern = [f \in Fds |-> None] /\ wfd = 0
  /\ backend = "epoll" => kn = [f \in Fds |-> [k \in Kinds |-> None]] /\ ~user

\* What probing relies on: a descriptor is in one slot at most, no slot on the
\* way to it is empty, and next to it is a token.
TableInv ==
  /\ \A f \in Fds : \A s, t \in Slots : table_fd[s] = f /\ table_fd[t] = f => s = t
  /\ \A f \in Fds : \A k \in Slots : table_fd[Probe(f, k)] = f =>
       \A j \in 0..(k - 1) : table_fd[Probe(f, j)] # Empty
  /\ \A s \in Slots : table_fd[s] \in Fds => table_tok[s] \in Tokens

\* The kernel, the table and the caller agree on a descriptor.
Agree(f) ==
  \/ kern[f] = None /\ reg[f] = None
  \/ /\ kern[f] # None
     /\ \E s \in Slots : table_fd[s] = f /\ reg[f] = [want |-> kern[f], tok |-> table_tok[s]]

\* Slot s is where a descriptor is, or where it can be put: free, with no
\* empty slot before it on the probe.
Fits(f, s) ==
  \/ table_fd[s] = f
  \/ /\ \A t \in Slots : table_fd[t] # f
     /\ table_fd[s] \in {Empty, Tomb}
     /\ \E k \in Slots : /\ s = Probe(f, k)
                         /\ \A j \in 0..(k - 1) : table_fd[Probe(f, j)] # Empty

EpollInv ==
  backend = "epoll" =>
    /\ pc = "set" => /\ slot \in Slots /\ Fits(arg.fd, slot)
                     /\ kern[arg.fd] = arg.want
    /\ \A f \in Fds : Changing(f) \/ Agree(f)

\* The knotes of a descriptor are those of its last registration.
Noted(f) ==
  /\ \A k \in Kinds : kn[f][k] # None =>
       reg[f] \in Entry /\ k \in reg[f].want /\ kn[f][k].tok = reg[f].tok
  /\ reg[f] \in Entry => \A k \in reg[f].want : kn[f][k] # None

HalfNoted ==
  /\ kn[arg.fd]["r"] # None <=> "r" \in arg.want
  /\ kn[arg.fd]["r"] # None => kn[arg.fd]["r"].tok = arg.tok

KqueueInv ==
  backend = "kqueue" =>
    /\ pc = "set" => HalfNoted
    /\ \A f \in Fds : Changing(f) \/ reg[f] = Half \/ Noted(f)

CallInv == pc = "set" => arg \in Args

\* Why a wait has returned from the kernel, and that a wake stands behind the
\* wake source.
WaitInv ==
  /\ pc = "woken" => \/ batch # {}
                     \/ woke /\ earned
                     \/ TimeIsUp
  /\ wfd > 0 => credit
  /\ user => credit
  /\ pc # "woken" => batch = {}
  /\ pc # "ret" => out = {}

\* What has come from the kernel, while the descriptors may be closed and
\* opened again.
BatchInv ==
  /\ backend = "epoll" => \A e \in batch :
       /\ \E s \in Slots : table_fd[s] = e.fd
       /\ kern[e.fd] # None => e.flags \subseteq kern[e.fd] \cup {"eof"}
  /\ backend = "kqueue" => \A e \in batch :
       /\ e \in Events
       /\ reg[e.fd] \in Entry => /\ e.tok = reg[e.fd].tok
                                 /\ e.flags \subseteq reg[e.fd].want \cup {"eof"}

\* The inductive invariant.
Inv ==
  /\ TypeOK /\ StubInv /\ TableInv /\ CallInv /\ EpollInv /\ KqueueInv
  /\ WaitInv /\ BatchInv /\ ZeroEventsMeanWakeOrTimeout /\ DeliveredIsRegistered

-----------------------------------------------------------------------------
\* Arithmetic.  A set of naturals has a least element, and a timeout rounded
\* up to milliseconds is not shorter than it was, unless it wrapped or was
\* clamped.
LEMMA LeastNat ==
  ASSUME NEW S \in SUBSET Nat, S # {}
  PROVE  \E k \in S : \A j \in S : k <= j
<1> DEFINE R == {ss \in Nat \X Nat : ss[1] < ss[2]}
<1>1. IsWellFoundedOn(R, Nat)
  BY NatLessThanWellFounded DEF OpToRel
<1> HIDE DEF R
<1>2. PICK x \in S : \A y \in S : ~ (<<y, x>> \in R)
  BY <1>1, WFMin
<1>3. ASSUME NEW y \in S PROVE x <= y
  <2>1. x \in Nat /\ y \in Nat
    OBVIOUS
  <2>2. y < x => <<y, x>> \in R
    BY <2>1 DEF R
  <2> QED
    BY <1>2, <2>1, <2>2
<1> QED
  BY <1>2, <1>3

LEMMA LeastIsLeast ==
  ASSUME NEW S \in SUBSET Nat, S # {}
  PROVE  Least(S) \in S /\ \A j \in S : Least(S) <= j
BY LeastNat DEF Least

LEMMA RoundedUp ==
  ASSUME NEW t \in Nat
  PROVE  /\ TimeoutMs(t) * NsPerMs \in Nat
         /\ TimeoutMs(t) * NsPerMs >= t \/ TimeoutMs(t) * NsPerMs >= Longest \/ Wraps(t)
<1> DEFINE w == Word(t + NsPerMs - 1)
<1>1. NsPerMs \in Nat \ {0} /\ WordMax \in Nat /\ IntMax \in Nat
  BY EpollAssumption
<1>2. w \in Nat /\ (~Wraps(t) => w = t + NsPerMs - 1)
  BY <1>1 DEF Word, Wraps
<1> HIDE DEF w
<1>3. PICK q \in Nat, r \in 0..(NsPerMs - 1) : w = q * NsPerMs + r /\ q = w \div NsPerMs
  BY <1>1, <1>2
<1>4. TimeoutMs(t) = Clamp(q)
  BY <1>3 DEF TimeoutMs, w
<1>5. CASE q > IntMax
  <2>1. TimeoutMs(t) * NsPerMs = Longest
    BY <1>4, <1>5 DEF Clamp, Longest
  <2> QED
    BY <1>1, <2>1 DEF Longest
<1>6. CASE ~(q > IntMax)
  <2>1. TimeoutMs(t) = q
    BY <1>4, <1>6 DEF Clamp
  <2>2. ~Wraps(t) => q * NsPerMs >= t
    BY <1>1, <1>2, <1>3
  <2>3. q * NsPerMs \in Nat
    BY <1>1, <1>3
  <2> QED
    BY <2>1, <2>2, <2>3
<1> QED
  BY <1>5, <1>6

-----------------------------------------------------------------------------
\* The probe of mjs_epoll_slot visits every slot once.
LEMMA ProbeVisitsAll ==
  ASSUME NEW f \in Fds
  PROVE  /\ \A k \in Slots : Probe(f, k) \in Slots
         /\ \A j, k \in Slots : Probe(f, j) = Probe(f, k) => j = k
         /\ \A s \in Slots : \E k \in Slots : Probe(f, k) = s
<1>1. Cap \in Nat \ {0} /\ Hash[f] \in Nat /\ Hash[f] < Cap
  BY EpollAssumption DEF Slots
<1>2. \A k \in Slots : Probe(f, k) \in Slots
  BY <1>1 DEF Probe, Slots
<1>3. \A j, k \in Slots : Probe(f, j) = Probe(f, k) => j = k
  BY <1>1 DEF Probe, Slots
<1>4. ASSUME NEW s \in Slots
      PROVE  \E k \in Slots : Probe(f, k) = s
  <2> DEFINE k == IF s >= Hash[f] THEN s - Hash[f] ELSE s - Hash[f] + Cap
  <2>1. k \in Slots /\ Probe(f, k) = s
    BY <1>1 DEF Probe, Slots
  <2> QED
    BY <2>1
<1> QED
  BY <1>2, <1>3, <1>4

\* A descriptor that is in the table is found.
LEMMA FoundAt ==
  ASSUME TableInv, NEW f \in Fds, NEW s \in Slots, table_fd[s] = f
  PROVE  mjs_epoll_slot(f) = s
<1>1. PICK k \in Slots : Probe(f, k) = s
  BY ProbeVisitsAll
<1>2. k \in Stops(f) /\ Stops(f) \subseteq Nat /\ k \in Nat
  BY <1>1 DEF Stops, Slots
<1>3. Least(Stops(f)) \in Stops(f) /\ Least(Stops(f)) <= k
  BY <1>2, LeastIsLeast
<1> DEFINE l == Least(Stops(f))
<1>4. l \in Slots /\ table_fd[Probe(f, l)] \in {Empty, f} /\ l \in Nat
  BY <1>3 DEF Stops, Slots
<1> HIDE DEF l
<1>5. table_fd[Probe(f, l)] # Empty
  <2>1. CASE l = k
    BY <1>1, <2>1, EpollAssumption
  <2>2. CASE l # k
    <3>1. l \in 0..(k - 1)
      BY <1>2, <1>3, <1>4, <2>2 DEF l
    <3> QED
      BY <1>1, <3>1 DEF TableInv
  <2> QED
    BY <2>1, <2>2
<1>6. Probe(f, l) = s
  BY <1>4, <1>5, ProbeVisitsAll DEF TableInv
<1> QED
  BY <1>2, <1>5, <1>6 DEF mjs_epoll_slot, l

\* One that is not gets a free slot, unless no probe stops.
LEMMA SlotFits ==
  ASSUME TableInv, NEW f \in Fds
  PROVE  \/ mjs_epoll_slot(f) = Cap /\ \A s \in Slots : table_fd[s] # f
         \/ mjs_epoll_slot(f) \in Slots /\ Fits(f, mjs_epoll_slot(f))
<1>1. CASE \E s \in Slots : table_fd[s] = f
  BY <1>1, FoundAt DEF Fits
<1>2. CASE \A s \in Slots : table_fd[s] # f
  <2>1. CASE Stops(f) = {}
    BY <1>2, <2>1 DEF mjs_epoll_slot
  <2>2. CASE Stops(f) # {}
    <3> DEFINE l == Least(Stops(f))
               T == TombsBefore(f, l)
    <3>1. Stops(f) \subseteq Nat
      BY DEF Stops, Slots
    <3>2. l \in Stops(f) /\ \A j \in Stops(f) : l <= j
      BY <2>2, <3>1, LeastIsLeast
    <3>3. l \in Slots /\ Probe(f, l) \in Slots /\ l \in Nat
      BY <3>1, <3>2, ProbeVisitsAll DEF Stops
    <3>4. table_fd[Probe(f, l)] = Empty
      BY <1>2, <3>2, <3>3 DEF Stops
    <3>5. \A j \in 0..(l - 1) : j \in Slots /\ table_fd[Probe(f, j)] # Empty
      <4> SUFFICES ASSUME NEW j \in 0..(l - 1)
                   PROVE  j \in Slots /\ table_fd[Probe(f, j)] # Empty
        OBVIOUS
      <4>1. j \in Slots /\ ~(l <= j)
        BY <3>3, EpollAssumption DEF Slots
      <4> QED
        BY <3>2, <4>1 DEF Stops
    <3> HIDE DEF l
    <3>6. CASE T = {}
      <4>1. mjs_epoll_slot(f) = Probe(f, l)
        BY <2>2, <3>4, <3>6 DEF mjs_epoll_slot, l
      <4> QED
        BY <1>2, <3>3, <3>4, <3>5, <4>1 DEF Fits
    <3>7. CASE T # {}
      <4>1. T \subseteq Nat /\ T \subseteq 0..(l - 1)
        BY <3>3 DEF TombsBefore
      <4>2. Least(T) \in T
        BY <3>7, <4>1, LeastIsLeast
      <4> DEFINE m == Least(T)
      <4>3. /\ m \in 0..(l - 1) /\ m \in Slots /\ table_fd[Probe(f, m)] = Tomb
            /\ Probe(f, m) \in Slots
        BY <3>5, <4>2, ProbeVisitsAll DEF TombsBefore
      <4>4. mjs_epoll_slot(f) = Probe(f, m)
        BY <2>2, <3>4, <3>7 DEF mjs_epoll_slot, l
      <4> HIDE DEF m
      <4>5. \A j \in 0..(m - 1) : j \in 0..(l - 1)
        BY <3>3, <4>3
      <4> QED
        BY <1>2, <3>5, <4>3, <4>4, <4>5 DEF Fits
    <3> QED
      BY <3>6, <3>7
  <2> QED
    BY <2>1, <2>2
<1> QED
  BY <1>1, <1>2

-----------------------------------------------------------------------------
LEMMA Initially ==
  ASSUME Init
  PROVE  Inv
<1> USE PollerAssumption, EpollAssumption, KqueueAssumption
<1> USE DEF Init, ClientInit, EpollInit, KqueueInit
<1>1. ClientTypeOK
  BY DEF ClientTypeOK
<1>2. EpollTypeOK
  BY DEF EpollTypeOK
<1>3. KqueueTypeOK /\ reg \in [Fds -> Entry \cup {None, Half}]
  BY DEF KqueueTypeOK
<1>4. StubInv /\ TableInv /\ CallInv
  <2>1. \A f \in Fds, k \in Slots : Probe(f, k) \in Slots
    BY ProbeVisitsAll
  <2> QED
    BY <2>1 DEF StubInv, TableInv, CallInv
<1>5. EpollInv /\ KqueueInv
  BY DEF EpollInv, Agree, KqueueInv, Noted
<1>6. WaitInv /\ BatchInv /\ ZeroEventsMeanWakeOrTimeout /\ DeliveredIsRegistered
  BY DEF WaitInv, BatchInv, ZeroEventsMeanWakeOrTimeout, DeliveredIsRegistered
<1> QED
  BY <1>1, <1>2, <1>3, <1>4, <1>5, <1>6 DEF Inv, TypeOK

\* The stubs of the other backend.
LEMMA KqueueIsStub ==
  ASSUME Inv, backend = "epoll", UNCHANGED <<kqueueVars, backend>>
  PROVE  StubInv' /\ KqueueInv' /\ KqueueTypeOK'
BY DEF Inv, TypeOK, StubInv, KqueueInv, KqueueTypeOK, kqueueVars

LEMMA EpollIsStub ==
  ASSUME Inv, backend = "kqueue", UNCHANGED <<epollVars, backend>>
  PROVE  StubInv' /\ TableInv' /\ EpollInv' /\ EpollTypeOK'
BY DEF Inv, TypeOK, StubInv, TableInv, EpollInv, EpollTypeOK, epollVars, Probe

\* A call other than wait.
LEMMA NoWaitUnderWay ==
  ASSUME Inv, UNCHANGED waitVars, pc \in {"idle", "set"}, pc' \in {"idle", "set", "closed"},
         wfd' > 0 => credit', user' => credit'
  PROVE  WaitInv' /\ BatchInv' /\ ZeroEventsMeanWakeOrTimeout' /\ DeliveredIsRegistered'
<1>1. batch' = {} /\ out' = {}
  BY DEF Inv, WaitInv, waitVars
<1> QED
  BY <1>1 DEF WaitInv, BatchInv, ZeroEventsMeanWakeOrTimeout, DeliveredIsRegistered

\* The world moves, or another thread wakes the poller, while a wait may be
\* under way.
LEMMA WaitUnmoved ==
  ASSUME Inv, UNCHANGED <<pc, waitVars, backend, table_fd>>,
         \A f \in Fds : reg'[f] = reg[f] \/ reg'[f] = None,
         \A f \in Fds : kern'[f] = kern[f] \/ kern'[f] = None,
         wfd' > 0 => credit', user' => credit'
  PROVE  WaitInv' /\ BatchInv' /\ ZeroEventsMeanWakeOrTimeout' /\ DeliveredIsRegistered'
<1>1. WaitInv' /\ ZeroEventsMeanWakeOrTimeout'
  BY DEF Inv, WaitInv, ZeroEventsMeanWakeOrTimeout, TimeIsUp, waitVars
<1>2. \A e \in batch : e.fd \in Fds
  BY DEF Inv, TypeOK, ClientTypeOK
<1>3. BatchInv'
  BY <1>2, PollerAssumption DEF Inv, BatchInv, waitVars
<1>4. \A e \in out : e.fd \in Fds
  BY DEF Inv, TypeOK, ClientTypeOK, Events
<1>5. DeliveredIsRegistered'
  BY <1>4, PollerAssumption DEF Inv, DeliveredIsRegistered, waitVars
<1> QED
  BY <1>1, <1>3, <1>5

\* A step that leaves registrations alone, and begins or ends no change of one.
LEMMA TableUnmoved ==
  ASSUME Inv, UNCHANGED <<kern, table_fd, table_tok, slot, reg, arg, backend>>,
         pc' = "set" <=> pc = "set"
  PROVE  TableInv' /\ EpollInv' /\ CallInv'
<1>1. TableInv' /\ CallInv'
  BY DEF Inv, TableInv, CallInv, Probe
<1>2. EpollInv'
  BY DEF Inv, EpollInv, Fits, Agree, Changing, Probe
<1> QED
  BY <1>1, <1>2

-----------------------------------------------------------------------------
\* mjs_epoll_set up to the kernel's answer: the slot it has picked fits.
LEMMA EpollSetCtlInv ==
  ASSUME Inv, backend = "epoll", UNCHANGED <<kqueueVars, backend>>,
         NEW f \in Fds, NEW want \in Wants, NEW tok \in Tokens, NEW isAdd \in BOOLEAN,
         EpollSetCtl(f, want, tok, isAdd)
  PROVE  Inv'
<1>1. /\ arg' = [fd |-> f, want |-> want, tok |-> tok] /\ want \in Interests
      /\ pc = "idle" /\ pc' = "set"
      /\ kern' = [kern EXCEPT ![f] = want]
      /\ UNCHANGED <<ready, reg, waitVars, credit, tableVars, wfd>>
  BY PollerAssumption DEF EpollSetCtl
<1>2. slot' \in Slots /\ Fits(f, slot')
  BY SlotFits, EpollAssumption DEF EpollSetCtl, Inv
<1>3. kern \in [Fds -> Interests \cup {None}]
  BY DEF Inv, TypeOK, EpollTypeOK
<1>4. TypeOK'
  <2>1. EpollTypeOK'
    BY <1>1, <1>2, <1>3 DEF Inv, TypeOK, EpollTypeOK, tableVars
  <2>2. ClientTypeOK'
    BY <1>1 DEF Inv, TypeOK, ClientTypeOK, waitVars
  <2> QED
    BY <1>1, <2>1, <2>2, KqueueIsStub DEF Inv, TypeOK
<1>5. TableInv' /\ CallInv'
  BY <1>1 DEF Inv, TableInv, CallInv, Probe, tableVars, Args
<1>6. EpollInv'
  <2>1. Fits(arg.fd, slot)'
    BY <1>1, <1>2 DEF Fits, Probe, tableVars
  <2>2. kern'[arg'.fd] = arg'.want
    BY <1>1, <1>3
  <2>3. \A g \in Fds : g # f => Agree(g)'
    BY <1>1, <1>3 DEF Inv, EpollInv, Agree, Changing, tableVars
  <2> QED
    BY <1>1, <1>2, <2>1, <2>2, <2>3 DEF EpollInv, Changing
<1>7. WaitInv' /\ BatchInv' /\ ZeroEventsMeanWakeOrTimeout' /\ DeliveredIsRegistered'
  BY <1>1, NoWaitUnderWay DEF Inv, WaitInv, kqueueVars
<1> QED
  BY <1>4, <1>5, <1>6, <1>7, KqueueIsStub DEF Inv

\* The rest of it: the descriptor goes where it fits, and nothing else moves.
LEMMA EpollSetTableInv ==
  ASSUME Inv, backend = "epoll", UNCHANGED <<kqueueVars, backend>>, EpollSetTable
  PROVE  Inv'
<1>1. PICK f \in Fds : f = arg.fd /\ arg \in Args /\ pc = "set" /\ pc' = "idle"
  BY DEF EpollSetTable, Inv, CallInv, Args
<1>2. PICK s \in Slots : s = slot /\ Fits(f, s) /\ kern[f] = arg.want
  BY <1>1 DEF Inv, EpollInv
<1>3. /\ table_fd' = [table_fd EXCEPT ![s] = f]
      /\ table_tok' = [table_tok EXCEPT ![s] = arg.tok]
      /\ reg' = [reg EXCEPT ![f] = [want |-> arg.want, tok |-> arg.tok]]
      /\ slot' = None
      /\ UNCHANGED <<ready, waitVars, credit, kern, wfd>>
  BY <1>1, <1>2 DEF EpollSetTable
<1>4. /\ table_fd \in [Slots -> Fds \cup {Empty, Tomb}]
      /\ table_tok \in [Slots -> Tokens \cup {None, Smashed}]
      /\ reg \in [Fds -> Entry \cup {None, Half}]
  BY DEF Inv, TypeOK, EpollTypeOK
<1>5. [want |-> arg.want, tok |-> arg.tok] \in Entry /\ arg.tok \in Tokens
  BY <1>1 DEF Args, Entry
<1>6. TypeOK'
  <2>1. EpollTypeOK'
    BY <1>1, <1>2, <1>3, <1>4, <1>5 DEF Inv, TypeOK, EpollTypeOK
  <2>2. ClientTypeOK'
    BY <1>1, <1>3 DEF Inv, TypeOK, ClientTypeOK, waitVars
  <2>3. reg' \in [Fds -> Entry \cup {None, Half}]
    BY <1>1, <1>3, <1>4, <1>5
  <2> QED
    BY <2>1, <2>2, <2>3, KqueueIsStub DEF TypeOK
<1>7. /\ \A t \in Slots \ {s} : table_fd'[t] = table_fd[t] /\ table_tok'[t] = table_tok[t]
      /\ table_fd'[s] = f /\ table_tok'[s] = arg.tok
      /\ \A g \in Fds \ {f} : reg'[g] = reg[g]
      /\ reg'[f] = [want |-> arg.want, tok |-> arg.tok]
  BY <1>1, <1>2, <1>3, <1>4
<1>8. table_fd[s] \in {f, Empty, Tomb} /\ f # Empty
      /\ \A t \in Slots : table_fd[t] = f => t = s
  BY <1>1, <1>2, EpollAssumption DEF Fits, Inv, TableInv
<1>9. TableInv'
  <2>1. \A g \in Fds : \A t, u \in Slots : table_fd'[t] = g /\ table_fd'[u] = g => t = u
    BY <1>7, <1>8 DEF Inv, TableInv
  <2>2. ASSUME NEW g \in Fds, NEW k \in Slots, table_fd'[Probe(g, k)] = g,
               NEW j \in 0..(k - 1)
        PROVE  table_fd'[Probe(g, j)] # Empty
    <3>0. j \in Slots
      BY EpollAssumption DEF Slots
    <3>1. Probe(g, j) \in Slots /\ Probe(g, k) \in Slots
      BY <3>0, ProbeVisitsAll
    <3>2. SUFFICES table_fd[Probe(g, j)] # Empty
      BY <1>7, <1>8, <3>1
    <3>3. CASE table_fd[Probe(g, k)] = g
      BY <3>3 DEF Inv, TableInv
    <3>4. CASE table_fd[Probe(g, k)] # g
      <4>1. g = f /\ Probe(f, k) = s /\ table_fd[s] # f
        BY <1>7, <2>2, <3>1, <3>4
      <4>2. PICK i \in Slots : /\ s = Probe(f, i)
                               /\ \A h \in 0..(i - 1) : table_fd[Probe(f, h)] # Empty
        BY <1>2, <4>1 DEF Fits
      <4>3. i = k
        BY <1>1, <4>1, <4>2, ProbeVisitsAll
      <4> QED
        BY <4>1, <4>2, <4>3
    <3> QED
      BY <3>3, <3>4
  <2>3. \A t \in Slots : table_fd'[t] \in Fds => table_tok'[t] \in Tokens
    BY <1>5, <1>7 DEF Inv, TableInv
  <2> QED
    BY <2>1, <2>2, <2>3 DEF TableInv, Probe
<1>10. EpollInv'
  <2>1. Agree(f)'
    <3>1. kern'[f] # None /\ reg'[f] = [want |-> kern'[f], tok |-> table_tok'[s]]
      BY <1>1, <1>2, <1>3, <1>7, PollerAssumption DEF Args
    <3> QED
      BY <1>2, <1>7, <3>1 DEF Agree
  <2>2. ASSUME NEW g \in Fds, g # f
        PROVE  Agree(g)'
    <3>1. Agree(g) /\ reg'[g] = reg[g] /\ kern'[g] = kern[g]
      BY <1>1, <1>3, <1>7, <2>2 DEF Inv, EpollInv, Changing
    <3>2. \A t \in Slots : table_fd[t] = g => table_fd'[t] = g /\ table_tok'[t] = table_tok[t]
      BY <1>7, <1>8, <2>2, EpollAssumption
    <3> QED
      BY <3>1, <3>2 DEF Agree
  <2> QED
    BY <1>1, <2>1, <2>2 DEF EpollInv
<1>11. WaitInv' /\ BatchInv' /\ ZeroEventsMeanWakeOrTimeout' /\ DeliveredIsRegistered'
  BY <1>1, <1>3, NoWaitUnderWay DEF Inv, WaitInv, kqueueVars
<1>12. CallInv'
  BY <1>1 DEF CallInv
<1> QED
  BY <1>6, <1>9, <1>10, <1>11, <1>12, KqueueIsStub DEF Inv

\* mjs_epoll_unregister leaves a tombstone, so that no probe is cut.
LEMMA EpollUnregisterInv ==
  ASSUME Inv, backend = "epoll", UNCHANGED <<kqueueVars, backend>>, TokensAreOpaque,
         NEW f \in Fds, EpollUnregister(f)
  PROVE  Inv'
<1>1. /\ pc = "idle" /\ pc' = "idle"
      /\ kern' = [kern EXCEPT ![f] = None] /\ reg' = [reg EXCEPT ![f] = None]
      /\ UNCHANGED <<ready, arg, waitVars, credit, slot, wfd>>
  BY DEF EpollUnregister
<1>2. /\ kern \in [Fds -> Interests \cup {None}]
      /\ table_fd \in [Slots -> Fds \cup {Empty, Tomb}]
      /\ table_tok \in [Slots -> Tokens \cup {None, Smashed}]
      /\ reg \in [Fds -> Entry \cup {None, Half}]
  BY DEF Inv, TypeOK, EpollTypeOK
<1>3. table_tok' = table_tok
  BY PollerAssumption DEF EpollUnregister, PastTheEnd, TokensAreOpaque
<1>4. mjs_epoll_slot(f) \in Slots \/ ~(mjs_epoll_slot(f) < Cap)
  BY SlotFits, EpollAssumption DEF Inv
<1>5. /\ table_fd' \in [Slots -> Fds \cup {Empty, Tomb}]
      /\ \A t \in Slots : \/ table_fd'[t] = table_fd[t]
                          \/ table_fd[t] = f /\ table_fd'[t] = Tomb
  BY <1>2, <1>4 DEF EpollUnregister
<1>6. TypeOK'
  <2>1. EpollTypeOK'
    BY <1>1, <1>2, <1>3, <1>5 DEF Inv, TypeOK, EpollTypeOK
  <2>2. ClientTypeOK'
    BY <1>1 DEF Inv, TypeOK, ClientTypeOK, waitVars
  <2> QED
    BY <1>1, <1>2, <2>1, <2>2, KqueueIsStub DEF TypeOK
<1>7. TableInv'
  <2>1. \A g \in Fds : \A t \in Slots : table_fd'[t] = g => table_fd[t] = g
    BY <1>5, EpollAssumption
  <2>2. \A t \in Slots : table_fd'[t] = Empty => table_fd[t] = Empty
    BY <1>5, EpollAssumption
  <2>3. \A g \in Fds : \A t, u \in Slots : table_fd'[t] = g /\ table_fd'[u] = g => t = u
    BY <2>1 DEF Inv, TableInv
  <2>4. ASSUME NEW g \in Fds, NEW k \in Slots, table_fd'[Probe(g, k)] = g,
               NEW j \in 0..(k - 1)
        PROVE  table_fd'[Probe(g, j)] # Empty
    <3>1. j \in Slots
      BY EpollAssumption DEF Slots
    <3>2. Probe(g, j) \in Slots /\ Probe(g, k) \in Slots
      BY <3>1, ProbeVisitsAll
    <3> QED
      BY <2>1, <2>2, <2>4, <3>2 DEF Inv, TableInv
  <2>5. \A t \in Slots : table_fd'[t] \in Fds => table_tok'[t] \in Tokens
    BY <1>3, <2>1 DEF Inv, TableInv
  <2> QED
    BY <2>3, <2>4, <2>5 DEF TableInv, Probe
<1>8. EpollInv'
  <2>1. Agree(f)'
    BY <1>1, <1>2 DEF Agree
  <2>2. ASSUME NEW g \in Fds, g # f
        PROVE  Agree(g)'
    <3>1. Agree(g) /\ reg'[g] = reg[g] /\ kern'[g] = kern[g]
      BY <1>1, <1>2, <2>2 DEF Inv, EpollInv, Changing
    <3>2. \A t \in Slots : table_fd[t] = g => table_fd'[t] = g
      BY <1>5, <2>2
    <3> QED
      BY <1>3, <3>1, <3>2 DEF Agree
  <2> QED
    BY <1>1, <2>1, <2>2 DEF EpollInv
<1>9. WaitInv' /\ BatchInv' /\ ZeroEventsMeanWakeOrTimeout' /\ DeliveredIsRegistered'
  BY <1>1, NoWaitUnderWay DEF Inv, WaitInv, kqueueVars
<1>10. CallInv'
  BY <1>1 DEF CallInv
<1> QED
  BY <1>6, <1>7, <1>8, <1>9, <1>10, KqueueIsStub DEF Inv

\* A descriptor is closed: the kernel forgets it, the table does not.
LEMMA EpollReopenInv ==
  ASSUME Inv, backend = "epoll", UNCHANGED <<kqueueVars, backend>>,
         NEW f \in Fds, EpollReopen(f)
  PROVE  Inv'
<1>1. /\ arg.fd # f
      /\ ready' = [ready EXCEPT ![f] = {}]
      /\ kern' = [kern EXCEPT ![f] = None] /\ reg' = [reg EXCEPT ![f] = None]
      /\ UNCHANGED <<pc, arg, waitVars, credit, table_fd, table_tok, slot, wfd>>
  BY DEF EpollReopen, Reopen
<1>2. /\ kern \in [Fds -> Interests \cup {None}]
      /\ reg \in [Fds -> Entry \cup {None, Half}] /\ ready \in [Fds -> Conds]
  BY DEF Inv, TypeOK, EpollTypeOK, ClientTypeOK
<1>3. /\ kern'[f] = None /\ \A g \in Fds \ {f} : kern'[g] = kern[g]
      /\ reg'[f] = None /\ \A g \in Fds \ {f} : reg'[g] = reg[g]
  BY <1>1, <1>2
<1>4. TypeOK'
  <2>1. EpollTypeOK'
    BY <1>1, <1>2 DEF Inv, TypeOK, EpollTypeOK
  <2>2. ClientTypeOK'
    BY <1>1, <1>2, PollerAssumption DEF Inv, TypeOK, ClientTypeOK, waitVars
  <2> QED
    BY <1>1, <1>2, <2>1, <2>2, KqueueIsStub DEF TypeOK
<1>5. TableInv' /\ CallInv'
  BY <1>1 DEF Inv, TableInv, CallInv, Probe
<1>6. EpollInv'
  <2>1. pc = "set" => kern'[arg.fd] = arg.want /\ Fits(arg.fd, slot)'
    <3>1. pc = "set" => arg.fd \in Fds
      BY DEF Inv, CallInv, Args
    <3> QED
      BY <1>1, <1>3, <3>1 DEF Inv, EpollInv, Fits, Probe
  <2>2. \A g \in Fds : Changing(g)' \/ Agree(g)'
    BY <1>1, <1>3 DEF Inv, EpollInv, Agree, Changing
  <2> QED
    BY <1>1, <2>1, <2>2 DEF Inv, EpollInv
<1>7. WaitInv' /\ BatchInv' /\ ZeroEventsMeanWakeOrTimeout' /\ DeliveredIsRegistered'
  <2>1. (wfd' > 0 => credit') /\ (user' => credit')
    BY <1>1 DEF Inv, WaitInv, kqueueVars
  <2> QED
    BY <1>1, <1>3, <2>1, WaitUnmoved
<1> QED
  BY <1>4, <1>5, <1>6, <1>7, KqueueIsStub DEF Inv

\* A descriptor's condition changes.
LEMMA EpollReadyInv ==
  ASSUME Inv, backend = "epoll", UNCHANGED <<kqueueVars, backend>>,
         NEW f \in Fds, NEW c \in Conds, EpollReady(f, c)
  PROVE  Inv'
<1>1. /\ ready' = [ready EXCEPT ![f] = c]
      /\ UNCHANGED <<reg, pc, arg, waitVars, credit, epollVars>>
  BY DEF EpollReady, BecomeReady
<1>2. TypeOK'
  BY <1>1, KqueueIsStub DEF Inv, TypeOK, ClientTypeOK, EpollTypeOK, waitVars, epollVars
<1>3. TableInv' /\ EpollInv' /\ CallInv'
  BY <1>1, TableUnmoved DEF epollVars
<1>4. WaitInv' /\ BatchInv' /\ ZeroEventsMeanWakeOrTimeout' /\ DeliveredIsRegistered'
  <2>1. (wfd' > 0 => credit') /\ (user' => credit')
    BY <1>1 DEF Inv, WaitInv, kqueueVars, epollVars
  <2> QED
    BY <1>1, <2>1, WaitUnmoved DEF epollVars
<1> QED
  BY <1>2, <1>3, <1>4, KqueueIsStub DEF Inv

\* Another thread wakes the poller.
LEMMA EpollWakeInv ==
  ASSUME Inv, backend = "epoll", UNCHANGED <<kqueueVars, backend>>, EpollWake
  PROVE  Inv'
<1>1. /\ wfd < MaxWakes /\ wfd' = wfd + 1 /\ credit' = TRUE
      /\ UNCHANGED <<ready, reg, pc, arg, waitVars, kern, table_fd, table_tok, slot>>
  BY DEF EpollWake
<1>2. TypeOK'
  <2>1. wfd' \in 0..MaxWakes
    BY <1>1, EpollAssumption DEF Inv, TypeOK, EpollTypeOK
  <2> QED
    BY <1>1, <2>1, KqueueIsStub DEF Inv, TypeOK, ClientTypeOK, EpollTypeOK, waitVars
<1>3. TableInv' /\ EpollInv' /\ CallInv'
  BY <1>1, TableUnmoved
<1>4. WaitInv' /\ BatchInv' /\ ZeroEventsMeanWakeOrTimeout' /\ DeliveredIsRegistered'
  BY <1>1, WaitUnmoved
<1> QED
  BY <1>2, <1>3, <1>4, KqueueIsStub DEF Inv

LEMMA EpollCloseInv ==
  ASSUME Inv, backend = "epoll", UNCHANGED <<kqueueVars, backend>>, EpollClose
  PROVE  Inv'
<1>1. /\ pc = "idle" /\ pc' = "closed" /\ credit' = FALSE
      /\ reg' = [f \in Fds |-> None] /\ kern' = [f \in Fds |-> None]
      /\ table_fd' = [s \in Slots |-> Empty] /\ table_tok' = [s \in Slots |-> None]
      /\ wfd' = 0 /\ UNCHANGED <<slot, ready, arg, waitVars>>
  BY DEF EpollClose, ClosePoller
<1>2. TypeOK'
  <2>1. EpollTypeOK'
    BY <1>1, EpollAssumption DEF Inv, TypeOK, EpollTypeOK
  <2> QED
    BY <1>1, <2>1, KqueueIsStub DEF Inv, TypeOK, ClientTypeOK, waitVars
<1>3. TableInv'
  <2>1. \A s \in Slots : table_fd'[s] \notin Fds
    BY <1>1, EpollAssumption
  <2>2. \A f \in Fds, k \in Slots : Probe(f, k) \in Slots
    BY ProbeVisitsAll
  <2> QED
    BY <2>1, <2>2 DEF TableInv, Probe
<1>4. EpollInv' /\ CallInv'
  BY <1>1 DEF EpollInv, CallInv, Agree
<1>5. WaitInv' /\ BatchInv' /\ ZeroEventsMeanWakeOrTimeout' /\ DeliveredIsRegistered'
  <2>1. ~(wfd' > 0) /\ ~user'
    BY <1>1 DEF Inv, StubInv, kqueueVars
  <2> QED
    BY <1>1, <2>1, NoWaitUnderWay
<1> QED
  BY <1>2, <1>3, <1>4, <1>5, KqueueIsStub DEF Inv

-----------------------------------------------------------------------------
\* The steps of a wait that report nothing, on both backends: it begins, is
\* interrupted, times out, returns.
LEMMA EnterWaitInv ==
  ASSUME Inv, NEW t \in Timeouts \cup {None}, EnterWait(t), UNCHANGED <<wfd, user, backend>>
  PROVE  /\ ClientTypeOK' /\ WaitInv' /\ BatchInv' /\ ZeroEventsMeanWakeOrTimeout'
         /\ DeliveredIsRegistered'
<1>1. batch' = {} /\ out' = {} /\ pc' = "blocked" /\ credit' = credit
  BY DEF EnterWait, Inv, WaitInv
<1>2. ClientTypeOK'
  BY DEF EnterWait, Inv, TypeOK, ClientTypeOK
<1> QED
  BY <1>1, <1>2
     DEF Inv, WaitInv, BatchInv, ZeroEventsMeanWakeOrTimeout, DeliveredIsRegistered

LEMMA WaitFailsInv ==
  ASSUME Inv, WaitFails, UNCHANGED <<wfd, user, backend>>
  PROVE  /\ ClientTypeOK' /\ WaitInv' /\ BatchInv' /\ ZeroEventsMeanWakeOrTimeout'
         /\ DeliveredIsRegistered'
<1>1. batch' = {} /\ out' = {} /\ pc' = "idle" /\ credit' = credit
  BY DEF WaitFails, Inv, WaitInv
<1>2. ClientTypeOK'
  BY DEF WaitFails, Inv, TypeOK, ClientTypeOK
<1> QED
  BY <1>1, <1>2
     DEF Inv, WaitInv, BatchInv, ZeroEventsMeanWakeOrTimeout, DeliveredIsRegistered

LEMMA TimesOutInv ==
  ASSUME Inv, NEW d \in Nat, KernelTimesOut(d), UNCHANGED <<credit, wfd, user, backend>>,
         d >= ns \/ (backend = "epoll" /\ (d >= Longest \/ Wraps(ns)))
  PROVE  /\ ClientTypeOK' /\ WaitInv' /\ BatchInv' /\ ZeroEventsMeanWakeOrTimeout'
         /\ DeliveredIsRegistered'
<1>1. batch' = {} /\ out' = {} /\ pc' = "woken" /\ TimeIsUp'
  BY DEF KernelTimesOut, Inv, WaitInv, TimeIsUp
<1>2. ClientTypeOK'
  BY DEF KernelTimesOut, Inv, TypeOK, ClientTypeOK
<1> QED
  BY <1>1, <1>2
     DEF Inv, WaitInv, BatchInv, ZeroEventsMeanWakeOrTimeout, DeliveredIsRegistered

LEMMA ReturnWaitInv ==
  ASSUME Inv, ReturnWait, UNCHANGED <<wfd, user, backend>>
  PROVE  /\ ClientTypeOK' /\ WaitInv' /\ BatchInv' /\ ZeroEventsMeanWakeOrTimeout'
         /\ DeliveredIsRegistered'
<1>1. batch' = {} /\ out' = {} /\ pc' = "idle" /\ credit' = credit
  BY DEF ReturnWait, Inv, WaitInv
<1>2. ClientTypeOK'
  BY DEF ReturnWait, Inv, TypeOK, ClientTypeOK
<1> QED
  BY <1>1, <1>2
     DEF Inv, WaitInv, BatchInv, ZeroEventsMeanWakeOrTimeout, DeliveredIsRegistered

\* A kernel call that ends with nothing and no wake has a reason to: an empty
\* batch is never a full one.
LEMMA FullBatchIsNotEmpty ==
  ASSUME NEW S, NEW w \in BOOLEAN, NEW pending, FullBatch(S, w, pending)
  PROVE  w \/ S # {}
<1> SUFFICES ASSUME ~w, S = {}
             PROVE  FALSE
  OBVIOUS
<1>1. pending > 0 /\ Cardinality(S) + 0 = IF pending < MaxEvents THEN pending ELSE MaxEvents
  BY DEF FullBatch
<1>2. Cardinality(S) + 0 = 0
  BY FS_EmptySet
<1>3. pending = 0 \/ MaxEvents = 0
  BY <1>1, <1>2
<1>4. pending = 0
  BY <1>3, PollerAssumption
<1> QED
  BY <1>1, <1>4

\* The steps of an epoll wait that leave registrations and table alone.
LEMMA EpollQuietInv ==
  ASSUME Inv, backend = "epoll", UNCHANGED <<kqueueVars, backend>>,
         EpollWaitEnter \/ EpollWaitFails \/ EpollWaitTimeout \/ EpollReturn
  PROVE  Inv'
<1>1. UNCHANGED <<epollVars, reg, arg>> /\ pc # "set" /\ pc' # "set"
  BY DEF EpollWaitEnter, EnterWait, EpollWaitFails, WaitFails, EpollWaitTimeout,
         KernelTimesOut, EpollReturn, ReturnWait
<1>2. TableInv' /\ EpollInv' /\ CallInv'
  BY <1>1, TableUnmoved DEF epollVars
<1>3. EpollTypeOK' /\ reg' \in [Fds -> Entry \cup {None, Half}]
  BY <1>1 DEF Inv, TypeOK, EpollTypeOK, epollVars
<1>4. UNCHANGED <<wfd, user>>
  BY <1>1 DEF epollVars, kqueueVars
<1>5. /\ ClientTypeOK' /\ WaitInv' /\ BatchInv' /\ ZeroEventsMeanWakeOrTimeout'
      /\ DeliveredIsRegistered'
  <2>1. CASE EpollWaitEnter
    BY <1>4, <2>1, EnterWaitInv DEF EpollWaitEnter
  <2>2. CASE EpollWaitFails
    BY <1>4, <2>2, WaitFailsInv DEF EpollWaitFails
  <2>3. CASE EpollWaitTimeout
    <3>1. ns \in Nat
      BY <2>3, PollerAssumption DEF EpollWaitTimeout, Inv, TypeOK, ClientTypeOK
    <3>2. /\ TimeoutMs(ns) * NsPerMs \in Nat
          /\ \/ TimeoutMs(ns) * NsPerMs >= ns
             \/ TimeoutMs(ns) * NsPerMs >= Longest \/ Wraps(ns)
      BY <3>1, RoundedUp
    <3> QED
      BY <1>4, <2>3, <3>2, TimesOutInv DEF EpollWaitTimeout
  <2>4. CASE EpollReturn
    BY <1>4, <2>4, ReturnWaitInv DEF EpollReturn
  <2> QED
    BY <2>1, <2>2, <2>3, <2>4
<1> QED
  BY <1>2, <1>3, <1>5, KqueueIsStub DEF Inv, TypeOK

\* epoll_wait returns a batch: each descriptor in it is in the table.
LEMMA EpollWaitReturnInv ==
  ASSUME Inv, backend = "epoll", UNCHANGED <<kqueueVars, backend>>,
         NEW S \in SUBSET EpollAvailable, NEW w \in BOOLEAN, EpollWaitReturn(S, w)
  PROVE  Inv'
<1>1. /\ pc = "blocked" /\ pc' = "woken"
      /\ batch' = EpollReported(S) /\ woke' = w /\ earned' = credit
      /\ ns' = None /\ UNCHANGED <<ready, reg, arg, slept, out, credit, epollVars>>
      /\ w => wfd > 0
      /\ w \/ S # {}
  BY FullBatchIsNotEmpty DEF EpollWaitReturn, KernelReturns
<1>2. TableInv' /\ EpollInv' /\ CallInv'
  BY <1>1, TableUnmoved DEF epollVars
<1>3. \A f \in S : /\ f \in Fds /\ kern[f] # None
                   /\ EpollFlags(f) \subseteq kern[f] \cup {"eof"}
                   /\ EpollFlags(f) \subseteq Flags
  <2> SUFFICES ASSUME NEW f \in S
               PROVE  /\ f \in Fds /\ kern[f] # None
                      /\ EpollFlags(f) \subseteq kern[f] \cup {"eof"}
                      /\ EpollFlags(f) \subseteq Flags
    OBVIOUS
  <2>1. f \in Fds /\ kern[f] # None
    BY DEF EpollAvailable, EpollFlags
  <2>2. ready[f] \subseteq Flags
    BY <2>1, PollerAssumption DEF Inv, TypeOK, ClientTypeOK
  <2> QED
    BY <2>1, <2>2 DEF EpollFlags
<1>4. \A e \in batch' : \E f \in S : e = [fd |-> f, tok |-> None, flags |-> EpollFlags(f)]
  BY <1>1 DEF EpollReported
<1>5. TypeOK'
  <2>1. batch' \subseteq [fd : Fds, tok : Tokens \cup {None}, flags : SUBSET Flags]
    BY <1>3, <1>4
  <2>2. ClientTypeOK'
    BY <1>1, <2>1 DEF Inv, TypeOK, ClientTypeOK
  <2> QED
    BY <1>1, <2>2, KqueueIsStub DEF Inv, TypeOK, EpollTypeOK, epollVars
<1>6. BatchInv'
  <2> SUFFICES ASSUME NEW e \in batch'
               PROVE  /\ \E s \in Slots : table_fd'[s] = e.fd
                      /\ kern'[e.fd] # None => e.flags \subseteq kern'[e.fd] \cup {"eof"}
    BY DEF BatchInv
  <2>1. PICK f \in S : e.fd = f /\ e.flags = EpollFlags(f)
    BY <1>4
  <2>2. \E s \in Slots : table_fd[s] = f
    BY <1>1, <1>3 DEF Inv, EpollInv, Changing, Agree
  <2> QED
    BY <1>1, <1>3, <2>1, <2>2 DEF epollVars
<1>7. WaitInv'
  <2>1. batch' # {} \/ (woke' /\ earned')
    <3>1. CASE w
      BY <1>1, <3>1 DEF Inv, WaitInv
    <3>2. CASE S # {}
      BY <1>1, <3>2 DEF EpollReported
    <3> QED
      BY <1>1, <3>1, <3>2
  <2>2. UNCHANGED <<wfd, user, credit, out>>
    BY <1>1 DEF epollVars, kqueueVars
  <2> QED
    BY <1>1, <2>1, <2>2 DEF Inv, WaitInv
<1>8. ZeroEventsMeanWakeOrTimeout' /\ DeliveredIsRegistered'
  BY <1>1 DEF Inv, WaitInv, ZeroEventsMeanWakeOrTimeout, DeliveredIsRegistered
<1> QED
  BY <1>2, <1>5, <1>6, <1>7, <1>8, KqueueIsStub DEF Inv

\* The loop over the batch finds each descriptor, and next to it the token of
\* its last registration if it is still registered.
LEMMA EpollDeliverInv ==
  ASSUME Inv, backend = "epoll", UNCHANGED <<kqueueVars, backend>>, EpollDeliver
  PROVE  Inv'
<1>1. /\ pc = "woken" /\ pc' = "ret"
      /\ out' = UNION {Looked(e) : e \in batch} /\ batch' = {}
      /\ wfd' = (IF woke THEN 0 ELSE wfd) /\ credit' = (IF woke THEN FALSE ELSE credit)
      /\ UNCHANGED <<ready, reg, arg, woke, earned, ns, slept, kern, table_fd, table_tok, slot>>
  BY DEF EpollDeliver, HandOut
<1>2. TableInv' /\ EpollInv' /\ CallInv'
  BY <1>1, TableUnmoved
<1>3. ASSUME NEW e \in batch
      PROVE  \E s \in Slots :
               /\ table_fd[s] = e.fd /\ e.fd \in Fds /\ e.flags \in SUBSET Flags
               /\ Looked(e) = {[fd |-> e.fd, tok |-> table_tok[s], flags |-> e.flags]}
  <2>1. PICK s \in Slots : table_fd[s] = e.fd
    BY DEF Inv, BatchInv
  <2>2. e.fd \in Fds /\ e.flags \in SUBSET Flags
    BY DEF Inv, TypeOK, ClientTypeOK
  <2>3. mjs_epoll_slot(e.fd) = s
    BY <2>1, <2>2, FoundAt DEF Inv
  <2>4. s < Cap
    BY EpollAssumption DEF Slots
  <2> QED
    BY <2>1, <2>2, <2>3, <2>4 DEF Looked
<1>4. ASSUME NEW x \in out'
      PROVE  \E e \in batch, s \in Slots :
               /\ table_fd[s] = e.fd /\ e.fd \in Fds /\ e.flags \in SUBSET Flags
               /\ x = [fd |-> e.fd, tok |-> table_tok[s], flags |-> e.flags]
  <2>1. PICK e \in batch : x \in Looked(e)
    BY <1>1
  <2> QED
    BY <1>3, <2>1
<1>5. TypeOK'
  <2>1. out' \subseteq Events
    <3> SUFFICES ASSUME NEW x \in out'
                 PROVE  x \in Events
      OBVIOUS
    <3>1. PICK e \in batch, s \in Slots :
            /\ table_fd[s] = e.fd /\ e.fd \in Fds /\ e.flags \in SUBSET Flags
            /\ x = [fd |-> e.fd, tok |-> table_tok[s], flags |-> e.flags]
      BY <1>4
    <3>2. table_tok[s] \in Tokens
      BY <3>1 DEF Inv, TableInv
    <3> QED
      BY <3>1, <3>2 DEF Events
  <2>2. wfd' \in 0..MaxWakes /\ credit' \in BOOLEAN
    <3>1. wfd \in 0..MaxWakes /\ 0 \in 0..MaxWakes
      BY EpollAssumption DEF Inv, TypeOK, EpollTypeOK
    <3>2. credit \in BOOLEAN
      BY DEF Inv, TypeOK, ClientTypeOK
    <3>3. wfd' \in 0..MaxWakes
      BY <1>1, <3>1
    <3>4. credit' \in BOOLEAN
      BY <1>1, <3>2
    <3> QED
      BY <3>3, <3>4
  <2>3. ClientTypeOK'
    BY <1>1, <2>1, <2>2 DEF Inv, TypeOK, ClientTypeOK
  <2> QED
    BY <1>1, <2>2, <2>3, KqueueIsStub DEF Inv, TypeOK, EpollTypeOK
<1>6. WaitInv'
  <2>1. wfd' > 0 => credit'
    BY <1>1 DEF Inv, WaitInv
  <2>2. ~user'
    BY DEF Inv, StubInv, kqueueVars
  <2> QED
    BY <1>1, <2>1, <2>2 DEF WaitInv
<1>7. ZeroEventsMeanWakeOrTimeout'
  <2>1. batch # {} => out' # {}
    <3> SUFFICES ASSUME NEW e \in batch PROVE out' # {}
      OBVIOUS
    <3>1. Looked(e) # {}
      BY <1>3
    <3> QED
      BY <1>1, <3>1
  <2> QED
    BY <1>1, <2>1 DEF Inv, WaitInv, ZeroEventsMeanWakeOrTimeout, TimeIsUp
<1>8. DeliveredIsRegistered'
  <2> SUFFICES ASSUME NEW x \in out', reg[x.fd] \in Entry
               PROVE  /\ x.tok = reg[x.fd].tok
                      /\ x.flags \subseteq reg[x.fd].want \cup {"eof"}
    BY <1>1 DEF DeliveredIsRegistered
  <2>1. PICK e \in batch, s \in Slots :
          /\ table_fd[s] = e.fd /\ e.fd \in Fds
          /\ x = [fd |-> e.fd, tok |-> table_tok[s], flags |-> e.flags]
    BY <1>4
  <2>2. Agree(e.fd) /\ reg[e.fd] # None
    BY <1>1, <2>1, PollerAssumption DEF Inv, EpollInv, Changing
  <2>3. kern[e.fd] # None /\ reg[e.fd] = [want |-> kern[e.fd], tok |-> table_tok[s]]
    BY <2>1, <2>2 DEF Agree, Inv, TableInv
  <2>4. e.flags \subseteq kern[e.fd] \cup {"eof"}
    BY <2>3 DEF Inv, BatchInv
  <2> QED
    BY <2>1, <2>3, <2>4
<1>9. BatchInv'
  BY <1>1 DEF BatchInv
<1> QED
  BY <1>2, <1>5, <1>6, <1>7, <1>8, <1>9, KqueueIsStub DEF Inv

\* A step of the epoll backend.
LEMMA EpollNextInv ==
  ASSUME Inv, TokensAreOpaque, OnEpoll(EpollNext)
  PROVE  Inv'
<1>1. backend = "epoll" /\ UNCHANGED <<kqueueVars, backend>> /\ EpollNext
  BY DEF OnEpoll
<1>2. CASE \E f \in Fds, want \in Wants, tok \in Tokens :
             EpollSetCtl(f, want, tok, TRUE) \/ EpollSetCtl(f, want, tok, FALSE)
  BY <1>1, <1>2, EpollSetCtlInv
<1>3. CASE EpollSetTable
  BY <1>1, <1>3, EpollSetTableInv
<1>4. CASE \E f \in Fds : EpollUnregister(f) \/ EpollReopen(f)
  BY <1>1, <1>4, EpollUnregisterInv, EpollReopenInv
<1>5. CASE \E f \in Fds, c \in Conds : EpollReady(f, c)
  BY <1>1, <1>5, EpollReadyInv
<1>6. CASE EpollWaitEnter \/ EpollWaitTimeout \/ EpollWaitFails \/ EpollReturn
  BY <1>1, <1>6, EpollQuietInv
<1>7. CASE \E S \in SUBSET EpollAvailable, w \in BOOLEAN : EpollWaitReturn(S, w)
  BY <1>1, <1>7, EpollWaitReturnInv
<1>8. CASE EpollDeliver
  BY <1>1, <1>8, EpollDeliverInv
<1>9. CASE EpollWake \/ EpollClose
  BY <1>1, <1>9, EpollWakeInv, EpollCloseInv
<1> QED
  BY <1>1, <1>2, <1>3, <1>4, <1>5, <1>6, <1>7, <1>8, <1>9 DEF EpollNext

-----------------------------------------------------------------------------
\* Knotes may be activated and cleared, as long as they keep their tokens.
LEMMA NotesUnmoved ==
  ASSUME Inv, UNCHANGED <<reg, arg, backend>>, pc' = "set" <=> pc = "set",
         \A f \in Fds, k \in Kinds :
           /\ kn'[f][k] = None <=> kn[f][k] = None
           /\ kn[f][k] # None => kn'[f][k].tok = kn[f][k].tok
  PROVE  KqueueInv' /\ CallInv'
<1>1. CallInv'
  BY DEF Inv, CallInv
<1>2. \A f \in Fds : Noted(f) => Noted(f)'
  <2> SUFFICES ASSUME NEW f \in Fds, Noted(f) PROVE Noted(f)'
    OBVIOUS
  <2>1. \A k \in Kinds : kn'[f][k] # None =>
          reg[f] \in Entry /\ k \in reg[f].want /\ kn'[f][k].tok = reg[f].tok
    BY DEF Noted
  <2>2. reg[f] \in Entry => reg[f].want \subseteq Kinds
    BY DEF Entry, Interests, Kinds
  <2>3. reg[f] \in Entry => \A k \in reg[f].want : kn'[f][k] # None
    BY <2>2 DEF Noted
  <2> QED
    BY <2>1, <2>3 DEF Noted
<1>3. backend = "kqueue" /\ pc = "set" => HalfNoted'
  BY DEF Inv, KqueueInv, HalfNoted, CallInv, Args, Kinds
<1> QED
  BY <1>1, <1>2, <1>3 DEF Inv, KqueueInv, Changing

\* What mjs_apply_filter does to a descriptor's other knotes, and to the rest.
LEMMA FilterApplied ==
  ASSUME Inv, NEW f \in Fds, NEW k \in Kinds, NEW want \in Interests, NEW tok \in Tokens,
         mjs_apply_filter(f, k, want, tok)
  PROVE  /\ kn' \in [Fds -> [Kinds -> Knote \cup {None}]]
         /\ \A g \in Fds \ {f} : kn'[g] = kn[g]
         /\ \A h \in Kinds \ {k} : kn'[f][h] = kn[f][h]
         /\ kn'[f][k] # None <=> k \in want
         /\ kn'[f][k] # None => kn'[f][k].tok = tok
<1> DEFINE new == IF k \in want THEN [tok |-> tok, active |-> Fires(k, ready[f])] ELSE None
<1>1. kn' = [kn EXCEPT ![f][k] = new] /\ kn \in [Fds -> [Kinds -> Knote \cup {None}]]
  BY DEF mjs_apply_filter, Inv, TypeOK, KqueueTypeOK
<1>2. Fires(k, ready[f]) \in BOOLEAN
  BY DEF Fires
<1>3. /\ new \in Knote \cup {None} /\ (new # None <=> k \in want)
      /\ new # None => new.tok = tok
  BY <1>2, KqueueAssumption DEF Knote
<1> HIDE DEF new
<1>4. /\ kn' \in [Fds -> [Kinds -> Knote \cup {None}]]
      /\ \A g \in Fds \ {f} : kn'[g] = kn[g]
      /\ \A h \in Kinds \ {k} : kn'[f][h] = kn[f][h]
      /\ kn'[f][k] = new
  BY <1>1, <1>3
<1> QED
  BY <1>3, <1>4

LEMMA KqueueSetReadInv ==
  ASSUME Inv, backend = "kqueue", UNCHANGED <<epollVars, backend>>,
         NEW f \in Fds, NEW want \in Wants, NEW tok \in Tokens, KqueueSetRead(f, want, tok)
  PROVE  Inv'
<1>1. /\ arg' = [fd |-> f, want |-> want, tok |-> tok] /\ want \in Interests
      /\ pc = "idle" /\ pc' = "set"
      /\ mjs_apply_filter(f, "r", want, tok)
      /\ UNCHANGED <<ready, reg, waitVars, credit, user>>
  BY PollerAssumption DEF KqueueSetRead
<1>2. /\ kn' \in [Fds -> [Kinds -> Knote \cup {None}]]
      /\ \A g \in Fds \ {f} : kn'[g] = kn[g]
      /\ kn'[f]["r"] # None <=> "r" \in want
      /\ kn'[f]["r"] # None => kn'[f]["r"].tok = tok
  BY <1>1, FilterApplied DEF Kinds
<1>3. TypeOK'
  <2>1. ClientTypeOK' /\ KqueueTypeOK'
    BY <1>1, <1>2 DEF Inv, TypeOK, ClientTypeOK, KqueueTypeOK, waitVars
  <2> QED
    BY <1>1, <2>1, EpollIsStub DEF Inv, TypeOK
<1>4. CallInv'
  BY <1>1 DEF CallInv, Args
<1>5. KqueueInv'
  <2>1. HalfNoted'
    BY <1>1, <1>2 DEF HalfNoted
  <2>2. \A g \in Fds \ {f} : reg'[g] = Half \/ Noted(g)'
    BY <1>1, <1>2 DEF Inv, KqueueInv, Noted, Changing
  <2> QED
    BY <1>1, <2>1, <2>2 DEF KqueueInv, Changing
<1>6. WaitInv' /\ BatchInv' /\ ZeroEventsMeanWakeOrTimeout' /\ DeliveredIsRegistered'
  <2>1. (wfd' > 0 => credit') /\ (user' => credit')
    BY <1>1 DEF Inv, WaitInv, epollVars
  <2> QED
    BY <1>1, <2>1, NoWaitUnderWay
<1> QED
  BY <1>3, <1>4, <1>5, <1>6, EpollIsStub DEF Inv

LEMMA KqueueSetWriteInv ==
  ASSUME Inv, backend = "kqueue", UNCHANGED <<epollVars, backend>>, KqueueSetWrite
  PROVE  Inv'
<1>1. PICK f \in Fds, want \in Interests, tok \in Tokens :
        arg.fd = f /\ arg.want = want /\ arg.tok = tok /\ pc = "set" /\ pc' = "idle"
  BY DEF KqueueSetWrite, Inv, CallInv, Args
<1>2. /\ mjs_apply_filter(f, "w", want, tok)
      /\ reg' = [reg EXCEPT ![f] = [want |-> want, tok |-> tok]]
      /\ UNCHANGED <<ready, waitVars, credit, user>>
  BY <1>1 DEF KqueueSetWrite
<1>3. /\ kn' \in [Fds -> [Kinds -> Knote \cup {None}]]
      /\ \A g \in Fds \ {f} : kn'[g] = kn[g]
      /\ kn'[f]["r"] = kn[f]["r"]
      /\ kn'[f]["w"] # None <=> "w" \in want
      /\ kn'[f]["w"] # None => kn'[f]["w"].tok = tok
  BY <1>2, FilterApplied DEF Kinds
<1>4. /\ kn[f]["r"] # None <=> "r" \in want
      /\ kn[f]["r"] # None => kn[f]["r"].tok = tok
  BY <1>1 DEF Inv, KqueueInv, HalfNoted
<1>5. /\ [want |-> want, tok |-> tok] \in Entry
      /\ reg' \in [Fds -> Entry \cup {None, Half}]
      /\ reg'[f] = [want |-> want, tok |-> tok]
      /\ \A g \in Fds \ {f} : reg'[g] = reg[g]
  BY <1>2 DEF Inv, TypeOK, Entry
<1>6. TypeOK'
  <2>1. ClientTypeOK' /\ KqueueTypeOK'
    BY <1>1, <1>2, <1>3 DEF Inv, TypeOK, ClientTypeOK, KqueueTypeOK, waitVars
  <2> QED
    BY <1>5, <2>1, EpollIsStub DEF TypeOK
<1>7. KqueueInv'
  <2>1. Noted(f)'
    BY <1>3, <1>4, <1>5 DEF Noted, Kinds, Interests
  <2>2. ASSUME NEW g \in Fds, g # f PROVE reg'[g] = Half \/ Noted(g)'
    BY <1>1, <1>3, <1>5, <2>2 DEF Inv, KqueueInv, Noted, Changing
  <2> QED
    BY <1>1, <2>1, <2>2 DEF KqueueInv
<1>8. WaitInv' /\ BatchInv' /\ ZeroEventsMeanWakeOrTimeout' /\ DeliveredIsRegistered'
  <2>1. (wfd' > 0 => credit') /\ (user' => credit')
    BY <1>2 DEF Inv, WaitInv, epollVars
  <2> QED
    BY <1>1, <1>2, <2>1, NoWaitUnderWay
<1>9. CallInv'
  BY <1>1 DEF CallInv
<1> QED
  BY <1>6, <1>7, <1>8, <1>9, EpollIsStub DEF Inv

LEMMA KqueueSetWriteFailsInv ==
  ASSUME Inv, backend = "kqueue", UNCHANGED <<epollVars, backend>>, KqueueSetWriteFails
  PROVE  Inv'
<1>1. PICK f \in Fds : arg.fd = f /\ pc = "set" /\ pc' = "idle"
  BY DEF KqueueSetWriteFails, Inv, CallInv, Args
<1>2. /\ reg' = [reg EXCEPT ![f] = Half]
      /\ UNCHANGED <<ready, waitVars, credit, kqueueVars>>
  BY <1>1 DEF KqueueSetWriteFails
<1>3. /\ reg' \in [Fds -> Entry \cup {None, Half}] /\ reg'[f] = Half
      /\ \A g \in Fds \ {f} : reg'[g] = reg[g]
  BY <1>2 DEF Inv, TypeOK
<1>4. TypeOK'
  <2>1. ClientTypeOK' /\ KqueueTypeOK'
    BY <1>1, <1>2 DEF Inv, TypeOK, ClientTypeOK, KqueueTypeOK, waitVars, kqueueVars
  <2> QED
    BY <1>3, <2>1, EpollIsStub DEF TypeOK
<1>5. KqueueInv'
  <2>1. ASSUME NEW g \in Fds, g # f PROVE reg'[g] = Half \/ Noted(g)'
    BY <1>1, <1>2, <1>3, <2>1 DEF Inv, KqueueInv, Noted, Changing, kqueueVars
  <2> QED
    BY <1>1, <1>3, <2>1 DEF KqueueInv
<1>6. WaitInv' /\ BatchInv' /\ ZeroEventsMeanWakeOrTimeout' /\ DeliveredIsRegistered'
  <2>1. (wfd' > 0 => credit') /\ (user' => credit')
    BY <1>2 DEF Inv, WaitInv, epollVars, kqueueVars
  <2> QED
    BY <1>1, <1>2, <2>1, NoWaitUnderWay
<1>7. CallInv'
  BY <1>1 DEF CallInv
<1> QED
  BY <1>4, <1>5, <1>6, <1>7, EpollIsStub DEF Inv

\* unregister, and a descriptor that is closed: both knotes go.
LEMMA KqueueDropInv ==
  ASSUME Inv, backend = "kqueue", UNCHANGED <<epollVars, backend>>, NEW f \in Fds,
         KqueueUnregister(f) \/ KqueueReopen(f)
  PROVE  Inv'
<1>1. /\ kn' = [kn EXCEPT ![f] = [k \in Kinds |-> None]]
      /\ reg' = [reg EXCEPT ![f] = None]
      /\ UNCHANGED <<pc, arg, waitVars, credit, user>>
      /\ ready' = ready \/ ready' = [ready EXCEPT ![f] = {}]
      /\ pc = "set" => arg.fd # f
  BY DEF KqueueUnregister, KqueueReopen, Reopen
<1>2. /\ kn' \in [Fds -> [Kinds -> Knote \cup {None}]]
      /\ kn'[f] = [k \in Kinds |-> None] /\ \A g \in Fds \ {f} : kn'[g] = kn[g]
  BY <1>1 DEF Inv, TypeOK, KqueueTypeOK
<1>3. /\ reg' \in [Fds -> Entry \cup {None, Half}] /\ reg'[f] = None
      /\ \A g \in Fds \ {f} : reg'[g] = reg[g]
  BY <1>1 DEF Inv, TypeOK
<1>4. TypeOK'
  <2>1. ready' \in [Fds -> Conds]
    BY <1>1, PollerAssumption DEF Inv, TypeOK, ClientTypeOK
  <2>2. ClientTypeOK' /\ KqueueTypeOK'
    BY <1>1, <1>2, <2>1 DEF Inv, TypeOK, ClientTypeOK, KqueueTypeOK, waitVars
  <2> QED
    BY <1>3, <2>2, EpollIsStub DEF TypeOK
<1>5. KqueueInv'
  <2>1. Noted(f)'
    BY <1>2, <1>3, PollerAssumption DEF Noted
  <2>2. ASSUME NEW g \in Fds, g # f
        PROVE  Changing(g)' \/ reg'[g] = Half \/ Noted(g)'
    BY <1>1, <1>2, <1>3, <2>2 DEF Inv, KqueueInv, Noted, Changing
  <2>3. pc' = "set" => HalfNoted'
    BY <1>1, <1>2 DEF Inv, KqueueInv, HalfNoted, CallInv, Args
  <2> QED
    BY <2>1, <2>2, <2>3 DEF KqueueInv
<1>6. WaitInv' /\ BatchInv' /\ ZeroEventsMeanWakeOrTimeout' /\ DeliveredIsRegistered'
  <2>1. (wfd' > 0 => credit') /\ (user' => credit')
    BY <1>1 DEF Inv, WaitInv, epollVars
  <2> QED
    BY <1>1, <1>3, <2>1, WaitUnmoved DEF epollVars
<1>7. CallInv'
  BY <1>1 DEF Inv, CallInv
<1> QED
  BY <1>4, <1>5, <1>6, <1>7, EpollIsStub DEF Inv

\* A transition of the descriptor.
LEMMA KqueueReadyInv ==
  ASSUME Inv, backend = "kqueue", UNCHANGED <<epollVars, backend>>,
         NEW f \in Fds, NEW c \in Conds, KqueueReady(f, c)
  PROVE  Inv'
<1> DEFINE act(k) == Fires(k, c) /\ (kn[f][k].active \/ ~Fires(k, ready[f]))
           new(k) == IF kn[f][k] = None THEN None ELSE [kn[f][k] EXCEPT !.active = act(k)]
<1>1. /\ ready' = [ready EXCEPT ![f] = c]
      /\ kn' = [kn EXCEPT ![f] = [k \in Kinds |-> new(k)]]
      /\ UNCHANGED <<reg, pc, arg, waitVars, credit, user>>
  BY DEF KqueueReady, BecomeReady
<1>2. kn \in [Fds -> [Kinds -> Knote \cup {None}]]
  BY DEF Inv, TypeOK, KqueueTypeOK
<1>3. ASSUME NEW k \in Kinds
      PROVE  /\ new(k) \in Knote \cup {None} /\ (new(k) = None <=> kn[f][k] = None)
             /\ kn[f][k] # None => new(k).tok = kn[f][k].tok
  <2>1. act(k) \in BOOLEAN
    BY DEF Fires
  <2> HIDE DEF act
  <2>2. kn[f][k] \in Knote \cup {None}
    BY <1>2
  <2>3. kn[f][k] # None => new(k) \in Knote /\ new(k).tok = kn[f][k].tok
    BY <2>1, <2>2 DEF Knote
  <2> QED
    BY <2>3, KqueueAssumption
<1> HIDE DEF new
<1>4. /\ kn' \in [Fds -> [Kinds -> Knote \cup {None}]]
      /\ \A g \in Fds \ {f} : kn'[g] = kn[g]
      /\ \A k \in Kinds : kn'[f][k] = new(k)
  BY <1>1, <1>2, <1>3
<1>5. \A g \in Fds, k \in Kinds :
        /\ kn'[g][k] = None <=> kn[g][k] = None
        /\ kn[g][k] # None => kn'[g][k].tok = kn[g][k].tok
  BY <1>3, <1>4
<1>6. KqueueInv' /\ CallInv'
  BY <1>1, <1>5, NotesUnmoved
<1>7. TypeOK'
  <2>1. ClientTypeOK' /\ KqueueTypeOK'
    BY <1>1, <1>4 DEF Inv, TypeOK, ClientTypeOK, KqueueTypeOK, waitVars
  <2> QED
    BY <1>1, <2>1, EpollIsStub DEF Inv, TypeOK
<1>8. WaitInv' /\ BatchInv' /\ ZeroEventsMeanWakeOrTimeout' /\ DeliveredIsRegistered'
  <2>1. (wfd' > 0 => credit') /\ (user' => credit')
    BY <1>1 DEF Inv, WaitInv, epollVars
  <2> QED
    BY <1>1, <2>1, WaitUnmoved DEF epollVars
<1> QED
  BY <1>6, <1>7, <1>8, EpollIsStub DEF Inv

LEMMA KqueueWakeInv ==
  ASSUME Inv, backend = "kqueue", UNCHANGED <<epollVars, backend>>, KqueueWake
  PROVE  Inv'
<1>1. /\ user' = TRUE /\ credit' = TRUE
      /\ UNCHANGED <<ready, reg, pc, arg, waitVars, kn>>
  BY DEF KqueueWake
<1>2. TypeOK'
  BY <1>1, EpollIsStub DEF Inv, TypeOK, ClientTypeOK, KqueueTypeOK, waitVars
<1>3. KqueueInv' /\ CallInv'
  BY <1>1, NotesUnmoved
<1>4. WaitInv' /\ BatchInv' /\ ZeroEventsMeanWakeOrTimeout' /\ DeliveredIsRegistered'
  BY <1>1, WaitUnmoved DEF epollVars
<1> QED
  BY <1>2, <1>3, <1>4, EpollIsStub DEF Inv

LEMMA KqueueCloseInv ==
  ASSUME Inv, backend = "kqueue", UNCHANGED <<epollVars, backend>>, KqueueClose
  PROVE  Inv'
<1>1. /\ pc = "idle" /\ pc' = "closed" /\ user' = FALSE /\ credit' = FALSE
      /\ reg' = [f \in Fds |-> None] /\ kn' = [f \in Fds |-> [k \in Kinds |-> None]]
      /\ UNCHANGED <<ready, arg, waitVars>>
  BY DEF KqueueClose, ClosePoller
<1>2. TypeOK'
  <2>1. KqueueTypeOK' /\ ClientTypeOK'
    BY <1>1 DEF Inv, TypeOK, ClientTypeOK, KqueueTypeOK, waitVars
  <2> QED
    BY <1>1, <2>1, EpollIsStub DEF TypeOK
<1>3. KqueueInv' /\ CallInv'
  BY <1>1, PollerAssumption DEF KqueueInv, CallInv, Noted
<1>4. WaitInv' /\ BatchInv' /\ ZeroEventsMeanWakeOrTimeout' /\ DeliveredIsRegistered'
  <2>1. ~(wfd' > 0) /\ ~user'
    BY <1>1 DEF Inv, StubInv, epollVars
  <2> QED
    BY <1>1, <2>1, NoWaitUnderWay
<1> QED
  BY <1>2, <1>3, <1>4, EpollIsStub DEF Inv

LEMMA KqueueQuietInv ==
  ASSUME Inv, backend = "kqueue", UNCHANGED <<epollVars, backend>>,
         KqueueWaitEnter \/ KqueueWaitFails \/ KqueueWaitTimeout \/ KqueueReturn
  PROVE  Inv'
<1>1. UNCHANGED <<kqueueVars, reg, arg>> /\ pc # "set" /\ pc' # "set"
  BY DEF KqueueWaitEnter, EnterWait, KqueueWaitFails, WaitFails, KqueueWaitTimeout,
         KernelTimesOut, KqueueReturn, ReturnWait
<1>2. KqueueInv' /\ CallInv'
  BY <1>1, NotesUnmoved DEF kqueueVars
<1>3. KqueueTypeOK' /\ reg' \in [Fds -> Entry \cup {None, Half}]
  BY <1>1 DEF Inv, TypeOK, KqueueTypeOK, kqueueVars
<1>4. UNCHANGED <<wfd, user>>
  BY <1>1 DEF epollVars, kqueueVars
<1>5. /\ ClientTypeOK' /\ WaitInv' /\ BatchInv' /\ ZeroEventsMeanWakeOrTimeout'
      /\ DeliveredIsRegistered'
  <2>1. CASE KqueueWaitEnter
    BY <1>4, <2>1, EnterWaitInv DEF KqueueWaitEnter
  <2>2. CASE KqueueWaitFails
    BY <1>4, <2>2, WaitFailsInv DEF KqueueWaitFails
  <2>3. CASE KqueueWaitTimeout
    <3>1. ns \in Nat /\ ns >= ns
      BY <2>3, PollerAssumption DEF KqueueWaitTimeout, Inv, TypeOK, ClientTypeOK
    <3> QED
      BY <1>4, <2>3, <3>1, TimesOutInv DEF KqueueWaitTimeout
  <2>4. CASE KqueueReturn
    BY <1>4, <2>4, ReturnWaitInv DEF KqueueReturn
  <2> QED
    BY <2>1, <2>2, <2>3, <2>4
<1> QED
  BY <1>2, <1>3, <1>5, EpollIsStub DEF Inv, TypeOK

\* kevent returns a batch: each knote carries the token of the registration.
LEMMA KqueueWaitReturnInv ==
  ASSUME Inv, backend = "kqueue", UNCHANGED <<epollVars, backend>>,
         NEW S \in SUBSET KqueueAvailable, NEW w \in BOOLEAN, KqueueWaitReturn(S, w)
  PROVE  Inv'
<1>1. /\ pc = "blocked" /\ pc' = "woken"
      /\ batch' = {EventOf(p) : p \in S} /\ woke' = w /\ earned' = credit
      /\ ns' = None /\ UNCHANGED <<ready, reg, arg, slept, out>>
      /\ w => user
      /\ w \/ S # {}
      /\ user' = (IF w THEN FALSE ELSE user) /\ credit' = (IF w THEN FALSE ELSE credit)
  BY FullBatchIsNotEmpty DEF KqueueWaitReturn, KernelReturns
<1>2. kn \in [Fds -> [Kinds -> Knote \cup {None}]]
  BY DEF Inv, TypeOK, KqueueTypeOK
<1>3. \A f \in Fds, k \in Kinds : <<f, k>> \in S => kn[f][k] # None /\ kn[f][k] \in Knote
  BY <1>2 DEF KqueueAvailable
<1>4. ASSUME NEW f \in Fds, NEW k \in Kinds
      PROVE  /\ kn'[f][k] \in Knote \cup {None}
             /\ kn'[f][k] = None <=> kn[f][k] = None
             /\ kn[f][k] # None => kn'[f][k].tok = kn[f][k].tok
  <2>1. kn'[f][k] = IF <<f, k>> \in S THEN [kn[f][k] EXCEPT !.active = FALSE] ELSE kn[f][k]
    BY DEF KqueueWaitReturn
  <2>2. CASE <<f, k>> \in S
    <3>1. kn[f][k] \in Knote /\ kn[f][k] # None
      BY <1>3, <2>2
    <3>2. kn'[f][k] \in Knote /\ kn'[f][k].tok = kn[f][k].tok
      BY <2>1, <2>2, <3>1 DEF Knote
    <3> QED
      BY <3>1, <3>2, KqueueAssumption
  <2>3. CASE <<f, k>> \notin S
    BY <1>2, <2>1, <2>3
  <2> QED
    BY <2>2, <2>3
<1>5. kn' \in [Fds -> [Kinds -> Knote \cup {None}]]
  <2>1. kn' = [f \in Fds |-> [k \in Kinds |-> kn'[f][k]]]
    BY DEF KqueueWaitReturn
  <2> QED
    BY <1>4, <2>1
<1>6. KqueueInv' /\ CallInv'
  BY <1>1, <1>4, NotesUnmoved
<1>7. ASSUME NEW e \in batch'
      PROVE  /\ e \in Events
             /\ reg[e.fd] \in Entry => /\ e.tok = reg[e.fd].tok
                                       /\ e.flags \subseteq reg[e.fd].want \cup {"eof"}
  <2>1. PICK f \in Fds, k \in Kinds : <<f, k>> \in S /\ e = EventOf(<<f, k>>)
    BY <1>1 DEF KqueueAvailable
  <2>2. e = [fd |-> f, tok |-> kn[f][k].tok, flags |-> {k} \cup (ready[f] \cap {"eof"})]
    BY <2>1 DEF EventOf
  <2>3. kn[f][k] # None /\ kn[f][k].tok \in Tokens
    BY <1>3, <2>1 DEF Knote
  <2>4. e \in Events
    BY <2>2, <2>3 DEF Events, Flags, Kinds
  <2>5. ASSUME reg[f] \in Entry
        PROVE  kn[f][k].tok = reg[f].tok /\ k \in reg[f].want
    <3>1. Noted(f)
      BY <1>1, <2>5, KqueueAssumption DEF Inv, KqueueInv, Changing
    <3> QED
      BY <2>3, <3>1 DEF Noted
  <2> QED
    BY <2>2, <2>4, <2>5
<1>8. TypeOK'
  <2>1. batch' \subseteq [fd : Fds, tok : Tokens \cup {None}, flags : SUBSET Flags]
    BY <1>7 DEF Events
  <2>2. user' \in BOOLEAN /\ credit' \in BOOLEAN
    BY <1>1 DEF Inv, TypeOK, ClientTypeOK, KqueueTypeOK
  <2>3. ClientTypeOK' /\ KqueueTypeOK'
    BY <1>1, <1>5, <2>1, <2>2 DEF Inv, TypeOK, ClientTypeOK, KqueueTypeOK
  <2> QED
    BY <1>1, <2>3, EpollIsStub DEF Inv, TypeOK
<1>9. BatchInv'
  BY <1>1, <1>7 DEF BatchInv
<1>10. WaitInv'
  <2>1. batch' # {} \/ (woke' /\ earned')
    <3>1. CASE w
      BY <1>1, <3>1 DEF Inv, WaitInv
    <3>2. CASE S # {}
      BY <1>1, <3>2
    <3> QED
      BY <1>1, <3>1, <3>2
  <2>2. (wfd' > 0 => credit') /\ (user' => credit')
    <3>1. ~(wfd' > 0)
      BY DEF Inv, StubInv, epollVars
    <3>2. user' => credit'
      BY <1>1 DEF Inv, WaitInv
    <3> QED
      BY <3>1, <3>2
  <2> QED
    BY <1>1, <2>1, <2>2 DEF Inv, WaitInv
<1>11. ZeroEventsMeanWakeOrTimeout' /\ DeliveredIsRegistered'
  BY <1>1 DEF Inv, WaitInv, ZeroEventsMeanWakeOrTimeout, DeliveredIsRegistered
<1> QED
  BY <1>6, <1>8, <1>9, <1>10, <1>11, EpollIsStub DEF Inv

LEMMA KqueueDeliverInv ==
  ASSUME Inv, backend = "kqueue", UNCHANGED <<epollVars, backend>>, KqueueDeliver
  PROVE  Inv'
<1>1. /\ pc = "woken" /\ pc' = "ret" /\ out' = batch /\ batch' = {}
      /\ UNCHANGED <<ready, reg, arg, woke, earned, ns, slept, credit, kqueueVars>>
  BY DEF KqueueDeliver, HandOut
<1>2. out' \subseteq Events
  BY <1>1 DEF Inv, BatchInv
<1>3. TypeOK'
  <2>1. ClientTypeOK' /\ KqueueTypeOK'
    BY <1>1, <1>2 DEF Inv, TypeOK, ClientTypeOK, KqueueTypeOK, kqueueVars
  <2> QED
    BY <1>1, <2>1, EpollIsStub DEF Inv, TypeOK
<1>4. KqueueInv' /\ CallInv'
  BY <1>1, NotesUnmoved DEF kqueueVars
<1>5. WaitInv' /\ BatchInv'
  BY <1>1 DEF Inv, WaitInv, BatchInv, epollVars, kqueueVars
<1>6. ZeroEventsMeanWakeOrTimeout'
  BY <1>1 DEF Inv, WaitInv, ZeroEventsMeanWakeOrTimeout, TimeIsUp
<1>7. DeliveredIsRegistered'
  BY <1>1 DEF Inv, BatchInv, DeliveredIsRegistered
<1> QED
  BY <1>3, <1>4, <1>5, <1>6, <1>7, EpollIsStub DEF Inv

\* A step of the kqueue backend.
LEMMA KqueueNextInv ==
  ASSUME Inv, OnKqueue(KqueueNext)
  PROVE  Inv'
<1>1. /\ backend = "kqueue" /\ UNCHANGED <<epollVars, backend>> /\ KqueueNext
      /\ KqFds \subseteq Fds
  BY KqueueAssumption DEF OnKqueue
<1>2. CASE \E f \in KqFds, want \in Wants, tok \in Tokens : KqueueSetRead(f, want, tok)
  BY <1>1, <1>2, KqueueSetReadInv
<1>3. CASE KqueueSetWrite \/ KqueueSetWriteFails
  BY <1>1, <1>3, KqueueSetWriteInv, KqueueSetWriteFailsInv
<1>4. CASE \E f \in KqFds : KqueueUnregister(f) \/ KqueueReopen(f)
  BY <1>1, <1>4, KqueueDropInv
<1>5. CASE \E f \in KqFds, c \in Conds : KqueueReady(f, c)
  BY <1>1, <1>5, KqueueReadyInv
<1>6. CASE KqueueWaitEnter \/ KqueueWaitTimeout \/ KqueueWaitFails \/ KqueueReturn
  BY <1>1, <1>6, KqueueQuietInv
<1>7. CASE \E S \in SUBSET KqueueAvailable, w \in BOOLEAN : KqueueWaitReturn(S, w)
  BY <1>1, <1>7, KqueueWaitReturnInv
<1>8. CASE KqueueDeliver
  BY <1>1, <1>8, KqueueDeliverInv
<1>9. CASE KqueueWake \/ KqueueClose
  BY <1>1, <1>9, KqueueWakeInv, KqueueCloseInv
<1> QED
  BY <1>1, <1>2, <1>3, <1>4, <1>5, <1>6, <1>7, <1>8, <1>9 DEF KqueueNext

-----------------------------------------------------------------------------
LEMMA StutterInv ==
  ASSUME Inv, UNCHANGED vars
  PROVE  Inv'
<1>1. TableInv' /\ EpollInv' /\ CallInv'
  BY TableUnmoved DEF vars, clientVars, epollVars
<1>2. KqueueInv'
  BY NotesUnmoved DEF vars, clientVars, kqueueVars
<1>3. WaitInv' /\ BatchInv' /\ ZeroEventsMeanWakeOrTimeout' /\ DeliveredIsRegistered'
  BY DEF Inv, vars, clientVars, epollVars, kqueueVars, WaitInv, BatchInv,
         ZeroEventsMeanWakeOrTimeout, TimeIsUp, DeliveredIsRegistered
<1>4. TypeOK' /\ StubInv'
  BY DEF Inv, vars, clientVars, epollVars, kqueueVars, TypeOK, ClientTypeOK,
         EpollTypeOK, KqueueTypeOK, StubInv
<1> QED
  BY <1>1, <1>2, <1>3, <1>4 DEF Inv

LEMMA Inductive ==
  ASSUME Inv, TokensAreOpaque, [Next]_vars
  PROVE  Inv'
BY EpollNextInv, KqueueNextInv, StutterInv DEF Next

LEMMA AlwaysInv ==
  ASSUME TokensAreOpaque
  PROVE  Spec => []Inv
<1>1. Init => Inv
  BY Initially
<1>2. Inv /\ [Next]_vars => Inv'
  BY Inductive
<1> QED
  BY <1>1, <1>2, PTL DEF Spec

\* A descriptor the kernel watches is in the table, and so it is found.
LEMMA EpollMappedFollows ==
  ASSUME Inv
  PROVE  EpollMapped
<1> SUFFICES ASSUME pc # "set", NEW f \in Fds, kern[f] # None
             PROVE  \E s \in Slots :
                      /\ mjs_epoll_slot(f) = s
                      /\ \A t \in Slots : table_fd[t] = f <=> t = s
                      /\ reg[f] = [want |-> kern[f], tok |-> table_tok[s]]
  BY DEF EpollMapped
<1>1. backend = "epoll"
  BY DEF Inv, StubInv
<1>2. PICK s \in Slots : table_fd[s] = f /\ reg[f] = [want |-> kern[f], tok |-> table_tok[s]]
  BY <1>1 DEF Inv, EpollInv, Changing, Agree
<1>3. mjs_epoll_slot(f) = s
  BY <1>2, FoundAt DEF Inv
<1> QED
  BY <1>2, <1>3 DEF Inv, TableInv

\* Of kqueue nothing depends on what tokens are: the inductive invariant of
\* its builds.
KqueueBuild == StubInv /\ (backend = "kqueue" => Inv)

LEMMA AlwaysKqueueBuild == Spec => []KqueueBuild
<1>1. Init => KqueueBuild
  BY Initially DEF KqueueBuild, Inv
<1>2. ASSUME KqueueBuild, [Next]_vars
      PROVE  KqueueBuild'
  <2>1. backend \in {"epoll", "kqueue"} /\ backend' = backend
    BY <1>2 DEF KqueueBuild, StubInv, Next, OnEpoll, OnKqueue, vars
  <2>2. CASE backend = "epoll"
    <3>1. UNCHANGED kqueueVars
      BY <1>2, <2>2 DEF Next, OnEpoll, OnKqueue, vars
    <3> QED
      BY <1>2, <2>1, <2>2, <3>1 DEF KqueueBuild, StubInv, kqueueVars
  <2>3. CASE backend = "kqueue"
    <3>1. CASE OnKqueue(KqueueNext)
      BY <1>2, <2>3, <3>1, KqueueNextInv DEF KqueueBuild, Inv
    <3>2. CASE UNCHANGED vars
      BY <1>2, <2>3, <3>2, StutterInv DEF KqueueBuild, Inv
    <3> QED
      BY <1>2, <2>3, <3>1, <3>2 DEF Next, OnEpoll
  <2> QED
    BY <2>1, <2>2, <2>3
<1> QED
  BY <1>1, <1>2, PTL DEF Spec

LEMMA KqueueMappedFollows ==
  ASSUME KqueueBuild
  PROVE  KqueueMapped
<1> SUFFICES ASSUME NEW f \in Fds, pc # "set", reg[f] # Half,
                    NEW k \in Kinds, kn[f][k] # None
             PROVE  /\ reg[f] # None
                    /\ reg[f] = [want |-> {h \in Kinds : kn[f][h] # None}, tok |-> kn[f][k].tok]
  BY DEF KqueueMapped
<1>1. backend = "kqueue" /\ Inv
  BY DEF KqueueBuild, StubInv
<1>2. Noted(f)
  BY <1>1 DEF Inv, KqueueInv, Changing
<1>3. reg[f] \in Entry /\ kn[f][k].tok = reg[f].tok
  BY <1>2 DEF Noted
<1>4. reg[f].want \subseteq Kinds
  BY <1>3 DEF Entry, Interests, Kinds
<1>5. reg[f].want = {h \in Kinds : kn[f][h] # None}
  BY <1>2, <1>3, <1>4 DEF Noted
<1> QED
  BY <1>3, <1>5, PollerAssumption DEF Entry

\* Type correctness of both pollers; in particular a token handed out is one a
\* caller passed in.
THEOREM PollersTyped ==
  ASSUME TokensAreOpaque
  PROVE  Spec => []TypeOK
<1>1. Inv => TypeOK
  BY DEF Inv
<1> QED
  BY <1>1, AlwaysInv, PTL

\* The open-addressed table of mjs_epoll.c, for every size and hash: whatever
\* was registered, replaced, removed or closed, a descriptor the kernel
\* watches is found, in one slot, with the token of its last registration.
THEOREM EpollIsMapped ==
  ASSUME TokensAreOpaque
  PROVE  Spec => []EpollMapped
<1>1. Inv => EpollMapped
  BY EpollMappedFollows
<1> QED
  BY <1>1, AlwaysInv, PTL

\* The filters mjs_poll_set changes one after the other are those of the last
\* registration, with its token, unless a call failed half way.
THEOREM KqueueIsMapped == Spec => []KqueueMapped
<1>1. KqueueBuild => KqueueMapped
  BY KqueueMappedFollows
<1> QED
  BY <1>1, AlwaysKqueueBuild, PTL

\* A wait of either poller that hands out nothing was woken, or has slept as
\* long as it was asked to.  For every width of the words and every timeout,
\* the only ones epoll cuts short are those mjs_epoll_wait clamps to INT_MAX
\* milliseconds and those whose rounding up wraps.
THEOREM ZeroEventsAreExplained ==
  ASSUME TokensAreOpaque
  PROVE  Spec => []ZeroEventsMeanWakeOrTimeout
<1>1. Inv => ZeroEventsMeanWakeOrTimeout
  BY DEF Inv
<1> QED
  BY <1>1, AlwaysInv, PTL

\* A wait hands out the token and the interests of the registration that
\* stands, although descriptors are closed between the kernel and the table.
THEOREM DeliveriesAreRegistered ==
  ASSUME TokensAreOpaque
  PROVE  Spec => []DeliveredIsRegistered
<1>1. Inv => DeliveredIsRegistered
  BY DEF Inv
<1> QED
  BY <1>1, AlwaysInv, PTL
==============================================================================
