------------------------------- MODULE IoUring -------------------------------
(***************************************************************************)
(* native/posix/mjs_iouring.c: readiness over one-shot polls of a ring.    *)
(* One reactor thread stages requests in the submission queue, enters the  *)
(* kernel, and drains the completion queue; the kernel consumes requests   *)
(* and posts completions on its own.  A request's user_data is a sequence  *)
(* number, one of the sentinels Wake and Timeout, or 0 where the code sets *)
(* none (removals).  A slot's r_seqs is the user_data of its live poll, 0  *)
(* when it has to be armed again.  seq_ holds next_seq.                    *)
(***************************************************************************)
EXTENDS Naturals, FiniteSets, SequencesExt

CONSTANTS
  Fds, None,
  Conds,       \* conditions descriptors get into, sets of flags
  Wants,       \* the interests callers register
  Entries,     \* sq_entries, which is also r_cap
  Hash,        \* home slot of each descriptor
  Cap,         \* the caller's cap
  MaxSeq,      \* bound: sequence numbers
  MaxRare      \* bound: failed and short enters, failed polls, timed waits

Slots == 0..(Entries - 1)
Flags == {"r", "w", "eof"}
Wake == MaxSeq + 1
Timeout == MaxSeq + 2

ASSUME RingAssumption ==
  /\ Entries \in Nat \ {0} /\ Cap \in Nat \ {0}
  /\ Hash \in [Fds -> Slots] /\ Conds \subseteq SUBSET Flags
  /\ MaxSeq \in Nat /\ MaxRare \in Nat
  /\ None \notin Fds /\ None \notin 0..MaxSeq

VARIABLES
  held,                      \* what create has acquired
  sq, cq,                    \* the two queues
  polls, timers,             \* armed in the kernel
  r_fds, r_seqs, r_tok, r_int, r_count, next_seq,
  wake_armed, timeout_armed,
  wfd,                       \* the eventfd is readable
  pc, call, out,             \* the reactor: place, call, events handed out
  reg,                       \* history: the token last accepted
  cut,                       \* history: an emptied slot lay on another's probe
  rare                       \* counts up to MaxRare

table == <<r_fds, r_seqs, r_tok, r_int, r_count>>
kernel == <<cq, polls, timers>>
armed == <<wake_armed, timeout_armed>>
vars == <<held, sq, kernel, table, next_seq, armed, wfd, pc, call, out, reg, cut, rare>>

Idle == [op |-> "none", fd |-> None, want |-> {}, tok |-> None,
         slot |-> 0, seq |-> 0, took |-> FALSE, todo |-> 0]

Stages == <<"ring", "handle", "sq_ring", "cq_ring", "sqes", "tables", "wake_fd">>
Mappings == {"sq_ring", "cq_ring", "sqes"}

Init ==
  /\ held = {}
  /\ sq = <<>> /\ cq = <<>> /\ polls = {} /\ timers = 0
  /\ r_fds = [s \in Slots |-> None] /\ r_seqs = [s \in Slots |-> 0]
  /\ r_tok = [s \in Slots |-> None] /\ r_int = [s \in Slots |-> {}]
  /\ r_count = 0 /\ next_seq = 1
  /\ wake_armed = FALSE /\ timeout_armed = FALSE
  /\ wfd = FALSE
  /\ pc = "none" /\ call = Idle /\ out = <<>>
  /\ reg = [f \in Fds |-> None] /\ cut = FALSE /\ rare = 0

-----------------------------------------------------------------------------
\* Requests, as the uring_stage_ helpers fill them.
PollAdd(f, want, ud) == [op |-> "add", fd |-> f, want |-> want, ud |-> ud]
PollRemove(target) == [op |-> "remove", fd |-> None, want |-> {}, ud |-> target]
TimeoutSqe == [op |-> "timeout", fd |-> None, want |-> {}, ud |-> Timeout]
TimeoutRemove == [op |-> "untimeout", fd |-> None, want |-> {}, ud |-> Timeout]

Done(ud, flags) == [ud |-> ud, ok |-> TRUE, flags |-> flags]
Failed(ud) == [ud |-> ud, ok |-> FALSE, flags |-> {}]

\* Mutant: the queue is taken for one request longer.
RoomPlusOne == Entries + 1 - Len(sq)

\* uring_get_sqe has one to give.
Room == Entries - Len(sq)

\* uring_submit: publish the tail and enter the kernel.
Enter(requests, c) ==
  /\ sq' = sq \o requests
  /\ call' = c
  /\ pc' = "enter"
  /\ out' = <<>>

-----------------------------------------------------------------------------
\* mjs_iouring_create: acquire one thing after the other.
Next_(h) == SelectInSeq(Stages, LAMBDA x : x \notin h)

\* Mutant: the mappings of a handle that was not finished are not unmapped.
UnmapFinished(h) == IF Mappings \subseteq h THEN h \ Mappings ELSE h

\* iouring_unmap: the mappings whose length was recorded.
iouring_unmap(h) == h \ Mappings

\* What is left when stage x fails: each exit of the ladder releases what
\* the stages before it acquired.
Unwound(h, x) ==
  CASE x \in {"ring", "handle", "sq_ring"} -> h \ {"ring", "handle"}
    [] x \in {"cq_ring", "sqes"} -> iouring_unmap(h) \ {"ring", "handle"}
    [] OTHER -> iouring_unmap(h) \ {"ring", "handle", "tables"}

Acquire ==
  /\ pc = "none" /\ Next_(held) # 0
  /\ held' = held \cup {Stages[Next_(held)]}
  /\ UNCHANGED <<sq, kernel, table, next_seq, armed, wfd, pc, call, out, reg, cut, rare>>

AcquireFails ==
  /\ pc = "none" /\ Next_(held) # 0
  /\ held' = Unwound(held, Stages[Next_(held)])
  /\ pc' = "failed"
  /\ UNCHANGED <<sq, kernel, table, next_seq, armed, wfd, call, out, reg, cut, rare>>

\* The last stage arms the poll of the wake eventfd.
ArmWake ==
  /\ pc = "none" /\ Next_(held) = 0
  /\ Enter(<<PollAdd(None, {"r"}, Wake)>>, [Idle EXCEPT !.op = "create"])
  /\ UNCHANGED <<held, kernel, table, next_seq, armed, wfd, reg, cut, rare>>

\* mjs_iouring_close
Close ==
  /\ pc = "idle"
  /\ held' = iouring_unmap(held) \ {"wake_fd", "ring", "tables", "handle"}
  /\ pc' = "closed" /\ out' = <<>>
  /\ sq' = <<>> /\ cq' = <<>> /\ polls' = {} /\ timers' = 0
  /\ UNCHANGED <<table, next_seq, armed, wfd, call, reg, cut, rare>>

-----------------------------------------------------------------------------
\* The kernel takes the request at the head of the submission queue.
Consume ==
  /\ pc = "enter" /\ sq # <<>>
  /\ LET r == Head(sq)
         hit == {p \in polls : p.ud = r.ud}
     IN \/ /\ r.op = "add"
           /\ polls' = polls \cup {[fd |-> r.fd, want |-> r.want, ud |-> r.ud]}
           /\ UNCHANGED <<cq, timers>>
        \/ /\ r.op = "remove" /\ hit # {}
           /\ polls' = polls \ hit
           /\ cq' = cq \o <<Failed(r.ud), Done(0, {})>>
           /\ UNCHANGED timers
        \/ /\ r.op = "remove" /\ hit = {}
           /\ cq' = Append(cq, Failed(0))
           /\ UNCHANGED <<polls, timers>>
        \/ /\ r.op = "timeout"
           /\ timers' = timers + 1
           /\ UNCHANGED <<cq, polls>>
        \/ /\ r.op = "untimeout" /\ timers > 0
           /\ timers' = timers - 1
           /\ cq' = cq \o <<Failed(Timeout), Done(0, {})>>
           /\ UNCHANGED polls
        \/ /\ r.op = "untimeout" /\ timers = 0
           /\ cq' = Append(cq, Failed(0))
           /\ UNCHANGED <<polls, timers>>
  /\ sq' = Tail(sq)
  /\ call' = [call EXCEPT !.took = TRUE]
  /\ UNCHANGED <<held, table, next_seq, armed, wfd, pc, out, reg, cut, rare>>

\* A poll fails when the caller has closed the descriptor, and a removal
\* misses a poll that a kernel worker is arming or completing.
ConsumeFails ==
  LET r == Head(sq) IN
  /\ pc = "enter" /\ sq # <<>> /\ rare < MaxRare
  /\ \/ r.op = "add" /\ r.ud # Wake /\ cq' = Append(cq, Failed(r.ud))
     \/ r.op = "remove" /\ (\E p \in polls : p.ud = r.ud) /\ cq' = Append(cq, Failed(0))
  /\ rare' = rare + 1
  /\ sq' = Tail(sq)
  /\ call' = [call EXCEPT !.took = TRUE]
  /\ UNCHANGED <<held, polls, timers, table, next_seq, armed, wfd, pc, out, reg, cut>>

\* io_uring_enter fails before it took anything: the requests stay staged,
\* and the call returns the error.
EnterFails ==
  /\ pc = "enter" /\ ~call.took /\ rare < MaxRare
  /\ rare' = rare + 1
  /\ held' = IF call.op = "create" THEN Unwound(held \ {"wake_fd"}, "armed") ELSE held
  /\ pc' = IF call.op = "create" THEN "failed" ELSE "idle"
  /\ sq' = IF call.op = "create" THEN <<>> ELSE sq
  /\ call' = Idle
  /\ UNCHANGED <<kernel, table, next_seq, armed, wfd, out, reg, cut>>

\* io_uring_enter stops short of the end of the queue.
StopsShort ==
  /\ pc = "enter" /\ sq # <<>> /\ call.took /\ rare < MaxRare
  /\ rare' = rare + 1
  /\ pc' = "short"
  /\ UNCHANGED <<held, sq, kernel, table, next_seq, armed, wfd, call, out, reg, cut>>

\* A poll completes, once, when its descriptor is in a condition it asks
\* for (hang-up needs no asking); so does a timeout.  Completions are let in
\* while the reactor is in the kernel: between two entries they only queue
\* behind what the reactor looks at, so that one that comes then is the same
\* as one that comes first thing in the next entry.
InKernel == pc \in {"enter", "waiting"}

PollFires(p, c) ==
  /\ InKernel
  /\ c \cap (p.want \cup {"eof"}) # {}
  /\ p.ud = Wake => wfd
  /\ polls' = polls \ {p}
  /\ cq' = Append(cq, Done(p.ud, c \cap (p.want \cup {"eof"})))
  /\ UNCHANGED <<held, sq, timers, table, next_seq, armed, wfd,
                 pc, call, out, reg, cut, rare>>

TimerFires ==
  /\ InKernel /\ timers > 0
  /\ timers' = timers - 1
  /\ cq' = Append(cq, Failed(Timeout))
  /\ UNCHANGED <<held, sq, polls, table, next_seq, armed, wfd,
                 pc, call, out, reg, cut, rare>>

-----------------------------------------------------------------------------
\* uring_slot: the first slot of the probe that is empty or the
\* descriptor's, its home slot when there is none.
Probe(f, k) == (Hash[f] + k) % Entries

uring_slot(f) ==
  LET stops == {k \in Slots : r_fds[Probe(f, k)] \in {None, f}} IN
  IF stops = {} THEN Hash[f]
  ELSE Probe(f, CHOOSE k \in stops : \A j \in stops : k <= j)

\* Slot s lies on the probe of a descriptor that is in a later one, which is
\* not found again once s is empty.
Severs(s) ==
  \E t \in Slots : /\ r_fds[t] # None
                   /\ \E k \in Slots : /\ Probe(r_fds[t], k) = t
                                       /\ \E j \in 0..(k - 1) : Probe(r_fds[t], j) = s

\* mjs_iouring_register of a descriptor that has no slot.  With the queue
\* full, what is staged is submitted first.  Callers give every call a token
\* of its own: the sequence number serves as one.
RegisterNew(f, want) ==
  LET s == uring_slot(f)
      c == [op |-> "register", fd |-> f, want |-> want, tok |-> next_seq,
            slot |-> s, seq |-> next_seq, took |-> FALSE, todo |-> 0]
  IN
  /\ pc = "idle" /\ next_seq <= MaxSeq
  /\ r_count < Entries /\ r_fds[s] # f
  /\ next_seq' = next_seq + 1
  /\ IF Room > 0 THEN Enter(<<PollAdd(f, want, next_seq)>>, c)
                 ELSE Enter(<<>>, [c EXCEPT !.op = "flush"])
  /\ UNCHANGED <<held, kernel, table, armed, wfd, reg, cut, rare>>

\* io_uring_enter came back with a count: the callers take any for success.
Submitted == (pc = "enter" /\ sq = <<>>) \/ pc = "short"

\* The flush is done: stage again.
Flushed ==
  /\ Submitted /\ call.op = "flush"
  /\ Enter(<<PollAdd(call.fd, call.want, call.seq)>>,
           [call EXCEPT !.op = "register", !.took = FALSE])
  /\ UNCHANGED <<held, kernel, table, next_seq, armed, wfd, reg, cut, rare>>

\* An upsert of a live descriptor: remove its poll, add another.  Without
\* room the call fails with -EAGAIN, and leaves behind what it has staged.
Upsert(f, want) ==
  LET s == uring_slot(f)
      both == <<PollRemove(r_seqs[s]), PollAdd(f, want, next_seq)>>
  IN
  /\ pc = "idle" /\ next_seq <= MaxSeq
  /\ r_count < Entries /\ r_fds[s] = f
  /\ next_seq' = next_seq + 1
  /\ IF Room >= 2
     THEN Enter(both, [op |-> "upsert", fd |-> f, want |-> want, tok |-> next_seq,
                       slot |-> s, seq |-> next_seq, took |-> FALSE, todo |-> 0])
     ELSE /\ sq' = sq \o SubSeq(both, 1, Room)
          /\ out' = <<>>
          /\ UNCHANGED <<pc, call>>
  /\ UNCHANGED <<held, kernel, table, armed, wfd, reg, cut, rare>>

\* mjs_iouring_unregister; a descriptor without a slot is no error.
Unregister(f) ==
  LET s == uring_slot(f) IN
  /\ pc = "idle"
  /\ r_fds[s] = f /\ Room > 0
  /\ Enter(<<PollRemove(r_seqs[s])>>,
           [Idle EXCEPT !.op = "unregister", !.fd = f, !.slot = s])
  /\ UNCHANGED <<held, kernel, table, next_seq, armed, wfd, reg, cut, rare>>

\* Mutant: an upsert does not store the new token.
RegisteredOldToken ==
  /\ Submitted /\ call.op \in {"register", "upsert"}
  /\ r_fds' = [r_fds EXCEPT ![call.slot] = call.fd]
  /\ r_seqs' = [r_seqs EXCEPT ![call.slot] = call.seq]
  /\ r_tok' = IF call.op = "upsert" THEN r_tok ELSE [r_tok EXCEPT ![call.slot] = call.tok]
  /\ r_count' = IF call.op = "register" THEN r_count + 1 ELSE r_count
  /\ reg' = [reg EXCEPT ![call.fd] = call.tok]
  /\ pc' = "idle" /\ call' = Idle
  /\ UNCHANGED <<held, sq, kernel, r_int, next_seq, armed, wfd, out, cut, rare>>

\* The calls go on once their requests were submitted.
Registered ==
  /\ Submitted /\ call.op \in {"register", "upsert"}
  /\ r_fds' = [r_fds EXCEPT ![call.slot] = call.fd]
  /\ r_seqs' = [r_seqs EXCEPT ![call.slot] = call.seq]
  /\ r_tok' = [r_tok EXCEPT ![call.slot] = call.tok]
  /\ r_int' = [r_int EXCEPT ![call.slot] = call.want]
  /\ r_count' = IF call.op = "register" THEN r_count + 1 ELSE r_count
  /\ reg' = [reg EXCEPT ![call.fd] = call.tok]
  /\ pc' = "idle" /\ call' = Idle
  /\ UNCHANGED <<held, sq, kernel, next_seq, armed, wfd, out, cut, rare>>

Unregistered ==
  /\ Submitted /\ call.op = "unregister"
  /\ r_fds' = [r_fds EXCEPT ![call.slot] = None]
  /\ r_count' = r_count - 1
  /\ cut' = (cut \/ Severs(call.slot))
  /\ reg' = [reg EXCEPT ![call.fd] = None]
  /\ pc' = "idle" /\ call' = Idle
  /\ UNCHANGED <<held, sq, kernel, r_seqs, r_tok, r_int, next_seq,
                 armed, wfd, out, rare>>

Created ==
  /\ Submitted /\ call.op = "create"
  /\ wake_armed' = TRUE
  /\ pc' = "idle" /\ call' = Idle
  /\ UNCHANGED <<held, sq, kernel, table, next_seq, timeout_armed,
                 wfd, out, reg, cut, rare>>
-----------------------------------------------------------------------------
\* mjs_iouring_wait, up to the kernel.  It arms again what has fired, in the
\* order of the slots, then the wake poll, then the timeout.
Unarmed == {s \in Slots : r_fds[s] # None /\ r_seqs[s] = 0}
Rank(s) == Cardinality({t \in Unarmed : t < s})

Rearms ==
  [i \in 1..Cardinality(Unarmed) |->
     LET s == CHOOSE t \in Unarmed : Rank(t) = i - 1
     IN PollAdd(r_fds[s], r_int[s], next_seq + i - 1)]

Requests(timed) ==
  Rearms
  \o (IF wake_armed THEN <<>> ELSE <<PollAdd(None, {"r"}, Wake)>>)
  \o (IF timed /\ timeout_armed THEN <<TimeoutRemove>> ELSE <<>>)
  \o (IF timed THEN <<TimeoutSqe>> ELSE <<>>)

\* Without room the call fails with -EAGAIN; what it staged stays staged,
\* and the sequence number of the request that did not fit is spent.
WaitArm(timed) ==
  LET all == Requests(timed)
      staged == SubSeq(all, 1, Min({Len(all), Room}))
  IN
  /\ pc = "idle"
  /\ next_seq + Cardinality(Unarmed) <= MaxSeq + 1
  /\ rare' = IF timed THEN rare + 1 ELSE rare
  /\ rare' <= MaxRare
  /\ r_seqs' = [s \in Slots |-> IF s \in Unarmed /\ Rank(s) < Room
                                THEN next_seq + Rank(s) ELSE r_seqs[s]]
  /\ next_seq' = next_seq + Min({Cardinality(Unarmed), Room + 1})
  /\ wake_armed' = (wake_armed \/ \E i \in DOMAIN staged : staged[i].ud = Wake)
  /\ timeout_armed' = IF TimeoutSqe \in Range(staged) THEN TRUE
                      ELSE timeout_armed /\ TimeoutRemove \notin Range(staged)
  /\ IF Len(all) <= Room
     THEN Enter(all, [Idle EXCEPT !.op = "wait"])
     ELSE /\ sq' = sq \o staged
          /\ out' = <<>>
          /\ UNCHANGED <<pc, call>>
  /\ UNCHANGED <<held, kernel, r_fds, r_tok, r_int, r_count, wfd, reg, cut>>

\* Everything was taken: sleep for a completion.
Sleep ==
  /\ pc = "enter" /\ sq = <<>> /\ call.op = "wait"
  /\ pc' = "waiting"
  /\ UNCHANGED <<held, sq, kernel, table, next_seq, armed, wfd, call, out, reg, cut, rare>>

\* Back from the kernel: the drain goes as far as the tail it reads here.
StartDrain ==
  /\ pc' = "drain"
  /\ call' = [call EXCEPT !.todo = Len(cq)]
  /\ UNCHANGED <<held, sq, kernel, table, next_seq, armed, wfd, out, reg, cut, rare>>

\* The slots that answer to a user_data; the code takes the first.
Matches(ud) == {s \in Slots : r_fds[s] # None /\ r_seqs[s] = ud}

\* Mutant: the count is not given back.
RetireUncounted(s) ==
  /\ r_fds' = [r_fds EXCEPT ![s] = None]
  /\ cut' = (cut \/ Severs(s))
  /\ UNCHANGED <<r_seqs, r_tok, r_int, r_count, out>>

\* The poll failed: the registration is retired.
Retire(s) ==
  /\ r_fds' = [r_fds EXCEPT ![s] = None]
  /\ r_count' = r_count - 1
  /\ cut' = (cut \/ Severs(s))
  /\ UNCHANGED <<r_seqs, r_tok, r_int, out>>

Event(s, flags) == [fd |-> r_fds[s], tok |-> r_tok[s], flags |-> flags]

\* Mutant: a slot whose event did not fit in the array is not armed again.
FireFits(s, flags) ==
  /\ r_seqs' = IF Len(out) < Cap THEN [r_seqs EXCEPT ![s] = 0] ELSE r_seqs
  /\ out' = IF Len(out) < Cap THEN Append(out, Event(s, flags)) ELSE out
  /\ UNCHANGED <<r_fds, r_tok, r_int, r_count, cut>>

\* The poll completed: the slot has to be armed again, also when the
\* caller's array is full and the event is dropped.
Fire(s, flags) ==
  /\ r_seqs' = [r_seqs EXCEPT ![s] = 0]
  /\ out' = IF Len(out) < Cap THEN Append(out, Event(s, flags)) ELSE out
  /\ UNCHANGED <<r_fds, r_tok, r_int, r_count, cut>>

\* uring_drain_cq, one completion that is not a marker.
DrainPoll(c) ==
  LET m == Matches(c.ud)
      s == CHOOSE x \in m : \A y \in m : x <= y
  IN
  \/ m = {} /\ UNCHANGED <<table, out, cut>>
  \/ m # {} /\ ~c.ok /\ Retire(s)
  \/ m # {} /\ c.ok /\ Fire(s, c.flags)

\* Mutant: the wake poll is not armed again after it fired.
DrainKeepsWake ==
  /\ pc = "drain" /\ call.todo > 0
  /\ call' = [call EXCEPT !.todo = @ - 1]
  /\ cq' = Tail(cq)
  /\ wfd' = IF Head(cq).ud = Wake THEN FALSE ELSE wfd
  /\ timeout_armed' = (timeout_armed /\ Head(cq).ud # Timeout)
  /\ IF Head(cq).ud \in {Wake, Timeout} THEN UNCHANGED <<table, out, cut>>
                                       ELSE DrainPoll(Head(cq))
  /\ UNCHANGED <<held, sq, polls, timers, next_seq, wake_armed, pc, reg, rare>>

Drain ==
  /\ pc = "drain" /\ call.todo > 0
  /\ call' = [call EXCEPT !.todo = @ - 1]
  /\ cq' = Tail(cq)
  /\ LET c == Head(cq) IN
     \/ /\ c.ud = Timeout
        /\ timeout_armed' = FALSE
        /\ UNCHANGED <<table, wake_armed, wfd, out, cut>>
     \/ /\ c.ud = Wake
        /\ wake_armed' = FALSE /\ wfd' = FALSE
        /\ UNCHANGED <<table, timeout_armed, out, cut>>
     \/ /\ c.ud \notin {Timeout, Wake}
        /\ DrainPoll(c)
        /\ UNCHANGED <<armed, wfd>>
  /\ UNCHANGED <<held, sq, polls, timers, next_seq, pc, reg, rare>>

Drained ==
  /\ pc = "drain" /\ call.todo = 0
  /\ pc' = "idle" /\ call' = Idle
  /\ UNCHANGED <<held, sq, kernel, table, next_seq, armed, wfd, out, reg, cut, rare>>

\* A completion ends the wait; a short submit does not sleep at all.
WaitReturns ==
  /\ call.op = "wait"
  /\ (pc = "waiting" /\ cq # <<>>) \/ pc = "short"
  /\ StartDrain

\* A signal ends the sleep: a zero count when something was taken, and
\* -EINTR otherwise.
WaitEndsEarly == pc = "waiting" /\ cq = <<>> /\ call.took /\ StartDrain

WaitInterrupted ==
  /\ pc = "waiting" /\ cq = <<>> /\ ~call.took
  /\ pc' = "idle" /\ call' = Idle
  /\ UNCHANGED <<held, sq, kernel, table, next_seq, armed, wfd, out, reg, cut, rare>>

-----------------------------------------------------------------------------
\* mjs_iouring_wake, from any thread once the handle is out.
WakeUp ==
  /\ pc \in {"idle", "enter", "short", "waiting", "drain"} /\ call.op # "create"
  /\ wfd' = TRUE
  /\ UNCHANGED <<held, sq, kernel, table, next_seq, armed, pc, call, out, reg, cut, rare>>

Returns == Flushed \/ Registered \/ Unregistered \/ Created \/ Sleep
           \/ WaitReturns \/ Drain \/ Drained
WakePollFires == \E p \in polls : p.ud = Wake /\ PollFires(p, {"r"})

Next ==
  \/ Acquire \/ AcquireFails \/ ArmWake \/ Close
  \/ Consume \/ ConsumeFails \/ EnterFails \/ StopsShort \/ TimerFires
  \/ WakePollFires \/ \E p \in polls, c \in Conds : p.ud # Wake /\ PollFires(p, c)
  \/ \E f \in Fds, w \in Wants : RegisterNew(f, w) \/ Upsert(f, w)
  \/ \E f \in Fds : Unregister(f)
  \/ \E timed \in BOOLEAN : WaitArm(timed)
  \/ Returns \/ WaitEndsEarly \/ WaitInterrupted
  \/ WakeUp

Spec == Init /\ [][Next]_vars

\* The kernel takes what was submitted, completes the wake poll once the
\* eventfd is readable, and a call that can go on does.
FairSpec ==
  Spec /\ WF_vars(Consume) /\ WF_vars(WakePollFires) /\ WF_vars(Returns)

-----------------------------------------------------------------------------
Live(s) == r_fds[s] # None
Outstanding(ud) ==
  Cardinality({i \in DOMAIN sq : sq[i].op = "add" /\ sq[i].ud = ud})
  + Cardinality({p \in polls : p.ud = ud})
  + Cardinality({i \in DOMAIN cq : cq[i].ud = ud})

\* Types, and the bounds of the queues and of the caller's event array.
TypeOK ==
  /\ held \subseteq Range(Stages)
  /\ Len(sq) <= Entries /\ Len(out) <= Cap
  /\ r_fds \in [Slots -> Fds \cup {None}] /\ r_seqs \in [Slots -> 0..MaxSeq]
  /\ r_count \in 0..Entries /\ next_seq \in 1..(MaxSeq + 2)
  /\ pc \in {"none", "enter", "short", "drain", "idle", "waiting", "closed", "failed"}

\* r_count, which decides whether the table is full, counts the live slots:
\* every path that empties a slot, the silent retirement in the drain too,
\* gives its count back exactly once.
CountIsExact == r_count = Cardinality({s \in Slots : Live(s)})

\* A slot that believes it is armed has exactly one request, armed poll or
\* undrained completion with its sequence number, and so has the wake poll:
\* none goes deaf and none fires twice, across failed and short submits.
ArmedIsOutstanding ==
  pc \in {"idle", "enter", "short", "waiting", "drain"} =>
    /\ \A s \in Slots : Live(s) /\ r_seqs[s] # 0 => Outstanding(r_seqs[s]) = 1
    /\ wake_armed => Outstanding(Wake) = 1

\* What the header promises of a live descriptor that is registered again
\* ("last interests+token win"): an event carries the token its descriptor
\* was last registered with, and there is none after an unregister.
LastTokenWins == \A e \in Range(out) : e.tok = reg[e.fd] /\ e.tok # None

\* It is kept, whatever descriptors share a home slot and displace each
\* other, as long as no slot was emptied that another descriptor's probe
\* passes: a completion of a poll that was removed or replaced is never
\* handed out as the new registration's, and none outlives an unregister.
EventIsCurrent == ~cut => LastTokenWins

\* A failed create and a close give back everything create acquired, at
\* whatever stage it failed.
NothingLeaks == pc \in {"failed", "closed"} => held = {}

\* A wake ends the wait that is blocked when it comes.
WakeEndsWait == (pc = "waiting" /\ wfd) ~> (pc # "waiting")

\* What the drain promises about completions it does not know ("consumed and
\* ignored"): a registration ends by unregister, or by a failed completion
\* of its own poll.
RegistrationSurvives ==
  [][ \A s \in Slots : Live(s) /\ r_fds'[s] = None =>
        \/ call.op = "unregister" /\ call.slot = s
        \/ \E i \in DOMAIN cq : cq[i].ud = r_seqs[s] /\ r_seqs[s] # 0 /\ ~cq[i].ok
    ]_vars
==============================================================================
