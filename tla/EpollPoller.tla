----------------------------- MODULE EpollPoller -----------------------------
(***************************************************************************)
(* native/posix/mjs_epoll.c.  The kernel holds the interests of each       *)
(* descriptor; its token is in the poller's own open-addressed table, with *)
(* tombstones for the entries that were removed.  The kernel's entry is    *)
(* changed first and the table after it, and a wait looks each reported    *)
(* descriptor up in the table.                                             *)
(***************************************************************************)
EXTENDS ReadinessPoller

CONSTANTS
  Cap,        \* MJS_EPOLL_TABLE_CAP
  Hash,       \* home slot of each descriptor
  LowWord,    \* the low 32 bits of a token, where they are a descriptor
  Empty,      \* -1
  Tomb,       \* MJS_EPOLL_TOMB
  Smashed,    \* a token whose low word was overwritten by MJS_EPOLL_TOMB
  NsPerMs,    \* 1000000, scaled down
  WordMax,    \* UINT64_MAX, scaled down: the largest *timeout_ns
  IntMax,     \* INT_MAX, scaled down: the most milliseconds epoll_wait takes
  MaxWakes    \* bound: writes the eventfd's counter takes before EAGAIN

Slots == 0..(Cap - 1)

ASSUME EpollAssumption ==
  /\ Cap \in Nat \ {0} /\ NsPerMs \in Nat \ {0} /\ MaxWakes \in Nat
  /\ WordMax \in Nat /\ IntMax \in Nat /\ Timeouts \subseteq 0..WordMax
  /\ Hash \in [Fds -> Slots]
  /\ LowWord \in [Tokens -> Fds \cup {None}]
  /\ Empty \notin Fds /\ Tomb \notin Fds /\ Empty # Tomb
  /\ Smashed \notin Tokens

VARIABLES
  kern,      \* epfd: the events each descriptor is registered for
  table_fd, table_tok,
  slot,      \* the C local of mjs_epoll_set between the kernel and the table
  wfd        \* the counter of the wake eventfd

epollVars == <<kern, table_fd, table_tok, slot, wfd>>
tableVars == <<table_fd, table_tok>>

\* mjs_epoll_create: the eventfd is registered, every slot empty, the tokens
\* whatever malloc returned.
EpollInit ==
  /\ kern = [f \in Fds |-> None]
  /\ table_fd = [s \in Slots |-> Empty]
  /\ table_tok = [s \in Slots |-> None]
  /\ slot = None
  /\ wfd = 0

-----------------------------------------------------------------------------
\* The k-th slot of a descriptor's probe, 0 <= k < Cap.
Probe(f, k) == IF Hash[f] + k < Cap THEN Hash[f] + k ELSE Hash[f] + k - Cap

\* Where the probe loop of mjs_epoll_slot may stop: at the descriptor or an
\* empty slot.
Stops(f) == {k \in Slots : table_fd[Probe(f, k)] \in {Empty, f}}

Least(S) == CHOOSE k \in S : \A j \in S : k <= j

\* Tombstones passed on the way to probe step k.
TombsBefore(f, k) == {j \in 0..(k - 1) : table_fd[Probe(f, j)] = Tomb}

\* The result Cap says that no probe stopped; a tombstone is preferred to
\* the empty slot behind it.
mjs_epoll_slot(f) ==
  IF Stops(f) = {} THEN Cap
  ELSE LET k == Least(Stops(f)) IN
       IF table_fd[Probe(f, k)] = Empty /\ TombsBefore(f, k) # {}
       THEN Probe(f, Least(TombsBefore(f, k)))
       ELSE Probe(f, k)

\* epoll_ctl(2): ADD of a present entry is EEXIST, upon which the code tries
\* MOD; MOD of an absent one is ENOENT.  Any call may fail for another
\* reason, and then changes nothing.
Accepts(f, isAdd) == isAdd \/ kern[f] # None

\* Mutant: register does not fall back to MOD, and goes on as if it had.
SetCtlNoUpsert(f, want, tok, isAdd) ==
  /\ pc = "idle"
  /\ mjs_epoll_slot(f) < Cap
  /\ Accepts(f, isAdd)
  /\ kern' = [kern EXCEPT ![f] = IF isAdd /\ @ # None THEN @ ELSE want]
  /\ slot' = mjs_epoll_slot(f)
  /\ arg' = [fd |-> f, want |-> want, tok |-> tok]
  /\ pc' = "set"
  /\ UNCHANGED <<ready, reg, waitVars, credit, tableVars, wfd>>

\* Mutant: the sentinel of a full table is taken for a slot.
SetCtlUnchecked(f, want, tok, isAdd) ==
  /\ pc = "idle"
  /\ Accepts(f, isAdd)
  /\ kern' = [kern EXCEPT ![f] = want]
  /\ slot' = mjs_epoll_slot(f)
  /\ arg' = [fd |-> f, want |-> want, tok |-> tok]
  /\ pc' = "set"
  /\ UNCHANGED <<ready, reg, waitVars, credit, tableVars, wfd>>

\* mjs_epoll_set up to the kernel's answer.  Without a slot it is -ENOSPC,
\* and when the kernel refuses its error: nothing has changed.
EpollSetCtl(f, want, tok, isAdd) ==
  /\ pc = "idle"
  /\ mjs_epoll_slot(f) < Cap
  /\ Accepts(f, isAdd)
  /\ kern' = [kern EXCEPT ![f] = want]
  /\ slot' = mjs_epoll_slot(f)
  /\ arg' = [fd |-> f, want |-> want, tok |-> tok]
  /\ pc' = "set"
  /\ UNCHANGED <<ready, reg, waitVars, credit, tableVars, wfd>>

\* The rest of it: record fd -> token, return 0.
EpollSetTable ==
  /\ pc = "set"
  /\ table_fd' = [table_fd EXCEPT ![slot] = arg.fd]
  /\ table_tok' = [table_tok EXCEPT ![slot] = arg.tok]
  /\ reg' = [reg EXCEPT ![arg.fd] = [want |-> arg.want, tok |-> arg.tok]]
  /\ pc' = "idle" /\ arg' = NoArg /\ slot' = None
  /\ UNCHANGED <<ready, waitVars, credit, kern, wfd>>

\* table_fd[Cap] is the low word of table_tok[0]: when no probe stopped, the
\* comparison reads it and, if the token's low word is the descriptor's
\* number, the tombstone overwrites it.
PastTheEnd(f) ==
  IF table_tok[0] \in Tokens /\ LowWord[table_tok[0]] = f
  THEN [table_tok EXCEPT ![0] = Smashed]
  ELSE table_tok

\* Mutant: the slot is emptied, which cuts the probe chains through it.
UnregisterEmpties(f) ==
  LET s == mjs_epoll_slot(f) IN
  /\ pc = "idle"
  /\ kern' = [kern EXCEPT ![f] = None]
  /\ reg' = [reg EXCEPT ![f] = None]
  /\ table_fd' = IF s < Cap /\ table_fd[s] = f
                 THEN [table_fd EXCEPT ![s] = Empty] ELSE table_fd
  /\ table_tok' = IF s = Cap THEN PastTheEnd(f) ELSE table_tok
  /\ UNCHANGED <<ready, pc, arg, waitVars, credit, slot, wfd>>

\* mjs_epoll_unregister.  ENOENT is no error, and any other error (the
\* descriptor was closed) still clears the table.
EpollUnregister(f) ==
  LET s == mjs_epoll_slot(f) IN
  /\ pc = "idle"
  /\ kern' = [kern EXCEPT ![f] = None]
  /\ reg' = [reg EXCEPT ![f] = None]
  /\ table_fd' = IF s < Cap /\ table_fd[s] = f
                 THEN [table_fd EXCEPT ![s] = Tomb] ELSE table_fd
  /\ table_tok' = IF s = Cap THEN PastTheEnd(f) ELSE table_tok
  /\ UNCHANGED <<ready, pc, arg, waitVars, credit, slot, wfd>>

-----------------------------------------------------------------------------
\* A uint64_t, which wraps, and the cast to int, guarded by a clamp.
Word(n) == n % (WordMax + 1)
Clamp(ms) == IF ms > IntMax THEN IntMax ELSE ms

\* Mutant: the conversion truncates, so that a short timeout is a poll.
TruncatedMs(t) == Clamp(t \div NsPerMs)

\* The timeout in the milliseconds of epoll_wait, rounded up: the sum is
\* taken before the division and may wrap.
TimeoutMs(t) == Clamp(Word(t + NsPerMs - 1) \div NsPerMs)

\* Level-triggered: what epoll_wait can report now.  EPOLLRDHUP, EPOLLHUP
\* and EPOLLERR are always watched.
EpollFlags(f) ==
  IF kern[f] = None THEN {} ELSE ready[f] \cap (kern[f] \cup {"eof"})

EpollAvailable == {f \in Fds : EpollFlags(f) # {}}

EpollWaitEnter == \E t \in Timeouts \cup {None} :
  EnterWait(t) /\ UNCHANGED epollVars

EpollReported(S) == {[fd |-> f, tok |-> None, flags |-> EpollFlags(f)] : f \in S}

EpollPending == Cardinality(EpollAvailable) + (IF wfd > 0 THEN 1 ELSE 0)

EpollWaitReturn(S, w) ==
  /\ S \subseteq EpollAvailable
  /\ w => wfd > 0
  /\ FullBatch(S, w, EpollPending)
  /\ KernelReturns(EpollReported(S), w)
  /\ UNCHANGED <<credit, epollVars>>

EpollWaitTimeout ==
  /\ EpollPending = 0
  /\ ns # None /\ KernelTimesOut(TimeoutMs(ns) * NsPerMs)
  /\ UNCHANGED <<credit, epollVars>>

EpollWaitFails ==
  /\ EpollPending = 0
  /\ WaitFails
  /\ UNCHANGED epollVars

\* The events whose descriptor the table holds, with the token found there.
Looked(e) ==
  LET s == mjs_epoll_slot(e.fd) IN
  IF s < Cap /\ table_fd[s] = e.fd
  THEN {[fd |-> e.fd, tok |-> table_tok[s], flags |-> e.flags]} ELSE {}

\* Mutant: the eventfd is drained on every return.
DeliverDrainsAlways ==
  /\ HandOut(UNION {Looked(e) : e \in batch})
  /\ wfd' = 0
  /\ credit' = IF woke THEN FALSE ELSE credit
  /\ UNCHANGED <<kern, table_fd, table_tok, slot>>

\* The loop over the batch: the wake source is drained and takes no place.
EpollDeliver ==
  /\ HandOut(UNION {Looked(e) : e \in batch})
  /\ wfd' = IF woke THEN 0 ELSE wfd
  /\ credit' = IF woke THEN FALSE ELSE credit
  /\ UNCHANGED <<kern, table_fd, table_tok, slot>>

EpollReturn == ReturnWait /\ UNCHANGED epollVars

\* mjs_epoll_wake, from any thread.  A counter at its limit is -EAGAIN.
EpollWake ==
  /\ pc # "closed"
  /\ wfd < MaxWakes
  /\ wfd' = wfd + 1
  /\ credit' = TRUE
  /\ UNCHANGED <<ready, reg, pc, arg, waitVars, kern, table_fd, table_tok, slot>>

\* mjs_epoll_close
EpollClose ==
  /\ ClosePoller
  /\ kern' = [f \in Fds |-> None]
  /\ table_fd' = [s \in Slots |-> Empty]
  /\ table_tok' = [s \in Slots |-> None]
  /\ wfd' = 0
  /\ UNCHANGED slot

EpollReady(f, c) == BecomeReady(f, c) /\ UNCHANGED epollVars

EpollReopen(f) ==
  /\ Reopen(f)
  /\ kern' = [kern EXCEPT ![f] = None]
  /\ UNCHANGED <<table_fd, table_tok, slot, wfd>>

EpollNext ==
  \/ \E f \in Fds, want \in Wants, tok \in Tokens :
       \/ EpollSetCtl(f, want, tok, TRUE)
       \/ EpollSetCtl(f, want, tok, FALSE)
  \/ EpollSetTable
  \/ \E f \in Fds : EpollUnregister(f) \/ EpollReopen(f)
  \/ \E f \in Fds, c \in Conds : EpollReady(f, c)
  \/ EpollWaitEnter
  \/ \E S \in SUBSET EpollAvailable, w \in BOOLEAN : EpollWaitReturn(S, w)
  \/ EpollWaitTimeout \/ EpollWaitFails \/ EpollDeliver \/ EpollReturn
  \/ EpollWake \/ EpollClose

EpollTypeOK ==
  /\ kern \in [Fds -> Interests \cup {None}]
  /\ table_fd \in [Slots -> Fds \cup {Empty, Tomb}]
  /\ table_tok \in [Slots -> Tokens \cup {None, Smashed}]
  /\ slot \in Slots \cup {None}
  /\ wfd \in 0..MaxWakes

-----------------------------------------------------------------------------
\* Whatever was registered, replaced, removed, closed or refused before, a
\* descriptor the kernel watches is found by the probe, in one slot only,
\* with the token and the interests of its last registration.
EpollMapped ==
  pc # "set" => \A f \in Fds : kern[f] # None =>
    \E s \in Slots :
      /\ mjs_epoll_slot(f) = s
      /\ \A t \in Slots : table_fd[t] = f <=> t = s
      /\ reg[f] = [want |-> kern[f], tok |-> table_tok[s]]
==============================================================================
