---------------------------- MODULE KqueuePoller ----------------------------
(***************************************************************************)
(* native/posix/mjs_poller.c.  A registration is one knote for each filter *)
(* asked for, with the token in its udata; the filters are changed one     *)
(* kevent call after the other.  Knotes are EV_CLEAR: returning one clears *)
(* it until the next transition.                                           *)
(***************************************************************************)
EXTENDS ReadinessPoller

CONSTANTS
  KqFds,    \* the descriptors used here: knotes of different ones share nothing
  Half      \* history: a registration of which only one filter was changed

Knote == [tok : Tokens, active : BOOLEAN]

ASSUME KqueueAssumption ==
  KqFds \subseteq Fds /\ Half \notin Entry /\ Half # None /\ None \notin Knote

VARIABLES
  kn,      \* for each descriptor and filter its knote
  user     \* the EVFILT_USER wake knote is triggered

kqueueVars == <<kn, user>>

\* mjs_poller_create
KqueueInit ==
  /\ kn = [f \in Fds |-> [k \in Kinds |-> None]]
  /\ user = FALSE

\* EVFILT_READ fires for input and for EOF, EVFILT_WRITE for room and EOF.
Fires(k, c) == {k, "eof"} \cap c # {}

\* mjs_apply_filter: EV_ADD | EV_CLEAR adds or updates, and fires at once on
\* a ready descriptor; EV_DELETE of an absent knote is no error.
mjs_apply_filter(f, k, want, tok) ==
  kn' = [kn EXCEPT ![f][k] =
           IF k \in want THEN [tok |-> tok, active |-> Fires(k, ready[f])]
           ELSE None]

\* mjs_poll_set, the read filter.  If the kernel refuses it, nothing has
\* changed.
KqueueSetRead(f, want, tok) ==
  /\ pc = "idle"
  /\ mjs_apply_filter(f, "r", want, tok)
  /\ arg' = [fd |-> f, want |-> want, tok |-> tok]
  /\ pc' = "set"
  /\ UNCHANGED <<ready, reg, waitVars, credit, user>>

\* The write filter, and return 0.
KqueueSetWrite ==
  /\ pc = "set"
  /\ mjs_apply_filter(arg.fd, "w", arg.want, arg.tok)
  /\ reg' = [reg EXCEPT ![arg.fd] = [want |-> arg.want, tok |-> arg.tok]]
  /\ pc' = "idle" /\ arg' = NoArg
  /\ UNCHANGED <<ready, waitVars, credit, user>>

\* The kernel refuses it: the call fails with the read filter changed.
KqueueSetWriteFails ==
  /\ pc = "set"
  /\ reg' = [reg EXCEPT ![arg.fd] = Half]
  /\ pc' = "idle" /\ arg' = NoArg
  /\ UNCHANGED <<ready, waitVars, credit, kqueueVars>>

\* Mutant: only the read filter is removed.
UnregisterRead(f) ==
  /\ pc = "idle"
  /\ kn' = [kn EXCEPT ![f]["r"] = None]
  /\ reg' = [reg EXCEPT ![f] = None]
  /\ UNCHANGED <<ready, pc, arg, waitVars, credit, user>>

\* mjs_poller_unregister: both filters.  An error other than ENOENT means
\* that the descriptor was closed, and its knotes are gone.
KqueueUnregister(f) ==
  /\ pc = "idle"
  /\ kn' = [kn EXCEPT ![f] = [k \in Kinds |-> None]]
  /\ reg' = [reg EXCEPT ![f] = None]
  /\ UNCHANGED <<ready, pc, arg, waitVars, credit, user>>

-----------------------------------------------------------------------------
\* Knotes kevent would return now: active, and still true of the descriptor.
KqueueAvailable ==
  {p \in Fds \X Kinds : /\ kn[p[1]][p[2]] # None
                        /\ kn[p[1]][p[2]].active
                        /\ Fires(p[2], ready[p[1]])}

KqueuePending == Cardinality(KqueueAvailable) + (IF user THEN 1 ELSE 0)

KqueueWaitEnter == \E t \in Timeouts \cup {None} :
  EnterWait(t) /\ UNCHANGED kqueueVars

\* The event of a knote: one filter's flag, EOF with it, the udata as token.
EventOf(p) == [fd |-> p[1], tok |-> kn[p[1]][p[2]].tok,
               flags |-> {p[2]} \cup (ready[p[1]] \cap {"eof"})]

\* kevent returns a batch and clears it; nanoseconds need no rounding.
KqueueWaitReturn(S, w) ==
  /\ S \subseteq KqueueAvailable
  /\ w => user
  /\ FullBatch(S, w, KqueuePending)
  /\ KernelReturns({EventOf(p) : p \in S}, w)
  /\ kn' = [f \in Fds |-> [k \in Kinds |->
              IF <<f, k>> \in S THEN [kn[f][k] EXCEPT !.active = FALSE]
              ELSE kn[f][k]]]
  /\ user' = IF w THEN FALSE ELSE user
  /\ credit' = IF w THEN FALSE ELSE credit

KqueueWaitTimeout ==
  /\ KqueuePending = 0
  /\ ns # None /\ KernelTimesOut(ns)
  /\ UNCHANGED <<credit, kqueueVars>>

KqueueWaitFails ==
  /\ KqueuePending = 0
  /\ WaitFails
  /\ UNCHANGED kqueueVars

KqueueDeliver == HandOut(batch) /\ UNCHANGED <<credit, kqueueVars>>

KqueueReturn == ReturnWait /\ UNCHANGED kqueueVars

\* mjs_poller_wake: NOTE_TRIGGER, which coalesces.
KqueueWake ==
  /\ pc # "closed"
  /\ user' = TRUE
  /\ credit' = TRUE
  /\ UNCHANGED <<ready, reg, pc, arg, waitVars, kn>>

\* mjs_poller_close
KqueueClose ==
  /\ ClosePoller
  /\ kn' = [f \in Fds |-> [k \in Kinds |-> None]]
  /\ user' = FALSE

\* A transition activates the knotes whose filter it makes true.
KqueueReady(f, c) ==
  /\ BecomeReady(f, c)
  /\ kn' = [kn EXCEPT ![f] = [k \in Kinds |->
       IF kn[f][k] = None THEN None
       ELSE [kn[f][k] EXCEPT !.active =
               Fires(k, c) /\ (kn[f][k].active \/ ~Fires(k, ready[f]))]]]
  /\ UNCHANGED user

KqueueReopen(f) ==
  /\ Reopen(f)
  /\ kn' = [kn EXCEPT ![f] = [k \in Kinds |-> None]]
  /\ UNCHANGED user

KqueueNext ==
  \/ \E f \in KqFds, want \in Wants, tok \in Tokens :
       KqueueSetRead(f, want, tok)
  \/ KqueueSetWrite \/ KqueueSetWriteFails
  \/ \E f \in KqFds : KqueueUnregister(f) \/ KqueueReopen(f)
  \/ \E f \in KqFds, c \in Conds : KqueueReady(f, c)
  \/ KqueueWaitEnter
  \/ \E S \in SUBSET KqueueAvailable, w \in BOOLEAN : KqueueWaitReturn(S, w)
  \/ KqueueWaitTimeout \/ KqueueWaitFails \/ KqueueDeliver \/ KqueueReturn
  \/ KqueueWake \/ KqueueClose

KqueueTypeOK ==
  /\ kn \in [Fds -> [Kinds -> Knote \cup {None}]]
  /\ user \in BOOLEAN

-----------------------------------------------------------------------------
\* After register, modify and unregister the knotes of a descriptor are the
\* interests of the last call that succeeded, all with its token, unless the
\* descriptor was closed since or a later call failed half way.
KqueueMapped ==
  \A f \in Fds : pc # "set" /\ reg[f] # Half =>
    LET live == {k \in Kinds : kn[f][k] # None} IN
    live # {} => /\ reg[f] # None
                 /\ \A k \in live : reg[f] = [want |-> live, tok |-> kn[f][k].tok]
==============================================================================
