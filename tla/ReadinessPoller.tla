--------------------------- MODULE ReadinessPoller ---------------------------
(***************************************************************************)
(* What every readiness backend shares (mojito_sys/io/readiness.mojo and   *)
(* the s6-poller block of mojito_sys.h): the descriptors and their         *)
(* readiness, the one reactor thread that may be inside a call             *)
(* (register, modify, unregister and wait take the poller `mut self`), the *)
(* events a wait hands out.  Other threads close descriptors, change their *)
(* readiness and call wake at any moment.                                  *)
(***************************************************************************)
EXTENDS Naturals, FiniteSets

CONSTANTS
  Fds,        \* descriptor numbers
  Tokens,     \* opaque 64-bit tokens
  Wants,      \* the interests callers register
  Conds,      \* the conditions a descriptor can be in, sets of flags
  Timeouts,   \* values of *timeout_ns; a wait may also have none
  MaxEvents,  \* the caller's cap, at most the batch of 256
  None        \* no registration, no timeout, no slot

\* MJS_POLL_READABLE and MJS_POLL_WRITABLE can be asked for, MJS_POLL_EOF
\* and MJS_POLL_ERROR (one flag here) only reported.
Kinds == {"r", "w"}
Flags == Kinds \cup {"eof"}
Interests == {{"r"}, {"w"}, {"r", "w"}}
Entry == [want : Interests, tok : Tokens]

ASSUME PollerAssumption ==
  /\ None \notin Fds /\ None \notin Tokens /\ None \notin Timeouts
  /\ None \notin Interests /\ None \notin Entry
  /\ Wants \subseteq Interests
  /\ Conds \subseteq SUBSET Flags /\ {} \in Conds
  /\ Timeouts \subseteq Nat /\ MaxEvents \in Nat \ {0}

VARIABLES
  ready,   \* the condition of each descriptor
  reg,     \* history: the last registration the backend accepted
  pc,      \* where the reactor thread is
  arg,     \* the call's fd, interests and token
  batch,   \* what the kernel returned to the wait
  woke,    \* the batch holds the wake source
  earned,  \* history: whether a wake stood behind that
  ns,      \* the wait's *timeout_ns
  slept,   \* how long a wait that timed out has slept
  out,     \* the events handed out
  credit   \* history: a wake no wait has consumed

clientVars ==
  <<ready, reg, pc, arg, batch, woke, earned, ns, slept, out, credit>>
waitVars == <<batch, woke, earned, ns, slept, out>>

NoArg == [fd |-> None, want |-> None, tok |-> None]

ClientInit ==
  /\ ready = [f \in Fds |-> {}]
  /\ reg = [f \in Fds |-> None]
  /\ pc = "idle"
  /\ arg = NoArg
  /\ batch = {} /\ woke = FALSE /\ earned = FALSE
  /\ ns = None /\ slept = 0
  /\ out = {}
  /\ credit = FALSE

Events == [fd : Fds, tok : Tokens, flags : SUBSET Flags]

-----------------------------------------------------------------------------
\* The outside world changes the condition of a descriptor.
BecomeReady(f, c) ==
  /\ c \in Conds \ {ready[f]}
  /\ ready' = [ready EXCEPT ![f] = c]
  /\ UNCHANGED <<reg, pc, arg, waitVars, credit>>

\* A descriptor is closed and its number handed out again: the new one is
\* quiet, and the kernel has dropped what was registered for the old.  (A
\* call on a descriptor borrows its handle, which is not closed meanwhile.)
Reopen(f) ==
  /\ arg.fd # f
  /\ ready' = [ready EXCEPT ![f] = {}]
  /\ reg' = [reg EXCEPT ![f] = None]
  /\ UNCHANGED <<pc, arg, waitVars, credit>>

\* The common part of wait: arguments valid, the kernel call is made.
EnterWait(t) ==
  /\ pc = "idle"
  /\ pc' = "blocked"
  /\ ns' = t
  /\ UNCHANGED <<ready, reg, arg, batch, woke, earned, slept, out, credit>>

\* A kernel returns as many of its pending events as the batch takes.
FullBatch(S, w, pending) ==
  /\ pending > 0
  /\ Cardinality(S) + (IF w THEN 1 ELSE 0) =
       IF pending < MaxEvents THEN pending ELSE MaxEvents

\* The kernel call returns b; w says whether the wake source is among it.
\* The timeout is not looked at again.
KernelReturns(b, w) ==
  /\ pc = "blocked"
  /\ pc' = "woken"
  /\ batch' = b /\ woke' = w /\ earned' = credit
  /\ ns' = None
  /\ UNCHANGED <<ready, reg, arg, slept, out>>

\* It returns nothing, d nanoseconds after the call.
KernelTimesOut(d) ==
  /\ pc = "blocked" /\ ns # None
  /\ pc' = "woken"
  /\ slept' = d
  /\ UNCHANGED <<ready, reg, arg, batch, woke, earned, ns, out>>

\* -EINTR or another error rides through; *out_n is untouched.
WaitFails ==
  /\ pc = "blocked"
  /\ pc' = "idle"
  /\ ns' = None
  /\ UNCHANGED <<ready, reg, arg, batch, woke, earned, slept, out, credit>>

\* The batch is turned into the caller's events.
HandOut(events) ==
  /\ pc = "woken"
  /\ pc' = "ret"
  /\ out' = events /\ batch' = {}
  /\ UNCHANGED <<ready, reg, arg, woke, earned, ns, slept>>

\* The call is over and its frame gone.
ReturnWait ==
  /\ pc = "ret"
  /\ pc' = "idle"
  /\ woke' = FALSE /\ earned' = FALSE
  /\ ns' = None /\ slept' = 0 /\ out' = {}
  /\ UNCHANGED <<ready, reg, arg, batch, credit>>

\* close consumes the handle: every later call is -EINVAL.  The descriptors
\* stay open.
ClosePoller ==
  /\ pc = "idle"
  /\ pc' = "closed"
  /\ reg' = [f \in Fds |-> None]
  /\ credit' = FALSE
  /\ UNCHANGED <<ready, arg, waitVars>>

ClientTypeOK ==
  /\ ready \in [Fds -> Conds]
  /\ pc \in {"idle", "set", "blocked", "woken", "ret", "closed"}
  /\ batch \subseteq [fd : Fds, tok : Tokens \cup {None}, flags : SUBSET Flags]
  /\ woke \in BOOLEAN /\ earned \in BOOLEAN /\ credit \in BOOLEAN
  /\ ns \in Timeouts \cup {None} /\ slept \in Nat
  /\ out \subseteq Events

-----------------------------------------------------------------------------
\* A wait hands out what is registered: the exact token and nothing that was
\* not asked for, except EOF and errors, which are always reported.
DeliveredIsRegistered ==
  \A e \in out : reg[e.fd] \in Entry =>
    /\ e.tok = reg[e.fd].tok
    /\ e.flags \subseteq reg[e.fd].want \cup {"eof"}
==============================================================================
