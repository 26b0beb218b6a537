------------------------------- MODULE Pollers -------------------------------
(***************************************************************************)
(* The readiness backend of a platform: epoll on Linux, kqueue on darwin   *)
(* and the BSDs.  The build compiles one and replaces the other by stubs   *)
(* that answer -ENOSYS, so its state never changes.  A reactor is written  *)
(* once against both.                                                      *)
(***************************************************************************)
EXTENDS EpollPoller, KqueuePoller

VARIABLE backend

vars == <<clientVars, epollVars, kqueueVars, backend>>

Init ==
  /\ ClientInit /\ EpollInit /\ KqueueInit
  /\ backend \in {"epoll", "kqueue"}

\* A step of one backend, the other being a stub.
OnEpoll(A) == backend = "epoll" /\ A /\ UNCHANGED <<kqueueVars, backend>>
OnKqueue(A) == backend = "kqueue" /\ A /\ UNCHANGED <<epollVars, backend>>

Next == OnEpoll(EpollNext) \/ OnKqueue(KqueueNext)

Spec == Init /\ [][Next]_vars

-----------------------------------------------------------------------------
\* The reactor of a runtime loops: it calls wait again and again, and its
\* own steps inside a call are not delayed for ever.
Enter == OnEpoll(EpollWaitEnter) \/ OnKqueue(KqueueWaitEnter)

Inside ==
  \/ OnEpoll(EpollDeliver \/ EpollReturn \/ EpollSetTable)
  \/ OnKqueue(KqueueDeliver \/ KqueueReturn \/ KqueueSetWrite
              \/ KqueueSetWriteFails)

\* A kernel in time reports each pending event to a caller that keeps
\* waiting: epoll and kqueue hold them in a queue.
ReturnFor(f, k) == \E w \in BOOLEAN :
  \/ \E S \in SUBSET EpollAvailable :
       f \in S /\ OnEpoll(EpollWaitReturn(S, w))
  \/ \E S \in SUBSET KqueueAvailable :
       <<f, k>> \in S /\ OnKqueue(KqueueWaitReturn(S, w))

ReturnWake ==
  \/ \E S \in SUBSET EpollAvailable : OnEpoll(EpollWaitReturn(S, TRUE))
  \/ \E S \in SUBSET KqueueAvailable : OnKqueue(KqueueWaitReturn(S, TRUE))

Fairness ==
  /\ WF_vars(Inside) /\ SF_vars(Enter) /\ SF_vars(ReturnWake)
  /\ \A f \in Fds : SF_vars(ReturnFor(f, "r"))

FairSpec == Spec /\ Fairness

TypeOK ==
  /\ ClientTypeOK /\ EpollTypeOK /\ KqueueTypeOK
  /\ reg \in [Fds -> Entry \cup {None, Half}]

-----------------------------------------------------------------------------
\* The two timeouts epoll does not sleep in full: one past the longest wait
\* of epoll_wait, and one so large that rounding it up wraps.
Longest == IntMax * NsPerMs
Wraps(t) == t + NsPerMs - 1 > WordMax

\* A wait that timed out has slept for all the time it was given, or is one
\* of these.
TimeIsUp ==
  /\ ns # None
  /\ \/ slept >= ns
     \/ backend = "epoll" /\ (slept >= Longest \/ Wraps(ns))

\* A wait returns without an event only because of a wake, each wake ending
\* one wait, or because the whole time it was given has passed.  Only epoll
\* may return sooner: after the longest wait there is, or, with a timeout
\* within a millisecond of UINT64_MAX, at once.
ZeroEventsMeanWakeOrTimeout ==
  pc = "ret" /\ out = {} => (woke /\ earned) \/ TimeIsUp

\* A registered descriptor has input to report: a level for epoll, a
\* transition for kqueue.
Due(f) ==
  IF backend = "epoll" THEN "r" \in EpollFlags(f)
  ELSE <<f, "r">> \in KqueueAvailable

\* It is still registered, and still ready.
Wanted(f) ==
  IF backend = "epoll" THEN "r" \in EpollFlags(f)
  ELSE kn[f]["r"] # None /\ Fires("r", ready[f])

\* Input that is due reaches a reactor that keeps waiting, whatever else is
\* pending, unless the descriptor stops being ready or registered.
DueIsDelivered ==
  \A f \in Fds :
    Due(f) ~> ((\E e \in out : e.fd = f /\ "r" \in e.flags) \/ ~Wanted(f))

\* A wake is not lost: some wait consumes it, unless the poller is closed.
WakeIsSeen == credit ~> ((pc = "ret" /\ woke) \/ pc = "closed")
==============================================================================
