-------------------------- MODULE CountingSemaphore --------------------------
(***************************************************************************)
(* What NativeSemaphore promises its callers: a counting semaphore whose   *)
(* calls take effect at one instant between their start and their return.  *)
(* A bounded acquire (wait_until, try_wait) may come back empty-handed     *)
(* only at an instant at which there is no permit; wait never does.        *)
(***************************************************************************)
EXTENDS Integers

CONSTANTS Threads, Initial

VARIABLES
  permits,  \* permits nobody has taken
  call      \* what each thread is in: no call, a pending one, or its outcome

semVars == <<permits, call>>

Bounded == {"wait_until", "try_wait"}
Acquires == Bounded \cup {"wait"}

Init ==
  /\ permits = Initial
  /\ call = [t \in Threads |-> "none"]

Invoke(t, o) ==
  /\ call[t] = "none"
  /\ call' = [call EXCEPT ![t] = o]
  /\ UNCHANGED permits

Post(t) ==
  /\ call[t] = "post"
  /\ permits' = permits + 1
  /\ call' = [call EXCEPT ![t] = "ok"]

Acquire(t) ==
  /\ call[t] \in Acquires
  /\ permits > 0
  /\ permits' = permits - 1
  /\ call' = [call EXCEPT ![t] = "ok"]

Refuse(t) ==
  /\ call[t] \in Bounded
  /\ permits = 0
  /\ call' = [call EXCEPT ![t] = "refused"]
  /\ UNCHANGED permits

Return(t) ==
  /\ call[t] \in {"ok", "refused"}
  /\ call' = [call EXCEPT ![t] = "none"]
  /\ UNCHANGED permits

Next ==
  \E t \in Threads :
    \/ \E o \in Acquires \cup {"post"} : Invoke(t, o)
    \/ Post(t)
    \/ Acquire(t)
    \/ Refuse(t)
    \/ Return(t)

Spec == Init /\ [][Next]_semVars
=============================================================================
