--------------------------- MODULE AutoResetEvent ---------------------------
(***************************************************************************)
(* What NativeEvent promises its callers: one token at most; a signal      *)
(* makes it pending, whether or not it was; a wait consumes it; a bounded  *)
(* wait gives up only at an instant without a token.  Every call takes     *)
(* effect at one instant between its start and its return.                 *)
(***************************************************************************)
CONSTANT Threads

VARIABLES
  token,  \* TRUE while a token is pending
  call    \* what each thread is in: no call, a pending one, or its outcome

eventVars == <<token, call>>

Init ==
  /\ token = FALSE
  /\ call = [t \in Threads |-> "none"]

Invoke(t, o) ==
  /\ call[t] = "none"
  /\ call' = [call EXCEPT ![t] = o]
  /\ UNCHANGED token

Signal(t) ==
  /\ call[t] = "signal"
  /\ token' = TRUE
  /\ call' = [call EXCEPT ![t] = "ok"]

Consume(t) ==
  /\ call[t] \in {"wait", "wait_until"}
  /\ token
  /\ token' = FALSE
  /\ call' = [call EXCEPT ![t] = "ok"]

TimeOut(t) ==
  /\ call[t] = "wait_until"
  /\ ~token
  /\ call' = [call EXCEPT ![t] = "timed_out"]
  /\ UNCHANGED token

Return(t) ==
  /\ call[t] \in {"ok", "timed_out"}
  /\ call' = [call EXCEPT ![t] = "none"]
  /\ UNCHANGED token

Next ==
  \E t \in Threads :
    \/ \E o \in {"signal", "wait", "wait_until"} : Invoke(t, o)
    \/ Signal(t) \/ Consume(t) \/ TimeOut(t) \/ Return(t)

Spec == Init /\ [][Next]_eventVars
=============================================================================
