-------------------------------- MODULE Futex --------------------------------
(***************************************************************************)
(* What mjs_atomic_wait_on_u32, mjs_atomic_wake_one_u32 and                *)
(* mjs_atomic_wake_all_u32 promise: the compare-and-block of a futex.      *)
(* Comparing the word and joining the waiters is one step; a wake takes    *)
(* waiters of its own address only and returns how many it took; a taken   *)
(* waiter returns 0 and never -ETIMEDOUT.                                  *)
(***************************************************************************)
EXTENDS Naturals, FiniteSets

CONSTANTS Threads, Addrs, Values, Zero

VARIABLES
  word,    \* the u32 words
  call,    \* each thread: "none", a pending operation, "waiting", or an outcome
  key,     \* the address argument of the call
  count    \* the number of waiters a wake took

futexVars == <<word, call, key, count>>

Waiters(a) == {t \in Threads : call[t] = "waiting" /\ key[t] = a}

Init ==
  /\ word \in [Addrs -> Values]
  /\ call = [t \in Threads |-> "none"]
  /\ key \in [Threads -> Addrs]
  /\ count = [t \in Threads |-> 0]

\* A client writes a word; the library is not involved.
Store(a, v) ==
  /\ word' = [word EXCEPT ![a] = v]
  /\ UNCHANGED <<call, key, count>>

Invoke(t, o, a) ==
  /\ call[t] = "none"
  /\ call' = [call EXCEPT ![t] = o]
  /\ key' = [key EXCEPT ![t] = a]
  /\ UNCHANGED <<word, count>>

Block(t) ==
  /\ call[t] = "wait"
  /\ word[key[t]] = Zero
  /\ call' = [call EXCEPT ![t] = "waiting"]
  /\ UNCHANGED <<word, key, count>>

\* The word differs, at the call or at a later look: return 0.
Differs(t) ==
  /\ call[t] \in {"wait", "waiting"}
  /\ word[key[t]] # Zero
  /\ call' = [call EXCEPT ![t] = "ok"]
  /\ UNCHANGED <<word, key, count>>

\* The deadline passes; the word may change unseen after the comparison.
TimeOut(t) ==
  /\ call[t] = "waiting" \/ (call[t] = "wait" /\ word[key[t]] = Zero)
  /\ call' = [call EXCEPT ![t] = "timed_out"]
  /\ UNCHANGED <<word, key, count>>

\* A wake takes one waiter of its address, if there is one, or all of them.
Wake(t) ==
  /\ call[t] \in {"wake_one", "wake_all"}
  /\ \E W \in SUBSET Waiters(key[t]) :
       /\ IF call[t] = "wake_all" \/ Waiters(key[t]) = {}
            THEN W = Waiters(key[t])
            ELSE Cardinality(W) = 1
       /\ call' = [u \in Threads |->
                     IF u = t THEN "woke" ELSE IF u \in W THEN "ok" ELSE call[u]]
       /\ count' = [count EXCEPT ![t] = Cardinality(W)]
  /\ UNCHANGED <<word, key>>

\* The arguments of a call that is over mean nothing any more.
Return(t) ==
  /\ call[t] \in {"ok", "timed_out", "woke"}
  /\ call' = [call EXCEPT ![t] = "none"]
  /\ \E a \in Addrs : key' = [key EXCEPT ![t] = a]
  /\ count' = [count EXCEPT ![t] = 0]
  /\ UNCHANGED word

Next ==
  \/ \E a \in Addrs, v \in Values : Store(a, v)
  \/ \E t \in Threads :
       \/ \E o \in {"wait", "wake_one", "wake_all"}, a \in Addrs : Invoke(t, o, a)
       \/ Block(t) \/ Differs(t) \/ TimeOut(t)
       \/ Wake(t)
       \/ Return(t)

Spec == Init /\ [][Next]_futexVars
=============================================================================
