--------------------------- MODULE AtomicWaitFifo ---------------------------
(***************************************************************************)
(* AtomicWait with a history variable: the order in which the threads that *)
(* now wait began to.                                                      *)
(***************************************************************************)
EXTENDS AtomicWait

CONSTANTS t1, t2, t3, a1, a2

MCSleepers == {t1, t2}
MCWakers == {t3}
MCThreads == MCSleepers \cup MCWakers
MCAddrs == {a1, a2}
MCValues == {0, 1}

VARIABLE arrivals

NowWaiting == {t \in Threads : CallOf(t) = "waiting"}

HistoryStep ==
  LET kept == SelectSeq(arrivals, LAMBDA t : t \in NowWaiting')
  IN  \E new \in SetToSeqs(NowWaiting' \ ToSet(arrivals)) : arrivals' = kept \o new

FifoSpec ==
  /\ Init /\ arrivals = <<>>
  /\ [][Next /\ HistoryStep]_<<vars, arrivals>>

\* "FIFO wake choice within an address, like the kernel's queue"
\* (mjs_atomic_wait.c): mjs_atomic_wake_one_u32 takes the waiter of its address
\* that has waited longest.
FifoWake ==
  [][\A t \in Threads :
       pc[t] = "body" /\ op[t] = "wake_one" /\ pc'[t] # "body" =>
         marked' \ marked \subseteq First(SelectSeq(arrivals, LAMBDA w : key[w] = key[t]))
    ]_<<vars, arrivals>>
=============================================================================
