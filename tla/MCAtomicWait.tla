---------------------------- MODULE MCAtomicWait ----------------------------
\* One slot with two colliding addresses, two values of a word, two threads
\* that wait, with and without a deadline, and one that wakes.
EXTENDS AtomicWait

CONSTANTS t1, t2, t3, a1, a2

MCSleepers == {t1, t2}
MCWakers == {t3}
MCThreads == MCSleepers \cup MCWakers
MCAddrs == {a1, a2}
MCValues == {0, 1}

\* Only is SelectSeq of the standard modules, on every list of up to three records
\* in which threads may even repeat.
ASSUME OnlySelects ==
  \A s \in UNION {[1..k -> MCThreads] : k \in 0..3}, S \in SUBSET MCThreads :
    Only(s, S) = SelectSeq(s, LAMBDA w : w \in S)
=============================================================================
