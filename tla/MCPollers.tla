------------------------------ MODULE MCPollers ------------------------------
\* Two descriptors that share a home slot of a table of two: displaced
\* entries, tombstones in front of them, and a table without an empty slot.
\* A caller's batch of two with up to three events pending.
EXTENDS Pollers

MCFds == {1, 2}
MCHash == <<0, 0>>
MCWants == {{"w"}, {"r", "w"}}
MCConds == {{}, {"r", "eof"}}

\* With a word of 63, ten nanoseconds to the millisecond and waits of three
\* milliseconds at most: a timeout that is rounded up, one that is clamped
\* and one whose sum wraps.
MCTimeouts == {5, 45, 60}

\* Tokens that are no descriptor's number, and tokens that are.
MCOpaque == [t \in Tokens |-> None]
MCNumbers == [t \in Tokens |-> t]
==============================================================================
