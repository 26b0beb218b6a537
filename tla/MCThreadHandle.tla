--------------------------- MODULE MCThreadHandle ---------------------------
\* The first thread and two children, which may spawn, join and detach each
\* other and themselves, with two different statuses.
EXTENDS ThreadHandle

CONSTANTS c1, c2

MCChildren == {c1, c2}
MCValues == {0, 1}
=============================================================================
