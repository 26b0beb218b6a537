----------------------------- MODULE MCNativeSem -----------------------------
\* The semaphore with three threads, each free to post, wait, wait with a
\* deadline, try, and destroy.
EXTENDS NativeSem

CONSTANTS t1, t2, t3

MCThreads == {t1, t2, t3}
=============================================================================
