---------------------------- MODULE MCNativeEvent ----------------------------
\* The event with three threads, each free to signal, wait, wait with a
\* deadline, and destroy.
EXTENDS NativeEvent

CONSTANTS t1, t2, t3

MCThreads == {t1, t2, t3}
=============================================================================
