--------------------------- MODULE MCFiberStacks ---------------------------
(* The instance of FiberStacks that TLC checks.  Fibers, threads and       *)
(* addresses are interchangeable.                                          *)
EXTENDS FiberStacks, TLC

Symmetry == Permutations(Fibers) \cup Permutations(Threads) \cup Permutations(Bases)
==============================================================================
