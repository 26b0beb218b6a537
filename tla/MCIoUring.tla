------------------------------ MODULE MCIoUring ------------------------------
(***************************************************************************)
(* Instances of IoUring.  Both descriptors have the same home slot, like   *)
(* two whose numbers differ by a multiple of the code's 128 slots: the     *)
(* second is displaced, and found by probing.                              *)
(***************************************************************************)
EXTENDS IoUring

MCConds == {{"r"}}
MCWants == {{"r"}}
MCHash == [f \in Fds |-> 0]
==============================================================================
