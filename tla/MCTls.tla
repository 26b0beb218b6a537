------------------------------- MODULE MCTls -------------------------------
(* The instance of Tls that TLC checks. *)
EXTENDS Tls
==============================================================================
