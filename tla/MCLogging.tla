----------------------------- MODULE MCLogging -----------------------------
(* Instances of Logging for TLC. *)
EXTENDS Logging
=============================================================================
