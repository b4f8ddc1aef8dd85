------------------------------ MODULE MCBuffer ------------------------------
(* Instances of Buffer for TLC. *)
EXTENDS Buffer

Written == 1..5
=============================================================================
