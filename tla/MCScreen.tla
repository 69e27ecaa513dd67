------------------------------ MODULE MCScreen ------------------------------
(* Screen for TLC. *)
EXTENDS Screen

Letters == {"a"}
=============================================================================
