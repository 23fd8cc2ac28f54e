------------------------------ MODULE MCServer ------------------------------
(* A small instance of Server for model checking. *)
EXTENDS Server, TLC
=============================================================================
