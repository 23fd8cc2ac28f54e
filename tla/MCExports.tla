----------------------------- MODULE MCExports -----------------------------
(* Small instances of Exports for model checking. *)
EXTENDS Exports, TLC

Symmetry == Permutations(Users) \cup Permutations(Workers)
=============================================================================
