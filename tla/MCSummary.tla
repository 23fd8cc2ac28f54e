----------------------------- MODULE MCSummary -----------------------------
(* Small instances of Summary for model checking. *)
EXTENDS Summary, TLC

TwoMonths == 1..2
Symmetry == Permutations(Txs) \cup Permutations(Readers)
=============================================================================
