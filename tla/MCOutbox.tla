------------------------------ MODULE MCOutbox ------------------------------
EXTENDS Outbox, TLC

Symmetry == Permutations(Workers) \cup Permutations(Events)
=============================================================================
