----------------------------- MODULE MCListings -----------------------------
(* Small instances of Listings for model checking. *)
EXTENDS Listings, TLC

MCIds == 1..3
MCInstants == 1..3
MCLimits == {0, 1, 4, 8}

Symmetry == Permutations(Users) \cup Permutations(Accounts)
=============================================================================
