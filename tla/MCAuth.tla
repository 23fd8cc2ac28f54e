------------------------------- MODULE MCAuth -------------------------------
(* A small instance of Auth for model checking. *)
EXTENDS Auth, TLC

CONSTANTS ann, bob, blank, p1, p2, short, long

MCNames == {ann, bob, blank}
MCNoAt == {blank}
MCPasswords == {p1, p2, short, long}
MCKey == [p \in MCPasswords |-> IF p = long THEN p2 ELSE p]
MCLength == (p1 :> 1) @@ (p2 :> 2) @@ (short :> 0) @@ (long :> 3)

Symmetry == Permutations(Clients) \cup Permutations(Instances) \cup Permutations({ann, bob})
=============================================================================
