------------------------------ MODULE Postings ------------------------------
(***************************************************************************)
(* Amounts and legs: the int64 arithmetic of the service and the sum the   *)
(* database trigger takes.                                                 *)
(***************************************************************************)
EXTENDS Integers, Sequences

CONSTANT MaxInt         \* largest amount_minor; 2^63 - 1 in the code

ASSUME MaxIntAssumption == MaxInt \in Nat \ {0}

MinInt == -MaxInt - 1
Int64 == MinInt..MaxInt

\* Go's int64 arithmetic wraps: the negation of MinInt is MinInt.
Wrap(n) == ((n - MinInt) % (2 * MaxInt + 2)) + MinInt
Neg(n) == Wrap(-n)

\* service.Leg, and a row of postings.
Leg == [account : Nat, amount : Int64]

\* The amounts added without bound, as Postgres' SUM(bigint) does.
Total(ls) ==
    LET S[n \in 0..Len(ls)] == IF n = 0 THEN 0 ELSE S[n - 1] + ls[n].amount
    IN  S[Len(ls)]

Balanced(ls) == Total(ls) = 0

\* The postings of a reversal.
Negated(ls) ==
    [i \in 1..Len(ls) |-> [account |-> ls[i].account, amount |-> Neg(ls[i].amount)]]
=============================================================================
