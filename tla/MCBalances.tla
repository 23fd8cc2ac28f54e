----------------------------- MODULE MCBalances -----------------------------
EXTENDS Balances, TLC

\* The scheduler's 00:05, later than any transaction of the day before.
Scheduled == 1..2
\* POST /admin/snapshot/run: any time.
AnyTime == 0..2

Symmetry == Permutations(Postings) \cup Permutations(Workers)
=============================================================================
