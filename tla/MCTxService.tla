---------------------------- MODULE MCTxService ----------------------------
(***************************************************************************)
(* Small instances of TxService.  User 1 owns the accounts 1 and 2, user 2 *)
(* owns account 3; amounts range over -4..3.                               *)
(***************************************************************************)
EXTENDS TxServiceInv, TLC

Acct(i, u, n, c, k, act) ==
    [id |-> i, user |-> u, name |-> n, currency |-> c, kind |-> k, is_active |-> act]

Req(op, u, k, from, to, n, target) ==
    [op |-> op, user |-> u, key |-> k, account |-> from, to |-> to, amount |-> n,
     currency |-> "USD", at |-> [utc |-> 1, local |-> 1], target |-> target]

Create(u, k, acc, n) == Req("create", u, k, acc, 0, n, 0)
Transfer(u, k, from, to, n) == Req("transfer", u, k, from, to, n, 0)
Reverse(u, k, target) == Req("reverse", u, k, 0, 0, 0, target)

\* The same instant written in a zone where it falls in the next month.
Zoned(r) == [r EXCEPT !.at.local = 2]

MCUsers == {1, 2}

\* A user registered after the migration: no external account yet.
FreshAccounts ==
    {Acct(1, 1, "Cash", "USD", "normal", TRUE),
     Acct(2, 1, "Bank", "USD", "normal", TRUE)}

\* One key under several payloads, a request without a key, and reversals of the
\* first transaction.
KeyRequests ==
    {Create(1, "k", 1, 1), Zoned(Create(1, "k", 1, 1)), Transfer(1, "k", 1, 2, 2),
     Create(1, "", 2, 2), Reverse(1, "", 1)}

\* Users the migration gave an external account, and one legacy header.
OldAccounts ==
    {Acct(1, 1, "Cash", "USD", "normal", TRUE),
     Acct(2, 1, "Old", "USD", "normal", FALSE),
     Acct(3, 2, "Cash", "USD", "normal", TRUE),
     Acct(4, 1, "External", "USD", "external", TRUE),
     Acct(5, 1, "Euro", "EUR", "normal", TRUE)}

OldTransactions ==
    {[id |-> 1, user |-> 1, by |-> NoReq, postings |-> <<>>, currency |-> "USD",
      at |-> 0, reversal_of |-> 0],
     [id |-> 2, user |-> 1, by |-> NoReq, currency |-> "USD", at |-> 0,
      reversal_of |-> 0,
      postings |-> <<[account |-> 1, amount |-> MaxInt],
                     [account |-> 4, amount |-> -MaxInt]>>]}

\* Reversals of a row, of a legacy header and of a reversal, by its owner
\* twice over and by somebody else.
ReverseRequests ==
    {Reverse(1, "k", 2), Reverse(1, "", 2), Reverse(2, "", 2), Reverse(1, "", 1),
     Reverse(1, "k", 3), Reverse(1, "", 3)}

\* What user 1 owned when the migration gave every user an external account.
MigratedAccounts == {a \in OldAccounts : a.user = 1}

\* Every check on a leg: owner, active, currency, existence; and the amount
\* without a negation.
CheckRequests ==
    {Create(1, "", 1, 1), Create(1, "", 1, MinInt), Create(1, "", 2, 1), Create(1, "", 3, 1), Create(1, "", 5, 1),
     Create(1, "", 9, 1), Create(2, "", 3, -1), Create(1, "", 1, 0),
     Transfer(1, "", 1, 3, 1), Transfer(1, "", 1, 1, 1), Transfer(1, "", 1, 2, -1),
     Transfer(1, "k", 1, 4, 1)}

PostingRequests == ReverseRequests \cup CheckRequests

NoAccountPosts == {}
NoTransactions == {}
AccountPosts == {[user |-> 2, name |-> "External", currency |-> "USD"],
                 [user |-> 2, name |-> "Cash", currency |-> "USD"]}

ProcSymmetry == Permutations(Procs)
=============================================================================
