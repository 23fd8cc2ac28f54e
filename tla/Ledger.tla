------------------------------- MODULE Ledger -------------------------------
(***************************************************************************)
(* What the ledger promises its clients, without goroutines, statements or *)
(* locks: an append-only book of balanced transactions in which a key      *)
(* books at most one transaction, a transaction is reversed at most once,  *)
(* and the event of a transaction appears together with it.                *)
(***************************************************************************)
EXTENDS Postings

VARIABLES
    book,     \* transactions: [id, user, currency, reversal_of, postings]
    keys,     \* spent idempotency keys: [user, key, tx]
    events    \* ids of the transactions announced, in order

ledger == <<book, keys, events>>

Init == keys = {} /\ events = <<>> /\ \A t \in book : Balanced(t.postings)

Entry(t) ==
    /\ Balanced(t.postings)
    /\ \A u \in book : u.id # t.id

\* A transaction of its own.
Fresh(t) == t.reversal_of = 0

\* A correction of an entry of the same user that is no correction itself and
\* has none yet.
Corrects(t) ==
    \E o \in book :
        /\ o.id = t.reversal_of /\ o.reversal_of = 0
        /\ o.user = t.user /\ o.currency = t.currency
        /\ t.postings = Negated(o.postings)
        /\ \A u \in book : u.reversal_of # o.id

\* The key, if the client sent one, was unused and is spent on t.
Spends(t) ==
    \/ UNCHANGED keys
    \/ \E k \in keys' :
         /\ keys' = keys \cup {k}
         /\ k.user = t.user /\ k.tx = t.id
         /\ \A j \in keys : <<j.user, j.key>> # <<k.user, k.key>>

Post ==
    \E t \in book' :
        /\ book' = book \cup {t}
        /\ Entry(t)
        /\ Fresh(t) \/ Corrects(t)
        /\ Spends(t)
        /\ events' = Append(events, t.id)

Spec == Init /\ [][Post]_ledger
=============================================================================
