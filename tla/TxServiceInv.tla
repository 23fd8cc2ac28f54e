---------------------------- MODULE TxServiceInv ----------------------------
(***************************************************************************)
(* The inductive invariant behind the safety properties of TxService: what *)
(* a goroutine has established by the time it is at a statement, and what  *)
(* its uncommitted rows keep the others from doing.                        *)
(***************************************************************************)
EXTENDS TxService

\* What a goroutine carries at each of its statements.
LocalInv ==
    \A p \in Procs :
        /\ pc[p] = "idle" <=> req[p] = NoReq
        /\ pc[p] # "idle" => Validate(req[p]) = "ok"
        /\ pc[p] \in {"external", "lazy"} =>
             req[p].op = "create" /\ legs[p] = ReqLegs(req[p])
        /\ pc[p] = "check" => req[p].op # "reverse"
        /\ pc[p] = "load" => req[p].op = "reverse"
        /\ pc[p] \notin {"check", "write", "commit", "invalidate"} => ext[p] = 0

\* Transaction ids are never shared: not by committed rows, not with or
\* between rows that wait for their commit.
IdInv ==
    /\ \A t \in transactions : t.id < tx_seq
    /\ \A t, u \in transactions : t.id = u.id => t = u
    /\ \A p \in Procs : pc[p] = "commit" =>
         /\ id[p] # 0 /\ id[p] < tx_seq
         /\ \A t \in transactions : t.id # id[p]
    /\ \A p, q \in Procs :
         pc[p] = "commit" /\ pc[q] = "commit" /\ id[p] = id[q] => p = q
    /\ \A p \in Procs : pc[p] = "invalidate" => id[p] # 0

\* A goroutine past its claim owns its key: no committed row has it, and no
\* other goroutine is past a claim of it.
KeyInv ==
    /\ \A p \in Procs : pc[p] \in Claimed /\ req[p].key # NoKey =>
         \A k \in idempotency_keys : k.user = req[p].user => k.key # req[p].key
    /\ \A p, q \in Procs :
         /\ pc[p] \in Claimed /\ pc[q] \in Claimed
         /\ req[p].key # NoKey
         /\ req[p].user = req[q].user /\ req[p].key = req[q].key
         => p = q

\* A goroutine that writes a reversal holds the negation of a transaction it
\* may reverse; one that waits for its commit is the only one to reverse it.
ReversalInv ==
    /\ \A p \in Procs : pc[p] \in {"write", "commit"} /\ req[p].op = "reverse" =>
         \E o \in transactions :
            /\ o.id = req[p].target /\ o.user = req[p].user /\ o.reversal_of = 0
            /\ legs[p] = Negated(o.postings)
    /\ \A p \in Procs : pc[p] = "commit" /\ req[p].op = "reverse" =>
         \A t \in transactions : t.reversal_of # req[p].target
    /\ \A p, q \in Procs :
         /\ pc[p] = "commit" /\ pc[q] = "commit"
         /\ req[p].op = "reverse" /\ req[q].op = "reverse"
         /\ req[p].target = req[q].target
         => p = q

\* A goroutine that inserted an external account is the only one of its user
\* to have one.
ExternalInv ==
    /\ \A p \in Procs : ext[p] # 0 /\ pc[p] \in InTx =>
         \A a \in accounts : a.user = req[p].user => a.kind # "external"
    /\ \A p, q \in Procs :
         /\ ext[p] # 0 /\ ext[q] # 0 /\ pc[p] \in InTx /\ pc[q] \in InTx
         /\ req[p].user = req[q].user
         => p = q

IInv ==
    /\ TypeOK /\ LocalInv /\ IdInv /\ KeyInv /\ ReversalInv /\ ExternalInv
    /\ ZeroSum /\ ExactlyOnce /\ KeyWithTransaction /\ ReversedOnce /\ OneExternal
=============================================================================
