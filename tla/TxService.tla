----------------------------- MODULE TxService -----------------------------
(***************************************************************************)
(* The transaction service: POST /transactions, /transfers and             *)
(* /transactions/{id}/reverse, each one Postgres transaction under READ    *)
(* COMMITTED, run by concurrent request goroutines over a shared pool.     *)
(*                                                                         *)
(* One action is one SQL statement that other transactions can observe or  *)
(* wait on.  Rows a transaction has inserted and not committed live in the *)
(* goroutine's own state; a second insert of a unique key waits for the    *)
(* first inserter to end, as Postgres makes it wait.                       *)
(***************************************************************************)
EXTENDS Postings, FiniteSets

CONSTANTS
    Procs,          \* request goroutines
    Requests,       \* the requests clients may send, and send again
    NoReq,          \* no request: an idle goroutine, or a row older than Init
    MaxConns,       \* size of the pgx pool
    MaxRequests,    \* bound: requests sent in a behaviour
    NewAccounts,    \* bodies clients may POST to /accounts
    MaxAccounts,    \* bound: value of the accounts id sequence
    Users,          \* user ids
    Users0,         \* users registered before Init
    Accounts0,      \* rows of accounts before Init
    AccountSeq0,    \* next value of the accounts id sequence
    Transactions0,  \* headers and postings before Init
    TxSeq0,         \* next value of the transactions id sequence
    Now             \* the month in which time.Now() falls

NoKey == ""         \* no Idempotency-Key header

\* occurred_at, as far as months tell it apart: its month in UTC and in the
\* zone the client wrote it in.
Instant == [utc : Nat, local : Nat]

Request == [op : {"create", "transfer", "reverse"}, user : Users, key : STRING,
            account : Nat, to : Nat, amount : Int64, currency : STRING,
            at : Instant, target : Nat]

Account == [id : Nat \ {0}, user : Users, name : STRING, currency : STRING,
            kind : {"normal", "external"}, is_active : BOOLEAN]

\* A header with its postings; by is history: the request that wrote it.
Transaction == [id : Nat \ {0}, user : Users, by : Requests \cup {NoReq},
                postings : Seq(Leg), currency : STRING, at : Nat,
                reversal_of : Nat]

ASSUME ConstantsAssumption ==
    /\ MaxConns \in Nat \ {0}
    /\ MaxRequests \in Nat /\ MaxAccounts \in Nat
    /\ AccountSeq0 \in Nat \ {0} /\ TxSeq0 \in Nat \ {0}
    /\ Now \in Nat
    /\ Users0 \subseteq Users

\* True of every string literal; the provers have to be told.
ASSUME ExternalNameAssumption == "External" \in STRING

ASSUME RequestsAssumption ==
    /\ NoReq \notin Requests
    /\ Requests \subseteq Request
    /\ NewAccounts \subseteq [user : Users, name : STRING, currency : STRING]

\* A body has no more than its handler decodes: the other fields of Request tell
\* no two requests of an operation apart.
ASSUME BodiesAssumption ==
    \A r, s \in Requests : r.op = s.op =>
        /\ r.op = "create" => r.to = s.to
        /\ r.op # "reverse" => r.target = s.target
        /\ r.op = "reverse" =>
             /\ r.account = s.account /\ r.to = s.to /\ r.amount = s.amount
             /\ r.currency = s.currency /\ r.at = s.at

\* What the unique indexes of the schema guarantee of the rows before Init.
ASSUME Accounts0Assumption ==
    /\ Accounts0 \subseteq Account
    /\ \A a \in Accounts0 : a.id < AccountSeq0 /\ a.user \in Users0
    /\ \A a, b \in Accounts0 :
         \/ a.id = b.id
         \/ a.user = b.user /\ (a.name = b.name \/ {a.kind, b.kind} = {"external"})
         => a = b

\* What the double-entry migration leaves: balanced transactions whose amounts
\* could all be negated, and no postings under a legacy zero-amount header.  That
\* they are on accounts of their user, in its currency, is assumed of the rows
\* the migration found; it does not check it.
ASSUME Transactions0Assumption ==
    /\ Transactions0 \subseteq Transaction
    /\ \A t \in Transactions0 :
         /\ t.id < TxSeq0 /\ t.by = NoReq /\ t.reversal_of = 0
         /\ Balanced(t.postings)
         /\ \A i \in DOMAIN t.postings : t.postings[i].amount # MinInt
         /\ \A i \in DOMAIN t.postings : \E a \in Accounts0 :
              /\ a.id = t.postings[i].account /\ a.user = t.user
              /\ a.kind = "normal" => a.currency = t.currency
    /\ \A t, u \in Transactions0 : t.id = u.id => t = u
---------------------------------------------------------------------------
VARIABLES
    users,             \* the users table
    accounts,          \* committed rows of accounts
    transactions,      \* committed headers with their postings
    idempotency_keys,  \* committed rows of idempotency_keys
    outbox,            \* committed events, in commit order
    account_seq,       \* next accounts.id; not rolled back
    tx_seq,            \* next transactions.id; not rolled back
    pc,                \* the next statement of each goroutine
    req,               \* the request each goroutine serves
    legs,              \* its legs so far
    ext,               \* id of the external account it inserted, or 0
    id,                \* id of the header it inserted, or 0
    submitted,         \* requests sent so far
    replies            \* history: what was answered to whom

local == <<pc, req, legs, ext, id>>
tables == <<accounts, transactions, idempotency_keys, outbox>>
vars == <<users, tables, account_seq, tx_seq, local, submitted, replies>>

\* Statements between BEGIN and COMMIT: a pool connection is held.
InTx == {"claim", "external", "lazy", "load", "check", "write", "commit"}
\* The idempotency row is inserted and not yet committed.
Claimed == InTx \ {"claim"}

External(u, i, c) ==
    [id |-> i, user |-> u, name |-> "External", currency |-> c,
     kind |-> "external", is_active |-> TRUE]

\* Rows of accounts that p's statements see: committed ones and its own.
Visible(p) ==
    accounts \cup (IF ext[p] = 0 THEN {}
                   ELSE {External(req[p].user, ext[p], req[p].currency)})

UseExternalLeg(r) == r.op = "create"

ReqLegs(r) ==
    CASE r.op = "create"   -> <<[account |-> r.account, amount |-> r.amount]>>
      [] r.op = "transfer" -> <<[account |-> r.account, amount |-> Neg(r.amount)],
                                [account |-> r.to, amount |-> r.amount]>>
      [] OTHER             -> <<>>

\* requestHash and reverseHash: equal exactly when the hashed fields are.
MutHash(r) == [user |-> r.user, currency |-> r.currency]   \* mutant: legs left out
MutZoneHash(r) ==                         \* mutant: occurred_at hashed without UTC()
    [op |-> r.op, user |-> r.user, target |-> r.target, legs |-> ReqLegs(r),
     currency |-> r.currency, at |-> r.at.local]
Hash(r) ==
    IF r.op = "reverse"
    THEN [op |-> "reverse", user |-> r.user, target |-> r.target]
    ELSE [op |-> IF UseExternalLeg(r) THEN "external" ELSE "balanced",
          user |-> r.user, legs |-> ReqLegs(r), currency |-> r.currency,
          at |-> r.at.utc]

validateLegs(ls, useExternalLeg) ==
    IF \E i \in DOMAIN ls : ls[i].amount = 0 THEN "ErrZeroAmount"
    ELSE IF ~useExternalLeg /\ Wrap(Total(ls)) # 0 THEN "ErrUnbalanced"
    ELSE "ok"

\* The checks of Create and Transfer before the database is touched.
Validate(r) ==
    IF r.op = "create" /\ r.amount = 0 THEN "ErrZeroAmount"
    ELSE IF r.op = "transfer" /\ r.amount <= 0 THEN "ErrZeroAmount"
    ELSE IF r.op = "transfer" /\ r.account = r.to THEN "ErrUnbalanced"
    ELSE IF r.op = "reverse" THEN "ok"
    ELSE validateLegs(ReqLegs(r), UseExternalLeg(r))

\* The per-leg checks of createBalanced, in their order.
MutLegError(p, l) ==                      \* mutant: ownership not checked
    LET found == {a \in Visible(p) : a.id = l.account}
    IN  IF found = {} THEN "ErrAccountNotFound"
        ELSE IF \E a \in found : ~a.is_active THEN "ErrAccountInactive" ELSE "ok"
LegError(p, l) ==
    LET found == {a \in Visible(p) : a.id = l.account}
        acc   == CHOOSE a \in found : TRUE
    IN  IF found = {} THEN "ErrAccountNotFound"
        ELSE IF acc.user # req[p].user THEN "ErrForbidden"
        ELSE IF ~acc.is_active THEN "ErrAccountInactive"
        ELSE IF acc.kind # "external" /\ acc.currency # req[p].currency
             THEN "ErrCurrencyMismatch"
        ELSE "ok"
---------------------------------------------------------------------------
Init ==
    /\ users = Users0
    /\ accounts = Accounts0
    /\ transactions = Transactions0
    /\ idempotency_keys = {}
    /\ outbox = <<>>
    /\ account_seq = AccountSeq0
    /\ tx_seq = TxSeq0
    /\ pc = [p \in Procs |-> "idle"]
    /\ req = [p \in Procs |-> NoReq]
    /\ legs = [p \in Procs |-> <<>>]
    /\ ext = [p \in Procs |-> 0]
    /\ id = [p \in Procs |-> 0]
    /\ submitted = 0
    /\ replies = {}

Reply(r, out, tx) == replies' = replies \cup {[req |-> r, out |-> out, tx |-> tx]}

\* Return from the handler.  The deferred Rollback drops the rows inserted
\* and not committed and the locks on them.
Finish(p, out, tx) ==
    /\ Reply(req[p], out, tx)
    /\ pc' = [pc EXCEPT ![p] = "idle"]
    /\ req' = [req EXCEPT ![p] = NoReq]
    /\ legs' = [legs EXCEPT ![p] = <<>>]
    /\ ext' = [ext EXCEPT ![p] = 0]
    /\ id' = [id EXCEPT ![p] = 0]

Goto(p, label) ==
    /\ pc' = [pc EXCEPT ![p] = label]
    /\ UNCHANGED <<req, replies>>

\* Rows of other transactions in flight that make a unique insert wait.
MutNoKeyWait(q, u, k) == FALSE            \* mutant: look the key up, insert it later
HoldsKey(q, u, k) == pc[q] \in Claimed /\ req[q].user = u /\ req[q].key = k
HoldsExternal(q, u) == ext[q] # 0 /\ pc[q] \in InTx /\ req[q].user = u
MutNoReversalWait(q, t) == FALSE          \* mutant: no unique index on reversal_of
HoldsReversal(q, t) == pc[q] = "commit" /\ req[q].op = "reverse" /\ req[q].target = t

\* POST /auth/register inserts a users row and nothing else.
Register(u) ==
    /\ u \notin users
    /\ users' = users \cup {u}
    /\ UNCHANGED <<tables, account_seq, tx_seq, local, submitted, replies>>

\* POST /accounts: one INSERT, committed by itself.
CreateAccount(b) ==
    /\ b.user \in users
    /\ account_seq < MaxAccounts
    /\ ~\E q \in Procs : HoldsExternal(q, b.user) /\ b.name = "External"
    /\ account_seq' = account_seq + 1
    /\ IF \E a \in accounts : a.user = b.user /\ a.name = b.name
       THEN UNCHANGED accounts
       ELSE accounts' = accounts \cup
              {[id |-> account_seq, user |-> b.user, name |-> b.name,
                currency |-> b.currency, kind |-> "normal", is_active |-> TRUE]}
    /\ UNCHANGED <<users, transactions, idempotency_keys, outbox, tx_seq, local,
                   submitted, replies>>

\* A request reaches a handler and is validated.
Submit(p, r) ==
    /\ pc[p] = "idle"
    /\ r.user \in users
    /\ submitted < MaxRequests
    /\ submitted' = submitted + 1
    /\ IF Validate(r) # "ok"
       THEN Reply(r, Validate(r), 0) /\ UNCHANGED <<pc, req>>
       ELSE /\ pc' = [pc EXCEPT ![p] = "begin"]
            /\ req' = [req EXCEPT ![p] = r]
            /\ UNCHANGED replies
    /\ UNCHANGED <<users, tables, account_seq, tx_seq, legs, ext, id>>

\* s.pool.Begin waits for a free connection.
Begin(p) ==
    /\ pc[p] = "begin"
    /\ Cardinality({q \in Procs : pc[q] \in InTx}) < MaxConns
    /\ Goto(p, "claim")
    /\ UNCHANGED <<users, tables, account_seq, tx_seq, legs, ext, id, submitted>>

\* claimIdempotency.  INSERT ... ON CONFLICT DO NOTHING waits for another
\* transaction that has inserted the key; once that one has committed the key
\* is read back.
Claim(p) ==
    LET r     == req[p]
        found == {k \in idempotency_keys : k.user = r.user /\ k.key = r.key}
    IN
    /\ pc[p] = "claim"
    /\ r.key # NoKey => ~\E q \in Procs \ {p} : HoldsKey(q, r.user, r.key)
    /\ \/ /\ r.key = NoKey \/ found = {}
          /\ Goto(p, CASE r.op = "create"   -> "external"
                       [] r.op = "transfer" -> "check"
                       [] OTHER             -> "load")
          /\ legs' = [legs EXCEPT ![p] = ReqLegs(r)]
          /\ UNCHANGED <<ext, id>>
       \/ /\ r.key # NoKey
          /\ \E k \in found :
               IF k.hash # Hash(r) THEN Finish(p, "ErrIdempotencyConflict", 0)
               ELSE IF k.status = "succeeded" THEN Finish(p, "ok", k.response)
               ELSE Finish(p, "ErrIdempotencyInFlight", 0)
    /\ UNCHANGED <<users, tables, account_seq, tx_seq, submitted>>

\* The leg that absorbs the opposite of the explicit legs' sum.
MutAddExternalLeg(p, acc) ==              \* mutant: the sum is not negated
    legs' = [legs EXCEPT ![p] =
               Append(@, [account |-> acc, amount |-> Wrap(Total(@))])]
AddExternalLeg(p, acc) ==
    legs' = [legs EXCEPT ![p] =
               Append(@, [account |-> acc, amount |-> Neg(Wrap(Total(@)))])]

GetExternalAccount(p) ==
    LET found == {a \in accounts : a.user = req[p].user /\ a.kind = "external"}
    IN
    /\ pc[p] = "external"
    /\ \/ /\ found = {}
          /\ Goto(p, "lazy")
          /\ UNCHANGED legs
       \/ \E a \in found : Goto(p, "check") /\ AddExternalLeg(p, a.id)
    /\ UNCHANGED <<users, tables, account_seq, tx_seq, ext, id, submitted>>

\* The one-external index and the unique name of an account.
MutExternalTaken(u) ==                    \* mutant: no one-external index
    \E a \in accounts : a.user = u /\ a.name = "External" /\ a.kind = "normal"
ExternalTaken(u) ==
    \E a \in accounts : a.user = u /\ (a.kind = "external" \/ a.name = "External")

\* The insert runs on the connection of the transaction and waits only for
\* another goroutine's uncommitted external account.
MutExternalFree(p) ==                     \* mutant: s.q instead of qtx, a second connection
    Cardinality({q \in Procs : pc[q] \in InTx}) < MaxConns
ExternalFree(p) == ~\E q \in Procs \ {p} : HoldsExternal(q, req[p].user)

\* A unique violation is not handled: the handler answers 500.
CreateExternalAccount(p) ==
    /\ pc[p] = "lazy"
    /\ ExternalFree(p)
    /\ account_seq' = account_seq + 1
    /\ IF ExternalTaken(req[p].user)
       THEN Finish(p, "internal", 0)
       ELSE /\ ext' = [ext EXCEPT ![p] = account_seq]
            /\ AddExternalLeg(p, account_seq)
            /\ Goto(p, "check")
            /\ UNCHANGED id
    /\ UNCHANGED <<users, tables, tx_seq, submitted>>

\* The checks on every leg; the first leg at fault decides the answer.
CheckLegs(p) ==
    LET bad   == {i \in DOMAIN legs[p] : LegError(p, legs[p][i]) # "ok"}
        first == CHOOSE i \in bad : \A j \in bad : i <= j
    IN
    /\ pc[p] = "check"
    /\ IF bad # {}
       THEN Finish(p, LegError(p, legs[p][first]), 0)
       ELSE Goto(p, "write") /\ UNCHANGED <<legs, ext, id>>
    /\ UNCHANGED <<users, tables, account_seq, tx_seq, submitted>>

\* What Reverse refuses to reverse.
MutOriginalError(orig) ==                 \* mutant: reversals can be reversed
    IF orig.postings = <<>> THEN "ErrTxNotFound" ELSE "ok"
OriginalError(orig) ==
    IF orig.reversal_of # 0 THEN "ErrIsReversal"
    ELSE IF orig.postings = <<>> THEN "ErrTxNotFound"
    ELSE "ok"

\* Reverse reads the original header and its postings.
LoadOriginal(p) ==
    LET found == {t \in transactions : t.id = req[p].target /\ t.user = req[p].user}
    IN
    /\ pc[p] = "load"
    /\ \/ found = {} /\ Finish(p, "ErrTxNotFound", 0)
       \/ \E orig \in found :
            IF OriginalError(orig) # "ok"
            THEN Finish(p, OriginalError(orig), 0)
            ELSE /\ Goto(p, "write")
                 /\ legs' = [legs EXCEPT ![p] = Negated(orig.postings)]
                 /\ UNCHANGED <<ext, id>>
    /\ UNCHANGED <<users, tables, account_seq, tx_seq, submitted>>

\* Header, postings, outbox event and cached response.  Only the header can
\* conflict: reversal_of is unique.
WriteRows(p) ==
    LET r == req[p] IN
    /\ pc[p] = "write"
    /\ r.op = "reverse" => ~\E q \in Procs \ {p} : HoldsReversal(q, r.target)
    /\ tx_seq' = tx_seq + 1
    /\ IF r.op = "reverse" /\ \E t \in transactions : t.reversal_of = r.target
       THEN Finish(p, "ErrAlreadyReversed", 0)
       ELSE /\ id' = [id EXCEPT ![p] = tx_seq]
            /\ Goto(p, "commit")
            /\ UNCHANGED <<legs, ext>>
    /\ UNCHANGED <<users, tables, account_seq, submitted>>

\* The rows p has inserted.
Reversed(r) == CHOOSE t \in transactions : t.id = r.target

NewTransaction(p) ==
    LET r == req[p] IN
    [id |-> id[p], user |-> r.user, by |-> r, postings |-> legs[p],
     currency |-> IF r.op = "reverse" THEN Reversed(r).currency ELSE r.currency,
     at |-> IF r.op = "reverse" THEN Now ELSE r.at.utc,
     reversal_of |-> IF r.op = "reverse" THEN r.target ELSE 0]

MutUnmarked(p) ==                         \* mutant: marked before the header has its id
    IF req[p].key = NoKey THEN {}
    ELSE {[user |-> req[p].user, key |-> req[p].key, hash |-> Hash(req[p]),
           status |-> "succeeded", response |-> 0]}
NewKeys(p) ==
    IF req[p].key = NoKey THEN {}
    ELSE {[user |-> req[p].user, key |-> req[p].key, hash |-> Hash(req[p]),
           status |-> "succeeded", response |-> id[p]]}

MutNewEvent(p) == [type |-> "TransactionCreated", tx |-> id[p]]   \* mutant: one event type
NewEvent(p) ==
    [type |-> IF req[p].op = "reverse" THEN "TransactionReversed"
              ELSE "TransactionCreated",
     tx |-> id[p]]

\* Everything the transaction wrote becomes visible at once.
CommitRows(p) ==
    /\ accounts' = Visible(p)
    /\ transactions' = transactions \cup {NewTransaction(p)}
    /\ idempotency_keys' = idempotency_keys \cup NewKeys(p)
    /\ outbox' = Append(outbox, NewEvent(p))

\* The deferred trigger.
MutNoTrigger(ls) == TRUE                  \* mutant: the trigger is gone
check_transaction_balanced(ls) == Total(ls) = 0

\* COMMIT runs the trigger; what it raises fails the request.
Commit(p) ==
    /\ pc[p] = "commit"
    /\ IF check_transaction_balanced(legs[p])
       THEN CommitRows(p) /\ Goto(p, "invalidate") /\ UNCHANGED <<legs, ext, id>>
       ELSE Finish(p, "internal", 0) /\ UNCHANGED tables
    /\ UNCHANGED <<users, account_seq, tx_seq, submitted>>

\* The summary cache is invalidated, then the handler answers.
Invalidate(p) ==
    /\ pc[p] = "invalidate"
    /\ Finish(p, "ok", id[p])
    /\ UNCHANGED <<users, tables, account_seq, tx_seq, submitted>>

\* A database error, the 10 s request timeout or a crash before COMMIT.
Abort(p) ==
    /\ pc[p] \in InTx \cup {"begin"}
    /\ Finish(p, "internal", 0)
    /\ UNCHANGED <<users, tables, account_seq, tx_seq, submitted>>

\* The server applied COMMIT, and the connection, the context or the process
\* ended before the goroutine learned of it.
CommitLost(p) ==
    /\ pc[p] = "commit"
    /\ check_transaction_balanced(legs[p])
    /\ CommitRows(p)
    /\ Finish(p, "internal", 0)
    /\ UNCHANGED <<users, account_seq, tx_seq, submitted>>

Step(p) ==
    \/ Begin(p)
    \/ Claim(p)
    \/ GetExternalAccount(p)
    \/ CreateExternalAccount(p)
    \/ CheckLegs(p)
    \/ LoadOriginal(p)
    \/ WriteRows(p)
    \/ Commit(p)
    \/ Invalidate(p)

Next ==
    \/ \E u \in Users : Register(u)
    \/ \E b \in NewAccounts : CreateAccount(b)
    \/ \E p \in Procs : \/ \E r \in Requests : Submit(p, r)
                        \/ Step(p)
                        \/ Abort(p)
                        \/ CommitLost(p)

Spec == Init /\ [][Next]_vars

\* Goroutines keep running; faults, clients and registrations need not come.
FairSpec == Spec /\ \A p \in Procs : WF_vars(Step(p))
---------------------------------------------------------------------------
\* Every variable has its type.
TypeOK ==
    /\ users \subseteq Users
    /\ accounts \subseteq Account
    /\ transactions \subseteq Transaction
    /\ \A k \in idempotency_keys :
         /\ k.user \in Users /\ k.key \in STRING \ {NoKey}
         /\ k.status \in {"started", "succeeded"} /\ k.response \in Nat \ {0}
    /\ outbox \in Seq([type : {"TransactionCreated", "TransactionReversed"},
                        tx : Nat \ {0}])
    /\ account_seq \in Nat \ {0}
    /\ tx_seq \in Nat \ {0}
    /\ pc \in [Procs -> InTx \cup {"idle", "begin", "invalidate"}]
    /\ req \in [Procs -> Requests \cup {NoReq}]
    /\ legs \in [Procs -> Seq(Leg)]
    /\ ext \in [Procs -> Nat]
    /\ id \in [Procs -> Nat]
    /\ submitted \in Nat
    /\ \A a \in replies : a.req \in Requests /\ a.tx \in Nat

\* Double entry: the postings of every committed transaction, reversals and
\* amounts at the end of the int64 range included, sum to zero.
ZeroSum == \A t \in transactions : Balanced(t.postings)

\* Exactly once: however a keyed request is repeated, interleaved with itself,
\* cut off or answered with an error after its commit, its user and key book at
\* most one transaction.
ExactlyOnce ==
    \A t, u \in transactions :
        /\ t.by # NoReq /\ u.by # NoReq
        /\ t.by.key # NoKey
        /\ t.by.user = u.by.user /\ t.by.key = u.by.key
        => t = u

\* A key is spent exactly when its transaction is committed: no crash leaves a
\* claimed key without its transaction, no keyed transaction can be repeated
\* because its key is missing.
KeyWithTransaction ==
    /\ \A k \in idempotency_keys : \E t \in transactions :
         /\ t.id = k.response /\ t.by # NoReq
         /\ t.by.user = k.user /\ t.by.key = k.key
    /\ \A t \in transactions : t.by # NoReq /\ t.by.key # NoKey =>
         \E k \in idempotency_keys :
            k.user = t.by.user /\ k.key = t.by.key /\ k.response = t.id

\* A 201 names a committed transaction that was written for this very request,
\* up to the zone its occurred_at is written in: a replay never answers with
\* another payload's transaction.
ReplayFaithful ==
    \A a \in replies : a.out = "ok" =>
        \E t \in transactions :
            /\ t.id = a.tx /\ t.by # NoReq
            /\ t.by = [a.req EXCEPT !.at = t.by.at]
            /\ t.by.at.utc = a.req.at.utc

\* A key refuses no retry: 409 is answered only if the user's key has booked
\* another payload.  A repeat of the same request, with its occurred_at in another
\* zone too, one that meets the first still running and one after a rollback are
\* served, and none is told that its key is in flight.
KeyRefusals ==
    \A a \in replies :
        /\ a.out # "ErrIdempotencyInFlight"
        /\ a.out = "ErrIdempotencyConflict" =>
             \E t \in transactions :
                /\ t.by # NoReq /\ t.by.user = a.req.user /\ t.by.key = a.req.key
                /\ ~(/\ t.by = [a.req EXCEPT !.at = t.by.at]
                     /\ t.by.at.utc = a.req.at.utc)

\* A transaction is reversed at most once, by concurrent requests too.
ReversedOnce ==
    \A t, u \in transactions :
        t.reversal_of # 0 /\ t.reversal_of = u.reversal_of => t = u

\* A reversal undoes a transaction of the same user and currency that is no
\* reversal itself, posting by posting.
ReversalNegates ==
    \A t \in transactions : t.reversal_of # 0 =>
        \E o \in transactions :
            /\ o.id = t.reversal_of /\ o.reversal_of = 0
            /\ o.user = t.user /\ o.currency = t.currency
            /\ Len(o.postings) = Len(t.postings)
            /\ \A i \in DOMAIN t.postings :
                 /\ t.postings[i].account = o.postings[i].account
                 /\ t.postings[i].amount + o.postings[i].amount = 0

\* Postings stay with their owner: every posting is on a committed account of
\* the transaction's user, in the transaction's currency unless it is the
\* external account.
OwnPostings ==
    \A t \in transactions : \A i \in DOMAIN t.postings :
        \E a \in accounts :
            /\ a.id = t.postings[i].account /\ a.user = t.user
            /\ a.kind = "normal" => a.currency = t.currency

\* Two first requests of a user never leave two external accounts.
OneExternal ==
    \A a, b \in accounts :
        a.kind = "external" /\ b.kind = "external" /\ a.user = b.user => a = b

\* The outbox holds exactly one event for every transaction the service
\* committed, of the type that says what it was, and no event of a transaction
\* that rolled back.
OutboxExact ==
    /\ \A i \in DOMAIN outbox : \E t \in transactions :
         /\ t.id = outbox[i].tx /\ t.by # NoReq
         /\ outbox[i].type = IF t.reversal_of = 0 THEN "TransactionCreated"
                             ELSE "TransactionReversed"
    /\ \A t \in transactions : t.by # NoReq =>
         \E i \in DOMAIN outbox : outbox[i].tx = t.id
    /\ \A i, j \in DOMAIN outbox : outbox[i].tx = outbox[j].tx => i = j

\* The trigger is a backstop: the only unbalanced postings that reach COMMIT
\* come from a create of the one amount that has no int64 negation.
BackstopOnly ==
    \A p \in Procs : pc[p] = "commit" /\ ~Balanced(legs[p]) =>
        req[p].op = "create" /\ req[p].amount = MinInt

\* Every request is answered: no goroutine waits forever for a key, for an
\* external account, for a reversal or for a pool connection.
Answered == \A p \in Procs : pc[p] # "idle" ~> pc[p] = "idle"

Abstract == INSTANCE Ledger WITH
    book   <- {[id |-> t.id, user |-> t.user, currency |-> t.currency,
                reversal_of |-> t.reversal_of, postings |-> t.postings]
               : t \in transactions},
    keys   <- {[user |-> k.user, key |-> k.key, tx |-> k.response]
               : k \in idempotency_keys},
    events <- [i \in 1..Len(outbox) |-> outbox[i].tx]

\* The service implements the abstract ledger: every commit is one booking,
\* every other statement, wait, answer, fault and retry changes nothing that a
\* reader of the committed tables can see.
ImplementsLedger == Abstract!Spec
=============================================================================
