-------------------------- MODULE TxServiceLedger --------------------------
(***************************************************************************)
(* The service implements the abstract ledger, and the properties of       *)
(* committed rows that rest on IInv: the outbox, the owners of postings,   *)
(* reversals and replayed keys.                                            *)
(***************************************************************************)
EXTENDS TxServiceProofs, WellFoundedInduction

\* A COMMIT that the trigger lets through.
Committing(p) ==
    /\ pc[p] = "commit"
    /\ check_transaction_balanced(legs[p])
    /\ CommitRows(p)

\* What a reader of the tables can see changes by a COMMIT only, accounts of
\* POST /accounts apart.
LEMMA TableSteps ==
  ASSUME [Next]_vars
  PROVE  \/ \E p \in Procs : Committing(p)
         \/ /\ UNCHANGED <<transactions, idempotency_keys, outbox>>
            /\ accounts \subseteq accounts'
<1> DEFINE Quiet == /\ UNCHANGED <<transactions, idempotency_keys, outbox>>
                    /\ accounts \subseteq accounts'
<1>1. ASSUME UNCHANGED tables PROVE Quiet
  BY <1>1, Zenon DEF tables
<1>2. UNCHANGED vars => Quiet
  BY <1>1, Zenon DEF vars
<1>3. ASSUME NEW b \in NewAccounts, CreateAccount(b) PROVE Quiet
  <2>1. accounts \subseteq accounts'
    BY Zenon, <1>3 DEF CreateAccount
  <2>. QED
    BY <1>3, <2>1, Zenon DEF CreateAccount
<1>4. ASSUME NEW p \in Procs, Step(p) PROVE Committing(p) \/ Quiet
  <2>1. CASE Commit(p)
    BY <1>1, <2>1, Zenon DEF Commit, Committing
  <2>2. CASE ~Commit(p)
    <3>1. Begin(p) \/ Claim(p) \/ GetExternalAccount(p) \/ CreateExternalAccount(p) => UNCHANGED tables
      BY Zenon DEF Begin, Claim, GetExternalAccount, CreateExternalAccount
    <3>2. CheckLegs(p) \/ LoadOriginal(p) \/ WriteRows(p) \/ Invalidate(p) => UNCHANGED tables
      BY Zenon DEF CheckLegs, LoadOriginal, WriteRows, Invalidate
    <3>. QED
      BY <1>1, <1>4, <2>2, <3>1, <3>2, Zenon DEF Step
  <2>. QED
    BY <2>1, <2>2, Zenon
<1>5. ASSUME NEW p \in Procs, NEW r \in Requests, Submit(p, r) PROVE Quiet
  BY <1>1, <1>5, Zenon DEF Submit
<1>6. ASSUME NEW u \in Users, Register(u) PROVE Quiet
  BY <1>1, <1>6, Zenon DEF Register
<1>7. ASSUME NEW p \in Procs, Abort(p) PROVE Quiet
  BY <1>1, <1>7, Zenon DEF Abort
<1>8. ASSUME NEW p \in Procs, CommitLost(p) PROVE Committing(p)
  BY <1>8, Zenon DEF CommitLost, Committing
<1> HIDE DEF Quiet
<1>9. (\E p \in Procs : Committing(p)) \/ Quiet
  BY <1>2, <1>3, <1>4, <1>5, <1>6, <1>7, <1>8, Zenon DEF Next
<1>. QED
  BY <1>9, Zenon DEF Quiet

\* The row a COMMIT adds, next to those there are.
LEMMA CommittedRow ==
  ASSUME IInv, NEW p \in Procs, Committing(p)
  PROVE  LET n == NewTransaction(p) IN
         /\ transactions' = transactions \cup {n}
         /\ n \in Transaction /\ n.id = id[p] /\ n.by = req[p] /\ n.by # NoReq
         /\ n.user = req[p].user /\ n.postings = legs[p]
         /\ Balanced(n.postings)
         /\ id[p] \in Nat \ {0} /\ \A t \in transactions : t.id # id[p]
         /\ \/ req[p].op # "reverse" /\ n.reversal_of = 0 /\ n.currency = req[p].currency
            \/ /\ req[p].op = "reverse" /\ n.reversal_of = req[p].target /\ n.reversal_of # 0
               /\ \E o \in transactions :
                    /\ o.id = n.reversal_of /\ o.reversal_of = 0
                    /\ o.user = n.user /\ o.currency = n.currency
                    /\ n.postings = Negated(o.postings)
                    /\ \A t \in transactions : t.reversal_of # o.id
<1> DEFINE n == NewTransaction(p)
<1>1. pc[p] = "commit" /\ transactions' = transactions \cup {n} /\ Balanced(legs[p])
  BY Zenon DEF Committing, CommitRows, check_transaction_balanced, Balanced
<1>2. /\ n \in Transaction /\ n.id = id[p] /\ n.by = req[p] /\ n.postings = legs[p]
      /\ n.user = req[p].user
      /\ req[p].op # "reverse" => n.reversal_of = 0
      /\ req[p].op = "reverse" => n.reversal_of = req[p].target
  BY <1>1, NewTransactionFacts, Zenon
<1>3. req[p] # NoReq
  BY <1>1, Serving, RequestsAssumption, Zenon
<1>4. id[p] \in Nat \ {0} /\ \A t \in transactions : t.id # id[p]
  BY <1>1, Zenon DEF IInv, IdInv, TypeOK
<1>5. req[p].op # "reverse" => n.currency = req[p].currency
  BY Zenon DEF NewTransaction
<1>6. ASSUME req[p].op = "reverse"
      PROVE  /\ req[p].target # 0
             /\ \E o \in transactions :
                  /\ o.id = req[p].target /\ o.reversal_of = 0
                  /\ o.user = req[p].user /\ o.currency = n.currency
                  /\ legs[p] = Negated(o.postings)
                  /\ \A t \in transactions : t.reversal_of # o.id
  <2>1. PICK o \in transactions : /\ o.id = req[p].target /\ o.user = req[p].user
                                  /\ o.reversal_of = 0 /\ legs[p] = Negated(o.postings)
    BY <1>1, <1>6, Zenon DEF IInv, ReversalInv
  <2>2. Reversed(req[p]) = o
    <3>1. \A t \in transactions : t.id = req[p].target => t = o
      BY <2>1, Zenon DEF IInv, IdInv
    <3>. QED
      BY <2>1, <3>1, Zenon DEF Reversed
  <2>3. o.currency = n.currency
    BY <1>6, <2>2, Zenon DEF NewTransaction
  <2>4. \A t \in transactions : t.reversal_of # o.id
    BY <1>1, <1>6, <2>1, Zenon DEF IInv, ReversalInv
  <2>5. o.id \in Nat \ {0}
    BY Zenon DEF IInv, TypeOK, Transaction
  <2>. QED
    BY <2>1, <2>3, <2>4, <2>5, Zenon
<1> HIDE DEF n
<1>7. req[p].op = "reverse" =>
        /\ n.reversal_of # 0
        /\ \E o \in transactions :
             /\ o.id = n.reversal_of /\ o.reversal_of = 0
             /\ o.user = n.user /\ o.currency = n.currency
             /\ n.postings = Negated(o.postings)
             /\ \A t \in transactions : t.reversal_of # o.id
  BY <1>2, <1>6, Zenon
<1>. QED
  BY <1>1, <1>2, <1>3, <1>4, <1>5, <1>7, Zenon DEF n
---------------------------------------------------------------------------
\* The rows of the abstract book and its keys.
Row(t) == [id |-> t.id, user |-> t.user, currency |-> t.currency,
           reversal_of |-> t.reversal_of, postings |-> t.postings]
Spent(k) == [user |-> k.user, key |-> k.key, tx |-> k.response]
Book == {Row(t) : t \in transactions}
Keys == {Spent(k) : k \in idempotency_keys}
Announced == [i \in 1..Len(outbox) |-> outbox[i].tx]

\* The abstract ledger adds and negates as the service does.
LEMMA SameArithmetic ==
  \A ls : /\ Abstract!Balanced(ls) <=> Balanced(ls)
          /\ Abstract!Negated(ls) = Negated(ls)
<1>1. \A ls : Abstract!Balanced(ls) <=> Balanced(ls)
  BY Zenon DEF Abstract!Balanced, Abstract!Total, Balanced, Total
<1>2. \A ls : Abstract!Negated(ls) = Negated(ls)
  BY Zenon DEF Abstract!Negated, Abstract!Neg, Abstract!Wrap, Abstract!MinInt,
               Negated, Neg, Wrap, MinInt
<1>. QED
  BY <1>1, <1>2, Zenon

\* A COMMIT is one booking of the abstract ledger.
LEMMA CommitPosts ==
  ASSUME IInv, NEW p \in Procs, Committing(p)
  PROVE  Abstract!Post
<1> DEFINE n == NewTransaction(p)
<1>1. /\ transactions' = transactions \cup {n}
      /\ n.id = id[p] /\ n.user = req[p].user /\ Balanced(n.postings)
      /\ \A u \in transactions : u.id # id[p]
      /\ \/ n.reversal_of = 0
         \/ \E o \in transactions :
                    /\ o.id = n.reversal_of /\ o.reversal_of = 0
                    /\ o.user = n.user /\ o.currency = n.currency
                    /\ n.postings = Negated(o.postings)
                    /\ \A u \in transactions : u.reversal_of # o.id
  BY CommittedRow, Zenon
<1> HIDE DEF n
<1>a. PICK t : t = Row(n)
  BY Zenon
<1>2. /\ t.id = n.id /\ t.user = n.user /\ t.currency = n.currency
      /\ t.reversal_of = n.reversal_of /\ t.postings = n.postings
  BY <1>a DEF Row
<1>3. \A u : /\ Row(u).id = u.id /\ Row(u).user = u.user /\ Row(u).currency = u.currency
             /\ Row(u).reversal_of = u.reversal_of /\ Row(u).postings = u.postings
  BY Zenon DEF Row
<1>4. t \in Book' /\ Book' = Book \cup {t}
  BY Zenon, <1>1, <1>a DEF Book
<1>b. /\ \A u \in transactions : Row(u) \in Book
      /\ \A u \in Book : \E v \in transactions : u = Row(v)
  BY Zenon DEF Book
<1>c. \A u \in Book : \E v \in transactions : u.id = v.id /\ u.reversal_of = v.reversal_of
  BY Zenon, <1>3, <1>b
<1>5. Balanced(t.postings) /\ \A u \in Book : u.id # t.id
  BY Zenon, <1>1, <1>2, <1>c
<1>6. t.reversal_of = 0 \/ \E o \in Book :
        /\ o.id = t.reversal_of /\ o.reversal_of = 0
        /\ o.user = t.user /\ o.currency = t.currency
        /\ t.postings = Negated(o.postings)
        /\ \A u \in Book : u.reversal_of # o.id
  <2>1. CASE n.reversal_of = 0
    BY <1>2, <2>1, Zenon
  <2>2. CASE n.reversal_of # 0
    <3>1. PICK o \in transactions :
            /\ o.id = n.reversal_of /\ o.reversal_of = 0
            /\ o.user = n.user /\ o.currency = n.currency
            /\ n.postings = Negated(o.postings)
            /\ \A u \in transactions : u.reversal_of # o.id
      BY <1>1, <2>2, Zenon
    <3>2. Row(o) \in Book /\ \A u \in Book : u.reversal_of # o.id
      BY Zenon, <1>b, <1>c, <3>1
    <3>3. /\ Row(o).id = o.id /\ Row(o).user = o.user /\ Row(o).currency = o.currency
          /\ Row(o).reversal_of = o.reversal_of /\ Row(o).postings = o.postings
      BY Zenon, <1>3
    <3> DEFINE b == Row(o)
    <3> HIDE DEF b
    <3>4. /\ b \in Book /\ b.id = t.reversal_of /\ b.reversal_of = 0
          /\ b.user = t.user /\ b.currency = t.currency
          /\ t.postings = Negated(b.postings)
          /\ \A u \in Book : u.reversal_of # b.id
      BY Zenon, <1>2, <3>1, <3>2, <3>3 DEF b
    <3>. QED
      BY Zenon, <3>4
  <2>. QED
    BY <2>1, <2>2, Zenon
<1>7. \/ UNCHANGED Keys
      \/ \E k \in Keys' :
           /\ Keys' = Keys \cup {k}
           /\ k.user = t.user /\ k.tx = t.id
           /\ \A j \in Keys : <<j.user, j.key>> # <<k.user, k.key>>
  <2>0. idempotency_keys' = idempotency_keys \cup NewKeys(p) /\ pc[p] = "commit"
    BY Zenon DEF Committing, CommitRows
  <2>1. CASE req[p].key = NoKey
    BY Zenon, <2>0, <2>1 DEF NewKeys, Keys
  <2>2. CASE req[p].key # NoKey
    <3> DEFINE j == [user |-> req[p].user, key |-> req[p].key, hash |-> Hash(req[p]),
                     status |-> "succeeded", response |-> id[p]]
    <3>1. /\ NewKeys(p) = {j} /\ j.user = req[p].user /\ j.key = req[p].key
          /\ j.response = id[p]
      BY <2>2, Zenon DEF NewKeys
    <3> HIDE DEF j
    <3>2. \A k \in idempotency_keys : k.user = req[p].user => k.key # req[p].key
      BY <2>0, <2>2, Zenon DEF IInv, KeyInv, Claimed, InTx
    <3>3. \A k : Spent(k).user = k.user /\ Spent(k).key = k.key /\ Spent(k).tx = k.response
      BY Zenon DEF Spent
    <3>4. Keys' = Keys \cup {Spent(j)}
      BY Zenon, <2>0, <3>1 DEF Keys
    <3>5. Spent(j).user = t.user /\ Spent(j).tx = t.id
      BY <1>1, <1>2, <3>1, <3>3, Zenon
    <3>6. \A k \in Keys : ~(k.user = Spent(j).user /\ k.key = Spent(j).key)
      <4>1. \A k \in Keys : \E i \in idempotency_keys : k.user = i.user /\ k.key = i.key
        BY Zenon, <3>3 DEF Keys
      <4>. QED
        BY <3>1, <3>2, <3>3, <4>1
    <3>7. \A k \in Keys : <<k.user, k.key>> # <<Spent(j).user, Spent(j).key>>
      BY Zenon, <3>6
    <3>. QED
      BY <3>4, <3>5, <3>7, Zenon
  <2>. QED
    BY <2>1, <2>2, Zenon
<1>8. Announced' = Append(Announced, t.id)
  <2> DEFINE E == [type : {"TransactionCreated", "TransactionReversed"}, tx : Nat \ {0}]
  <2>1. outbox' = Append(outbox, NewEvent(p)) /\ outbox \in Seq(E)
    BY Zenon DEF Committing, CommitRows, IInv, TypeOK
  <2>2. NewEvent(p).tx = t.id
    BY Zenon, <1>1, <1>2 DEF NewEvent
  <2> HIDE DEF E
  <2>3. /\ Len(outbox') = Len(outbox) + 1 /\ Len(outbox) \in Nat
        /\ \A i \in 1..Len(outbox) : outbox'[i] = outbox[i]
        /\ outbox'[Len(outbox) + 1] = NewEvent(p)
    BY <2>1
  <2>. QED
    BY <2>2, <2>3 DEF Announced
<1>9. Abstract!Entry(t)
  BY <1>5, SameArithmetic, Zenon DEF Abstract!Entry, Book, Row
<1>10. Abstract!Fresh(t) \/ Abstract!Corrects(t)
  BY <1>6, SameArithmetic, Zenon DEF Abstract!Fresh, Abstract!Corrects, Book, Row
<1>11. Abstract!Spends(t)
  BY <1>7, Zenon DEF Abstract!Spends, Keys, Spent
<1>12. \E u \in Book' :
         /\ Book' = Book \cup {u}
         /\ Abstract!Entry(u)
         /\ Abstract!Fresh(u) \/ Abstract!Corrects(u)
         /\ Abstract!Spends(u)
         /\ Announced' = Append(Announced, u.id)
  BY <1>4, <1>8, <1>9, <1>10, <1>11, Zenon
<1>. QED
  BY <1>12, Zenon DEF Abstract!Post, Book, Announced, Row

\* The service implements the abstract ledger: a COMMIT of createBalanced or
\* Reverse is one booking and every other step a stutter, for any number of
\* goroutines, users and requests.
THEOREM LedgerImplemented == Spec => ImplementsLedger
<1>1. Init => Abstract!Init
  <2> SUFFICES ASSUME Init PROVE Abstract!Init
    BY Zenon
  <2>1. \A t \in Book : Balanced(t.postings)
    <3>1. \A t \in transactions : Balanced(t.postings)
      BY Transactions0Assumption, Zenon DEF Init
    <3>2. \A t \in Book : \E u \in transactions : t.postings = u.postings
      BY DEF Book, Row
    <3>. QED
      BY Zenon, <3>1, <3>2
  <2>2. Keys = {} /\ Announced = <<>>
    BY DEF Init, Keys, Announced
  <2>. QED
    BY <2>1, <2>2, SameArithmetic, Zenon DEF Abstract!Init, Book, Row, Keys, Spent, Announced
<1>2. IInv /\ [Next]_vars => [Abstract!Post]_Abstract!ledger
  <2> SUFFICES ASSUME IInv, [Next]_vars PROVE [Abstract!Post]_Abstract!ledger
    BY Zenon
  <2>1. CASE \E p \in Procs : Committing(p)
    BY <2>1, CommitPosts, Zenon
  <2>2. CASE UNCHANGED <<transactions, idempotency_keys, outbox>>
    <3>1. UNCHANGED Abstract!ledger
      BY Zenon, <2>2 DEF Abstract!ledger
    <3>. QED
      BY Zenon, <3>1
  <2>. QED
    BY <2>1, <2>2, TableSteps, Zenon
<1>. QED
  BY <1>1, <1>2, Invariance, PTL DEF Spec, ImplementsLedger, Abstract!Spec
---------------------------------------------------------------------------
\* A COMMIT appends the one event of its transaction.
LEMMA OutboxStep == IInv /\ OutboxExact /\ [Next]_vars => OutboxExact'
<1> SUFFICES ASSUME IInv, OutboxExact, [Next]_vars PROVE OutboxExact'
  BY Zenon
<1>1. CASE UNCHANGED <<transactions, idempotency_keys, outbox>>
  BY <1>1, Zenon DEF OutboxExact
<1>2. ASSUME NEW p \in Procs, Committing(p) PROVE OutboxExact'
  <2> DEFINE n == NewTransaction(p)
             L == Len(outbox) + 1
  <2>1. /\ transactions' = transactions \cup {n}
        /\ n.id = id[p] /\ n.by # NoReq
        /\ \A t \in transactions : t.id # id[p]
        /\ n.reversal_of = 0 <=> req[p].op # "reverse"
    BY <1>2, CommittedRow, Zenon
  <2> HIDE DEF n
  <2>2. outbox' = Append(outbox, NewEvent(p))
        /\ outbox \in Seq([type : {"TransactionCreated", "TransactionReversed"}, tx : Nat \ {0}])
    BY <1>2, Zenon DEF Committing, CommitRows, IInv, TypeOK
  <2>3. /\ DOMAIN outbox' = DOMAIN outbox \cup {L} /\ L \notin DOMAIN outbox
        /\ \A i \in DOMAIN outbox : outbox'[i] = outbox[i]
        /\ outbox'[L] = NewEvent(p)
    BY <2>2
  <2> HIDE DEF L
  <2>4. /\ outbox'[L].tx = n.id
        /\ outbox'[L].type = IF n.reversal_of = 0 THEN "TransactionCreated"
                             ELSE "TransactionReversed"
    BY <2>1, <2>3 DEF NewEvent
  <2>5. \A i \in DOMAIN outbox : outbox[i].tx # n.id
    <3>1. \A i \in DOMAIN outbox : \E t \in transactions : t.id = outbox[i].tx
      BY Zenon DEF OutboxExact
    <3>. QED
      BY Zenon, <2>1, <3>1
  <2>6. \A i \in DOMAIN outbox' : \E t \in transactions' :
          /\ t.id = outbox'[i].tx /\ t.by # NoReq
          /\ outbox'[i].type = IF t.reversal_of = 0 THEN "TransactionCreated"
                               ELSE "TransactionReversed"
    <3>1. \A i \in DOMAIN outbox : \E t \in transactions :
            /\ t.id = outbox[i].tx /\ t.by # NoReq
            /\ outbox[i].type = IF t.reversal_of = 0 THEN "TransactionCreated"
                                ELSE "TransactionReversed"
      BY Zenon DEF OutboxExact
    <3>. QED
      BY <2>1, <2>3, <2>4, <3>1
  <2>7. \A t \in transactions' : t.by # NoReq => \E i \in DOMAIN outbox' : outbox'[i].tx = t.id
    <3>1. \A t \in transactions : t.by # NoReq => \E i \in DOMAIN outbox : outbox[i].tx = t.id
      BY Zenon DEF OutboxExact
    <3>. QED
      BY <2>1, <2>3, <2>4, <3>1
  <2>8. \A i, j \in DOMAIN outbox' : outbox'[i].tx = outbox'[j].tx => i = j
    <3>1. \A i, j \in DOMAIN outbox : outbox[i].tx = outbox[j].tx => i = j
      BY Zenon DEF OutboxExact
    <3>. QED
      BY Zenon, <2>3, <2>4, <2>5, <3>1
  <2>. QED
    BY <2>6, <2>7, <2>8, Zenon DEF OutboxExact
<1>. QED
  BY <1>1, <1>2, TableSteps, Zenon

\* createBalanced and Reverse put exactly one event into the outbox for what
\* they commit and none for what rolls back.
THEOREM OutboxExactHolds == Spec => []OutboxExact
<1>1. Init => OutboxExact
  <2>1. Init => DOMAIN outbox = {} /\ \A t \in transactions : t.by = NoReq
    BY Transactions0Assumption DEF Init
  <2>. QED
    BY <2>1, Zenon DEF OutboxExact
<1>. QED
  BY <1>1, OutboxStep, Invariance, PTL DEF Spec
---------------------------------------------------------------------------
\* The statements at which a goroutine has its legs complete.
Complete == {"check", "write", "commit"}

Kept(q) == req'[q] = req[q] /\ legs'[q] = legs[q] /\ ext'[q] = ext[q]

\* A step of one goroutine, of its client or of its connection.
ProcStep(p) == (\E r \in Requests : Submit(p, r)) \/ Step(p) \/ Abort(p) \/ CommitLost(p)

\* It leaves the other goroutines alone.
LEMMA StepOthers == ASSUME IInv, NEW p \in Procs, ProcStep(p) PROVE Others(p)
<1>0. /\ pc \in [Procs -> InTx \cup {"idle", "begin", "invalidate"}]
      /\ req \in [Procs -> Requests \cup {NoReq}] /\ legs \in [Procs -> Seq(Leg)]
      /\ ext \in [Procs -> Nat] /\ id \in [Procs -> Nat]
  BY Zenon DEF IInv, TypeOK
<1>1. ASSUME NEW out, NEW tx, Finish(p, out, tx) PROVE Others(p)
  BY <1>0, <1>1, Zenon DEF Finish, Others
<1>2. ASSUME NEW l, Goto(p, l), UNCHANGED <<ext, id>>,
             UNCHANGED legs \/ \E new : legs' = [legs EXCEPT ![p] = new]
      PROVE  Others(p)
  BY <1>0, <1>2, Zenon DEF Goto, Others
<1>3. ASSUME NEW r \in Requests, Submit(p, r) PROVE Others(p)
  BY <1>0, <1>3, Zenon DEF Submit, Others
<1>4. ASSUME Begin(p) PROVE Others(p)
  BY <1>2, <1>4, Zenon DEF Begin
<1>5. ASSUME Claim(p) PROVE Others(p)
  BY <1>1, <1>2, <1>5, Zenon DEF Claim
<1>6. ASSUME GetExternalAccount(p) PROVE Others(p)
  BY <1>2, <1>6, Zenon DEF GetExternalAccount, AddExternalLeg
<1>7. ASSUME CreateExternalAccount(p) PROVE Others(p)
  <2>1. CASE Finish(p, "internal", 0)
    BY <1>1, <2>1, Zenon
  <2>2. CASE Goto(p, "check") /\ AddExternalLeg(p, account_seq) /\ UNCHANGED id
             /\ ext' = [ext EXCEPT ![p] = account_seq]
    BY <1>0, <2>2, Zenon DEF Goto, AddExternalLeg, Others
  <2>. QED
    BY <1>7, <2>1, <2>2, Zenon DEF CreateExternalAccount
<1>8. ASSUME CheckLegs(p) PROVE Others(p)
  BY <1>1, <1>2, <1>8, Zenon DEF CheckLegs
<1>9. ASSUME LoadOriginal(p) PROVE Others(p)
  BY <1>1, <1>2, <1>9, Zenon DEF LoadOriginal
<1>10. ASSUME WriteRows(p) PROVE Others(p)
  <2>1. CASE Goto(p, "commit") /\ id' = [id EXCEPT ![p] = tx_seq] /\ UNCHANGED <<legs, ext>>
    BY <1>0, <2>1, Zenon DEF Goto, Others
  <2>. QED
    BY <1>1, <1>10, <2>1, Zenon DEF WriteRows
<1>11. ASSUME Commit(p) \/ Invalidate(p) \/ Abort(p) \/ CommitLost(p) PROVE Others(p)
  BY <1>1, <1>2, <1>11, Zenon DEF Commit, Invalidate, Abort, CommitLost
<1>. QED
  BY <1>3, <1>4, <1>5, <1>6, <1>7, <1>8, <1>9, <1>10, <1>11, ZenonT(30) DEF ProcStep, Step

\* How a goroutine comes by its legs, and how they are checked.
WithExternalLeg(r, acc) ==
    Append(ReqLegs(r), [account |-> acc, amount |-> Neg(Wrap(Total(ReqLegs(r))))])
Advances(p) ==
    \/ /\ pc[p] \in Complete /\ Kept(p)
       /\ pc[p] = "check" => \A i \in DOMAIN legs[p] : LegError(p, legs[p][i]) = "ok"
       /\ pc'[p] # "check"
    \/ req'[p].op = "reverse"
    \/ /\ pc'[p] = "check" /\ req'[p] = req[p] /\ req[p].op = "transfer"
       /\ legs'[p] = ReqLegs(req[p])
    \/ /\ pc'[p] = "check" /\ req'[p] = req[p] /\ req[p].op = "create"
       /\ \E acc \in Nat : legs'[p] = WithExternalLeg(req[p], acc)

\* Every step of a goroutine with complete legs is of this kind.
LEMMA OwnSteps ==
  ASSUME IInv, NEW p \in Procs, ProcStep(p), pc'[p] \in Complete
  PROVE  Advances(p)
<1>0. /\ pc \in [Procs -> InTx \cup {"idle", "begin", "invalidate"}]
      /\ req \in [Procs -> Requests \cup {NoReq}] /\ legs \in [Procs -> Seq(Leg)]
      /\ ext \in [Procs -> Nat] /\ id \in [Procs -> Nat]
  BY Zenon DEF IInv, TypeOK
<1>1. ASSUME NEW out, NEW tx, Finish(p, out, tx) PROVE FALSE
  BY Zenon, <1>0, <1>1 DEF Finish, Complete
<1>2. ASSUME NEW l, Goto(p, l) PROVE pc'[p] = l /\ req' = req /\ l \in Complete
  BY <1>0, <1>2, Zenon DEF Goto
<1>3. ASSUME NEW r \in Requests, Submit(p, r) PROVE FALSE
  BY Zenon, <1>0, <1>3 DEF Submit, Complete
<1>4. ASSUME Begin(p) PROVE FALSE
  <2>1. "claim" \notin Complete
    BY Zenon DEF Complete
  <2>. QED
    BY <1>2, <1>4, <2>1, Zenon DEF Begin
<1>5. ASSUME Claim(p) PROVE Advances(p)
  <2>1. /\ legs' = [legs EXCEPT ![p] = ReqLegs(req[p])]
        /\ Goto(p, CASE req[p].op = "create"   -> "external"
                     [] req[p].op = "transfer" -> "check"
                     [] OTHER                  -> "load")
    BY <1>1, <1>5, Zenon DEF Claim
  <2>2. legs'[p] = ReqLegs(req[p])
    BY <1>0, <2>1, Zenon
  <2>3. req[p].op = "transfer" /\ pc'[p] = "check" /\ req'[p] = req[p]
    BY <1>2, <2>1 DEF Complete
  <2>. QED
    BY <2>2, <2>3, Zenon DEF Advances
<1>6. ASSUME NEW acc \in Nat, AddExternalLeg(p, acc), Goto(p, "check"),
             pc[p] \in {"external", "lazy"}
      PROVE  Advances(p)
  <2>1. req[p].op = "create" /\ legs[p] = ReqLegs(req[p])
    BY <1>6, ZenonT(30) DEF IInv, LocalInv
  <2>2. legs'[p] = Append(legs[p], [account |-> acc, amount |-> Neg(Wrap(Total(legs[p])))])
    BY <1>0, <1>6, Zenon DEF AddExternalLeg
  <2>3. pc'[p] = "check" /\ req'[p] = req[p]
    BY <1>2, <1>6, Zenon
  <2>. QED
    BY <1>6, <2>1, <2>2, <2>3, ZenonT(30) DEF Advances, WithExternalLeg
<1>7. ASSUME GetExternalAccount(p) PROVE Advances(p)
  <2>1. \A a \in accounts : a.id \in Nat
    BY Zenon DEF IInv, TypeOK, Account
  <2>2. "lazy" \notin Complete
    BY Zenon DEF Complete
  <2>. QED
    BY <1>2, <1>6, <1>7, <2>1, <2>2, ZenonT(30) DEF GetExternalAccount
<1>8. ASSUME CreateExternalAccount(p) PROVE Advances(p)
  <2>1. account_seq \in Nat
    BY Zenon DEF IInv, TypeOK
  <2>. QED
    BY <1>1, <1>6, <1>8, <2>1, Zenon DEF CreateExternalAccount
<1>9. ASSUME CheckLegs(p) PROVE Advances(p)
  <2>1. /\ Goto(p, "write") /\ UNCHANGED <<legs, ext, id>> /\ pc[p] = "check"
        /\ {i \in DOMAIN legs[p] : LegError(p, legs[p][i]) # "ok"} = {}
    BY <1>1, <1>9, Zenon DEF CheckLegs
  <2>2. \A i \in DOMAIN legs[p] : LegError(p, legs[p][i]) = "ok"
    BY <2>1, Zenon
  <2>3. pc'[p] = "write" /\ req'[p] = req[p]
    BY <1>2, <2>1, Zenon
  <2>. QED
    BY <2>1, <2>2, <2>3, Zenon DEF Advances, Kept, Complete
<1>10. ASSUME LoadOriginal(p) PROVE Advances(p)
  <2>1. Goto(p, "write") /\ pc[p] = "load"
    BY <1>1, <1>10, Zenon DEF LoadOriginal
  <2>. QED
    BY <1>2, <2>1, ZenonT(30) DEF Advances, IInv, LocalInv
<1>11. ASSUME WriteRows(p) PROVE Advances(p)
  <2>1. Goto(p, "commit") /\ pc[p] = "write" /\ UNCHANGED <<legs, ext>>
    BY <1>1, <1>11, Zenon DEF WriteRows
  <2>2. pc'[p] = "commit" /\ req'[p] = req[p]
    BY <1>2, <2>1, Zenon
  <2>. QED
    BY <2>1, <2>2, Zenon DEF Advances, Kept, Complete
<1>12. ASSUME Commit(p) \/ Invalidate(p) \/ Abort(p) \/ CommitLost(p) PROVE FALSE
  <2>1. "invalidate" \notin Complete
    BY Zenon DEF Complete
  <2>. QED
    BY <1>1, <1>2, <1>12, <2>1, Zenon DEF Commit, Invalidate, Abort, CommitLost
<1>. QED
  BY <1>3, <1>4, <1>5, <1>7, <1>8, <1>9, <1>10, <1>11, <1>12, ZenonT(30) DEF ProcStep, Step

\* Any step, seen from a goroutine with complete legs.
LEMMA AnyStep ==
  ASSUME IInv, [Next]_vars, NEW q \in Procs, pc'[q] \in Complete
  PROVE  Advances(q) \/ (pc'[q] = pc[q] /\ Kept(q))
<1>1. ASSUME NEW p \in Procs, ProcStep(p) PROVE Advances(q) \/ (pc'[q] = pc[q] /\ Kept(q))
  <2>1. CASE p = q
    BY <1>1, <2>1, OwnSteps, Zenon
  <2>2. CASE p # q
    BY <1>1, <2>2, StepOthers, Zenon DEF Others, Kept
  <2>. QED
    BY <2>1, <2>2, Zenon
<1>2. ASSUME UNCHANGED local PROVE pc'[q] = pc[q] /\ Kept(q)
  BY <1>2, Zenon DEF local, Kept
<1>3. UNCHANGED vars \/ (\E u \in Users : Register(u)) \/ (\E b \in NewAccounts : CreateAccount(b))
        => UNCHANGED local
  BY Zenon DEF vars, Register, CreateAccount
<1>. QED
  BY <1>1, <1>2, <1>3, Zenon DEF Next, ProcStep
---------------------------------------------------------------------------
\* Once its legs are checked, a goroutine that does not reverse sees an account
\* of its user, in its currency, behind each of them.
HasOwn(q) ==
    \A i \in DOMAIN legs[q] : \E a \in Visible(q) :
        /\ a.id = legs[q][i].account /\ a.user = req[q].user
        /\ a.kind = "normal" => a.currency = req[q].currency
OwnInv ==
    \A q \in Procs : pc[q] \in {"write", "commit"} /\ req[q].op # "reverse" => HasOwn(q)

\* What the checks of createBalanced establish.
LEMMA LegChecked ==
  ASSUME NEW p \in Procs, NEW l, LegError(p, l) = "ok"
  PROVE  \E a \in Visible(p) : /\ a.id = l.account /\ a.user = req[p].user
                               /\ a.kind = "normal" => a.currency = req[p].currency
<1> DEFINE found == {a \in Visible(p) : a.id = l.account}
           acc == CHOOSE a \in found : TRUE
<1>1. /\ found # {} /\ acc.user = req[p].user
      /\ acc.kind # "external" => acc.currency = req[p].currency
  <2> HIDE DEF acc, found
  <2>1. (CASE found = {}                                  -> "ErrAccountNotFound"
          [] acc.user # req[p].user                      -> "ErrForbidden"
          [] ~acc.is_active                              -> "ErrAccountInactive"
          [] acc.kind # "external" /\ acc.currency # req[p].currency
                                                         -> "ErrCurrencyMismatch"
          [] OTHER                                       -> "ok") = "ok"
    BY Zenon DEF LegError, found, acc
  <2>. QED
    BY Zenon, <2>1
<1>2. acc \in found
  BY <1>1, Zenon
<1> HIDE DEF acc
<1>3. acc \in Visible(p) /\ acc.id = l.account
  BY <1>2, Zenon
<1>. QED
  BY Zenon, <1>1, <1>3

\* Checked legs stay good: accounts are never removed.
LEMMA OwnInvStep ==
  ASSUME IInv, OwnInv, [Next]_vars
  PROVE  OwnInv' /\ accounts \subseteq accounts'
<1>1. accounts \subseteq accounts'
  <2>1. \A p \in Procs : Committing(p) => accounts \subseteq accounts'
    BY Zenon DEF Committing, CommitRows, Visible
  <2>. QED
    BY <2>1, TableSteps, Zenon
<1>2. ASSUME NEW q \in Procs, Kept(q), HasOwn(q) PROVE HasOwn(q)'
  <2>1. Visible(q) \subseteq Visible(q)'
    BY <1>1, <1>2, Zenon DEF Visible, Kept
  <2>2. legs'[q] = legs[q] /\ req'[q] = req[q]
    BY <1>2, Zenon DEF Kept
  <2>3. \A i \in DOMAIN legs[q] : \E a \in Visible(q)' :
          /\ a.id = legs[q][i].account /\ a.user = req[q].user
          /\ a.kind = "normal" => a.currency = req[q].currency
    BY <1>2, <2>1, Zenon DEF HasOwn
  <2>. QED
    BY ONLY <2>2, <2>3 DEF HasOwn
<1>3. ASSUME NEW q \in Procs, pc'[q] \in {"write", "commit"}, req'[q].op # "reverse"
      PROVE  HasOwn(q)'
  <2>1. pc'[q] \in Complete /\ pc'[q] # "check"
    BY Zenon, <1>3 DEF Complete
  <2>2. CASE pc[q] = "check" /\ Kept(q)
             /\ \A i \in DOMAIN legs[q] : LegError(q, legs[q][i]) = "ok"
    <3>1. HasOwn(q)
      BY <2>2, LegChecked, Zenon DEF HasOwn
    <3>. QED
      BY <1>2, <2>2, <3>1, Zenon
  <2>3. CASE pc[q] \in {"write", "commit"} /\ Kept(q)
    <3>1. HasOwn(q)
      BY <1>3, <2>3, Zenon DEF OwnInv, Kept
    <3>. QED
      BY <1>2, <2>3, <3>1, Zenon
  <2>. QED
    BY <1>3, <2>1, <2>2, <2>3, AnyStep, Zenon DEF Advances, Complete
<1>. QED
  BY <1>1, <1>3, Zenon DEF OwnInv

\* Every posting that createBalanced or Reverse commits is on an account of its
\* user, in its currency or external, whatever accounts are created meanwhile.
THEOREM OwnPostingsHold == Spec => []OwnPostings
<1>1. Init => OwnInv /\ OwnPostings
  <2>1. Init => OwnPostings
    BY Transactions0Assumption, Zenon DEF Init, OwnPostings
  <2>2. Init => OwnInv
    BY Zenon DEF Init, OwnInv
  <2>. QED
    BY Zenon, <2>1, <2>2
<1>2. ASSUME IInv, OwnInv, OwnPostings, [Next]_vars PROVE OwnInv' /\ OwnPostings'
  <2>1. OwnInv' /\ accounts \subseteq accounts'
    BY <1>2, OwnInvStep, Zenon
  <2>2. ASSUME transactions' = transactions PROVE OwnPostings'
    BY <1>2, <2>1, <2>2, ZenonT(30) DEF OwnPostings
  <2>3. ASSUME NEW p \in Procs, Committing(p) PROVE OwnPostings'
    <3> DEFINE n == NewTransaction(p)
    <3>1. /\ transactions' = transactions \cup {n} /\ n.postings = legs[p]
          /\ n.user = req[p].user
          /\ \/ req[p].op # "reverse" /\ n.currency = req[p].currency
             \/ \E o \in transactions : /\ o.user = n.user /\ o.currency = n.currency
                                        /\ n.postings = Negated(o.postings)
      BY <1>2, <2>3, CommittedRow, Zenon
    <3> HIDE DEF n
    <3>2. accounts' = Visible(p) /\ pc[p] = "commit"
      BY <2>3, Zenon DEF Committing, CommitRows
    <3>3. \A i \in DOMAIN n.postings : \E a \in accounts' :
            /\ a.id = n.postings[i].account /\ a.user = n.user
            /\ a.kind = "normal" => a.currency = n.currency
      <4>1. CASE req[p].op # "reverse" /\ n.currency = req[p].currency
        <5>1. HasOwn(p)
          BY <1>2, <3>2, <4>1, Zenon DEF OwnInv
        <5>2. n.postings = legs[p] /\ n.user = req[p].user
          BY <3>1, Zenon
        <5>3. \A i \in DOMAIN legs[p] : \E a \in accounts' :
                /\ a.id = legs[p][i].account /\ a.user = req[p].user
                /\ a.kind = "normal" => a.currency = req[p].currency
          BY <3>2, <5>1, Zenon DEF HasOwn
        <5>. QED
          BY ONLY <4>1, <5>2, <5>3
      <4>2. ASSUME NEW o \in transactions, o.user = n.user, o.currency = n.currency,
                   n.postings = Negated(o.postings), NEW i \in DOMAIN n.postings
            PROVE  \E a \in accounts' :
                     /\ a.id = n.postings[i].account /\ a.user = n.user
                     /\ a.kind = "normal" => a.currency = n.currency
        <5>1. o.postings \in Seq(Leg)
          BY <1>2, Zenon DEF IInv, TypeOK, Transaction
        <5>2. i \in DOMAIN o.postings /\ n.postings[i].account = o.postings[i].account
          BY <4>2, <5>1 DEF Negated
        <5>3. \E a \in accounts : /\ a.id = o.postings[i].account /\ a.user = o.user
                                  /\ a.kind = "normal" => a.currency = o.currency
          BY <1>2, <5>2, Zenon DEF OwnPostings
        <5>. QED
          BY Zenon, <2>1, <4>2, <5>2, <5>3
      <4>. QED
        BY <3>1, <4>1, <4>2, Zenon
    <3>4. \A t \in transactions : \A i \in DOMAIN t.postings : \E a \in accounts' :
            /\ a.id = t.postings[i].account /\ a.user = t.user
            /\ a.kind = "normal" => a.currency = t.currency
      BY <1>2, <2>1, Zenon DEF OwnPostings
    <3>5. \A t \in transactions' : t \in transactions \/ t = n
      BY <3>1, Zenon
    <3>. QED
      BY ONLY <3>3, <3>4, <3>5 DEF OwnPostings
  <2>. QED
    BY <1>2, <2>1, <2>2, <2>3, TableSteps, Zenon
<1>. QED
  BY <1>1, <1>2, Invariance, PTL DEF Spec
---------------------------------------------------------------------------
\* A goroutine with complete legs, reversals aside, has the two of a transfer or
\* a request's one and the external account's.
TwoLegs(q) ==
    \/ req[q].op = "transfer" /\ legs[q] = ReqLegs(req[q])
    \/ req[q].op = "create" /\ \E acc \in Nat : legs[q] = WithExternalLeg(req[q], acc)
TwoLegsInv ==
    \A q \in Procs : pc[q] \in Complete /\ req[q].op # "reverse" => TwoLegs(q)

\* No posting has the one amount whose negation wraps.
NoMinInt(ls) == \A i \in DOMAIN ls : ls[i].amount # MinInt
NoMinInv == \A t \in transactions : NoMinInt(t.postings)

\* What ReversalNegates says of a reversal t and its original o.
Undoes(t, o) ==
    /\ o.id = t.reversal_of /\ o.reversal_of = 0
    /\ o.user = t.user /\ o.currency = t.currency
    /\ Len(o.postings) = Len(t.postings)
    /\ \A i \in DOMAIN t.postings :
         /\ t.postings[i].account = o.postings[i].account
         /\ t.postings[i].amount + o.postings[i].amount = 0
Undone == \A t \in transactions : t.reversal_of # 0 => \E o \in transactions : Undoes(t, o)

LEMMA TwoLegsStep ==
  ASSUME IInv, TwoLegsInv, [Next]_vars
  PROVE  TwoLegsInv'
<1>1. ASSUME NEW q \in Procs, Kept(q), TwoLegs(q) PROVE TwoLegs(q)'
  BY <1>1, Zenon DEF Kept, TwoLegs
<1>2. ASSUME NEW q \in Procs, pc'[q] \in Complete, req'[q].op # "reverse"
      PROVE  TwoLegs(q)'
  <2>1. CASE pc[q] \in Complete /\ Kept(q)
    BY <1>1, <1>2, <2>1, Zenon DEF TwoLegsInv, Kept
  <2>2. CASE /\ req'[q] = req[q] /\ req[q].op = "transfer"
             /\ legs'[q] = ReqLegs(req[q])
    BY <2>2, Zenon DEF TwoLegs
  <2>3. CASE /\ req'[q] = req[q] /\ req[q].op = "create"
             /\ \E acc \in Nat : legs'[q] = WithExternalLeg(req[q], acc)
    BY <2>3, Zenon DEF TwoLegs
  <2>. QED
    BY <1>2, <2>1, <2>2, <2>3, AnyStep, Zenon DEF Advances
<1>. QED
  BY <1>2, Zenon DEF TwoLegsInv

\* Two balanced amounts are not the smallest.
LEMMA BalancedPair ==
  ASSUME NEW k \in Leg, NEW l \in Leg, Balanced(<<k, l>>)
  PROVE  NoMinInt(<<k, l>>)
<1>1. k.amount + l.amount = 0
  BY TotalTwo, Zenon DEF Balanced
<1>2. k.amount \in Int64 /\ l.amount \in Int64
  BY Zenon DEF Leg
<1>3. k.amount # MinInt /\ l.amount # MinInt
  BY <1>1, <1>2, MaxIntAssumption DEF Int64, MinInt
<1>4. \A i \in DOMAIN <<k, l>> : i = 1 \/ i = 2
  OBVIOUS
<1>5. <<k, l>>[1] = k /\ <<k, l>>[2] = l
  BY Zenon
<1>. QED
  BY <1>3, <1>4, <1>5, Zenon DEF NoMinInt

LEMMA AppendPair ==
  ASSUME NEW k, NEW l
  PROVE  Append(<<k>>, l) = <<k, l>>
<1> DEFINE s == Append(<<k>>, l)
<1>1. <<k>> \in Seq({k, l}) /\ <<k, l>> \in Seq({k, l}) /\ Len(<<k>>) = 1 /\ <<k>>[1] = k
  OBVIOUS
<1>2. s \in Seq({k, l}) /\ Len(s) = 2 /\ s[1] = k /\ s[2] = l
  BY <1>1, AppendProperties
<1>3. Len(<<k, l>>) = 2 /\ <<k, l>>[1] = k /\ <<k, l>>[2] = l
  BY Zenon
<1> HIDE DEF s
<1>4. Len(s) = Len(<<k, l>>) /\ \A i \in 1 .. Len(s) : s[i] = <<k, l>>[i]
  BY <1>2, <1>3
<1>5. s = <<k, l>>
  BY <1>1, <1>2, <1>4, SeqEqual, Zenon
<1>. QED
  BY Zenon, <1>5 DEF s

\* What the trigger lets a goroutine with two legs commit.
LEMMA TwoLegsCommit ==
  ASSUME NEW p \in Procs, req[p] \in Request, TwoLegs(p), Balanced(legs[p])
  PROVE  NoMinInt(legs[p])
<1>1. /\ req[p].account \in Nat /\ req[p].to \in Nat /\ req[p].amount \in Int64
  BY Zenon DEF Request
<1>2. CASE req[p].op = "transfer" /\ legs[p] = ReqLegs(req[p])
  <2> DEFINE k == [account |-> req[p].account, amount |-> Neg(req[p].amount)]
             l == [account |-> req[p].to, amount |-> req[p].amount]
  <2>1. k \in Leg /\ l \in Leg
    BY Zenon, <1>1, NegValue DEF Leg
  <2>2. legs[p] = <<k, l>>
    BY Zenon, <1>2 DEF ReqLegs
  <2>. QED
    BY <2>1, <2>2, BalancedPair, Zenon
<1>3. ASSUME NEW acc \in Nat, req[p].op = "create", legs[p] = WithExternalLeg(req[p], acc)
      PROVE  NoMinInt(legs[p])
  <2> DEFINE k == [account |-> req[p].account, amount |-> req[p].amount]
             l == [account |-> acc, amount |-> Neg(req[p].amount)]
  <2>1. k \in Leg /\ l \in Leg
    BY Zenon, <1>1, NegValue DEF Leg
  <2>2. legs[p] = Append(<<k>>, l)
    <3>1. ReqLegs(req[p]) = <<k>>
      BY <1>3, Zenon DEF ReqLegs
    <3>2. Neg(Wrap(Total(ReqLegs(req[p])))) = Neg(req[p].amount)
      BY <1>3, ExternalLeg, Zenon
    <3>. QED
      BY <1>3, <3>1, <3>2, Zenon DEF WithExternalLeg
  <2>3. Append(<<k>>, l) = <<k, l>>
    BY AppendPair, Zenon
  <2>. QED
    BY <2>1, <2>2, <2>3, BalancedPair, Zenon
<1>. QED
  BY <1>2, <1>3, Zenon DEF TwoLegs

\* The postings of a reversal undo those it is made from.
LEMMA NegatedUndoes ==
  ASSUME NEW ls \in Seq(Leg), NoMinInt(ls)
  PROVE  /\ Len(Negated(ls)) = Len(ls) /\ DOMAIN Negated(ls) = DOMAIN ls
         /\ \A i \in DOMAIN ls : /\ Negated(ls)[i].account = ls[i].account
                                 /\ Negated(ls)[i].amount + ls[i].amount = 0
         /\ NoMinInt(Negated(ls))
<1>1. /\ Len(Negated(ls)) = Len(ls) /\ DOMAIN Negated(ls) = DOMAIN ls
      /\ \A i \in DOMAIN ls : /\ Negated(ls)[i].account = ls[i].account
                              /\ Negated(ls)[i].amount = Neg(ls[i].amount)
  BY DEF Negated
<1>2. \A i \in DOMAIN ls : ls[i].amount \in Int64 /\ ls[i].amount # MinInt
  <2>1. \A i \in DOMAIN ls : ls[i] \in Leg
    OBVIOUS
  <2>2. \A l \in Leg : l.amount \in Int64
    BY Zenon DEF Leg
  <2>. QED
    BY <2>1, <2>2, Zenon DEF NoMinInt
<1>3. \A i \in DOMAIN ls : Negated(ls)[i].amount = -ls[i].amount
  BY <1>1, <1>2, NegValue, Zenon
<1>4. \A n \in Int64 : (-n) + n = 0 /\ -n # MinInt
  BY MaxIntAssumption DEF Int64, MinInt
<1>. QED
  BY <1>1, <1>2, <1>3, <1>4, Zenon DEF NoMinInt

\* The legs at a COMMIT, the amounts of the postings and the reversals, in one
\* induction.
LEMMA AmountsInvariance == Spec => [](IInv /\ TwoLegsInv /\ NoMinInv /\ ReversalNegates)
<1>1. Init => TwoLegsInv /\ NoMinInv /\ ReversalNegates
  <2>1. Init => NoMinInv /\ ReversalNegates
    BY Transactions0Assumption, Zenon DEF Init, NoMinInv, NoMinInt, ReversalNegates
  <2>2. Init => TwoLegsInv
    BY Zenon DEF Init, TwoLegsInv, Complete
  <2>. QED
    BY Zenon, <2>1, <2>2
<1>2. ReversalNegates = Undone /\ ReversalNegates' = Undone'
  BY Zenon DEF ReversalNegates, Undone, Undoes
<1>3. ASSUME IInv, TwoLegsInv, NoMinInv, ReversalNegates, [Next]_vars
      PROVE  TwoLegsInv' /\ NoMinInv' /\ ReversalNegates'
  <2>1. TwoLegsInv'
    BY <1>3, TwoLegsStep, Zenon
  <2>2. ASSUME transactions' = transactions PROVE NoMinInv' /\ ReversalNegates'
    BY <1>3, <2>2, Zenon DEF NoMinInv, ReversalNegates
  <2>3. ASSUME NEW p \in Procs, Committing(p) PROVE NoMinInv' /\ ReversalNegates'
    <3>0. PICK n : n = NewTransaction(p)
      BY Zenon
    <3>1. /\ transactions' = transactions \cup {n} /\ n.postings = legs[p]
          /\ Balanced(n.postings)
          /\ \/ req[p].op # "reverse" /\ n.reversal_of = 0
             \/ \E o \in transactions : /\ o.id = n.reversal_of /\ o.reversal_of = 0
                                        /\ o.user = n.user /\ o.currency = n.currency
                                        /\ n.postings = Negated(o.postings)
      BY <1>3, <2>3, <3>0, CommittedRow, ZenonT(30)
    <3>2. pc[p] = "commit" /\ "commit" \in Complete /\ "commit" # "idle"
      BY Zenon, <2>3 DEF Committing, CommitRows, Complete
    <3>3. req[p] \in Request
      BY Zenon, <1>3, <3>2, RequestsAssumption DEF IInv, TypeOK, LocalInv
    <3>4. \A t \in transactions : t.reversal_of # 0 =>
            \E o \in transactions' : Undoes(t, o)
      BY <1>2, <1>3, <3>1, Zenon DEF Undone
    <3>5. CASE req[p].op # "reverse" /\ n.reversal_of = 0
      <4>1. TwoLegs(p)
        BY <1>3, <3>2, <3>5, Zenon DEF TwoLegsInv
      <4>2. NoMinInt(n.postings)
        BY <3>1, <3>3, <4>1, TwoLegsCommit, Zenon
      <4>3. NoMinInv'
        BY <1>3, <3>1, <4>2, Zenon DEF NoMinInv
      <4>4. ReversalNegates'
        BY <1>2, <3>1, <3>5, <3>4, Zenon DEF Undone
      <4>. QED
        BY Zenon, <4>3, <4>4
    <3>6. ASSUME NEW o \in transactions, o.id = n.reversal_of, o.reversal_of = 0,
                 o.user = n.user, o.currency = n.currency,
                 n.postings = Negated(o.postings)
          PROVE  NoMinInv' /\ ReversalNegates'
      <4>1. o.postings \in Seq(Leg)
        BY <1>3, Zenon DEF IInv, TypeOK, Transaction
      <4>2. NoMinInt(o.postings)
        BY <1>3, Zenon DEF NoMinInv
      <4>3. /\ Len(o.postings) = Len(n.postings)
            /\ \A i \in DOMAIN n.postings :
                 /\ n.postings[i].account = o.postings[i].account
                 /\ n.postings[i].amount + o.postings[i].amount = 0
            /\ NoMinInt(n.postings)
        BY <3>6, <4>1, <4>2, NegatedUndoes, ZenonT(30)
      <4>4. NoMinInv'
        BY <1>3, <3>1, <4>3, Zenon DEF NoMinInv
      <4>5. ReversalNegates'
        <5>1. o \in transactions' /\ Undoes(n, o)
          BY <3>1, <3>6, <4>3, Zenon DEF Undoes
        <5>. QED
          BY <1>2, <3>1, <3>4, <5>1, Zenon DEF Undone
      <4>. QED
        BY Zenon, <4>4, <4>5
    <3>. QED
      BY <3>1, <3>5, <3>6, Zenon
  <2>. QED
    BY <1>3, <2>1, <2>2, <2>3, TableSteps, Zenon
<1>. QED
  BY <1>1, <1>3, Invariance, PTL DEF Spec

\* A reversal posts exactly the opposite of what it reverses, amount by amount:
\* no committed posting has the amount that -leg.Amount would leave unchanged.
THEOREM ReversalsNegate == Spec => []ReversalNegates
BY AmountsInvariance, PTL
---------------------------------------------------------------------------
\* A set of naturals that is not empty has a smallest element; what fails for
\* some n fails for a first one.
LEMMA Smallest ==
  ASSUME NEW T \in SUBSET Nat, T # {}
  PROVE  \E x \in T : \A y \in T : x <= y
<1>1. PICK x \in T : \A y \in T : ~(<<y, x>> \in OpToRel(<, Nat))
  BY NatLessThanWellFounded, WFMin, Zenon
<1>2. \A y, z \in Nat : <<y, z>> \in OpToRel(<, Nat) <=> y < z
  BY Zenon DEF OpToRel
<1>3. x \in Nat /\ \A y \in T : y \in Nat
  BY Zenon
<1>4. \A y \in T : ~(y < x)
  BY <1>1, <1>2, <1>3, Zenon
<1>5. \A y \in T : x <= y
  BY <1>3, <1>4
<1>. QED
  BY <1>5, Zenon

\* The partial sums that define Total, up to the m-th leg.
Sums(ls, m, S) == S = [n \in 0..m |-> IF n = 0 THEN 0 ELSE S[n - 1] + ls[n].amount]

LEMMA SumsExist ==
  ASSUME NEW ls \in Seq(Leg)
  PROVE  \E S : Sums(ls, Len(ls), S)
<1> DEFINE T == {m \in 0..Len(ls) : ~\E S : Sums(ls, m, S)}
<1>0. Len(ls) \in Nat
  OBVIOUS
<1>1. SUFFICES ASSUME T # {} PROVE FALSE
  BY <1>0
<1>2. T \in SUBSET Nat
  BY <1>0
<1>3. PICK m \in T : \A k \in T : m <= k
  BY <1>1, <1>2, Smallest, Zenon
<1>4. m \in 0..Len(ls) /\ m \in Nat
  BY <1>0, <1>3
<1>5. ~\E S : Sums(ls, m, S)
  BY Zenon, <1>3
<1>6. m # 0
  <2>1. Sums(ls, 0, [n \in 0..0 |-> 0])
    BY DEF Sums
  <2>. QED
    BY Zenon, <1>5, <2>1
<1>7. m - 1 \in 0..Len(ls) /\ m - 1 \notin T
  BY <1>0, <1>3, <1>4, <1>6
<1>8. PICK S : Sums(ls, m - 1, S)
  BY Zenon, <1>7
<1> DEFINE R == [n \in 0..m |-> IF n = m THEN S[m - 1] + ls[m].amount ELSE S[n]]
<1>9. \A n \in 0..(m - 1) : S[n] = IF n = 0 THEN 0 ELSE S[n - 1] + ls[n].amount
  BY Zenon, <1>8 DEF Sums
<1>10. \A n \in 0..m : R[n] = IF n = 0 THEN 0 ELSE R[n - 1] + ls[n].amount
  BY <1>4, <1>6, <1>9
<1>11. Sums(ls, m, R)
  BY Zenon, <1>10 DEF Sums
<1>. QED
  BY <1>5, <1>11, Zenon

\* What Total adds up, leg by leg.
LEMMA TotalSums ==
  ASSUME NEW ls \in Seq(Leg)
  PROVE  \E S : /\ S \in [0..Len(ls) -> Int] /\ S[0] = 0
                /\ \A n \in 1..Len(ls) : S[n] = S[n - 1] + ls[n].amount
                /\ Total(ls) = S[Len(ls)]
<1> DEFINE S == CHOOSE S : Sums(ls, Len(ls), S)
<1>0. Len(ls) \in Nat /\ \A n \in 1..Len(ls) : ls[n].amount \in Int
  <2>1. \A l \in Leg : l.amount \in Int
    BY MaxIntAssumption DEF Leg, Int64, MinInt
  <2>2. \A n \in 1..Len(ls) : ls[n] \in Leg
    OBVIOUS
  <2>. QED
    BY <2>1, <2>2
<1>1. Sums(ls, Len(ls), S)
  BY SumsExist, Zenon
<1>2. Total(ls) = S[Len(ls)]
  BY Zenon DEF Total, Sums
<1> HIDE DEF S
<1>3. /\ S[0] = 0 /\ DOMAIN S = 0..Len(ls)
      /\ \A n \in 1..Len(ls) : S[n] = S[n - 1] + ls[n].amount
  BY <1>0, <1>1 DEF Sums
<1>4. S = [n \in 0..Len(ls) |-> S[n]]
  BY Zenon, <1>1 DEF Sums
<1>5. \A n \in 0..Len(ls) : S[n] \in Int
  <2> DEFINE T == {n \in 0..Len(ls) : S[n] \notin Int}
  <2>1. SUFFICES ASSUME T # {} PROVE FALSE
    BY Zenon
  <2>2. T \in SUBSET Nat
    BY <1>0
  <2>3. PICK m \in T : \A k \in T : m <= k
    BY <2>1, <2>2, Smallest, ZenonT(30)
  <2>4. m \in 1..Len(ls) /\ m - 1 \in 0..Len(ls) /\ m - 1 \notin T
    BY SMTT(30), <1>0, <1>3, <2>3
  <2>. QED
    BY <1>0, <1>3, <2>3, <2>4
<1>6. S \in [0..Len(ls) -> Int]
  BY Zenon, <1>4, <1>5
<1>. QED
  BY <1>2, <1>3, <1>6, Zenon

\* The postings of a reversal sum to the opposite of those they negate.
LEMMA TotalNegated ==
  ASSUME NEW ls \in Seq(Leg), NoMinInt(ls)
  PROVE  Total(Negated(ls)) = 0 - Total(ls)
<1>0. /\ Len(ls) \in Nat /\ Negated(ls) \in Seq(Leg) /\ Len(Negated(ls)) = Len(ls)
      /\ \A n \in 1..Len(ls) : Negated(ls)[n].amount = -ls[n].amount /\ ls[n].amount \in Int
  <2>1. \A l \in Leg : l.amount \in Int64 /\ l.amount \in Int
    BY MaxIntAssumption DEF Leg, Int64, MinInt
  <2>2. \A n \in 1..Len(ls) : ls[n] \in Leg /\ ls[n].amount # MinInt
    BY DEF NoMinInt
  <2>3. \A n \in 1..Len(ls) : Negated(ls)[n].amount = Neg(ls[n].amount)
    BY Zenon DEF Negated
  <2>4. Len(ls) \in Nat /\ Len(Negated(ls)) = Len(ls)
    BY DEF Negated
  <2>5. \A n \in 1..Len(ls) : Negated(ls)[n].amount = -ls[n].amount
    BY <2>1, <2>2, <2>3, NegValue, ZenonT(30)
  <2>. QED
    BY <2>1, <2>2, <2>4, <2>5, NegatedType, ZenonT(30)
<1>1. PICK S : /\ S \in [0..Len(ls) -> Int] /\ S[0] = 0
               /\ \A n \in 1..Len(ls) : S[n] = S[n - 1] + ls[n].amount
               /\ Total(ls) = S[Len(ls)]
  BY TotalSums, Zenon
<1>2. PICK R : /\ R \in [0..Len(ls) -> Int] /\ R[0] = 0
               /\ \A n \in 1..Len(ls) : R[n] = R[n - 1] + Negated(ls)[n].amount
               /\ Total(Negated(ls)) = R[Len(ls)]
  <2> DEFINE ns == Negated(ls)
  <2>1. ns \in Seq(Leg) /\ Len(ns) = Len(ls)
    BY Zenon, <1>0
  <2> HIDE DEF ns
  <2>2. \E R : /\ R \in [0..Len(ns) -> Int] /\ R[0] = 0
               /\ \A n \in 1..Len(ns) : R[n] = R[n - 1] + ns[n].amount
               /\ Total(ns) = R[Len(ns)]
    BY <2>1, TotalSums, Zenon
  <2>3. \E R : /\ R \in [0..Len(ls) -> Int] /\ R[0] = 0
               /\ \A n \in 1..Len(ls) : R[n] = R[n - 1] + ns[n].amount
               /\ Total(ns) = R[Len(ls)]
    BY <2>1, <2>2, Zenon
  <2>. QED
    BY <2>3, Zenon DEF ns
<1>3. \A n \in 0..Len(ls) : R[n] = 0 - S[n]
  <2> DEFINE T == {n \in 0..Len(ls) : R[n] # 0 - S[n]}
  <2>1. SUFFICES ASSUME T # {} PROVE FALSE
    BY Zenon
  <2>2. T \in SUBSET Nat
    BY <1>0
  <2>3. PICK m \in T : \A k \in T : m <= k
    BY <2>1, <2>2, Smallest, ZenonT(30)
  <2>4. m \in 1..Len(ls) /\ m - 1 \in 0..Len(ls) /\ m - 1 \notin T
    BY SMTT(30), <1>0, <1>1, <1>2, <2>3
  <2>5. R[m] = R[m - 1] + (-ls[m].amount) /\ S[m] = S[m - 1] + ls[m].amount
    BY Zenon, <1>0, <1>1, <1>2, <2>4
  <2>6. R[m - 1] = 0 - S[m - 1] /\ S[m - 1] \in Int /\ ls[m].amount \in Int
    BY Zenon, <1>0, <1>1, <2>4
  <2>7. \A x, y \in Int : (0 - x) + (-y) = 0 - (x + y)
    OBVIOUS
  <2>8. R[m] = 0 - S[m]
    BY <2>5, <2>6, <2>7, Zenon
  <2>. QED
    BY Zenon, <2>3, <2>8
<1>. QED
  BY <1>0, <1>1, <1>2, <1>3
---------------------------------------------------------------------------
\* Requests with one hash differ at most in the zone of occurred_at.
LEMMA SameBody ==
  ASSUME NEW r \in Requests, NEW s \in Requests, Hash(r) = Hash(s),
         r.user = s.user, r.key = s.key
  PROVE  r = [s EXCEPT !.at = r.at] /\ r.at.utc = s.at.utc
<1>1. r \in Request /\ s \in Request
  BY Zenon, RequestsAssumption
<1>2. r.op \in {"create", "transfer", "reverse"} /\ s.op \in {"create", "transfer", "reverse"}
  BY Zenon, <1>1 DEF Request
<1>3. r.op = s.op
  <2>1. \A q \in {r, s} : Hash(q).op = IF q.op = "reverse" THEN "reverse"
                                       ELSE IF q.op = "create" THEN "external" ELSE "balanced"
    BY Zenon DEF Hash, UseExternalLeg
  <2>. QED
    BY <1>2, <2>1
<1>4. /\ r.op = "create" => r.to = s.to
      /\ r.op # "reverse" => r.target = s.target
      /\ r.op = "reverse" => /\ r.account = s.account /\ r.to = s.to /\ r.amount = s.amount
                             /\ r.currency = s.currency /\ r.at = s.at
  BY <1>3, BodiesAssumption, Zenon
<1>5. r.op = "reverse" => r.target = s.target
  BY Zenon, <1>3 DEF Hash
<1>6. r.op # "reverse" =>
        ReqLegs(r) = ReqLegs(s) /\ r.currency = s.currency /\ r.at.utc = s.at.utc
  <2>1. \A q \in {r, s} : q.op # "reverse" =>
          Hash(q).legs = ReqLegs(q) /\ Hash(q).currency = q.currency /\ Hash(q).at = q.at.utc
    BY Zenon DEF Hash
  <2>. QED
    BY Zenon, <1>3, <2>1
<1>7. r.op = "create" => r.account = s.account /\ r.amount = s.amount
  <2>1. ASSUME r.op = "create" PROVE r.account = s.account /\ r.amount = s.amount
    <3>1. /\ ReqLegs(r)[1] = [account |-> r.account, amount |-> r.amount]
          /\ ReqLegs(s)[1] = [account |-> s.account, amount |-> s.amount]
      BY Zenon, <1>3, <2>1 DEF ReqLegs
    <3>. QED
      BY <1>6, <2>1, <3>1
  <2>. QED
    BY Zenon, <2>1
<1>8. r.op = "transfer" => r.account = s.account /\ r.to = s.to /\ r.amount = s.amount
  <2>1. ASSUME r.op = "transfer"
        PROVE  r.account = s.account /\ r.to = s.to /\ r.amount = s.amount
    <3>1. /\ ReqLegs(r)[1].account = r.account /\ ReqLegs(s)[1].account = s.account
          /\ ReqLegs(r)[2] = [account |-> r.to, amount |-> r.amount]
          /\ ReqLegs(s)[2] = [account |-> s.to, amount |-> s.amount]
      BY Zenon, <1>3, <2>1 DEF ReqLegs
    <3>. QED
      BY <1>6, <2>1, <3>1
  <2>. QED
    BY Zenon, <2>1
<1>9. /\ r.op = s.op /\ r.user = s.user /\ r.key = s.key /\ r.account = s.account
      /\ r.to = s.to /\ r.amount = s.amount /\ r.currency = s.currency
      /\ r.target = s.target /\ r.at.utc = s.at.utc
  BY <1>2, <1>3, <1>4, <1>5, <1>6, <1>7, <1>8, ZenonT(30)
<1>10. r = [s EXCEPT !.at = r.at]
  BY Zenon, <1>1, <1>9 DEF Request
<1>. QED
  BY Zenon, <1>9, <1>10

\* The transaction of a committed key was written for the request hashed in it.
HashInv ==
    \A k \in idempotency_keys : \E t \in transactions :
        /\ t.id = k.response /\ t.by \in Requests
        /\ t.by.user = k.user /\ t.by.key = k.key /\ k.hash = Hash(t.by)

\* A goroutine that has committed carries the id of its transaction.
DoneInv ==
    \A p \in Procs : pc[p] = "invalidate" =>
        \E t \in transactions : t.id = id[p] /\ t.by = req[p]

\* A COMMIT books the transaction of the request it serves.
LEMMA CommittedRequest ==
  ASSUME IInv, NEW p \in Procs, Committing(p)
  PROVE  \E t \in transactions' : t.id = id[p] /\ t.by = req[p] /\ t.by \in Requests
<1>1. pc[p] # "idle"
  BY Zenon DEF Committing
<1>2. /\ transactions' = transactions \cup {NewTransaction(p)}
      /\ NewTransaction(p).id = id[p] /\ NewTransaction(p).by = req[p]
  BY CommittedRow, Zenon
<1>3. req[p] \in Requests
  BY <1>1, Serving, Zenon
<1>. QED
  BY <1>2, <1>3, Zenon

\* It also spends the key with the hash of that request.
LEMMA HashStep == ASSUME IInv, HashInv, [Next]_vars PROVE HashInv'
<1>1. ASSUME UNCHANGED <<transactions, idempotency_keys, outbox>> PROVE HashInv'
  BY <1>1, Zenon DEF HashInv
<1>2. ASSUME NEW p \in Procs, Committing(p) PROVE HashInv'
  <2>1. /\ idempotency_keys' = idempotency_keys \cup NewKeys(p)
        /\ transactions \subseteq transactions'
    BY <1>2, Zenon DEF Committing, CommitRows
  <2>2. \A k \in NewKeys(p) : /\ k.user = req[p].user /\ k.key = req[p].key
                              /\ k.hash = Hash(req[p]) /\ k.response = id[p]
    BY DEF NewKeys
  <2>3. PICK t \in transactions' : t.id = id[p] /\ t.by = req[p] /\ t.by \in Requests
    BY Zenon, <1>2, CommittedRequest
  <2>4. ASSUME NEW k \in idempotency_keys'
        PROVE  \E u \in transactions' :
                 /\ u.id = k.response /\ u.by \in Requests
                 /\ u.by.user = k.user /\ u.by.key = k.key /\ k.hash = Hash(u.by)
    <3>1. CASE k \in idempotency_keys
      BY <2>1, <3>1, Zenon DEF HashInv
    <3>2. CASE k \in NewKeys(p)
      BY <2>2, <2>3, <3>2, Zenon
    <3>. QED
      BY <2>1, <3>1, <3>2, Zenon
  <2>. QED
    BY <2>4, Zenon DEF HashInv
<1>. QED
  BY <1>1, <1>2, TableSteps, ZenonT(30)

\* A goroutine is past its COMMIT because it was before, or by its COMMIT.
LEMMA DoneStep ==
  ASSUME IInv, [Next]_vars, NEW q \in Procs, pc'[q] = "invalidate"
  PROVE  /\ pc[q] = "invalidate" \/ Committing(q)
         /\ req'[q] = req[q] /\ id'[q] = id[q]
<1>0. pc \in [Procs -> InTx \cup {"idle", "begin", "invalidate"}]
  BY Zenon DEF IInv, TypeOK
<1>1. ASSUME NEW out, NEW tx, Finish(q, out, tx) PROVE FALSE
  BY Zenon, <1>0, <1>1 DEF Finish
<1>2. ASSUME NEW l, l # "invalidate", pc' = [pc EXCEPT ![q] = l] PROVE FALSE
  BY Zenon, <1>0, <1>2
<1>3. ASSUME ProcStep(q)
      PROVE  /\ pc[q] = "invalidate" \/ Committing(q)
             /\ req'[q] = req[q] /\ id'[q] = id[q]
  <2>1. ASSUME NEW r \in Requests, Submit(q, r)
        PROVE  FALSE
    <3>1. pc[q] # "invalidate" /\ "begin" # "invalidate"
      BY Zenon, <2>1 DEF Submit
    <3>. QED
      BY <1>2, <2>1, <3>1, ZenonT(30) DEF Submit
  <2>2. CASE Commit(q)
    BY <1>1, <2>2, Zenon DEF Commit, Committing, Goto
  <2>3. ASSUME Claim(q) PROVE FALSE
    <3>1. (CASE req[q].op = "create"   -> "external"
             [] req[q].op = "transfer" -> "check"
             [] OTHER                  -> "load") # "invalidate"
      BY Zenon
    <3>. QED
      BY <1>1, <1>2, <2>3, <3>1, Zenon DEF Claim, Goto
  <2>4. ASSUME Begin(q) \/ GetExternalAccount(q) \/ CreateExternalAccount(q) PROVE FALSE
    <3>1. "claim" # "invalidate" /\ "lazy" # "invalidate" /\ "check" # "invalidate"
      BY Zenon
    <3>. QED
      BY <1>1, <1>2, <2>4, <3>1, ZenonT(30) DEF Begin, GetExternalAccount, CreateExternalAccount, Goto
  <2>5. ASSUME CheckLegs(q) \/ LoadOriginal(q) \/ WriteRows(q) PROVE FALSE
    <3>1. "write" # "invalidate" /\ "commit" # "invalidate"
      BY Zenon
    <3>. QED
      BY <1>1, <1>2, <2>5, <3>1, ZenonT(30) DEF CheckLegs, LoadOriginal, WriteRows, Goto
  <2>6. ASSUME Invalidate(q) \/ Abort(q) \/ CommitLost(q) PROVE FALSE
    BY <1>1, <2>6, Zenon DEF Invalidate, Abort, CommitLost
  <2>. QED
    BY <1>3, <2>1, <2>2, <2>3, <2>4, <2>5, <2>6, ZenonT(30) DEF ProcStep, Step
<1>4. ASSUME NEW p \in Procs, p # q, ProcStep(p)
      PROVE  pc[q] = "invalidate" /\ req'[q] = req[q] /\ id'[q] = id[q]
  BY <1>4, StepOthers, Zenon DEF Others
<1>5. ASSUME UNCHANGED local PROVE pc[q] = "invalidate" /\ req'[q] = req[q] /\ id'[q] = id[q]
  BY <1>5, Zenon DEF local
<1>6. UNCHANGED vars \/ (\E u \in Users : Register(u)) \/ (\E b \in NewAccounts : CreateAccount(b))
        => UNCHANGED local
  BY Zenon DEF vars, Register, CreateAccount
<1>. QED
  BY <1>3, <1>4, <1>5, <1>6, ZenonT(30) DEF Next, ProcStep

LEMMA LegsDomain == ASSUME IInv, NEW p \in Procs PROVE DOMAIN legs[p] \in SUBSET Nat
<1>1. legs[p] \in Seq(Leg)
  BY Zenon DEF IInv, TypeOK
<1>. QED
  BY <1>1

\* A 201 is new only after a COMMIT, or as the replay of a key with this hash.
LEMMA NewOks ==
  ASSUME IInv, [Next]_vars, NEW a \in replies', a.out = "ok", a \notin replies
  PROVE  \E p \in Procs :
           /\ pc[p] # "idle" /\ a.req = req[p]
           /\ \/ pc[p] = "invalidate" /\ a.tx = id[p]
              \/ \E k \in idempotency_keys :
                   /\ k.user = req[p].user /\ k.key = req[p].key
                   /\ k.hash = Hash(req[p]) /\ a.tx = k.response
<1> DEFINE Good(p) ==
             /\ pc[p] # "idle" /\ a.req = req[p]
             /\ \/ pc[p] = "invalidate" /\ a.tx = id[p]
                \/ \E k \in idempotency_keys :
                     /\ k.user = req[p].user /\ k.key = req[p].key
                     /\ k.hash = Hash(req[p]) /\ a.tx = k.response
<1>1. ~UNCHANGED replies
  BY Zenon
<1>2. ASSUME NEW r, NEW out, NEW tx, Reply(r, out, tx)
      PROVE  out = "ok" /\ a.req = r /\ a.tx = tx
  BY <1>2 DEF Reply
<1>3. ASSUME NEW p, NEW out, NEW tx, Finish(p, out, tx)
      PROVE  out = "ok" /\ a.req = req[p] /\ a.tx = tx
  BY <1>2, <1>3, Zenon DEF Finish
<1>4. ~UNCHANGED vars
  BY <1>1, Zenon DEF vars
<1>5. ASSUME NEW p \in Procs, NEW r \in Requests, Submit(p, r) PROVE FALSE
  <2>1. Reply(r, Validate(r), 0) /\ Validate(r) # "ok"
    BY <1>1, <1>5, Zenon DEF Submit
  <2>. QED
    BY <1>2, <2>1, Zenon
<1>6. ASSUME NEW p \in Procs, Claim(p) PROVE Good(p)
  <2>1. PICK k \in {k \in idempotency_keys : k.user = req[p].user /\ k.key = req[p].key} :
          IF k.hash # Hash(req[p]) THEN Finish(p, "ErrIdempotencyConflict", 0)
          ELSE IF k.status = "succeeded" THEN Finish(p, "ok", k.response)
          ELSE Finish(p, "ErrIdempotencyInFlight", 0)
    BY <1>1, <1>6, Zenon DEF Claim, Goto
  <2>2. \/ Finish(p, "ErrIdempotencyConflict", 0)
        \/ Finish(p, "ErrIdempotencyInFlight", 0)
        \/ k.hash = Hash(req[p]) /\ Finish(p, "ok", k.response)
    BY <2>1, Zenon
  <2>3. k.hash = Hash(req[p]) /\ a.tx = k.response /\ a.req = req[p]
    <3>1. "ErrIdempotencyConflict" # "ok" /\ "ErrIdempotencyInFlight" # "ok"
      BY Zenon
    <3>. QED
      BY <1>3, <2>2, <3>1, ZenonT(30)
  <2>4. pc[p] # "idle"
    BY Zenon, <1>6 DEF Claim
  <2>. QED
    BY <2>1, <2>3, <2>4, Zenon
<1>7. ASSUME NEW p \in Procs, CheckLegs(p) \/ LoadOriginal(p) PROVE FALSE
  <2>1. ASSUME CheckLegs(p) PROVE FALSE
    <3> DEFINE bad   == {i \in DOMAIN legs[p] : LegError(p, legs[p][i]) # "ok"}
               first == CHOOSE i \in bad : \A j \in bad : i <= j
    <3>1. bad # {} /\ Finish(p, LegError(p, legs[p][first]), 0)
      BY <1>1, <2>1, Zenon DEF CheckLegs, Goto
    <3>2. bad \in SUBSET Nat
      <4>1. DOMAIN legs[p] \in SUBSET Nat
        BY Zenon, LegsDomain
      <4>. QED
        BY Zenon, <4>1
    <3>3. \E i \in bad : \A j \in bad : i <= j
      BY <3>1, <3>2, Smallest, Zenon
    <3>4. first \in bad
      BY <3>3, Zenon
    <3>. QED
      BY <1>3, <3>1, <3>4, Zenon
  <2>2. ASSUME LoadOriginal(p) PROVE FALSE
    <3>1. CASE Finish(p, "ErrTxNotFound", 0)
      <4>1. "ErrTxNotFound" # "ok"
        BY Zenon
      <4>. QED
        BY <1>3, <3>1, <4>1
    <3>2. ASSUME NEW o \in transactions, OriginalError(o) # "ok", Finish(p, OriginalError(o), 0)
          PROVE  FALSE
      <4>1. OriginalError(o) = "ok"
        BY <1>3, <3>2
      <4>. QED
        BY Zenon, <3>2, <4>1
    <3>. QED
      BY <1>1, <2>2, <3>1, <3>2, ZenonT(30) DEF LoadOriginal, Goto
  <2>. QED
    BY Zenon, <1>7, <2>1, <2>2
<1>8. ASSUME NEW p \in Procs, Invalidate(p) PROVE Good(p)
  <2>1. pc[p] = "invalidate" /\ Finish(p, "ok", id[p]) /\ pc[p] # "idle"
    BY Zenon, <1>8 DEF Invalidate
  <2>. QED
    BY <1>3, <2>1, Zenon
<1>9. ASSUME NEW p \in Procs,
             \/ CreateExternalAccount(p) \/ WriteRows(p) \/ Commit(p)
             \/ Abort(p) \/ CommitLost(p)
      PROVE  FALSE
  <2>1. \E out \in {"internal", "ErrAlreadyReversed"} : Finish(p, out, 0)
    BY <1>1, <1>9, Zenon DEF CreateExternalAccount, WriteRows, Commit, Abort, CommitLost, Goto
  <2>2. \A out \in {"internal", "ErrAlreadyReversed"} : out # "ok"
    BY Zenon
  <2>. QED
    BY <1>3, <2>1, <2>2, Zenon
<1>10. ASSUME NEW p \in Procs, Begin(p) \/ GetExternalAccount(p) PROVE FALSE
  BY <1>1, <1>10, Zenon DEF Begin, GetExternalAccount, Goto
<1>11. ASSUME (\E u \in Users : Register(u)) \/ (\E b \in NewAccounts : CreateAccount(b)) PROVE FALSE
  BY <1>1, <1>11, Zenon DEF Register, CreateAccount
<1> HIDE DEF Good
<1>12. \E p \in Procs : Good(p)
  BY <1>4, <1>5, <1>6, <1>7, <1>8, <1>9, <1>10, <1>11, ZenonT(30) DEF Next, Step
<1>. QED
  BY <1>12, Zenon DEF Good

\* A 201 of Create, Transfer or Reverse, first answer or replay, names the
\* transaction that was written for this very request.
THEOREM ReplaysFaithful == Spec => []ReplayFaithful
<1>1. Init => HashInv /\ DoneInv /\ ReplayFaithful
  BY Zenon DEF Init, HashInv, DoneInv, ReplayFaithful
<1>2. ASSUME IInv, HashInv, DoneInv, ReplayFaithful, [Next]_vars
      PROVE  HashInv' /\ DoneInv' /\ ReplayFaithful'
  <2>1. transactions \subseteq transactions'
    BY <1>2, TableSteps, Zenon DEF Committing, CommitRows
  <2>2. ASSUME NEW p \in Procs, Committing(p)
        PROVE  \E t \in transactions' : t.id = id[p] /\ t.by = req[p] /\ t.by \in Requests
    BY <1>2, <2>2, CommittedRequest, Zenon
  <2>3. HashInv'
    BY <1>2, HashStep, Zenon
  <2>4. DoneInv'
    <3>1. ASSUME NEW q \in Procs, pc'[q] = "invalidate"
          PROVE  \E t \in transactions' : t.id = id'[q] /\ t.by = req'[q]
      <4>1. /\ pc[q] = "invalidate" \/ Committing(q)
            /\ req'[q] = req[q] /\ id'[q] = id[q]
        BY <1>2, <3>1, DoneStep, Zenon
      <4>. QED
        BY <1>2, <2>1, <2>2, <4>1, Zenon DEF DoneInv
    <3>. QED
      BY <3>1, Zenon DEF DoneInv
  <2>5. ASSUME NEW a \in replies', a.out = "ok"
        PROVE  \E t \in transactions' :
                 /\ t.id = a.tx /\ t.by # NoReq
                 /\ t.by = [a.req EXCEPT !.at = t.by.at]
                 /\ t.by.at.utc = a.req.at.utc
    <3>1. CASE a \in replies
      BY <1>2, <2>1, <2>5, <3>1, Zenon DEF ReplayFaithful
    <3>2. CASE a \notin replies
      <4>1. PICK p \in Procs :
              /\ pc[p] # "idle" /\ a.req = req[p]
              /\ \/ pc[p] = "invalidate" /\ a.tx = id[p]
                 \/ \E k \in idempotency_keys :
                      /\ k.user = req[p].user /\ k.key = req[p].key
                      /\ k.hash = Hash(req[p]) /\ a.tx = k.response
        BY <1>2, <2>5, <3>2, NewOks, ZenonT(30)
      <4>2. req[p] \in Requests /\ req[p] \in Request
        BY <1>2, <4>1, Serving, Zenon
      <4>3. PICK t \in transactions :
              /\ t.id = a.tx /\ t.by \in Requests /\ t.by.user = req[p].user
              /\ t.by.key = req[p].key /\ Hash(t.by) = Hash(req[p])
        <5>1. CASE pc[p] = "invalidate" /\ a.tx = id[p]
          BY <1>2, <4>2, <5>1, Zenon DEF DoneInv
        <5>2. ASSUME NEW k \in idempotency_keys, k.user = req[p].user, k.key = req[p].key,
                     k.hash = Hash(req[p]), a.tx = k.response
              PROVE  \E t \in transactions :
                       /\ t.id = a.tx /\ t.by \in Requests /\ t.by.user = req[p].user
                       /\ t.by.key = req[p].key /\ Hash(t.by) = Hash(req[p])
          <6>1. \E t \in transactions :
                  /\ t.id = k.response /\ t.by \in Requests
                  /\ t.by.user = k.user /\ t.by.key = k.key /\ k.hash = Hash(t.by)
            BY <1>2, Zenon DEF HashInv
          <6>. QED
            BY <5>2, <6>1, Zenon
        <5>. QED
          BY <4>1, <5>1, <5>2, Zenon
      <4>4. t.by = [req[p] EXCEPT !.at = t.by.at] /\ t.by.at.utc = req[p].at.utc
        BY <4>2, <4>3, SameBody, ZenonT(30)
      <4>5. t \in transactions' /\ t.by # NoReq
        BY <2>1, <4>3, RequestsAssumption, ZenonT(30)
      <4>. QED
        BY <4>1, <4>3, <4>4, <4>5, ZenonT(30)
    <3>. QED
      BY <3>1, <3>2, Zenon
  <2>6. ReplayFaithful'
    BY <2>5, Zenon DEF ReplayFaithful
  <2>. QED
    BY Zenon, <2>3, <2>4, <2>6
<1>. QED
  BY <1>1, <1>2, Invariance, PTL DEF Spec

\* Every committed key carries its response.
AllSucceeded == \A k \in idempotency_keys : k.status = "succeeded"

Refusals == {"ErrIdempotencyInFlight", "ErrIdempotencyConflict"}

\* Only claimIdempotency refuses a key, and only one committed with another hash.
LEMMA NewRefusals ==
  ASSUME IInv, AllSucceeded, [Next]_vars, NEW a \in replies', a.out \in Refusals, a \notin replies
  PROVE  /\ a.out # "ErrIdempotencyInFlight"
         /\ \E p \in Procs :
              /\ pc[p] # "idle" /\ a.req = req[p]
              /\ \E k \in idempotency_keys : /\ k.user = req[p].user /\ k.key = req[p].key
                                             /\ k.hash # Hash(req[p])
<1> DEFINE Good(p) ==
             /\ a.out # "ErrIdempotencyInFlight"
             /\ pc[p] # "idle" /\ a.req = req[p]
             /\ \E k \in idempotency_keys : /\ k.user = req[p].user /\ k.key = req[p].key
                                            /\ k.hash # Hash(req[p])
<1>1. ~UNCHANGED replies
  BY Zenon
<1>2. ASSUME NEW r, NEW out, NEW tx, Reply(r, out, tx) PROVE out = a.out /\ a.req = r
  BY <1>2 DEF Reply
<1>3. ASSUME NEW p, NEW out, NEW tx, Finish(p, out, tx) PROVE out = a.out /\ a.req = req[p]
  BY <1>2, <1>3, Zenon DEF Finish
<1>4. ~UNCHANGED vars
  BY <1>1, Zenon DEF vars
<1>5. ASSUME NEW p \in Procs, NEW r \in Requests, Submit(p, r) PROVE FALSE
  <2>1. Reply(r, Validate(r), 0)
    BY <1>1, <1>5, Zenon DEF Submit
  <2>2. Validate(r) \notin Refusals
    BY Zenon DEF Validate, validateLegs, Refusals
  <2>. QED
    BY <1>2, <2>1, <2>2, Zenon
<1>6. ASSUME NEW p \in Procs, Claim(p) PROVE Good(p)
  <2>1. PICK k \in {k \in idempotency_keys : k.user = req[p].user /\ k.key = req[p].key} :
          IF k.hash # Hash(req[p]) THEN Finish(p, "ErrIdempotencyConflict", 0)
          ELSE IF k.status = "succeeded" THEN Finish(p, "ok", k.response)
          ELSE Finish(p, "ErrIdempotencyInFlight", 0)
    BY <1>1, <1>6, Zenon DEF Claim, Goto
  <2>2. k.status = "succeeded"
    BY Zenon DEF AllSucceeded
  <2>3. \/ k.hash # Hash(req[p]) /\ Finish(p, "ErrIdempotencyConflict", 0)
        \/ Finish(p, "ok", k.response)
    BY <2>1, <2>2, Zenon
  <2>4. "ok" \notin Refusals /\ "ErrIdempotencyConflict" # "ErrIdempotencyInFlight"
    BY Zenon DEF Refusals
  <2>5. k.hash # Hash(req[p]) /\ a.req = req[p] /\ a.out # "ErrIdempotencyInFlight"
    <3>1. ~Finish(p, "ok", k.response)
      <4>1. ASSUME Finish(p, "ok", k.response) PROVE FALSE
        <5>1. a.out = "ok"
          BY <1>3, <4>1
        <5>. QED
          BY <2>4, <5>1
      <4>. QED
        BY Zenon, <4>1
    <3>2. Finish(p, "ErrIdempotencyConflict", 0) /\ k.hash # Hash(req[p])
      BY Zenon, <2>3, <3>1
    <3>3. a.out = "ErrIdempotencyConflict" /\ a.req = req[p]
      BY <1>3, <3>2
    <3>. QED
      BY Zenon, <2>4, <3>2, <3>3
  <2>6. pc[p] # "idle"
    BY Zenon, <1>6 DEF Claim
  <2>. QED
    BY <2>1, <2>5, <2>6, Zenon
<1>7. ASSUME NEW p \in Procs, CheckLegs(p) \/ LoadOriginal(p) PROVE FALSE
  <2>1. (\A l : LegError(p, l) \notin Refusals) /\ (\A o : OriginalError(o) \notin Refusals)
    BY Zenon DEF LegError, OriginalError, Refusals
  <2>2. "ErrTxNotFound" \notin Refusals
    BY Zenon DEF Refusals
  <2>3. \/ \E l : Finish(p, LegError(p, l), 0)
        \/ \E o : Finish(p, OriginalError(o), 0)
        \/ Finish(p, "ErrTxNotFound", 0)
    BY <1>1, <1>7, ZenonT(30) DEF CheckLegs, LoadOriginal, Goto
  <2>. QED
    BY <1>3, <2>1, <2>2, <2>3, Zenon
<1>8. ASSUME NEW p \in Procs,
             \/ CreateExternalAccount(p) \/ WriteRows(p) \/ Commit(p) \/ Invalidate(p)
             \/ Abort(p) \/ CommitLost(p)
      PROVE  FALSE
  <2>1. \E out \in {"internal", "ErrAlreadyReversed", "ok"}, tx \in {0, id[p]} : Finish(p, out, tx)
    BY <1>1, <1>8, Zenon DEF CreateExternalAccount, WriteRows, Commit, Invalidate, Abort, CommitLost, Goto
  <2>2. \A out \in {"internal", "ErrAlreadyReversed", "ok"} : out \notin Refusals
    BY Zenon DEF Refusals
  <2>. QED
    BY <1>3, <2>1, <2>2, Zenon
<1>9. ASSUME NEW p \in Procs, Begin(p) \/ GetExternalAccount(p) PROVE FALSE
  BY <1>1, <1>9, Zenon DEF Begin, GetExternalAccount, Goto
<1>10. ASSUME (\E u \in Users : Register(u)) \/ (\E b \in NewAccounts : CreateAccount(b)) PROVE FALSE
  BY <1>1, <1>10, Zenon DEF Register, CreateAccount
<1> HIDE DEF Good
<1>11. \E p \in Procs : Good(p)
  BY <1>4, <1>5, <1>6, <1>7, <1>8, <1>9, <1>10, ZenonT(30) DEF Next, Step
<1>. QED
  BY <1>11, Zenon DEF Good

\* Requests that differ in the zone of occurred_at alone hash alike.
LEMMA SameHash ==
  ASSUME NEW r \in Request, NEW s \in Request,
         s = [r EXCEPT !.at = s.at], s.at.utc = r.at.utc
  PROVE  Hash(s) = Hash(r)
<1>1. /\ s.op = r.op /\ s.user = r.user /\ s.account = r.account /\ s.to = r.to
      /\ s.amount = r.amount /\ s.currency = r.currency /\ s.target = r.target
  BY DEF Request
<1>2. ReqLegs(s) = ReqLegs(r) /\ (UseExternalLeg(s) <=> UseExternalLeg(r))
  BY Zenon, <1>1 DEF ReqLegs, UseExternalLeg
<1>. QED
  BY ZenonT(30), <1>1, <1>2 DEF Hash

\* claimIdempotency refuses a key only if it has booked another payload, and
\* never because it is in flight: a key is committed together with its response
\* and the hash of its request, and until then another request waits for it.
THEOREM KeyRefusalsHold == Spec => []KeyRefusals
<1> DEFINE OtherPayload(a) ==
             \E t \in transactions :
                /\ t.by # NoReq /\ t.by.user = a.req.user /\ t.by.key = a.req.key
                /\ ~(/\ t.by = [a.req EXCEPT !.at = t.by.at]
                     /\ t.by.at.utc = a.req.at.utc)
<1>1. Init => HashInv /\ AllSucceeded /\ KeyRefusals
  BY Zenon DEF Init, HashInv, AllSucceeded, KeyRefusals
<1>2. ASSUME IInv, HashInv, AllSucceeded, KeyRefusals, [Next]_vars
      PROVE  HashInv' /\ AllSucceeded' /\ KeyRefusals'
  <2>1. HashInv'
    BY <1>2, HashStep, Zenon
  <2>2. AllSucceeded'
    <3>1. ASSUME UNCHANGED <<transactions, idempotency_keys, outbox>> PROVE AllSucceeded'
      BY <1>2, <3>1, Zenon DEF AllSucceeded
    <3>2. ASSUME NEW p \in Procs, Committing(p) PROVE AllSucceeded'
      <4>1. \A k \in NewKeys(p) : k.status = "succeeded"
        BY DEF NewKeys
      <4>. QED
        BY <1>2, <3>2, <4>1, Zenon DEF AllSucceeded, Committing, CommitRows
    <3>. QED
      BY <1>2, <3>1, <3>2, TableSteps, Zenon
  <2>3. transactions \subseteq transactions'
    BY <1>2, TableSteps, Zenon DEF Committing, CommitRows
  <2>4. ASSUME NEW a \in replies', a \notin replies, a.out \in Refusals
        PROVE  a.out # "ErrIdempotencyInFlight" /\ OtherPayload(a)
    <3>1. /\ a.out # "ErrIdempotencyInFlight"
          /\ \E p \in Procs :
               /\ pc[p] # "idle" /\ a.req = req[p]
               /\ \E k \in idempotency_keys : /\ k.user = req[p].user /\ k.key = req[p].key
                                              /\ k.hash # Hash(req[p])
      BY <1>2, <2>4, NewRefusals, ZenonT(30)
    <3>2. PICK p \in Procs :
            /\ pc[p] # "idle" /\ a.req = req[p]
            /\ \E k \in idempotency_keys : /\ k.user = req[p].user /\ k.key = req[p].key
                                           /\ k.hash # Hash(req[p])
      BY Zenon, <3>1
    <3>3. a.req \in Request
      BY <1>2, <3>2, Serving, Zenon
    <3>4. PICK t \in transactions :
            /\ t.by \in Requests /\ t.by.user = a.req.user /\ t.by.key = a.req.key
            /\ Hash(t.by) # Hash(a.req)
      BY <1>2, <3>2, Zenon DEF HashInv
    <3>5. t.by \in Request /\ t.by # NoReq
      BY Zenon, <3>4, RequestsAssumption
    <3>6. ~(t.by = [a.req EXCEPT !.at = t.by.at] /\ t.by.at.utc = a.req.at.utc)
      BY <3>3, <3>4, <3>5, SameHash, Zenon
    <3>. QED
      BY Zenon, <3>1, <3>4, <3>5, <3>6
  <2>5. ASSUME NEW a \in replies'
        PROVE  /\ a.out # "ErrIdempotencyInFlight"
               /\ a.out = "ErrIdempotencyConflict" => OtherPayload(a)'
    <3>1. a \in replies => a.out # "ErrIdempotencyInFlight"
                           /\ (a.out = "ErrIdempotencyConflict" => OtherPayload(a))
      BY <1>2, Zenon DEF KeyRefusals
    <3>2. OtherPayload(a) => OtherPayload(a)'
      BY Zenon, <2>3
    <3> HIDE DEF OtherPayload
    <3>. QED
      BY <2>4, <3>1, <3>2, Zenon DEF Refusals
  <2>6. KeyRefusals'
    BY <2>5, Zenon DEF KeyRefusals
  <2>. QED
    BY Zenon, <2>1, <2>2, <2>6
<1>. QED
  BY <1>1, <1>2, Invariance, PTL DEF Spec

\* Two legs whose second amount is the negation of the first sum to zero.
LEMMA OppositePair ==
  ASSUME NEW k \in Leg, NEW l \in Leg, k.amount = -l.amount
  PROVE  Balanced(<<k, l>>)
<1>1. k.amount \in Int /\ l.amount \in Int
  BY MaxIntAssumption DEF Leg, Int64, MinInt
<1>. QED
  BY <1>1, TotalTwo DEF Balanced

\* Unbalanced legs that reach the COMMIT come from a create of MinInt.
LEMMA CommitBalanced ==
  ASSUME IInv, TwoLegsInv, NoMinInv, NEW p \in Procs, pc[p] = "commit"
  PROVE  Balanced(legs[p]) \/ (req[p].op = "create" /\ req[p].amount = MinInt)
<1>1. /\ req[p] \in Request /\ Validate(req[p]) = "ok"
      /\ pc[p] \in Complete /\ pc[p] \in {"write", "commit"}
  <2>1. pc[p] # "idle" /\ pc[p] \in Complete /\ pc[p] \in {"write", "commit"}
    BY Zenon DEF Complete
  <2>. QED
    BY <2>1, Serving, ZenonT(30) DEF IInv, LocalInv
<1>2. /\ req[p].account \in Nat /\ req[p].to \in Nat /\ req[p].amount \in Int64
      /\ req[p].amount \in Int /\ MinInt < 0 /\ MinInt \in Int
  BY <1>1, MaxIntAssumption DEF Request, Int64, MinInt
<1>3. CASE req[p].op = "reverse"
  <2>1. PICK o \in transactions : legs[p] = Negated(o.postings)
    BY <1>1, <1>3, ZenonT(30) DEF IInv, ReversalInv
  <2>2. o.postings \in Seq(Leg) /\ NoMinInt(o.postings) /\ Balanced(o.postings)
    BY Zenon DEF IInv, TypeOK, Transaction, NoMinInv, ZeroSum
  <2>3. Total(legs[p]) = 0 - Total(o.postings) /\ Total(o.postings) = 0
    BY <2>1, <2>2, TotalNegated, Zenon DEF Balanced
  <2>4. 0 - 0 = 0
    OBVIOUS
  <2>. QED
    BY <2>3, <2>4, Zenon DEF Balanced
<1>4. CASE req[p].op = "transfer" /\ legs[p] = ReqLegs(req[p])
  <2> DEFINE k == [account |-> req[p].account, amount |-> Neg(req[p].amount)]
             l == [account |-> req[p].to, amount |-> req[p].amount]
  <2>1. k \in Leg /\ l \in Leg
    BY Zenon, <1>2, NegValue DEF Leg
  <2>2. legs[p] = <<k, l>>
    BY Zenon, <1>4 DEF ReqLegs
  <2>3. ~(req[p].amount <= 0)
    BY Zenon, <1>1, <1>4 DEF Validate
  <2>4. req[p].amount # MinInt
    BY <1>2, <2>3
  <2>5. k.amount = -l.amount
    BY Zenon, <1>2, <2>4, NegValue
  <2>. QED
    BY <2>1, <2>2, <2>5, OppositePair, ZenonT(30)
<1>5. ASSUME NEW acc \in Nat, req[p].op = "create", legs[p] = WithExternalLeg(req[p], acc),
             req[p].amount # MinInt
      PROVE  Balanced(legs[p])
  <2> DEFINE k == [account |-> req[p].account, amount |-> req[p].amount]
             l == [account |-> acc, amount |-> Neg(req[p].amount)]
  <2>1. k \in Leg /\ l \in Leg
    BY Zenon, <1>2, NegValue DEF Leg
  <2>2. legs[p] = <<k, l>>
    <3>1. ReqLegs(req[p]) = <<k>>
      BY <1>5, Zenon DEF ReqLegs
    <3>2. Neg(Wrap(Total(ReqLegs(req[p])))) = Neg(req[p].amount)
      BY <1>1, <1>5, ExternalLeg, Zenon
    <3>3. Append(<<k>>, l) = <<k, l>>
      BY AppendPair, Zenon
    <3>. QED
      BY <1>5, <3>1, <3>2, <3>3, ZenonT(30) DEF WithExternalLeg
  <2>3. k.amount = -l.amount
    BY <1>2, <1>5, NegValue
  <2>. QED
    BY <2>1, <2>2, <2>3, OppositePair, ZenonT(30)
<1>6. req[p].op # "reverse" => TwoLegs(p)
  BY <1>1, Zenon DEF TwoLegsInv
<1>. QED
  BY <1>3, <1>4, <1>5, <1>6, ZenonT(30) DEF TwoLegs

\* The trigger's check at COMMIT is a backstop: what Create, Transfer and Reverse
\* bring to it sums to zero, but for a create of the amount without a negation.
THEOREM BackstopOnlyHolds == Spec => []BackstopOnly
<1>1. IInv /\ TwoLegsInv /\ NoMinInv => BackstopOnly
  BY CommitBalanced, Zenon DEF BackstopOnly
<1>. QED
  BY <1>1, AmountsInvariance, PTL
=============================================================================
