------------------------------- MODULE Outbox -------------------------------
(***************************************************************************)
(* The outbox publisher.  Ledger transactions commit rows; the workers of  *)
(* all instances poll, lock a batch with FOR UPDATE SKIP LOCKED, publish   *)
(* it to Redis event by event and mark what was published, all inside one  *)
(* database transaction.                                                   *)
(***************************************************************************)
EXTENDS Naturals, FiniteSets

CONSTANTS
    Workers,       \* outbox workers, one per instance
    Events,        \* rows of outbox
    BatchLimit,    \* LIMIT 50
    MaxRollbacks,  \* bound: batches that fail or crash in a behaviour
    MaxLost        \* bound: lost answers of Redis, per row

ASSUME ConstantsAssumption ==
    /\ BatchLimit \in Nat \ {0}
    /\ MaxRollbacks \in Nat /\ MaxLost \in Nat

VARIABLES
    now,         \* the database's clock; it moves when a transaction commits
    begun,       \* rows whose ledger transaction has begun
    committed,   \* rows visible in outbox
    created,     \* their created_at: when the row's transaction began
    processed,   \* rows whose processed_at is set
    pc,          \* per worker: "idle", or "batch" in its transaction
    locked,      \* per worker: the rows of its batch, locked
    todo,        \* per worker: the rest of its batch
    done,        \* per worker: the local slice processed
    published,   \* history: PUBLISHes of a row that Redis executed
    lost,        \* history: those whose answer did not come back
    rollbacks,   \* history: rolled back batches that had published a row
    before,      \* history: <<a, b>> when a was committed before b's transaction began
    delayed,     \* history: rows a batch held and let go without publishing them
    failures     \* batches rolled back so far

ledger == <<now, begun, committed, created, before>>
worker == <<pc, locked, todo, done>>
vars == <<ledger, worker, processed, published, lost, rollbacks, delayed, failures>>

Init ==
    /\ now = 0 /\ begun = {} /\ committed = {} /\ processed = {}
    /\ created = [e \in Events |-> 0]
    /\ pc = [w \in Workers |-> "idle"]
    /\ locked = [w \in Workers |-> {}]
    /\ todo = [w \in Workers |-> {}]
    /\ done = [w \in Workers |-> {}]
    /\ published = [e \in Events |-> 0] /\ lost = [e \in Events |-> 0]
    /\ rollbacks = [e \in Events |-> 0]
    /\ before = {} /\ delayed = {}
    /\ failures = 0

\* A ledger transaction begins: now() is fixed, and with it created_at.
Begin(e) ==
    /\ e \notin begun
    /\ begun' = begun \cup {e}
    /\ created' = [created EXCEPT ![e] = now]
    /\ before' = before \cup {<<a, e>> : a \in committed}
    /\ UNCHANGED <<now, committed, worker, processed, published, lost, rollbacks, delayed, failures>>

\* It commits its event.  Concurrent transactions commit in any order of
\* created_at and may share it; one that begins after this commit is younger.
Insert(e) ==
    /\ e \in begun \ committed
    /\ committed' = committed \cup {e}
    /\ now' = now + 1
    /\ UNCHANGED <<begun, created, before, worker, processed, published, lost, rollbacks,
                   delayed, failures>>

\* Rows of FOR UPDATE SKIP LOCKED.
MutSelectable == committed \ processed           \* mutant: locks released before publishing
Selectable == (committed \ processed) \ UNION {locked[w] : w \in Workers}

\* ORDER BY created_at LIMIT 50; rows of the same created_at in any order.
Batches ==
    {B \in SUBSET Selectable :
        /\ B # {}
        /\ Cardinality(B) <= BatchLimit
        /\ B # Selectable => Cardinality(B) = BatchLimit
        /\ \A e \in B, f \in Selectable \ B : created[e] <= created[f]}

\* A tick of the worker: BEGIN and the SELECT.  An empty batch changes nothing.
SelectBatch(w) ==
    /\ pc[w] = "idle"
    /\ \E B \in Batches : /\ locked' = [locked EXCEPT ![w] = B]
                          /\ todo' = [todo EXCEPT ![w] = B]
    /\ pc' = [pc EXCEPT ![w] = "batch"]
    /\ UNCHANGED <<ledger, processed, done, published, lost, rollbacks, delayed, failures>>

\* The batch is walked in the order of the query.
MutOldest(w, e) == e \in todo[w]            \* mutant: no ORDER BY
Oldest(w, e) == e \in todo[w] /\ \A f \in todo[w] : created[e] <= created[f]

\* Redis acknowledges the PUBLISH.
PublishOk(w, e) ==
    /\ pc[w] = "batch"
    /\ Oldest(w, e)
    /\ todo' = [todo EXCEPT ![w] = @ \ {e}]
    /\ done' = [done EXCEPT ![w] = @ \cup {e}]
    /\ published' = [published EXCEPT ![e] = @ + 1]
    /\ UNCHANGED <<ledger, processed, pc, locked, lost, rollbacks, delayed, failures>>

\* PUBLISH fails: the event is left for a later batch.
MutPublishFails(w, e) ==                  \* mutant: no continue, the row is marked as well
    /\ pc[w] = "batch"
    /\ Oldest(w, e)
    /\ todo' = [todo EXCEPT ![w] = @ \ {e}]
    /\ done' = [done EXCEPT ![w] = @ \cup {e}]
    /\ UNCHANGED <<ledger, processed, pc, locked, published, lost, rollbacks, delayed, failures>>
PublishFails(w, e) ==
    /\ pc[w] = "batch"
    /\ Oldest(w, e)
    /\ todo' = [todo EXCEPT ![w] = @ \ {e}]
    /\ delayed' = delayed \cup {e}
    /\ UNCHANGED <<ledger, processed, pc, locked, done, published, lost, rollbacks, failures>>

\* Redis executes the PUBLISH and its answer is lost.  The client library sends
\* it again, or gives up, and then the loop goes on as after a failure.
PublishLost(w, e) ==
    /\ pc[w] = "batch"
    /\ Oldest(w, e)
    /\ lost[e] < MaxLost
    /\ published' = [published EXCEPT ![e] = @ + 1]
    /\ lost' = [lost EXCEPT ![e] = @ + 1]
    /\ \/ UNCHANGED <<todo, delayed>>
       \/ /\ todo' = [todo EXCEPT ![w] = @ \ {e}]
          /\ delayed' = delayed \cup {e}
    /\ UNCHANGED <<ledger, processed, pc, locked, done, rollbacks, failures>>

EndBatch(w) ==
    /\ pc' = [pc EXCEPT ![w] = "idle"]
    /\ locked' = [locked EXCEPT ![w] = {}]
    /\ todo' = [todo EXCEPT ![w] = {}]
    /\ done' = [done EXCEPT ![w] = {}]

\* UPDATE ... processed_at and COMMIT.
MutCommitBatch(w) ==                      \* mutant: the UPDATE is left out
    /\ pc[w] = "batch"
    /\ todo[w] = {}
    /\ EndBatch(w)
    /\ UNCHANGED <<ledger, processed, published, lost, rollbacks, delayed, failures>>
CommitBatch(w) ==
    /\ pc[w] = "batch"
    /\ todo[w] = {}
    /\ processed' = processed \cup done[w]
    /\ EndBatch(w)
    /\ UNCHANGED <<ledger, published, lost, rollbacks, delayed, failures>>

\* The UPDATE or the COMMIT fails, the context is cancelled, or the process
\* dies in the middle of the batch.
MutRollback(w) ==                         \* mutant: no deferred Rollback, the locks stay
    /\ pc[w] = "batch"
    /\ failures < MaxRollbacks
    /\ failures' = failures + 1
    /\ pc' = [pc EXCEPT ![w] = "idle"]
    /\ UNCHANGED <<ledger, processed, locked, todo, done, published, lost, rollbacks, delayed>>
Rollback(w) ==
    /\ pc[w] = "batch"
    /\ failures < MaxRollbacks
    /\ failures' = failures + 1
    /\ rollbacks' = [e \in Events |-> IF e \in done[w] THEN rollbacks[e] + 1 ELSE rollbacks[e]]
    /\ delayed' = delayed \cup todo[w]
    /\ EndBatch(w)
    /\ UNCHANGED <<ledger, processed, published, lost>>

Next ==
    \/ \E e \in Events : Begin(e) \/ Insert(e)
    \/ \E w \in Workers : \/ SelectBatch(w)
                          \/ \E e \in Events : \/ PublishOk(w, e)
                                              \/ PublishFails(w, e)
                                              \/ PublishLost(w, e)
                          \/ CommitBatch(w)
                          \/ Rollback(w)

Spec == Init /\ [][Next]_vars

\* Every worker keeps ticking and running, and Redis answers again and again.
Fairness ==
    \A w \in Workers :
        /\ WF_vars(SelectBatch(w) \/ CommitBatch(w))
        /\ WF_vars(\E e \in Events : PublishOk(w, e) \/ PublishFails(w, e) \/ PublishLost(w, e))
        /\ \A e \in Events : SF_vars(PublishOk(w, e))

FairSpec == Spec /\ Fairness
---------------------------------------------------------------------------
\* Every variable has its type; a worker holds locks and carries events only
\* inside a batch, and only those of the batch.
TypeOK ==
    /\ now \in Nat
    /\ begun \subseteq Events /\ committed \subseteq begun /\ processed \subseteq Events
    /\ created \in [Events -> Nat]
    /\ pc \in [Workers -> {"idle", "batch"}]
    /\ locked \in [Workers -> SUBSET Events]
    /\ todo \in [Workers -> SUBSET Events]
    /\ done \in [Workers -> SUBSET Events]
    /\ published \in [Events -> Nat] /\ lost \in [Events -> Nat]
    /\ rollbacks \in [Events -> Nat]
    /\ before \subseteq committed \X begun
    /\ delayed \subseteq Events
    /\ failures \in Nat
    /\ \A w \in Workers : /\ pc[w] = "idle" => locked[w] = {}
                          /\ todo[w] \cup done[w] \subseteq locked[w]
                          /\ todo[w] \cap done[w] = {}

\* Concurrent workers get disjoint batches, of committed rows that no other
\* worker has marked in the meantime.
DisjointBatches ==
    \A w \in Workers :
        /\ locked[w] \subseteq committed \ processed
        /\ \A v \in Workers \ {w} : locked[v] \cap locked[w] = {}

\* Nothing is dropped: a row is marked only after Redis executed its PUBLISH.
MarkedAfterPublish == \A e \in processed : published[e] > 0

\* An event is repeated only for a cause: it is published once, once more for
\* each PUBLISH whose answer was lost, and once more for each batch that
\* published it and then rolled back.
RepeatsHaveCause == \A e \in Events : published[e] <= 1 + lost[e] + rollbacks[e]

\* Every committed event is eventually published and marked, failures of Redis
\* and of the database and a finite number of crashes notwithstanding.
EventuallyProcessed == \A e \in Events : e \in committed ~> e \in processed

\* Events keep the order of the transactions that did not overlap: an event is
\* published ahead of one committed before its own transaction began only when
\* that one waits in another worker's batch, or a batch had it and let it go
\* (its PUBLISH failed, or the batch rolled back).
InOrder ==
    \A p \in before :
        published[p[2]] > 0 /\ published[p[1]] = 0
            => p[1] \in delayed \/ \E w \in Workers : p[1] \in todo[w] /\ p[2] \notin locked[w]
=============================================================================
