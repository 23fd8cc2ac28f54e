------------------------------ MODULE Summary ------------------------------
(***************************************************************************)
(* Summary: the monthly summaries of one account, cached in Redis.  A      *)
(* reader tries the cache, queries the database and stores what it read;   *)
(* a writer deletes the months it touched after its commit.  The two do    *)
(* not exclude each other.                                                 *)
(*                                                                         *)
(* A summary is modelled by the set of transactions it adds up.            *)
(***************************************************************************)
EXTENDS Integers, FiniteSets

CONSTANTS
    Txs,         \* transactions a behaviour may commit
    Readers,     \* goroutines of GET /accounts/{id}/summary
    Months,      \* a set of consecutive months
    ZoneShift,   \* by how many months a client's zone may shift occurred_at: 0 or 1
    TTL,         \* of a cached summary
    Timeout,     \* of a request: how long it can hold what it read
    MaxTime,     \* bound: length of a behaviour
    None

\* What a transaction is to the cache: its month in the database, when it was
\* committed, the months to be deleted, those of them that still are, whether a
\* deletion was lost.
Row == [month : Months, at : Nat, keys : SUBSET Months, todo : SUBSET Months,
        failed : BOOLEAN]
Entry == [val : SUBSET Txs, expires : Nat]
Work == [stage : {"query", "set"}, month : Months, val : SUBSET Txs, at : Nat]

ASSUME ConstantsAssumption ==
    /\ Months \subseteq Int /\ ZoneShift \in {0, 1}
    /\ TTL \in Nat \ {0} /\ Timeout \in Nat /\ MaxTime \in Nat
    /\ None \notin Row /\ None \notin Entry /\ None \notin Work

VARIABLES
    now,
    tx,          \* per transaction: its Row once committed, or None
    cache,       \* per month: the Entry of Redis, or None
    reader,      \* per reader: its Work, or None
    answer,      \* history: the last answer, with what it had to hold
    raced        \* history: transactions invalidated while a reader held an older sum

vars == <<now, tx, cache, reader, answer, raced>>

Init ==
    /\ now = 0
    /\ tx = [t \in Txs |-> None]
    /\ cache = [m \in Months |-> None]
    /\ reader = [r \in Readers |-> None]
    /\ answer = [val |-> {}, owed |-> {}]
    /\ raced = {}

\* Redis drops an entry when its time is up.
Expired(e, t) == e.expires <= t
\* A request ends within its timeout.
Tick ==
    /\ now < MaxTime
    /\ \A r \in Readers : reader[r] # None /\ reader[r].stage = "set" =>
         now < reader[r].at + Timeout
    /\ now' = now + 1
    /\ cache' = [m \in Months |-> IF cache[m] # None /\ Expired(cache[m], now + 1) THEN None
                               ELSE cache[m]]
    /\ UNCHANGED <<tx, reader, answer, raced>>

\* The months the service deletes, given the month of the row in the database
\* (UTC): createBalanced takes Year and Month of occurred_at in the zone the
\* client wrote it in, Reverse the month of the original and its own.
ClientMonths(m) == {c \in Months : c - m \in -ZoneShift..ZoneShift}
Keys(m) == {{c} : c \in ClientMonths(m)} \cup {{o, m} : o \in Months}

Commit(t) ==
    /\ tx[t] = None
    /\ \E m \in Months : \E k \in Keys(m) :
         tx' = [tx EXCEPT ![t] = [month |-> m, at |-> now, keys |-> k, todo |-> k,
                                failed |-> FALSE]]
    /\ UNCHANGED <<now, cache, reader, answer, raced>>

Holds(r, m) == reader[r] # None /\ reader[r].stage = "set" /\ reader[r].month = m

\* Invalidate: one DEL; its error is ignored.
MutInvalidate(t, k) ==                    \* mutant: DEL of another key than GET and SET use
    /\ tx[t] # None /\ k \in tx[t].todo
    /\ tx' = [tx EXCEPT ![t].todo = @ \ {k}]
    /\ raced' = IF \E r \in Readers : Holds(r, tx[t].month) /\ t \notin reader[r].val
                THEN raced \cup {t} ELSE raced
    /\ UNCHANGED <<now, cache, reader, answer>>
Invalidate(t, k) ==
    /\ tx[t] # None /\ k \in tx[t].todo
    /\ tx' = [tx EXCEPT ![t].todo = @ \ {k}]
    /\ cache' = [cache EXCEPT ![k] = None]
    /\ raced' = IF \E r \in Readers : Holds(r, tx[t].month) /\ t \notin reader[r].val
                THEN raced \cup {t} ELSE raced
    /\ UNCHANGED <<now, reader, answer>>
InvalidateFails(t, k) ==
    /\ tx[t] # None /\ k \in tx[t].todo
    /\ tx' = [tx EXCEPT ![t].todo = @ \ {k}, ![t].failed = TRUE]
    /\ UNCHANGED <<now, cache, reader, answer, raced>>

\* The process dies, or does not learn of its commit: nothing is deleted.
CommitLost(t) ==
    /\ tx[t] # None /\ tx[t].todo # {}
    /\ tx' = [tx EXCEPT ![t].todo = {}, ![t].failed = TRUE]
    /\ UNCHANGED <<now, cache, reader, answer, raced>>

\* The database's sum of a month.
Sum(m) == {t \in Txs : tx[t] # None /\ tx[t].month = m}
\* What an answer for the month must hold: what was there one TTL and one
\* request ago.
Owed(m) == {t \in Sum(m) : tx[t].at + TTL + Timeout <= now}

\* GetMonthlySummary: GET, query, SET.  An error of Redis counts as a miss.
GetHit(r, m) ==
    /\ reader[r] = None /\ cache[m] # None
    /\ answer' = [val |-> cache[m].val, owed |-> Owed(m)]
    /\ UNCHANGED <<now, tx, cache, reader, raced>>
GetMiss(r, m) ==
    /\ reader[r] = None
    /\ reader' = [reader EXCEPT ![r] = [stage |-> "query", month |-> m, val |-> {}, at |-> now]]
    /\ UNCHANGED <<now, tx, cache, answer, raced>>
Query(r) ==
    /\ reader[r] # None /\ reader[r].stage = "query"
    /\ reader' = [reader EXCEPT ![r] = [stage |-> "set", month |-> reader[r].month,
                                        val |-> Sum(reader[r].month), at |-> now]]
    /\ UNCHANGED <<now, tx, cache, answer, raced>>
QueryFails(r) ==
    /\ reader[r] # None /\ reader[r].stage = "query"
    /\ reader' = [reader EXCEPT ![r] = None]
    /\ UNCHANGED <<now, tx, cache, answer, raced>>

MutExpires == MaxTime + 1                 \* mutant: SET without a TTL
Expires == now + TTL
Set(r) ==
    /\ reader[r] # None /\ reader[r].stage = "set"
    /\ LET m == reader[r].month IN
         /\ \/ cache' = [cache EXCEPT ![m] = [val |-> reader[r].val, expires |-> Expires]]
            \/ UNCHANGED cache            \* the error of SET is ignored
         /\ answer' = [val |-> reader[r].val, owed |-> Owed(m)]
    /\ reader' = [reader EXCEPT ![r] = None]
    /\ UNCHANGED <<now, tx, raced>>

Next ==
    \/ Tick
    \/ \E t \in Txs : \/ Commit(t)
                      \/ CommitLost(t)
                      \/ \E k \in Months : Invalidate(t, k) \/ InvalidateFails(t, k)
    \/ \E r \in Readers : \/ \E m \in Months : GetHit(r, m) \/ GetMiss(r, m)
                          \/ Query(r)
                          \/ QueryFails(r)
                          \/ Set(r)

Spec == Init /\ [][Next]_vars
---------------------------------------------------------------------------
\* Every variable has its type, and the cache holds no entry whose TTL is over.
TypeOK ==
    /\ now \in Nat
    /\ tx \in [Txs -> Row \cup {None}]
    /\ cache \in [Months -> Entry \cup {None}]
    /\ reader \in [Readers -> Work \cup {None}]
    /\ answer \in [val : SUBSET Txs, owed : SUBSET Txs]
    /\ raced \subseteq Txs
    /\ \A m \in Months : cache[m] # None => cache[m].expires > now

\* However readers, writers, lost deletions and crashes interleave, and whatever
\* zone a client writes in, an answer of GetMonthlySummary holds every
\* transaction of its month committed one TTL and one request timeout ago.
BoundedStaleness == answer.owed \subseteq answer.val

Invalidated(t) == tx[t] # None /\ tx[t].todo = {} /\ ~tx[t].failed

\* Once the month of a transaction was deleted, a cached summary of it holds the
\* transaction, unless a reader held an older sum at the time of the deletion.
StaleOnlyIfRaced ==
    \A m \in Months : \A t \in Sum(m) :
        /\ Invalidated(t) /\ m \in tx[t].keys
        /\ cache[m] # None /\ t \notin cache[m].val
        => t \in raced

\* internal/integration/integration_test.go: a transaction must invalidate the
\* cache, the summary must move.  Stated of transactions whose deletions are all
\* done and raced with no reader.
SummaryMoves ==
    \A m \in Months : \A t \in Sum(m) :
        Invalidated(t) /\ t \notin raced /\ cache[m] # None => t \in cache[m].val
=============================================================================
