------------------------------ MODULE Balances ------------------------------
(***************************************************************************)
(* Balances: the daily snapshots of the worker and BalanceService, which   *)
(* adds the postings created after the latest snapshot's day to it.  A     *)
(* posting's created_at is the now() of its database transaction, that is  *)
(* the time the transaction began; it becomes visible when that commits.   *)
(*                                                                         *)
(* A sum is modelled by the set of postings it adds up.                    *)
(***************************************************************************)
EXTENDS Naturals, FiniteSets

CONSTANTS
    Accounts,    \* active accounts
    Postings,    \* postings a behaviour may write
    Workers,     \* asynq worker goroutines
    Readers,     \* goroutines of GET /accounts/{id}/balance
    DayLen,      \* length of a day
    Timeout,     \* how long a transaction can last: the request timeout
    RunAt,       \* times of day at which snapshot:all is handled
    MaxDay,      \* bound: days in a behaviour
    None         \* no snapshot, no work

Task == [account : Accounts, date : Nat]
Sum == [account : Accounts, date : Nat, counted : SUBSET Postings]
Reading == [account : Accounts, since : Nat \cup {None}, counted : SUBSET Postings]

ASSUME ConstantsAssumption ==
    /\ DayLen \in Nat \ {0} /\ Timeout \in Nat /\ Timeout < DayLen
    /\ RunAt \subseteq 0..(DayLen - 1)
    /\ MaxDay \in Nat
    /\ None \notin Accounts /\ None \notin Nat /\ None \notin Sum /\ None \notin Reading

\* The scheduler's 00:05 leaves the transactions of the day before time to end.
SafeRunAt == \A t \in RunAt : t >= Timeout

VARIABLES
    day, time,   \* the clock
    account,     \* of every posting begun
    created,     \* [day, time] of every posting begun: created_at
    inflight,    \* postings of transactions that have not ended
    postings,    \* committed postings
    snapshots,   \* rows [account, date, counted] of balance_snapshots
    tasks,       \* snapshot:account tasks [account, date], by TaskID
    job,         \* per worker: [account, date, counted] read and not written, or None
    read,        \* per reader: [account, since, counted], or None
    result       \* history: the last balance of a reader, with what was true then

clock == <<day, time>>
book == <<account, created, inflight, postings>>
vars == <<clock, book, snapshots, tasks, job, read, result>>

Init ==
    /\ day = 0 /\ time = 0
    /\ account = [p \in Postings |-> None]
    /\ created = [p \in Postings |-> [day |-> 0, time |-> 0]]
    /\ inflight = {} /\ postings = {}
    /\ snapshots = {} /\ tasks = {}
    /\ job = [w \in Workers |-> None]
    /\ read = [r \in Readers |-> None]
    /\ result = [r \in Readers |-> [snap |-> {}, delta |-> {}, truth |-> {}]]

\* A transaction cannot outlive the timeout of its request.
Age(p) == IF created[p].day = day THEN time - created[p].time
          ELSE time + DayLen - created[p].time

Tick ==
    /\ \A p \in inflight : Age(p) < Timeout
    /\ \/ time + 1 < DayLen /\ time' = time + 1 /\ day' = day
       \/ time + 1 = DayLen /\ day < MaxDay /\ time' = 0 /\ day' = day + 1
    /\ UNCHANGED <<book, snapshots, tasks, job, read, result>>

\* CreatePosting: created_at defaults to the now() of the transaction.
BeginPosting(p, a) ==
    /\ p \notin inflight \cup postings
    /\ account[p] = None
    /\ account' = [account EXCEPT ![p] = a]
    /\ created' = [created EXCEPT ![p] = [day |-> day, time |-> time]]
    /\ inflight' = inflight \cup {p}
    /\ UNCHANGED <<clock, postings, snapshots, tasks, job, read, result>>

EndPosting(p) ==
    /\ p \in inflight
    /\ inflight' = inflight \ {p}
    /\ postings' \in {postings \cup {p}, postings}      \* COMMIT, or ROLLBACK
    /\ UNCHANGED <<clock, account, created, snapshots, tasks, job, read, result>>

\* handleSnapshotAll: yesterday's date, one task per account.  A task whose
\* TaskID is queued is not queued twice; errors of EnqueueContext are ignored.
Yesterday == day - 1
SnapshotAll ==
    /\ time \in RunAt
    /\ day > 0
    /\ \E A \in SUBSET Accounts :
         /\ A # {}
         /\ tasks' = tasks \cup {[account |-> a, date |-> Yesterday] : a \in A}
    /\ UNCHANGED <<clock, book, snapshots, job, read, result>>

MutSumPostingsUpTo(a, d) ==               \* mutant: the cutoff day left out
    {p \in postings : account[p] = a /\ created[p].day < d}
SumPostingsUpTo(a, d) == {p \in postings : account[p] = a /\ created[p].day <= d}

\* handleSnapshotAccount, its two statements.  Tasks run at least once: one
\* that a worker has not finished may be given to another.
SnapshotSum(w, t) ==
    /\ job[w] = None
    /\ job' = [job EXCEPT ![w] = [account |-> t.account, date |-> t.date,
                                  counted |-> SumPostingsUpTo(t.account, t.date)]]
    /\ UNCHANGED <<clock, book, snapshots, tasks, read, result>>

Upsert(s) == {r \in snapshots : r.account # s.account \/ r.date # s.date} \cup {s}
UpsertBalanceSnapshot(w) ==
    /\ job[w] # None
    /\ snapshots' = Upsert(job[w])
    /\ tasks' = tasks \ {[account |-> job[w].account, date |-> job[w].date]}
    /\ job' = [job EXCEPT ![w] = None]
    /\ UNCHANGED <<clock, book, read, result>>

\* A statement fails or the worker dies: the task is retried, or given up.
SnapshotFails(w) ==
    /\ job[w] # None
    /\ job' = [job EXCEPT ![w] = None]
    /\ \/ UNCHANGED tasks
       \/ tasks' = tasks \ {[account |-> job[w].account, date |-> job[w].date]}
    /\ UNCHANGED <<clock, book, snapshots, read, result>>

\* CurrentBalance, first statement.  No snapshot and a failed query look alike:
\* the sum then starts at the zero time.
Latest(a) == {s \in snapshots : s.account = a /\
                \A r \in snapshots : r.account = a => r.date <= s.date}
GetLatestSnapshot(r, a) ==
    /\ read[r] = None
    /\ \/ read' = [read EXCEPT ![r] = [account |-> a, since |-> None, counted |-> {}]]
       \/ \E s \in Latest(a) :
            read' = [read EXCEPT ![r] = [account |-> a, since |-> s.date,
                                         counted |-> s.counted]]
    /\ UNCHANGED <<clock, book, snapshots, tasks, job, result>>

MutSumPostingsSince(a, d) ==              \* mutant: created_at >= since, the day counted again
    {p \in postings : account[p] = a /\ (d = None \/ created[p].day >= d)}
SumPostingsSince(a, d) ==
    {p \in postings : account[p] = a /\ (d = None \/ created[p].day > d)}

\* Second statement, and the result.
CurrentBalance(r) ==
    LET a == read[r].account IN
    /\ read[r] # None
    /\ result' = [result EXCEPT ![r] =
         [snap  |-> read[r].counted, delta |-> SumPostingsSince(a, read[r].since),
          truth |-> {p \in postings : account[p] = a}]]
    /\ read' = [read EXCEPT ![r] = None]
    /\ UNCHANGED <<clock, book, snapshots, tasks, job>>

Next ==
    \/ Tick
    \/ \E p \in Postings : \/ \E a \in Accounts : BeginPosting(p, a)
                           \/ EndPosting(p)
    \/ SnapshotAll
    \/ \E w \in Workers : \/ \E t \in tasks : SnapshotSum(w, t)
                          \/ UpsertBalanceSnapshot(w)
                          \/ SnapshotFails(w)
    \/ \E r \in Readers : \/ \E a \in Accounts : GetLatestSnapshot(r, a)
                          \/ CurrentBalance(r)

Spec == Init /\ [][Next]_vars
---------------------------------------------------------------------------
\* Every variable has its type, a snapshot is of a day that is over, and an
\* account has one a day.
TypeOK ==
    /\ day \in Nat /\ time \in 0..(DayLen - 1)
    /\ account \in [Postings -> Accounts \cup {None}]
    /\ created \in [Postings -> [day : Nat, time : 0..(DayLen - 1)]]
    /\ inflight \subseteq Postings /\ postings \subseteq Postings
    /\ snapshots \subseteq Sum /\ tasks \subseteq Task
    /\ \A s \in snapshots : s.date < day
    /\ \A s, r \in snapshots : s.account = r.account /\ s.date = r.date => s = r
    /\ job \in [Workers -> Sum \cup {None}]
    /\ read \in [Readers -> Reading \cup {None}]
    /\ result \in [Readers -> [snap : SUBSET Postings, delta : SUBSET Postings,
                               truth : SUBSET Postings]]

\* A balance counts every posting committed before it was read exactly once:
\* backdated or not, begun before a midnight and committed after it, with
\* snapshots being written, rewritten, retried, skipped or unreadable meanwhile.
BalanceExact ==
    \A r \in Readers : /\ result[r].snap \cap result[r].delta = {}
                       /\ result[r].snap \cup result[r].delta = result[r].truth

\* A snapshot, once written, stays right: it holds all postings of its day and
\* the days before, and no later commit adds to them.
SnapshotComplete ==
    \A s \in snapshots :
        s.counted = {p \in postings : account[p] = s.account /\ created[p].day <= s.date}
=============================================================================
