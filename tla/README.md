# LedgerX in TLA+

A model of LedgerX, a double-entry ledger API (Go, Postgres, Redis, asynq): what
its concurrent parts do, which properties hold, and which statements of its
documents do not. Paths below are relative to the repository.

## The system

| part | state | operations | what makes it hard |
|---|---|---|---|
| transaction service, `internal/service/transactions.go` | accounts, transactions, postings, idempotency_keys, outbox | Create, Transfer, Reverse, each one database transaction | racing requests, retried keys, commits whose answer is lost, int64 edges |
| trigger and indexes, `migrations/` | constraints | checked at insert or COMMIT | a unique insert waits for an uncommitted rival |
| outbox publisher, `internal/worker/outbox.go` | outbox.processed_at | poll, lock a batch, publish, mark | several instances, failures between publish and commit |
| balances, `internal/service/balance.go`, `internal/worker/snapshot_worker.go` | balance_snapshots | snapshot:all, snapshot:account, CurrentBalance | transactions across midnight, tasks run twice |
| summaries, `internal/service/summary.go` | Redis keys with a TTL | GetMonthlySummary, Invalidate | cache races, time zones, lost deletions |
| exports, `internal/transport/http/exports.go`, `internal/worker/csv-export.go`, `internal/storage` | exports rows, asynq tasks, files | request, run, retry, download | at-least-once tasks, files written in place |
| rate limiter, `internal/transport/http/ratelimit.go` | two Redis keys per bucket | a Lua script per request | clock skew, delayed scripts, lost replies |
| listings, `ListAccountEntries` and `List` in `internal/transport/http` | none of their own | a page of entries by cursor, a page of accounts by offset | rows committed between two pages |
| authentication, `internal/transport/http/auth.go`, `internal/service/auth.go` | users | register, log in, check a token | racing clients, spellings of an address, skewed clocks |
| the process, `cmd/ledgerx/main.go` | goroutines, error channel, pool | start, serve, drain, unwind | signals and failures at any time, timeouts, order of the defers |

The parts meet in the database and in Redis: the transaction service writes the
outbox rows the publisher reads, the postings that snapshots and exports read,
and deletes the cache entries that summaries write. Each module below takes the
writes of the others as an action of its environment (`Insert` in `Outbox`,
`BeginPosting` and `EndPosting` in `Balances`, `Commit` in `Summary`, `Post` in
`Exports` and `Listings`). `Server` composes the users of the connection pool:
HTTP requests, asynq tasks and the outbox worker, from start to exit.

## Modules

| module | models |
|---|---|
| `Postings` | int64 arithmetic of amounts, legs, sums |
| `Ledger` | the abstract ledger: what the service promises a reader of the committed tables |
| `TxService` | the transaction service, one action per SQL statement that others can see or wait for |
| `TxServiceInv` | its inductive invariant |
| `RateLimiter`, `Outbox`, `Balances`, `Summary`, `Exports` | the parts of these names |
| `Listings` | the two paged listings, read while the tables grow |
| `Auth` | registration, login, tokens |
| `Server` | start-up and shutdown of one instance |
| `TxServiceProofs`, `TxServiceLedger` | theorems about `TxService` |
| `InstanceProofs` | theorems about `RateLimiter`, `Server` and `Auth`, which have no name in common so that one module extends them |
| `OutboxProofs`, `BalancesProofs`, `SummaryProofs`, `ListingsProofs`, `ExportsProofs` | theorems about these parts |
| `MC*` | small instances for TLC |

**TxService.** `pc[p]` is the next statement of a goroutine: `begin` (pool),
`claim` (claimIdempotency), `external` and `lazy` (the external account),
`check`, `load` (Reverse), `write`, `commit`, `invalidate`. Rows inserted and
not committed are in the goroutine's state; `HoldsKey`, `HoldsExternal` and
`HoldsReversal` are the waits of the unique indexes. `Abort` is a database
error, the 10 s timeout or a crash; `CommitLost` is a commit nobody learned of.
A crash of the whole process is several of these. Header, postings, event and
cached response are one action: nothing of them is visible before COMMIT, and
only the header can wait. The per-leg reads of the check are one action:
accounts are never changed after they are inserted. `DeactivateAccount` has no caller,
so inactive accounts occur in the initial rows only. `by` and `replies` are
history. `occurred_at` is its month in UTC and in the client's zone. Each refusal
has the name of its Go error; the HTTP status it becomes is left out.

**RateLimiter.** `Arrive` reads the instance's clock, up to `Skew` ahead;
`Allow` runs the script with that time later. `OpenWindow`, `admitted` and
`since` are history: a window of observation may start at any time.

**Outbox.** A batch is a set locked by its worker; `todo` and `done` are the
rest of the loop and the slice `processed`. `Rollback` is a failed update or
commit, or a crash. `created` is `created_at`, the time the ledger transaction
began: transactions that overlap commit in any order of it. `published` counts
the PUBLISHes Redis executed. `PublishFails` is one it did not execute;
`PublishLost` is one it did and whose answer was lost: the Redis client sends it
again, or gives up and the row stays unmarked. A PUBLISH executed after the
client gave up is counted when it gives up. `before`, `delayed`, `published`,
`lost` and `rollbacks` are history. Subscribers of the channel are not part of
the repository, and not of the model.

**Balances.** A sum is the set of postings it adds. `created` is the time the
transaction began (`DEFAULT now()`), visibility comes with `EndPosting`. A
transaction lasts at most `Timeout`, a request's. `RunAt` are the times of day
at which snapshot:all is handled. The application's and the database's clock
are one clock; that is an assumption of the model.

**Summary.** One account's months. A sum is the set of transactions it adds.
GET, query, SET and every DEL are separate steps. `Keys` are the months a
transaction deletes: the month in the client's zone for createBalanced, two
months for Reverse. `raced` is history: a reader held an older sum at a
deletion.

**Exports.** One month; a list of postings is its length. Tasks have asynq's
states; `LeaseLost` gives a task to another worker while the first may still
run. `atomic` is the store of the deployment, either one: S3 puts a file at
once, the local one truncates and then copies. The CSV's columns are left out.

**Listings.** A page is the set of its rows, a reader's `seen` the pages before
its last. Each page is one query; between two pages `Post` and `CreateAccount`
make rows visible anywhere in the order, because `occurred_at` is the client's
and ids and `created_at` are taken before the commit. `Far` is the sentinel's
9999-01-01; instants after it occur. `limit` may be missing, 0, small, above the
cap or beyond int32. Two accounts may have one `created_at`; the query has no
second key, so ties come in any order, another one for each page (`Newest`).
`int32` is the conversion of limit and offset, which wraps; PostgreSQL refuses
what becomes negative (`ListError`). The reader of accounts is a client that
adds up the rows it gets and stops at a page with fewer than it asked for; the
repository's web client asks for the first page only. `owed` and `wide` are
history: the rows committed when the reader started, and whether its last limit
was beyond int32.

**Auth.** An address is a name in a spelling; `Normal` is TrimSpace and ToLower.
bcrypt reads 72 bytes of a password: `Key` is what it reads, and a hash matches
every password with the same key. Hashing a longer one fails, and Register with
it; comparing one does not. No token is forged. Instances
have clocks of their own, at most `ClockSkew` apart. `Reply` loses answers; a failed
INSERT has used its id. A token carries, as history, the credentials it was
asked for and the clocks at that time.

**Server.** `main` is where main is: `boot`, `serving` (select), `drain`
(srv.Shutdown), `worker` (the deferred wrk.Shutdown), `close` (pool.Close),
`exited`. `holders` are the users of the pool that have a connection. Timeouts
are kept as what is left of them. From the libraries, as the code uses them:
srv.Shutdown returns when no connection is active or its context is over;
asynq's Shutdown ignores a server that was not started, and otherwise waits 8 s
for its tasks and then puts them back; pgxpool's Close refuses new acquires and
waits for connections to return. `early`, `late` and `refused` are history.

## Runs

| run | checks |
|---|---|
| `TxKeys` | three goroutines, two connections, one key under two payloads, one of them written in two zones, a user without an external account, and reversals: one transaction per key, keys and transactions committed together, faithful replays, a key refused only for another payload, one external account, and every request answered |
| `TxPostings` | racing reversals (of a reversal and of a header without postings too), every check on a leg, the amount with no int64 negation, accounts created meanwhile: zero sums with the trigger as a backstop only, reversed once and exactly, one event per commit, postings on own accounts, `Ledger` implemented |
| `RateLimiter` | nine configurations, zero and negative ones included: limit, forward time, no starvation |
| `Outbox` | disjoint batches, nothing marked unpublished, repeats only after a rollback or a lost answer, the order of transactions that did not overlap, everything eventually marked |
| `Balances` | every balance counts every posting once, snapshots stay right |
| `Summary` | a deleted month is stale only after a race; every answer holds what was committed one TTL and one request ago |
| `Exports` | both stores: a download is the export's own, complete CSV, except on local disk after a second run; an accepted export keeps its task and is done at some time |
| `Listings` | entries descend across pages and none that was there is missed, own rows only, no account skipped by a shifted offset, ties of `created_at` and limits beyond int32 excepted |
| `Server` | requests that ran at the shutdown and tasks never meet a closed pool, a signal or a failed component ends the process |
| `Auth` | one user per address, a token names the user whose address and bcrypt key it was asked with, no lost answer and no spelling locks a user out, a token lives its 24 h up to the skew of the clocks |

Bounds. Two or three actors and two or three requests suffice for every race the
properties are about: each is between two actors over one key, account,
transaction, row or file, and a third holds the resource they wait for. `MaxInt` is
3, so that -4 is the amount without a negation. Two midnights, two months and
TTL plus timeout fit into the clocks' bounds. `Outbox` runs with small
batches and one lost answer per event. `Listings` has one reader, three ids, three
instants of which one is past the sentinel, pages of one and two rows and at most
five rows in both tables (`MaxRows`): ties, full, short and empty pages all occur.
Its `MaxInt32` is 2, so that the limit 4 becomes negative, 8 becomes 2, and an
offset of 3 is refused. The theorems cover every number of them. `Exports` has as many
faults as retries. `Server` has more users than connections, and the timeouts
keep the order of the code's: a request's is the drain's, a task's is shorter.
`Auth` has a clock that passes the expiry, and passwords below, at and above
both limits of length.
Runs may end when requests, time or faults are used up, so deadlock is not
checked; waiting for ever is what `Answered` excludes.

Fairness. `TxService`: a goroutine whose next statement can run takes it (weak
fairness of `Step`): goroutines are scheduled preemptively and Postgres wakes
waiters. Faults, clients and registrations have none. `Outbox`: weak fairness
of ticking, committing and trying to publish, from the ticker and the loop, and
strong fairness of a successful publish: Redis answers again and again. Rollbacks
are finitely many. `Exports`: asynq hands out queued tasks and recovers expired
leases, and a running handler goes on. `Server`: main goes on, time passes, and
PostgreSQL ends every statement, so that connections come back; clients, tasks
and the outbox worker have no fairness.

## Where code and documents differ

Each is a run that TLC must find violated.

- `DocSnapshot`: "a posting is counted exactly once" (docs/DATA_MODEL.md:164).
  POST /admin/snapshot/run just after midnight can snapshot yesterday while a
  transaction of yesterday is in flight; it is then never counted. The
  scheduler's 00:05 is late enough: `Balances` and its theorem.
- `DocSummaryZone`: "Second tx must invalidate the cache; the summary must
  move." (internal/integration/integration_test.go:454). createBalanced deletes
  the month of `occurred_at` in the client's zone, the query sums by UTC.

Seen while modelling, without a run: another user's account is answered 403
where docs/API.md:56 says 404; "409 — request still in flight"
(docs/SEQUENCES.md:69, also :37, and internal/integration/integration_test.go:242:
"acceptable: caller is told to retry") is never answered: the insert of the key waits for the transaction that
holds it, whose commit marks the key, so that the branch of claimIdempotency is
dead (`KeyRefusals`); a transfer may name the user's external account,
and its currency is then not checked, against docs/SEQUENCES.md:75; the
external account appears with the first create, not with registration
(docs/API.md:23); an export in `error` becomes `done` by a retry, after
ledgerx-ui stopped polling (docs/SEQUENCES.md:194 has `error` final); a reader
that queried before a commit can store its sum after the deletion
(`StaleOnlyIfRaced` excepts it, `BoundedStaleness` bounds it); an event published
while nobody subscribes is marked and reaches nobody, where
docs/SEQUENCES.md:201 says "Delivery is at-least-once"; on local disk a second
run of a task truncates the file of an export that is done, and a download may
read it then (`DownloadFinished` excepts exactly this case, README.md:63 says
"Download the finished CSV"); "every row sorts before it"
(internal/transport/http/transactions.go:215) is false of entries after
9999-01-01, which no listing shows (`EntriesComplete` excepts them); `limit=0`
makes the entries handler index an empty page, and the recovered panic is
answered 500; `GET /accounts` converts an uncapped limit to int32
(internal/transport/http/accounts.go:76), and its pages may skip or repeat
accounts of one `created_at` (`AccountsComplete` excepts both); Register answers 409 to any error of
the database; a worker started after its own Shutdown may run a task against a
closed pool (`TasksDrained` excepts it), and the task is then retried.

## Proofs

Every invariant and action property that a passing run checks is also a theorem,
and so is the refinement of `Ledger`. TLAPS checks the proofs, with Z3, Zenon and
LS4. They hold for any number of goroutines, requests, workers, events, exports,
clients and rows, any `MaxInt` and any timeouts, within the named ASSUMEs of the
modules, which the runs evaluate. Few of the properties are inductive; what is
added to make them so:

- `TxServiceProofs` proves `IInv` of `TxServiceInv`, one lemma per action, and
  from it `ZeroSum`, `ExactlyOnce`, `KeyWithTransaction`, `ReversedOnce`,
  `OneExternal` and `TypeOK`. A goroutine past its claim must own its key
  (`KeyInv`), ids of committed and uncommitted rows must differ (`IdInv`), a
  goroutine writing a reversal must hold the negation of a transaction nobody
  else is reversing (`ReversalInv`), and an inserted external account must be its
  user's only one (`ExternalInv`). Assumed: what the schema and the migration
  guarantee of the rows before Init, and that old transactions are on accounts of
  their user, which the migration does not check.
- `TxServiceLedger`: from `IInv`, every step either leaves the committed tables
  alone or is one commit (`TableSteps`), and what a commit adds is known
  (`CommittedRow`). From these two:
  - `ImplementsLedger`: a commit maps to the ledger's posting and every other step
    to a stutter;
  - `OutboxExact`;
  - `OwnPostings`, with the invariant that checked legs stay good because accounts
    are never removed (`OwnInv`);
  - `ReversalNegates`, with the invariants that a goroutine has two legs
    (`TwoLegsInv`) and that no committed amount is the one whose negation wraps
    (`NoMinInv`): two such amounts never balance, so the trigger keeps them out;
  - `BackstopOnly`, from the same two and the total of a negated sequence of any
    length (`SumsExist` and the lemmas after it);
  - `ReplayFaithful`, with the invariants that a committed key holds the hash of
    the request its transaction was written for (`HashInv`) and that a goroutine
    past its COMMIT carries the id of its transaction (`DoneInv`). Equal hashes
    are equal requests by `BodiesAssumption`: a request has no field that its
    handler does not decode;
  - `KeyRefusals`, from `HashInv`, from committed keys being marked
    (`AllSucceeded`), and from requests that differ in the zone of `occurred_at`
    alone having one hash (`SameHash`).
- `InstanceProofs`, first part: `Limit`, `Burst`, `Forward`, `WaitersServed`. The
  limit counts tokens in the bucket with admissions, which makes it inductive.
- `InstanceProofs`, second part: `RequestsDrained` and `TasksDrained`. A request of before the shutdown has no more time left than
  the drain, and none once the drain is over (`EarlyInv`, from
  Timeout <= Grace); a pool is closed only after the worker's Shutdown, so that a
  task that still runs belongs to a worker that was started late (`LateInv`).
- `InstanceProofs`, third part: `OneUserPerAddress`, `TokenNamesOwner`,
  `LoginWorks`, `TokenLifetime`. Rows hold addresses in lower
  case (`UsersInv`); a token names a row, which is never removed, and expires by a
  clock that was close to all others when it was issued (`AuthInv`).
- `OutboxProofs`: `DisjointBatches`, `MarkedAfterPublish`, `RepeatsHaveCause`,
  `InOrder`. The invariant counts, per row, publishes against rollbacks and the
  one batch that holds it, lost answers included; for the order, a batch takes the oldest rows first and
  a row committed before another began is older.
- `ExportsProofs`: `TypeOK`, `DownloadFinished`, `NotForgotten`. Per export
  (`Born`): every list a handler carries and every file lies between what the
  row owes and what is posted; as long as the task was never queued again there is one
  run, which marks the row only after its file is whole (`FirstRun`); failed
  attempts, archiving and a lease whose worker died are at most the faults so far
  (`Counted`), which bounds what a pending row can have lost.
- `ListingsProofs`: `EntriesDescend`, `EntriesComplete`, `OwnRows`, for any
  number of readers, rows and limits. The invariant divides an account's entries
  at the cursor: what was received is not below it, and what is owed is received
  or below it. `AccountsComplete` is about offsets, so it counts: an account's
  rank is the number of newer ones, a page has exactly the ranks from its offset
  on of the accounts without ties, whatever the order of the others (`PageRanks`),
  a new account raises ranks and never lowers them (`RanksGrow`), and what is owed
  and not received ranks at or behind the offset (`PagedInv`), which int32 keeps
  or makes negative (`Converted`).
- `BalancesProofs`: `BalanceExact` and `SnapshotComplete`, assuming
  `SafeRunAt`: no snapshot is handled earlier in the day than the longest
  transaction lasts. The invariant: no transaction in flight is from a day that
  has a task, a running sum or a snapshot.
- `SummaryProofs`: `BoundedStaleness`, where the invariant bounds the age of an
  entry by its expiry and of a held sum by the request timeout; and
  `StaleOnlyIfRaced`, where a sum that is cached or about to be stored lacks only
  transactions that have yet to delete the month, failed to, or raced
  (`RacedInv`).

What a sum of any length is cannot be proved with the library's induction rule,
which takes an operator as its parameter. The proofs about `Total` take the smallest
counterexample instead (`Smallest`): sets of naturals are well-founded.

Only model-checked: liveness under fairness (`Answered`, `EventuallyProcessed`,
`EventuallyDone`, `Stops`), which TLAPS does not reach.

## Not modelled

- The rewriting of old rows by the double-entry migration: what it leaves is an
  assumption on `TxService`.
- The error of json.Marshal that requestHash drops
  (internal/service/transactions.go:169): it occurs only for an `occurred_at` whose
  UTC year is outside 0 to 9999, and such requests would hash alike.
- Answers to malformed requests (JSON, ids, cursors, dates): they return before
  any state is read or written.
- `GET /users/me`, `/healthz`, `/readyz`: one read each, of nothing that changes.
- bcrypt, the signature of tokens, SQL itself, Redis, asynq, net/http and
  pgxpool: libraries and services, modelled where the code relies on them.
- CORS, metrics, logging and the pages of the web client: no state the system
  depends on.
