------------------------------- MODULE Server -------------------------------
(***************************************************************************)
(* The life of one instance: main opens the pool, starts the asynq worker, *)
(* the scheduler, the outbox publisher and the HTTP server, waits for a    *)
(* signal or a failed component, drains HTTP and unwinds its defers:       *)
(* scheduler, worker, pool.  Requests, tasks and the publisher share the   *)
(* pool throughout.                                                        *)
(*                                                                         *)
(* Time is kept as what is left of each timeout; Elapse takes from all.    *)
(***************************************************************************)
EXTENDS Naturals, FiniteSets

CONSTANTS
    Requests,     \* HTTP connections, each with one request
    Tasks,        \* goroutines of the asynq worker
    Outbox,       \* the outbox publisher
    MaxConns,     \* size of the pool: 10
    Timeout,      \* middleware.Timeout: 10 s
    Grace,        \* shutdownCtx: 10 s
    TaskGrace     \* asynq's ShutdownTimeout: 8 s

Users == Requests \cup Tasks \cup {Outbox}

ASSUME ServerAssumption ==
    /\ MaxConns \in Nat \ {0} /\ Timeout \in Nat \ {0} /\ TaskGrace \in Nat
    /\ Grace \in Nat /\ Timeout <= Grace
    /\ Requests \cap Tasks = {} /\ Outbox \notin Requests \cup Tasks

VARIABLES
    main,        \* where main is
    cancelled,   \* the root context: a signal has come
    errs,        \* errors in errCh
    http,        \* "off", "starting", "up" or "closed"
    asynq,       \* the worker: "off", "new", "active" or "closed"
    sched,       \* the scheduler: "off", "new" or "started"
    outbox,      \* "off", "idle", "batch" or "stopped"
    request,     \* per request: "none", "connected", "running", "answered"
    task,        \* per worker goroutine: "idle", "running" or "aborted"
    holders,     \* users of the pool that hold a connection
    left,        \* per request: what is left of its timeout
    grace,       \* what is left of shutdownCtx
    taskGrace,   \* what is left of the worker's shutdown
    early,       \* history: requests running when the shutdown began
    late,        \* history: the worker was started after its Shutdown
    refused      \* history: users that met a closed pool

units == <<http, asynq, sched, outbox>>
timers == <<left, grace, taskGrace>>
observed == <<early, late, refused>>
ServerVars == <<main, cancelled, errs, units, request, task, holders, timers, observed>>

ServerInit ==
    /\ main = "boot" /\ cancelled = FALSE /\ errs = 0
    /\ http = "off" /\ asynq = "off" /\ sched = "off" /\ outbox = "off"
    /\ request = [r \in Requests |-> "none"]
    /\ task = [k \in Tasks |-> "idle"]
    /\ holders = {}
    /\ left = [r \in Requests |-> 0] /\ grace = 0 /\ taskGrace = 0
    /\ early = {} /\ late = FALSE /\ refused = {}

Alive == main \notin {"boot", "exited"}

\* SIGINT or SIGTERM.
Signal ==
    /\ main # "exited" /\ ~cancelled
    /\ cancelled' = TRUE
    /\ UNCHANGED <<main, errs, units, request, task, holders, timers, observed>>

\* Start-up succeeds, and the goroutines are started; or the key, the database
\* or the storage is missing, and the process ends before any of them is.
Boot ==
    /\ main = "boot"
    /\ main' = "serving"
    /\ http' = "starting" /\ asynq' = "new" /\ sched' = "new" /\ outbox' = "idle"
    /\ UNCHANGED <<cancelled, errs, request, task, holders, timers, observed>>
BootFails ==
    /\ main = "boot"
    /\ main' = "exited"
    /\ UNCHANGED <<cancelled, errs, units, request, task, holders, timers, observed>>

\* The channel has room for two errors; a third sender blocks, and nobody waits for it.
Send(n) == IF n < 2 THEN n + 1 ELSE n

\* ListenAndServe, unless Shutdown was first.
Listen ==
    /\ http = "starting" /\ Alive
    /\ \/ http' = "up" /\ UNCHANGED errs
       \/ http' = "closed" /\ errs' = Send(errs)
    /\ UNCHANGED <<main, cancelled, asynq, sched, outbox, request, task, holders, timers, observed>>
ListenerFails ==
    /\ http = "up" /\ Alive
    /\ http' = "closed" /\ errs' = Send(errs)
    /\ UNCHANGED <<main, cancelled, asynq, sched, outbox, request, task, holders, timers, observed>>

\* wrk.Start in its goroutine.  Shutdown leaves a worker that is still new as it
\* is, so a late Start succeeds.
StartWorker ==
    /\ asynq = "new" /\ Alive
    /\ \/ /\ asynq' = "active" /\ UNCHANGED errs
          /\ late' = (main \in {"worker", "close"})
       \/ asynq' = "closed" /\ errs' = Send(errs) /\ UNCHANGED late
    /\ UNCHANGED <<main, cancelled, http, sched, outbox, request, task, holders, timers, early, refused>>
\* sch.Start holds nothing that the others share.
StartScheduler ==
    /\ sched = "new" /\ Alive
    /\ sched' = "started"
    /\ errs' \in {errs, Send(errs)}
    /\ UNCHANGED <<main, cancelled, http, asynq, outbox, request, task, holders, timers, observed>>
---------------------------------------------------------------------------
PoolOpen == main # "close"

\* A connection is acquired for a statement or a transaction, and returned.
Acquire(u) ==
    /\ u \notin holders
    /\ \/ /\ PoolOpen /\ Cardinality(holders) < MaxConns
          /\ holders' = holders \cup {u} /\ UNCHANGED refused
       \/ /\ ~PoolOpen
          /\ refused' = refused \cup {u} /\ UNCHANGED holders
Release(u) ==
    /\ Alive /\ u \in holders
    /\ holders' = holders \ {u}
    /\ outbox' = IF u = Outbox THEN "idle" ELSE outbox
    /\ UNCHANGED <<main, cancelled, errs, http, asynq, sched, request, task, timers, observed>>

Connect(r) ==
    /\ http = "up" /\ Alive /\ request[r] = "none"
    /\ request' = [request EXCEPT ![r] = "connected"]
    /\ UNCHANGED <<main, cancelled, errs, units, task, holders, timers, observed>>
\* The header arrives, also on a connection that Shutdown found open.
Handle(r) ==
    /\ Alive /\ request[r] = "connected"
    /\ request' = [request EXCEPT ![r] = "running"]
    /\ left' = [left EXCEPT ![r] = Timeout]
    /\ UNCHANGED <<main, cancelled, errs, units, task, holders, grace, taskGrace, observed>>
RequestUses(r) ==
    /\ Alive /\ request[r] = "running" /\ left[r] > 0
    /\ Acquire(r)
    /\ UNCHANGED <<main, cancelled, errs, units, request, task, timers, early, late>>
\* The handler is done, with whatever answer; or a connection is closed that
\* never sent a request.
Respond(r) ==
    /\ Alive /\ r \notin holders
    /\ request[r] = "running" \/ (request[r] = "connected" /\ http = "closed")
    /\ request' = [request EXCEPT ![r] = "answered"]
    /\ UNCHANGED <<main, cancelled, errs, units, task, holders, timers, observed>>

TakeTask(k) ==
    /\ Alive /\ asynq = "active" /\ task[k] = "idle"
    /\ task' = [task EXCEPT ![k] = "running"]
    /\ UNCHANGED <<main, cancelled, errs, units, request, holders, timers, observed>>
TaskUses(k) ==
    /\ Alive /\ task[k] = "running"
    /\ Acquire(k)
    /\ UNCHANGED <<main, cancelled, errs, units, request, task, timers, early, late>>
TaskDone(k) ==
    /\ Alive /\ task[k] = "running" /\ k \notin holders
    /\ task' = [task EXCEPT ![k] = "idle"]
    /\ UNCHANGED <<main, cancelled, errs, units, request, holders, timers, observed>>

\* OutboxWorker.Start: a tick begins a batch; the cancelled context ends the loop.
OutboxTick ==
    /\ Alive /\ outbox = "idle"
    /\ Acquire(Outbox)
    /\ outbox' = IF Outbox \in holders' THEN "batch" ELSE "idle"
    /\ UNCHANGED <<main, cancelled, errs, http, asynq, sched, request, task, timers, early, late>>
OutboxStops ==
    /\ Alive /\ outbox = "idle" /\ cancelled
    /\ outbox' = "stopped"
    /\ UNCHANGED <<main, cancelled, errs, http, asynq, sched, request, task, holders, timers, observed>>

\* Time passes while a timeout runs.
Less(n) == IF n > 0 THEN n - 1 ELSE 0
Elapse ==
    /\ Alive
    /\ grace > 0 \/ taskGrace > 0 \/ \E r \in Requests : left[r] > 0
    /\ left' = [r \in Requests |-> Less(left[r])]
    /\ grace' = Less(grace)
    /\ taskGrace' = Less(taskGrace)
    /\ UNCHANGED <<main, cancelled, errs, units, request, task, holders, observed>>
---------------------------------------------------------------------------
\* select, then srv.Shutdown closes the listener and waits.
MutStopping == cancelled                   \* mutant: no case for errCh
Stopping == cancelled \/ errs > 0
MutDrainTime == Grace - 1                  \* mutant: a shorter drain
DrainTime == Grace
BeginDrain ==
    /\ main = "serving" /\ Stopping
    /\ main' = "drain" /\ http' = "closed"
    /\ errs' = IF errs > 0 THEN errs - 1 ELSE errs
    /\ grace' = DrainTime
    /\ early' = {r \in Requests : request[r] = "running"}
    /\ UNCHANGED <<cancelled, asynq, sched, outbox, request, task, holders, left, taskGrace, late, refused>>

\* Shutdown returns: no connection is left, or its context is over.  Then the
\* defers: sch.Shutdown, and wrk.Shutdown, which a new worker ignores.
MutAfterDrain == "close"                   \* mutant: pool.Close deferred last
AfterDrain == "worker"
EndDrain ==
    /\ main = "drain"
    /\ grace = 0 \/ \A r \in Requests : request[r] \notin {"connected", "running"}
    /\ main' = AfterDrain
    /\ taskGrace' = TaskGrace
    /\ asynq' = IF asynq = "active" THEN "closed" ELSE asynq
    /\ UNCHANGED <<cancelled, errs, http, sched, outbox, request, task, holders, left, grace, observed>>

\* wrk.Shutdown returns: the goroutines are done, or their tasks are put back
\* and their contexts cancelled.  pool.Close refuses from here on.
StopWorker ==
    /\ main = "worker"
    /\ \/ asynq # "closed" \/ \A k \in Tasks : task[k] # "running"
       \/ taskGrace = 0
    /\ main' = "close"
    /\ task' = [k \in Tasks |-> IF task[k] = "running" /\ asynq = "closed" THEN "aborted" ELSE task[k]]
    /\ UNCHANGED <<cancelled, errs, units, request, holders, timers, observed>>

\* pool.Close waits for every connection; main returns.
Exit ==
    /\ main = "close"
    /\ holders = {}
    /\ main' = "exited"
    /\ UNCHANGED <<cancelled, errs, units, request, task, holders, timers, observed>>

Main == Boot \/ BootFails \/ BeginDrain \/ EndDrain \/ StopWorker \/ Exit

ServerNext ==
    \/ Signal \/ Main \/ Listen \/ ListenerFails \/ StartWorker \/ StartScheduler
    \/ OutboxTick \/ OutboxStops \/ Elapse
    \/ \E u \in Users : Release(u)
    \/ \E r \in Requests : Connect(r) \/ Handle(r) \/ RequestUses(r) \/ Respond(r)
    \/ \E k \in Tasks : TakeTask(k) \/ TaskUses(k) \/ TaskDone(k)

ServerSpec == ServerInit /\ [][ServerNext]_ServerVars

\* main runs on, time passes, and PostgreSQL finishes every statement.
FairSpec ==
    /\ ServerSpec
    /\ WF_ServerVars(Main) /\ WF_ServerVars(Elapse)
    /\ \A u \in Users : WF_ServerVars(Release(u))
---------------------------------------------------------------------------
\* The drain is long enough: a request that ran when the shutdown began never
\* meets a closed pool, and is left without an answer only when its own timeout
\* was over.
RequestsDrained ==
    \A r \in early : /\ r \notin refused
                     /\ main = "exited" /\ request[r] = "running" => left[r] = 0

\* The defers run in an order that lets tasks finish: a task meets a closed pool
\* only when the worker was started after its own Shutdown.
TasksDrained == refused \cap Tasks # {} => late

\* A signal, or the failure of a component while serving, ends the process.
Stops == (cancelled \/ errs > 0) ~> main = "exited"
=============================================================================
