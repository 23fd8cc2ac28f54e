------------------------------ MODULE Exports ------------------------------
(***************************************************************************)
(* Exports: POST /exports writes a pending row and queues a task, a worker *)
(* of the asynq server lists the month's postings, saves a file and marks  *)
(* the row, and a client downloads.  Tasks run at least once: one that     *)
(* failed is retried, and one whose worker lost its lease is queued again, *)
(* whether or not that worker still runs.                                  *)
(*                                                                         *)
(* Postings of a user's month only accumulate: a list of them is modelled  *)
(* by its length.                                                          *)
(***************************************************************************)
EXTENDS Naturals, FiniteSets

CONSTANTS
    Ids,         \* export ids
    Users,
    Workers,     \* worker goroutines
    MaxRetry,    \* asynq's retries of a task
    MaxFaults,   \* bound: failed statements, crashes and lost leases
    MaxPosted,   \* bound: postings of a user's month
    None,
    Damaged      \* a file that is not the CSV of one list

Row == [user : Users, status : {"pending", "done", "error"}, file : Ids \cup {None}, owed : Nat]
File == [user : Users, rows : Nat]
Work == [id : Ids, stage : {"list", "save", "copy", "mark", "fail"}, rows : Nat]

ASSUME ConstantsAssumption ==
    /\ MaxRetry \in Nat /\ MaxFaults \in Nat /\ MaxPosted \in Nat
    /\ None \notin Row /\ None \notin File /\ None \notin Work /\ None \notin Ids
    /\ Damaged \notin File /\ Damaged # None

VARIABLES
    atomic,      \* the store of this deployment: TRUE for S3, FALSE for local disk
    posted,      \* per user: the postings of the month
    exports,     \* per id: its row, or None; owed is history, posted when it was written
    task,        \* per id: [state, tries] of its asynq task
    worker,      \* per worker: the handler it runs, or None
    files,       \* per key: the store
    accepted,    \* ids answered 202
    opening,     \* ids whose download has read the row
    got,         \* per id: the file downloaded last, or None
    faults       \* how often something failed

vars == <<atomic, posted, exports, task, worker, files, accepted, opening, got, faults>>
client == <<accepted, opening, got>>

Init ==
    /\ atomic \in BOOLEAN
    /\ posted = [u \in Users |-> 0]
    /\ exports = [e \in Ids |-> None]
    /\ task = [e \in Ids |-> [state |-> "none", tries |-> MaxRetry]]
    /\ worker = [w \in Workers |-> None]
    /\ files = [e \in Ids |-> None]
    /\ accepted = {}
    /\ opening = {}
    /\ got = [e \in Ids |-> None]
    /\ faults = 0

Fault == faults < MaxFaults /\ faults' = faults + 1

\* A transaction of the user's month commits.
Post(u) ==
    /\ posted[u] < MaxPosted
    /\ posted' = [posted EXCEPT ![u] = @ + 1]
    /\ UNCHANGED <<atomic, exports, task, worker, files, client, faults>>

Queued(e) == [task EXCEPT ![e].state = "queued"]
\* CreateExport: nobody knows the row before it is answered.  If Enqueue fails
\* the row stays; the task may have been queued nevertheless.
CreateExport(e, u) ==
    /\ exports[e] = None
    /\ exports' = [exports EXCEPT ![e] = [user |-> u, status |-> "pending", file |-> None,
                                          owed |-> posted[u]]]
    /\ \/ task' = Queued(e) /\ accepted' = accepted \cup {e} /\ UNCHANGED faults
       \/ task' \in {task, Queued(e)} /\ UNCHANGED accepted /\ Fault
    /\ UNCHANGED <<atomic, posted, worker, files, opening, got>>

Take(w, e) ==
    /\ worker[w] = None /\ task[e].state = "queued"
    /\ task' = [task EXCEPT ![e].state = "active"]
    /\ worker' = [worker EXCEPT ![w] = [id |-> e, stage |-> "list", rows |-> 0]]
    /\ UNCHANGED <<atomic, posted, exports, files, client, faults>>

\* asynq after an error, or a lost lease: retry, or archive.
Retry(t) == IF t.tries > 0 THEN [state |-> "queued", tries |-> t.tries - 1]
            ELSE [state |-> "archived", tries |-> 0]
\* The lease is lost because the worker died, or in spite of it running.
LeaseLost(e) ==
    /\ task[e].state = "active"
    /\ task' = [task EXCEPT ![e] = Retry(@)]
    /\ IF \E w \in Workers : worker[w] # None /\ worker[w].id = e THEN Fault ELSE UNCHANGED faults
    /\ UNCHANGED <<atomic, posted, exports, worker, files, client>>
Crash(w) ==
    /\ worker[w] # None
    /\ worker' = [worker EXCEPT ![w] = None]
    /\ Fault
    /\ UNCHANGED <<atomic, posted, exports, task, files, client>>

\* The handler returns nil, or an error.
Return(w, ok) ==
    LET e == worker[w].id IN
    /\ worker' = [worker EXCEPT ![w] = None]
    /\ task' = IF task[e].state # "active" THEN task
               ELSE [task EXCEPT ![e] = IF ok THEN [@ EXCEPT !.state = "done"] ELSE Retry(@)]

At(w, stage) == worker[w] # None /\ worker[w].stage = stage
Goto(w, stage) == worker' = [worker EXCEPT ![w].stage = stage]

\* handleExportCSV, up to its Save.
ListPostingsForMonth(w) ==
    /\ At(w, "list")
    /\ worker' = [worker EXCEPT ![w].stage = "save",
                                ![w].rows = posted[exports[worker[w].id].user]]
    /\ UNCHANGED <<atomic, posted, exports, task, files, client, faults>>
ListFails(w) ==
    /\ At(w, "list")
    /\ Goto(w, "fail")
    /\ Fault
    /\ UNCHANGED <<atomic, posted, exports, task, files, client>>

MutKey(e) == CHOOSE k \in Ids : TRUE      \* mutant: one key for every export
Key(e) == e
CSV(w) == [user |-> exports[worker[w].id].user, rows |-> worker[w].rows]

\* Save: one PUT to S3, which may take effect and still report an error; on
\* disk Create truncates the file, and Copy fills it.
Save(w) ==
    /\ At(w, "save")
    /\ files' = [files EXCEPT ![Key(worker[w].id)] = IF atomic THEN CSV(w) ELSE Damaged]
    /\ Goto(w, IF atomic THEN "mark" ELSE "copy")
    /\ UNCHANGED <<atomic, posted, exports, task, client, faults>>
SaveFails(w) ==
    /\ At(w, "save")
    /\ \/ UNCHANGED files
       \/ atomic /\ files' = [files EXCEPT ![Key(worker[w].id)] = CSV(w)]
    /\ Goto(w, "fail")
    /\ Fault
    /\ UNCHANGED <<atomic, posted, exports, task, client>>
\* A shorter list written over a longer one leaves the longer one's end.
Copy(w) ==
    LET k == Key(worker[w].id) IN
    /\ At(w, "copy")
    /\ files' = [files EXCEPT ![k] =
         IF @ # Damaged /\ @ # None /\ @.rows > worker[w].rows THEN Damaged ELSE CSV(w)]
    /\ Goto(w, "mark")
    /\ UNCHANGED <<atomic, posted, exports, task, client, faults>>
CopyFails(w) ==
    /\ At(w, "copy")
    /\ files' = [files EXCEPT ![Key(worker[w].id)] = Damaged]
    /\ Goto(w, "fail")
    /\ Fault
    /\ UNCHANGED <<atomic, posted, exports, task, client>>

UpdateExportStatus(e, status, file) ==
    exports' = [exports EXCEPT ![e].status = status, ![e].file = file]
MarkDone(w) ==
    LET e == worker[w].id IN
    /\ At(w, "mark")
    /\ \/ UpdateExportStatus(e, "done", Key(e)) /\ Return(w, TRUE) /\ UNCHANGED faults
       \/ /\ UpdateExportStatus(e, "done", Key(e)) \/ UNCHANGED exports
          /\ Return(w, FALSE) /\ Fault
    /\ UNCHANGED <<atomic, posted, files, client>>
\* failExport, whose own error is ignored; the handler returns an error.
MutFailExport(w) ==                       \* mutant: the error swallowed, no retry
    LET e == worker[w].id IN
    /\ At(w, "fail")
    /\ \/ UpdateExportStatus(e, "error", None) /\ UNCHANGED faults
       \/ UNCHANGED exports /\ Fault
    /\ Return(w, TRUE)
    /\ UNCHANGED <<atomic, posted, files, client>>
MutStaleFile(w) ==                        \* mutant: file_path left as it was
    LET e == worker[w].id IN
    /\ At(w, "fail")
    /\ \/ UpdateExportStatus(e, "error", exports[e].file) /\ UNCHANGED faults
       \/ UNCHANGED exports /\ Fault
    /\ Return(w, FALSE)
    /\ UNCHANGED <<atomic, posted, files, client>>
failExport(w) ==
    LET e == worker[w].id IN
    /\ At(w, "fail")
    /\ \/ UpdateExportStatus(e, "error", None) /\ UNCHANGED faults
       \/ UNCHANGED exports /\ Fault
    /\ Return(w, FALSE)
    /\ UNCHANGED <<atomic, posted, files, client>>

\* Download: the row, then the file; another row answers 409.
Download(e) ==
    /\ e \in accepted \ opening
    /\ exports[e].file # None /\ exports[e].status = "done"
    /\ opening' = opening \cup {e}
    /\ UNCHANGED <<atomic, posted, exports, task, worker, files, accepted, got, faults>>
Open(e) ==
    /\ e \in opening
    /\ opening' = opening \ {e}
    /\ got' = [got EXCEPT ![e] = files[Key(e)]]
    /\ UNCHANGED <<atomic, posted, exports, task, worker, files, accepted, faults>>

Handle(w) ==
    \/ ListPostingsForMonth(w) \/ Save(w) \/ Copy(w) \/ MarkDone(w) \/ failExport(w)
Next ==
    \/ \E u \in Users : Post(u)
    \/ \E e \in Ids : \/ \E u \in Users : CreateExport(e, u)
                      \/ LeaseLost(e)
                      \/ Download(e)
                      \/ Open(e)
    \/ \E w \in Workers : \/ \E e \in Ids : Take(w, e)
                          \/ Handle(w)
                          \/ ListFails(w)
                          \/ SaveFails(w)
                          \/ CopyFails(w)
                          \/ Crash(w)

Spec == Init /\ [][Next]_vars

\* asynq keeps giving out queued tasks and recovers expired leases, and a
\* handler that has started runs on.
FairSpec ==
    /\ Spec
    /\ \A w \in Workers : WF_vars(Handle(w))
    /\ \A e \in Ids : WF_vars(\E w \in Workers : Take(w, e)) /\ WF_vars(LeaseLost(e))
---------------------------------------------------------------------------
\* Every variable has its type, and the two things Download tests agree: a row
\* has a file exactly when its status is done.
TypeOK ==
    /\ atomic \in BOOLEAN
    /\ posted \in [Users -> Nat]
    /\ exports \in [Ids -> Row \cup {None}]
    /\ task \in [Ids -> [state : {"none", "queued", "active", "archived", "done"}, tries : 0..MaxRetry]]
    /\ worker \in [Workers -> Work \cup {None}]
    /\ files \in [Ids -> File \cup {None, Damaged}]
    /\ accepted \subseteq Ids
    /\ opening \subseteq Ids /\ got \in [Ids -> File \cup {None, Damaged}]
    /\ faults \in Nat
    /\ \A e \in Ids : exports[e] # None => (exports[e].file # None <=> exports[e].status = "done")

\* What Download returns is the CSV of its own export: of that user, complete,
\* and with every posting committed before the export was asked for, whatever
\* was retried, ran twice or failed since.  Only local disk may return less, and
\* only for an export whose task was queued again: a second run truncates and
\* rewrites the file of a row that is already done.
DownloadFinished ==
    \A e \in Ids : got[e] # None =>
        IF got[e] = Damaged THEN ~atomic /\ task[e].tries < MaxRetry
        ELSE /\ got[e].user = exports[e].user
             /\ got[e].rows \in exports[e].owed..posted[got[e].user]

\* An accepted export does not stay pending: it has a task that will still run,
\* unless more went wrong than asynq retries.
NotForgotten ==
    \A e \in accepted :
        exports[e].status = "pending" /\ task[e].state \notin {"queued", "active"} =>
            faults > MaxRetry

Status(e) == IF exports[e] = None THEN "none" ELSE exports[e].status
\* With no more faults than retries, an accepted export is done at some time,
\* also after it was in error: a retry overwrites the status a run has left.
EventuallyDone ==
    \A e \in Ids : e \in accepted /\ Status(e) = "pending" ~> Status(e) = "done"
=============================================================================
