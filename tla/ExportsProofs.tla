--------------------------- MODULE ExportsProofs ---------------------------
(***************************************************************************)
(* What a download returns and which exports are retried, for any number   *)
(* of exports, users and workers, of retries and of faults.                *)
(***************************************************************************)
EXTENDS Exports, TLAPS

On(w, e) == worker[w] # None /\ worker[w].id = e
Idle(e) == \A w \in Workers : ~On(w, e)

\* A row that is to come: nothing knows of it.
Unborn(e) ==
    /\ task[e].state = "none" /\ task[e].tries = MaxRetry
    /\ files[e] = None /\ got[e] = None /\ e \notin accepted \cup opening /\ Idle(e)

\* A file is a CSV that an export may return; on disk it may be damaged.
GoodRows(e, n) == n \in exports[e].owed..posted[exports[e].user]
GoodFile(e, f) ==
    f # None => IF f = Damaged THEN ~atomic
                ELSE f.user = exports[e].user /\ GoodRows(e, f.rows)

\* What a handler carries.
GoodWork(w, e) ==
    /\ worker[w].stage \in {"save", "copy", "mark"} => GoodRows(e, worker[w].rows)
    /\ worker[w].stage = "copy" => ~atomic

\* How often the task of a pending export failed: each time was a fault, and so
\* was the death of a worker whose lease has not expired.
Failures(e) == (MaxRetry - task[e].tries) + (IF task[e].state = "archived" THEN 1 ELSE 0)
Orphans(e) == IF task[e].state = "active" /\ Idle(e) THEN 1 ELSE 0
Counted(e) ==
    exports[e].status = "pending" =>
        task[e].state # "done" /\ faults >= Failures(e) + Orphans(e)

\* A task that was never queued again runs once: nobody reads its file before
\* that run has marked the row, and nobody writes it afterwards.
FirstRun(e) ==
    /\ task[e].state \in {"none", "queued"} =>
         Idle(e) /\ e \notin opening /\ exports[e].status = "pending"
    /\ \A v, w \in Workers : On(v, e) /\ On(w, e) => v = w
    /\ \A w \in Workers : On(w, e) =>
         /\ exports[e].status # "done" /\ e \notin opening
         /\ worker[w].stage = "copy" => files[e] = Damaged
         /\ worker[w].stage = "mark" => files[e] # Damaged
    /\ exports[e].status = "done" \/ e \in opening => files[e] # Damaged

\* Every row owes postings that are there.
Owes(e) == exports[e].owed <= posted[exports[e].user]

Born(e) ==
    /\ Owes(e)
    /\ GoodFile(e, files[e]) /\ GoodFile(e, got[e])
    /\ \A w \in Workers : On(w, e) => GoodWork(w, e)
    /\ task[e].state = "archived" => task[e].tries = 0
    /\ e \in accepted => task[e].state # "none"
    /\ Counted(e)
    /\ IF task[e].tries = MaxRetry THEN FirstRun(e) /\ got[e] # Damaged ELSE TRUE

Sound(e) == IF exports[e] = None THEN Unborn(e) ELSE Born(e)
IInv == TypeOK /\ \A e \in Ids : Sound(e)
---------------------------------------------------------------------------
\* A handler works on an export that has a row and a task.
LEMMA HasRow ==
  ASSUME IInv, NEW w \in Workers, worker[w] # None
  PROVE  /\ worker[w] \in Work /\ worker[w].id \in Ids
         /\ exports[worker[w].id] \in Row /\ Born(worker[w].id)
<1>1. worker[w] \in Work /\ worker[w].id \in Ids
  BY DEF IInv, TypeOK, Work
<1>2. exports[worker[w].id] # None
  BY <1>1 DEF IInv, Sound, Unborn, Idle, On
<1> QED
  BY <1>1, <1>2 DEF IInv, TypeOK, Sound

\* The types of the rows, and the agreement of a row's file with its status.
RowsOK ==
    /\ exports \in [Ids -> Row \cup {None}]
    /\ \A e \in Ids : exports[e] # None => (exports[e].file # None <=> exports[e].status = "done")

\* UpdateExportStatus with a key exactly when the export is done keeps the rows.
LEMMA UpdateRows ==
  ASSUME IInv, NEW e \in Ids, exports[e] \in Row,
         NEW status \in {"pending", "done", "error"}, NEW file \in Ids \cup {None},
         file # None <=> status = "done", UpdateExportStatus(e, status, file)
  PROVE  /\ RowsOK'
         /\ exports'[e] \in Row /\ exports'[e].status = status
         /\ exports'[e].user = exports[e].user /\ exports'[e].owed = exports[e].owed
         /\ \A d \in Ids \ {e} : exports'[d] = exports[d]
<1> DEFINE half == [exports[e] EXCEPT !.status = status]
           row == [half EXCEPT !.file = file]
<1>1. /\ row \in Row /\ row.status = status /\ row.file = file
      /\ row.user = exports[e].user /\ row.owed = exports[e].owed
  <2>1. /\ half \in Row /\ half.status = status
        /\ half.user = exports[e].user /\ half.owed = exports[e].owed
    BY DEF Row
  <2> HIDE DEF half
  <2> QED
    BY <2>1 DEF Row
<1>2. exports \in [Ids -> Row \cup {None}]
  BY DEF IInv, TypeOK
<1>3. exports' = [exports EXCEPT ![e] = row]
  <2> DEFINE one == [exports EXCEPT ![e] = half]
  <2>1. one[e] = half /\ exports' = [one EXCEPT ![e].file = file]
    BY <1>2, Zenon DEF UpdateExportStatus
  <2>2. exports' = [one EXCEPT ![e] = row]
    BY <2>1, Zenon
  <2> HIDE DEF half, row
  <2> QED
    BY <1>2, <2>2, Zenon
<1> HIDE DEF row
<1>4. exports'[e] = row /\ \A d \in Ids \ {e} : exports'[d] = exports[d]
  BY <1>2, <1>3
<1>5. exports' \in [Ids -> Row \cup {None}]
  BY <1>1, <1>2, <1>3
<1>6. ASSUME NEW d \in Ids, exports'[d] # None
      PROVE  exports'[d].file # None <=> exports'[d].status = "done"
  <2>1. CASE d = e
    BY <1>1, <1>4, <2>1
  <2>2. CASE d # e
    BY <1>4, <1>6, <2>2 DEF IInv, TypeOK
  <2> QED
    BY <2>1, <2>2
<1> QED
  BY <1>1, <1>4, <1>5, <1>6 DEF RowsOK

TaskType == [state : {"none", "queued", "active", "archived", "done"}, tries : 0..MaxRetry]

\* asynq's retry takes one of the tries, or archives.
LEMMA Retried ==
  ASSUME NEW t \in TaskType
  PROVE  /\ Retry(t) \in TaskType
         /\ \/ t.tries > 0 /\ Retry(t) = [state |-> "queued", tries |-> t.tries - 1]
            \/ t.tries = 0 /\ Retry(t) = [state |-> "archived", tries |-> 0]
<1>1. CASE t.tries > 0
  BY <1>1, ConstantsAssumption DEF TaskType, Retry
<1>2. CASE ~(t.tries > 0)
  BY <1>2, ConstantsAssumption DEF TaskType, Retry
<1> QED
  BY <1>1, <1>2

\* Return changes one worker and one task.
LEMMA Returned ==
  ASSUME IInv, NEW w \in Workers, NEW e \in Ids, On(w, e), NEW ok \in BOOLEAN,
         Return(w, ok)
  PROVE  /\ worker' \in [Workers -> Work \cup {None}] /\ worker'[w] = None
         /\ \A v \in Workers \ {w} : worker'[v] = worker[v]
         /\ task' \in [Ids -> TaskType]
         /\ \A d \in Ids \ {e} : task'[d] = task[d]
         /\ task[e].state # "active" => task'[e] = task[e]
         /\ task[e].state = "active" /\ ok =>
              task'[e].state = "done" /\ task'[e].tries = task[e].tries
         /\ task[e].state = "active" /\ ~ok => task'[e] = Retry(task[e])
<1>1. worker[w].id = e
  BY DEF On
<1>2. task \in [Ids -> TaskType]
  BY DEF IInv, TypeOK, TaskType
<1>3. /\ worker' = [worker EXCEPT ![w] = None]
      /\ task' = IF task[e].state # "active" THEN task
                 ELSE [task EXCEPT ![e] = IF ok THEN [@ EXCEPT !.state = "done"] ELSE Retry(@)]
  BY <1>1, Zenon DEF Return
<1>4. /\ worker' \in [Workers -> Work \cup {None}] /\ worker'[w] = None
      /\ \A v \in Workers \ {w} : worker'[v] = worker[v]
  BY <1>3 DEF IInv, TypeOK
<1>5. CASE task[e].state # "active"
  BY <1>2, <1>3, <1>4, <1>5
<1>6. CASE task[e].state = "active" /\ ok
  <2>1. task' = [task EXCEPT ![e] = [@ EXCEPT !.state = "done"]]
    BY <1>3, <1>6
  <2> QED
    BY <1>1, <1>2, <1>4, <1>6, <2>1 DEF TaskType
<1>7. CASE task[e].state = "active" /\ ~ok
  <2>1. task' = [task EXCEPT ![e] = Retry(@)]
    BY <1>3, <1>7, SMTT(30)
  <2> QED
    BY <1>1, <1>2, <1>4, <1>7, <2>1, Retried
<1> QED
  BY <1>5, <1>6, <1>7

---------------------------------------------------------------------------
\* What a step that is not about e leaves as it is.
Same(e) ==
    /\ exports'[e] = exports[e] /\ task'[e] = task[e]
    /\ files'[e] = files[e] /\ got'[e] = got[e]
    /\ (e \in accepted' <=> e \in accepted) /\ (e \in opening' <=> e \in opening)
    /\ \A w \in Workers : worker'[w] = worker[w] \/ (~On(w, e) /\ ~On(w, e)')
Grows ==
    /\ atomic' = atomic /\ faults' >= faults
    /\ \A u \in Users : posted'[u] >= posted[u]

\* What is known of an export survives a step that is not about it: postings
\* and faults only accumulate.
LEMMA SameRows ==
  ASSUME TypeOK, TypeOK', Grows, NEW e \in Ids, exports[e] \in Row, exports'[e] \in Row,
         exports'[e].user = exports[e].user, exports'[e].owed = exports[e].owed,
         NEW n \in Nat, GoodRows(e, n)
  PROVE  GoodRows(e, n)'
<1>1. exports[e].user \in Users
  BY DEF Row
<1> QED
  BY <1>1 DEF TypeOK, Grows, GoodRows

LEMMA SameOwed ==
  ASSUME TypeOK, TypeOK', Grows, NEW e \in Ids, exports[e] \in Row, exports'[e] \in Row,
         exports'[e].user = exports[e].user, exports'[e].owed = exports[e].owed, Owes(e)
  PROVE  Owes(e)'
  BY DEF TypeOK, Grows, Owes, Row

LEMMA SameFile ==
  ASSUME TypeOK, TypeOK', Grows, NEW e \in Ids, exports[e] \in Row, exports'[e] \in Row,
         exports'[e].user = exports[e].user, exports'[e].owed = exports[e].owed,
         NEW f \in File \cup {None, Damaged}, GoodFile(e, f)
  PROVE  GoodFile(e, f)'
<1>1. CASE f = None
  BY <1>1 DEF GoodFile
<1>2. CASE f # None /\ f = Damaged
  BY <1>2, Zenon DEF GoodFile, Grows
<1>3. CASE f # None /\ f # Damaged
  <2>1. f.rows \in Nat
    BY <1>3 DEF File
  <2> QED
    BY <1>3, <2>1, SameRows DEF GoodFile
<1> QED
  BY <1>1, <1>2, <1>3

LEMMA Counts ==
  ASSUME TypeOK, NEW e \in Ids
  PROVE  Failures(e) \in Nat /\ Orphans(e) \in {0, 1}
  BY ConstantsAssumption DEF TypeOK, Failures, Orphans

LEMMA SameSound ==
  ASSUME IInv, TypeOK', Grows, NEW e \in Ids, Same(e)
  PROVE  Sound(e)'
<1>0. TypeOK /\ Sound(e)
  BY DEF IInv
<1>1. \A w \in Workers : On(w, e)' <=> On(w, e)
  BY DEF Same, On
<1>2. Idle(e)' <=> Idle(e)
  BY <1>1 DEF Idle
<1>3. CASE exports[e] = None
  BY <1>0, <1>2, <1>3 DEF Sound, Unborn, Same
<1>4. CASE exports[e] # None
  <2>0. Born(e) /\ exports[e] \in Row /\ exports'[e] = exports[e]
    BY Zenon, <1>0, <1>4 DEF Sound, TypeOK, Same
  <2>1. GoodFile(e, files[e])' /\ GoodFile(e, got[e])'
    <3>1. /\ files[e] \in File \cup {None, Damaged} /\ got[e] \in File \cup {None, Damaged}
          /\ files'[e] = files[e] /\ got'[e] = got[e]
          /\ GoodFile(e, files[e]) /\ GoodFile(e, got[e])
      BY Zenon, <1>0, <2>0 DEF TypeOK, Same, Born
    <3>2. ASSUME NEW f \in File \cup {None, Damaged}, GoodFile(e, f) PROVE GoodFile(e, f)'
      BY Zenon, <1>0, <2>0, <3>2, SameFile
    <3> QED
      BY <3>1, <3>2, Zenon DEF GoodFile, GoodRows
  <2>2. ASSUME NEW w \in Workers, On(w, e)' PROVE GoodWork(w, e)'
    <3>1. worker'[w] = worker[w] /\ On(w, e) /\ GoodWork(w, e) /\ worker[w].rows \in Nat
      BY Zenon, <1>0, <1>1, <2>0, <2>2 DEF Same, Born, TypeOK, On, Work
    <3> QED
      BY Zenon, <1>0, <2>0, <3>1, SameRows DEF GoodWork, Grows
  <2>3. /\ task'[e].state = "archived" => task'[e].tries = 0
        /\ e \in accepted' => task'[e].state # "none"
        /\ Owes(e)'
    BY Zenon, <1>0, <2>0, SameOwed DEF Born, Same
  <2>4. Counted(e)'
    <3>1. Failures(e)' = Failures(e) /\ Orphans(e)' = Orphans(e)
      BY Zenon, <1>2 DEF Same, Failures, Orphans
    <3>2. Failures(e) \in Nat /\ Orphans(e) \in Nat
      BY <1>0, Counts
    <3> QED
      BY <1>0, <2>0, <3>1, <3>2 DEF Born, Counted, Same, Grows, TypeOK
  <2>5. ASSUME task'[e].tries = MaxRetry PROVE FirstRun(e)' /\ got'[e] # Damaged
    BY Zenon, <1>1, <1>2, <2>0, <2>5 DEF Born, FirstRun, Same, On
  <2> QED
    BY Zenon, <2>0, <1>4, <2>1, <2>2, <2>3, <2>4, <2>5 DEF Sound, Born
<1> QED
  BY <1>3, <1>4
---------------------------------------------------------------------------
\* A handler goes on to a stage, with n rows.
Moves(w, stage, n) ==
    worker' = [worker EXCEPT ![w] = [id |-> worker[w].id, stage |-> stage, rows |-> n]]

\* A stage set by Goto leaves the rows.
LEMMA Went ==
  ASSUME IInv, NEW w \in Workers, worker[w] # None, NEW stage, Goto(w, stage)
  PROVE  worker[w].rows \in Nat /\ Moves(w, stage, worker[w].rows)
<1>1. worker[w] \in Work /\ worker[w].rows \in Nat
  BY Zenon, HasRow DEF Work
<1>2. [worker[w] EXCEPT !.stage = stage] =
        [id |-> worker[w].id, stage |-> stage, rows |-> worker[w].rows]
  BY <1>1 DEF Work
<1> QED
  BY <1>1, <1>2, Zenon DEF Goto, Moves

LEMMA Listed ==
  ASSUME IInv, NEW w \in Workers, ListPostingsForMonth(w)
  PROVE  LET n == posted[exports[worker[w].id].user] IN n \in Nat /\ Moves(w, "save", n)
<1> DEFINE n == posted[exports[worker[w].id].user]
           half == [worker[w] EXCEPT !.stage = "save"]
           one == [worker EXCEPT ![w] = half]
<1>1. worker[w] \in Work /\ n \in Nat
  BY Zenon, HasRow DEF ListPostingsForMonth, At, Row, IInv, TypeOK
<1>2. half = [id |-> worker[w].id, stage |-> "save", rows |-> worker[w].rows]
  BY <1>1 DEF Work
<1>3. one[w] = half /\ worker' = [one EXCEPT ![w].rows = n]
  BY Zenon DEF ListPostingsForMonth, IInv, TypeOK
<1>4. [one[w] EXCEPT !.rows = n] = [id |-> worker[w].id, stage |-> "save", rows |-> n]
  <2> HIDE DEF half, one, n
  <2> QED
    BY <1>2, <1>3
<1>5. worker' = [one EXCEPT ![w] = [id |-> worker[w].id, stage |-> "save", rows |-> n]]
  BY <1>3, <1>4, Zenon
<1> HIDE DEF half, n
<1>6. worker' = [worker EXCEPT ![w] = [id |-> worker[w].id, stage |-> "save", rows |-> n]]
  BY <1>5, Zenon DEF IInv, TypeOK
<1> QED
  BY Zenon, <1>1, <1>6 DEF Moves, n

\* The steps of a handler that goes on keep the types.
LEMMA HandlerType ==
  ASSUME IInv, NEW w \in Workers, worker[w] # None, NEW stage \in {"save", "copy", "mark", "fail"},
         NEW n \in Nat, Moves(w, stage, n),
         files' \in [Ids -> File \cup {None, Damaged}], faults' \in Nat,
         UNCHANGED <<atomic, posted, exports, task, client>>
  PROVE  TypeOK'
<1>1. worker' \in [Workers -> Work \cup {None}]
  <2>1. [id |-> worker[w].id, stage |-> stage, rows |-> n] \in Work
    BY Zenon, HasRow DEF Work
  <2> QED
    BY Zenon, <2>1 DEF IInv, TypeOK, Moves
<1> QED
  BY Zenon, <1>1 DEF IInv, TypeOK, client

\* The file of a handler.
LEMMA CSVType ==
  ASSUME IInv, NEW w \in Workers, worker[w] # None
  PROVE  CSV(w) \in File
  BY Zenon, HasRow DEF CSV, File, Row, Work
---------------------------------------------------------------------------
\* A handler that goes on keeps the invariant when its rows, and the file that it
\* leaves, are those of its export, and when its first run copies over a
\* truncated file and marks a complete one.
LEMMA HandlerSound ==
  ASSUME IInv, TypeOK', Grows, NEW w \in Workers, NEW e \in Ids, On(w, e),
         NEW stage \in {"save", "copy", "mark", "fail"}, NEW n \in Nat, Moves(w, stage, n),
         UNCHANGED <<posted, exports, task, client>>,
         \A d \in Ids \ {e} : files'[d] = files[d],
         GoodFile(e, files'[e]),
         stage \in {"save", "copy", "mark"} => GoodRows(e, n),
         stage = "copy" => ~atomic,
         task[e].tries = MaxRetry =>
             /\ stage = "copy" => files'[e] = Damaged
             /\ stage = "mark" => files'[e] # Damaged
  PROVE  \A d \in Ids : Sound(d)'
<1>0. worker[w] # None /\ worker[w].id = e /\ exports[e] \in Row /\ Born(e) /\ TypeOK
  BY Zenon, HasRow DEF On, IInv
<1>1. /\ worker'[w] = [id |-> e, stage |-> stage, rows |-> n]
      /\ \A v \in Workers \ {w} : worker'[v] = worker[v]
  BY Zenon, <1>0 DEF Moves, TypeOK
<1>2. worker'[w] \in Work /\ worker'[w] # None
  BY <1>0, <1>1, ConstantsAssumption DEF Work
<1>3. \A v \in Workers, d \in Ids : On(v, d)' <=> On(v, d)
  BY <1>1, <1>2 DEF On
<1>4. Idle(e)' <=> Idle(e)
  BY Zenon, <1>0, <1>3 DEF Idle
<1>5. ASSUME NEW d \in Ids, d # e PROVE Sound(d)'
  <2>1. Same(d)
    BY <1>1, <1>2, <1>5 DEF Same, client, On
  <2> QED
    BY Zenon, <2>1, SameSound
<1>6. GoodFile(e, files[e])' /\ GoodFile(e, got[e])'
  <2>1. GoodFile(e, files'[e]) /\ GoodFile(e, got[e])
    BY Zenon, <1>0 DEF Born
  <2> QED
    BY <2>1, Zenon DEF GoodFile, GoodRows, Grows, client
<1>7. ASSUME NEW v \in Workers, On(v, e)' PROVE GoodWork(v, e)'
  <2>1. CASE v = w
    BY <1>1, <2>1 DEF GoodWork, GoodRows, Grows
  <2>2. CASE v # w
    <3>1. worker'[v] = worker[v] /\ GoodWork(v, e)
      BY Zenon, <1>0, <1>1, <1>3, <1>7, <2>2 DEF Born
    <3> QED
      BY Zenon, <3>1 DEF GoodWork, GoodRows, Grows
  <2> QED
    BY Zenon, <2>1, <2>2
<1>8. Counted(e)'
  <2>1. Failures(e)' = Failures(e) /\ Orphans(e)' = Orphans(e)
    BY Zenon, <1>4 DEF Failures, Orphans
  <2>2. Failures(e) \in Nat /\ Orphans(e) \in Nat
    BY <1>0, Counts
  <2> QED
    BY <1>0, <2>1, <2>2 DEF Born, Counted, Grows, TypeOK
<1>9. ASSUME task'[e].tries = MaxRetry PROVE FirstRun(e)' /\ got'[e] # Damaged
  <2>1. /\ FirstRun(e) /\ got[e] # Damaged /\ exports[e].status # "done" /\ e \notin opening
        /\ task[e].state \notin {"none", "queued"} /\ task[e].tries = MaxRetry
    BY Zenon, <1>0, <1>9 DEF Born, FirstRun, Idle
  <2>2. \A v \in Workers : On(v, e) => v = w
    BY Zenon, <1>0, <2>1 DEF FirstRun
  <2>3. ASSUME NEW v \in Workers, On(v, e)'
        PROVE  v = w /\ worker'[v].stage = stage
    BY <1>1, <1>3, <1>0, <2>2, <2>3
  <2> QED
    BY Zenon, <2>1, <2>3 DEF FirstRun, client
<1>10. Born(e)'
  BY Zenon, <1>0, <1>6, <1>7, <1>8, <1>9, SameOwed DEF Born, client
<1>11. Sound(e)'
  BY Zenon, <1>0, <1>10, ConstantsAssumption DEF Sound
<1> QED
  BY <1>5, <1>11

\* A handler that returns keeps the invariant: a row stays pending only after
\* one more fault, and is done only when the handler has marked it.
LEMMA ReturnSound ==
  ASSUME IInv, TypeOK', Grows, NEW w \in Workers, NEW e \in Ids, On(w, e), NEW ok \in BOOLEAN,
         Return(w, ok), UNCHANGED <<posted, files, client>>,
         \A d \in Ids \ {e} : exports'[d] = exports[d],
         exports'[e] \in Row,
         exports'[e].user = exports[e].user,
         exports'[e].owed = exports[e].owed,
         exports'[e].status = "pending" =>
             ~ok /\ exports[e].status = "pending" /\ faults' = faults + 1,
         exports'[e].status = "done" =>
             exports[e].status = "done" \/ worker[w].stage = "mark"
  PROVE  \A d \in Ids : Sound(d)'
<1>0. worker[w] # None /\ worker[w].id = e /\ exports[e] \in Row /\ Born(e) /\ TypeOK
  BY Zenon, HasRow DEF On, IInv
<1>1. /\ worker'[w] = None
      /\ \A v \in Workers \ {w} : worker'[v] = worker[v]
      /\ \A d \in Ids \ {e} : task'[d] = task[d]
      /\ task[e].state # "active" => task'[e] = task[e]
      /\ task[e].state = "active" /\ ok => task'[e].state = "done" /\ task'[e].tries = task[e].tries
      /\ task[e].state = "active" /\ ~ok => task'[e] = Retry(task[e])
  BY Zenon, Returned
<1>2. task[e] \in TaskType
  BY Zenon, <1>0 DEF TypeOK, TaskType
<1>3. /\ task'[e].tries \in 0..task[e].tries
      /\ task'[e].state = "archived" => task'[e].tries = 0
      /\ task'[e].state \in {"none", "queued"} =>
           task'[e] = task[e] \/ task'[e].tries < task[e].tries
      /\ task'[e].state # "active"
      /\ e \in accepted => task'[e].state # "none"
  BY <1>0, <1>1, <1>2, Retried, ConstantsAssumption DEF Born, TaskType
<1>4. \A v \in Workers : On(v, e)' => v # w /\ On(v, e) /\ worker'[v] = worker[v]
  BY Zenon, <1>1 DEF On
<1>5. ASSUME NEW d \in Ids, d # e PROVE Sound(d)'
  <2>1. Same(d)
    BY Zenon, <1>1, <1>5 DEF Same, client, On
  <2> QED
    BY Zenon, <2>1, SameSound
<1>6. GoodFile(e, files[e])' /\ GoodFile(e, got[e])'
  <2>1. /\ files[e] \in File \cup {None, Damaged} /\ got[e] \in File \cup {None, Damaged}
        /\ files'[e] = files[e] /\ got'[e] = got[e]
        /\ GoodFile(e, files[e]) /\ GoodFile(e, got[e])
    BY Zenon, <1>0 DEF TypeOK, Born, client
  <2>2. ASSUME NEW f \in File \cup {None, Damaged}, GoodFile(e, f) PROVE GoodFile(e, f)'
    BY Zenon, <1>0, <2>2, SameFile
  <2> QED
    BY <2>1, <2>2, Zenon DEF GoodFile, GoodRows
<1>7. ASSUME NEW v \in Workers, On(v, e)' PROVE GoodWork(v, e)'
  <2>1. worker'[v] = worker[v] /\ GoodWork(v, e) /\ worker[v].rows \in Nat
    BY <1>0, <1>4, <1>7 DEF Born, TypeOK, On, Work
  <2> QED
    BY Zenon, <1>0, <2>1, SameRows DEF GoodWork, Grows
<1>8. Counted(e)'
  <2> SUFFICES ASSUME exports'[e].status = "pending"
               PROVE  task'[e].state # "done" /\ faults' >= Failures(e)' + Orphans(e)'
    BY Zenon DEF Counted
  <2>1. ~ok /\ faults' = faults + 1 /\ task[e].state # "done" /\ faults >= Failures(e) + Orphans(e)
    BY Zenon, <1>0 DEF Born, Counted
  <2>2. Failures(e) \in Nat /\ Orphans(e) \in Nat /\ faults \in Nat
    BY <1>0, Counts DEF TypeOK
  <2>3. task'[e].state # "done" /\ Failures(e)' <= Failures(e) + 1
    <3>1. CASE task[e].state # "active"
      BY <1>1, <2>1, <2>2, <3>1 DEF Failures
    <3>2. CASE task[e].state = "active"
      <4>1. task'[e] = Retry(task[e])
        BY Zenon, <1>1, <2>1, <3>2
      <4>2. Failures(e) = MaxRetry - task[e].tries /\ task[e].tries \in 0..MaxRetry
        BY <1>2, <3>2, ConstantsAssumption DEF Failures, TaskType
      <4> QED
        BY <1>2, <4>1, <4>2, Retried, ConstantsAssumption DEF Failures
    <3> QED
      BY Zenon, <3>1, <3>2
  <2>4. Orphans(e)' = 0 /\ Failures(e)' \in Nat
    BY <1>2, <1>3, ConstantsAssumption DEF Orphans, Failures, TaskType
  <2> QED
    BY <2>1, <2>2, <2>3, <2>4
<1>9. ASSUME task'[e].tries = MaxRetry PROVE FirstRun(e)' /\ got'[e] # Damaged
  <2>1. task[e].tries = MaxRetry /\ FirstRun(e) /\ got[e] # Damaged
    BY <1>0, <1>2, <1>3, <1>9, ConstantsAssumption DEF Born, TaskType
  <2>2. /\ exports[e].status # "done" /\ e \notin opening /\ task[e].state \notin {"none", "queued"}
        /\ (worker[w].stage = "mark" => files[e] # Damaged)
        /\ \A v \in Workers : On(v, e) => v = w
    BY Zenon, <1>0, <2>1 DEF FirstRun, Idle
  <2>3. Idle(e)' /\ \A v \in Workers : ~On(v, e)'
    BY Zenon, <1>4, <2>2 DEF Idle
  <2>4. task'[e].state \notin {"none", "queued"}
    BY <1>2, <1>3, <1>9, <2>1, <2>2, ConstantsAssumption DEF TaskType
  <2> QED
    BY Zenon, <2>1, <2>2, <2>3, <2>4 DEF FirstRun, client
<1>10. Born(e)'
  BY Zenon, <1>0, <1>3, <1>6, <1>7, <1>8, <1>9, SameOwed DEF Born, client
<1>11. Sound(e)'
  BY Zenon, <1>0, <1>10, ConstantsAssumption DEF Sound
<1> QED
  BY Zenon, <1>5, <1>11
---------------------------------------------------------------------------
\* A step of a handler that goes on and leaves the file f.
LEMMA Handled ==
  ASSUME IInv, NEW w \in Workers, NEW e \in Ids, On(w, e),
         NEW stage \in {"save", "copy", "mark", "fail"}, NEW n \in Nat, Moves(w, stage, n),
         UNCHANGED <<atomic, posted, exports, task, client>>, faults' \in {faults, faults + 1},
         NEW f \in File \cup {None, Damaged}, files' = [files EXCEPT ![e] = f], GoodFile(e, f),
         stage \in {"save", "copy", "mark"} => GoodRows(e, n),
         stage = "copy" => ~atomic,
         task[e].tries = MaxRetry => /\ stage = "copy" => f = Damaged
                                     /\ stage = "mark" => f # Damaged
  PROVE  IInv'
<1>1. /\ files' \in [Ids -> File \cup {None, Damaged}] /\ faults' \in Nat /\ faults' >= faults
      /\ files'[e] = f /\ \A d \in Ids \ {e} : files'[d] = files[d]
  BY DEF IInv, TypeOK
<1>2. TypeOK'
  BY Zenon, <1>1, HandlerType DEF On
<1>3. Grows
  BY <1>1 DEF Grows, IInv, TypeOK
<1>4. \A d \in Ids : Sound(d)'
  BY Zenon, <1>1, <1>2, <1>3, HandlerSound
<1> QED
  BY Zenon, <1>2, <1>4 DEF IInv

\* What a handler starts from.
LEMMA Handling ==
  ASSUME IInv, NEW w \in Workers, worker[w] # None
  PROVE  \E e \in Ids : /\ worker[w].id = e /\ On(w, e) /\ exports[e] \in Row /\ Born(e)
                        /\ files[e] \in File \cup {None, Damaged}
                        /\ files = [files EXCEPT ![e] = files[e]]
                        /\ worker[w].rows \in Nat /\ faults \in Nat
  BY Zenon, HasRow DEF On, IInv, TypeOK, Work

\* handleExportCSV lists what is posted, which is what its export owes and
\* perhaps more.
LEMMA ListStep ==
  ASSUME IInv, NEW w \in Workers, ListPostingsForMonth(w)
  PROVE  IInv'
<1>1. worker[w] # None /\ UNCHANGED <<atomic, posted, exports, task, files, client, faults>>
  BY Zenon DEF ListPostingsForMonth, At
<1>2. PICK e \in Ids : /\ worker[w].id = e /\ On(w, e) /\ exports[e] \in Row /\ Born(e)
                       /\ files[e] \in File \cup {None, Damaged}
                       /\ files = [files EXCEPT ![e] = files[e]]
  BY Zenon, <1>1, Handling
<1>3. posted[exports[e].user] \in Nat /\ Moves(w, "save", posted[exports[e].user])
  BY Zenon, <1>2, Listed
<1>4. GoodRows(e, posted[exports[e].user]) /\ GoodFile(e, files[e])
  BY <1>2, <1>3 DEF Born, Owes, GoodRows, Row
<1> QED
  BY Zenon, <1>1, <1>2, <1>3, <1>4, Handled

\* A failed statement, and a failed upload or copy.
LEMMA FailsStep ==
  ASSUME IInv, NEW w \in Workers, ListFails(w) \/ SaveFails(w) \/ CopyFails(w)
  PROVE  IInv'
<1>1. worker[w] # None /\ Goto(w, "fail") /\ UNCHANGED <<atomic, posted, exports, task, client>>
  BY Zenon DEF ListFails, SaveFails, CopyFails, At
<1>2. PICK e \in Ids : /\ worker[w].id = e /\ On(w, e) /\ exports[e] \in Row /\ Born(e)
                       /\ files[e] \in File \cup {None, Damaged}
                       /\ files = [files EXCEPT ![e] = files[e]]
                       /\ worker[w].rows \in Nat /\ faults \in Nat
  BY Zenon, <1>1, Handling
<1>3. Moves(w, "fail", worker[w].rows) /\ faults' = faults + 1
  BY Zenon, <1>1, Went DEF ListFails, SaveFails, CopyFails, Fault
<1>4. PICK f \in File \cup {None, Damaged} : files' = [files EXCEPT ![e] = f] /\ GoodFile(e, f)
  <2>1. CASE files' = files
    BY Zenon, <1>2, <2>1 DEF Born
  <2>2. CASE At(w, "save") /\ atomic /\ files' = [files EXCEPT ![e] = CSV(w)]
    <3>1. CSV(w) \in File /\ GoodRows(e, worker[w].rows)
      BY Zenon, <1>1, <1>2, <2>2, CSVType DEF At, Born, GoodWork
    <3>2. GoodFile(e, CSV(w))
      BY Zenon, <1>2, <3>1, ConstantsAssumption DEF GoodFile, CSV
    <3> QED
      BY <2>2, <3>1, <3>2, Zenon
  <2>3. CASE At(w, "copy") /\ files' = [files EXCEPT ![e] = Damaged]
    <3>1. ~atomic
      BY Zenon, <1>2, <2>3 DEF At, Born, GoodWork
    <3>2. GoodFile(e, Damaged)
      BY <3>1, Zenon DEF GoodFile
    <3> QED
      BY <2>3, <3>2, Zenon
  <2> QED
    BY Zenon, <1>2, <2>1, <2>2, <2>3 DEF ListFails, SaveFails, CopyFails, Key
<1> QED
  BY <1>1, <1>2, <1>3, <1>4, Handled, Zenon

\* Save: a PUT leaves the whole file; Create leaves a truncated one.
LEMMA SaveStep ==
  ASSUME IInv, NEW w \in Workers, Save(w)
  PROVE  IInv'
<1>1. /\ worker[w] # None /\ UNCHANGED <<atomic, posted, exports, task, client, faults>>
      /\ worker[w].stage = "save"
  BY Zenon DEF Save, At
<1>2. PICK e \in Ids : /\ worker[w].id = e /\ On(w, e) /\ exports[e] \in Row /\ Born(e)
                       /\ worker[w].rows \in Nat /\ faults \in Nat
  BY Zenon, <1>1, Handling
<1>3. GoodRows(e, worker[w].rows) /\ CSV(w) \in File /\ CSV(w) # Damaged
  BY Zenon, <1>1, <1>2, CSVType, ConstantsAssumption DEF Born, GoodWork
<1>4. CASE atomic
  <2>1. Goto(w, "mark") /\ files' = [files EXCEPT ![e] = CSV(w)]
    BY <1>2, <1>4, Zenon DEF Save, Key
  <2>2. GoodFile(e, CSV(w))
    BY Zenon, <1>2, <1>3 DEF GoodFile, CSV
  <2>3. Moves(w, "mark", worker[w].rows)
    BY Zenon, <1>1, <2>1, Went
  <2> QED
    BY <1>1, <1>2, <1>3, <2>1, <2>2, <2>3, Handled, Zenon
<1>5. CASE ~atomic
  <2>1. Goto(w, "copy") /\ files' = [files EXCEPT ![e] = Damaged]
    BY <1>2, <1>5, Zenon DEF Save, Key
  <2>2. GoodFile(e, Damaged)
    BY <1>5, Zenon DEF GoodFile
  <2>3. Moves(w, "copy", worker[w].rows)
    BY Zenon, <1>1, <2>1, Went
  <2> QED
    BY <1>1, <1>2, <1>3, <1>5, <2>1, <2>2, <2>3, Handled, Zenon
<1> QED
  BY <1>4, <1>5

\* Copy: a first run fills the file it has truncated.
LEMMA CopyStep ==
  ASSUME IInv, NEW w \in Workers, Copy(w)
  PROVE  IInv'
<1>1. /\ worker[w] # None /\ UNCHANGED <<atomic, posted, exports, task, client, faults>>
      /\ worker[w].stage = "copy" /\ Goto(w, "mark")
  BY Zenon DEF Copy, At
<1>2. PICK e \in Ids : /\ worker[w].id = e /\ On(w, e) /\ exports[e] \in Row /\ Born(e)
                       /\ worker[w].rows \in Nat /\ faults \in Nat
  BY Zenon, <1>1, Handling
<1>3. GoodRows(e, worker[w].rows) /\ CSV(w) \in File /\ CSV(w) # Damaged /\ ~atomic
  BY Zenon, <1>1, <1>2, CSVType, ConstantsAssumption DEF Born, GoodWork
<1>4. Moves(w, "mark", worker[w].rows)
  BY Zenon, <1>1, Went
<1>5. GoodFile(e, CSV(w)) /\ GoodFile(e, Damaged)
  BY Zenon, <1>2, <1>3 DEF GoodFile, CSV
<1>6. task[e].tries = MaxRetry => files[e] = Damaged
  BY Zenon, <1>1, <1>2 DEF Born, FirstRun
<1>7. \/ files' = [files EXCEPT ![e] = CSV(w)]
      \/ files[e] # Damaged /\ files' = [files EXCEPT ![e] = Damaged]
  BY <1>2, Zenon DEF Copy, Key
<1>8. CASE files' = [files EXCEPT ![e] = CSV(w)]
  BY <1>1, <1>2, <1>3, <1>4, <1>5, <1>8, Handled, Zenon
<1>9. CASE files[e] # Damaged /\ files' = [files EXCEPT ![e] = Damaged]
  BY <1>1, <1>2, <1>3, <1>4, <1>5, <1>6, <1>9, Handled, Zenon
<1> QED
  BY <1>7, <1>8, <1>9

\* UpdateExportStatus and the return of the handler.
LEMMA MarkStep ==
  ASSUME IInv, NEW w \in Workers, MarkDone(w) \/ failExport(w)
  PROVE  IInv'
<1>1. /\ worker[w] # None /\ UNCHANGED <<atomic, posted, files, client>>
      /\ faults' = faults \/ faults' = faults + 1
  BY Zenon DEF MarkDone, failExport, At, Fault
<1>2. PICK e \in Ids : /\ worker[w].id = e /\ On(w, e) /\ exports[e] \in Row /\ Born(e)
                       /\ worker[w].rows \in Nat /\ faults \in Nat
  BY Zenon, <1>1, Handling
<1>3. PICK ok \in BOOLEAN :
        /\ Return(w, ok)
        /\ \/ UpdateExportStatus(e, "done", e) /\ worker[w].stage = "mark"
           \/ UpdateExportStatus(e, "error", None)
           \/ exports' = exports /\ faults' = faults + 1 /\ ~ok
  <2>1. CASE MarkDone(w)
    BY <1>2, <2>1, Zenon DEF MarkDone, At, Key, Fault
  <2>2. CASE failExport(w)
    BY <1>2, <2>2, Zenon DEF failExport, Fault
  <2> QED
    BY Zenon, <2>1, <2>2
<1>4. /\ RowsOK' /\ exports'[e] \in Row
      /\ exports'[e].user = exports[e].user /\ exports'[e].owed = exports[e].owed
      /\ \A d \in Ids \ {e} : exports'[d] = exports[d]
      /\ exports'[e].status = "pending" =>
           ~ok /\ exports[e].status = "pending" /\ faults' = faults + 1
      /\ exports'[e].status = "done" => exports[e].status = "done" \/ worker[w].stage = "mark"
  <2>1. CASE UpdateExportStatus(e, "done", e) /\ worker[w].stage = "mark"
    <3>1. e # None
      BY ConstantsAssumption
    <3> QED
      BY Zenon, <1>2, <2>1, <3>1, UpdateRows
  <2>2. CASE UpdateExportStatus(e, "error", None)
    BY Zenon, <1>2, <2>2, UpdateRows
  <2>3. CASE exports' = exports /\ faults' = faults + 1 /\ ~ok
    BY Zenon, <1>2, <2>3 DEF RowsOK, IInv, TypeOK
  <2> QED
    BY Zenon, <1>3, <2>1, <2>2, <2>3
<1>5. TypeOK'
  <2>1. task' \in [Ids -> TaskType] /\ worker' \in [Workers -> Work \cup {None}]
    BY <1>2, <1>3, Returned, Zenon
  <2> QED
    BY <1>1, <1>2, <1>4, <2>1 DEF IInv, TypeOK, RowsOK, TaskType, client
<1>6. Grows
  BY <1>1, <1>2 DEF Grows, IInv, TypeOK
<1>7. \A d \in Ids : Sound(d)'
  BY <1>1, <1>2, <1>3, <1>4, <1>5, <1>6, ReturnSound, Zenon
<1> QED
  BY Zenon, <1>5, <1>7 DEF IInv
---------------------------------------------------------------------------
\* A posting only adds to what exports may return.
LEMMA PostStep ==
  ASSUME IInv, NEW u \in Users, Post(u)
  PROVE  IInv'
<1>1. /\ posted' \in [Users -> Nat] /\ \A v \in Users : posted'[v] >= posted[v]
      /\ UNCHANGED <<atomic, exports, task, worker, files, client, faults>>
  BY DEF Post, IInv, TypeOK
<1>2. TypeOK' /\ Grows
  BY <1>1 DEF IInv, TypeOK, Grows, client
<1>3. \A e \in Ids : Same(e)
  BY Zenon, <1>1 DEF Same, client
<1> QED
  BY Zenon, <1>2, <1>3, SameSound DEF IInv

\* A new row: nothing knows of it yet, and its task is new.
LEMMA CreateStep ==
  ASSUME IInv, NEW e \in Ids, NEW u \in Users, CreateExport(e, u)
  PROVE  IInv'
<1> DEFINE row == [user |-> u, status |-> "pending", file |-> None, owed |-> posted[u]]
<1>0. TypeOK /\ Unborn(e) /\ task \in [Ids -> TaskType]
  BY Zenon DEF IInv, Sound, CreateExport, TypeOK, TaskType
<1>1. /\ exports' = [exports EXCEPT ![e] = row]
      /\ UNCHANGED <<atomic, posted, worker, files, opening, got>>
      /\ task' \in {task, Queued(e)} /\ faults' \in {faults, faults + 1}
      /\ accepted' = accepted \/ (accepted' = accepted \cup {e} /\ task' = Queued(e))
  BY Zenon DEF CreateExport, Fault
<1>2. row \in Row /\ row # None
  BY <1>0, ConstantsAssumption DEF Row, TypeOK
<1>3. /\ task' \in [Ids -> TaskType] /\ task'[e].tries = MaxRetry
      /\ task'[e].state \in {"none", "queued"} /\ (task' = Queued(e) => task'[e].state = "queued")
      /\ \A d \in Ids \ {e} : task'[d] = task[d]
  <2>1. /\ Queued(e) \in [Ids -> TaskType] /\ Queued(e)[e].tries = MaxRetry
        /\ Queued(e)[e].state = "queued" /\ \A d \in Ids \ {e} : Queued(e)[d] = task[d]
    <3>1. /\ [task[e] EXCEPT !.state = "queued"] \in TaskType
          /\ [task[e] EXCEPT !.state = "queued"].tries = MaxRetry
          /\ [task[e] EXCEPT !.state = "queued"].state = "queued"
      BY <1>0 DEF Unborn, TaskType
    <3> QED
      BY <1>0, <3>1 DEF Queued
  <2>2. CASE task' = task
    BY Zenon, <1>0, <2>1, <2>2 DEF Unborn
  <2>3. CASE task' = Queued(e)
    BY Zenon, <2>1, <2>3
  <2> QED
    BY Zenon, <1>1, <2>2, <2>3
<1>4. /\ exports'[e] = row /\ \A d \in Ids \ {e} : exports'[d] = exports[d]
      /\ exports' \in [Ids -> Row \cup {None}]
  BY Zenon, <1>0, <1>1, <1>2 DEF TypeOK
<1>5. TypeOK'
  BY <1>0, <1>1, <1>3, <1>4 DEF TypeOK, TaskType
<1>6. Grows
  BY <1>0, <1>1 DEF Grows, TypeOK
<1>7. ASSUME NEW d \in Ids, d # e PROVE Sound(d)'
  <2>1. Same(d)
    BY Zenon, <1>1, <1>3, <1>4, <1>7 DEF Same
  <2> QED
    BY Zenon, <1>5, <1>6, <2>1, SameSound
<1>8. Born(e)'
  <2>1. /\ Idle(e)' /\ files'[e] = None /\ got'[e] = None /\ e \notin opening'
        /\ exports'[e].status = "pending"
    BY Zenon, <1>0, <1>1, <1>4 DEF Unborn, Idle, On
  <2>2. Owes(e)'
    BY <1>0, <1>1, <1>4 DEF Owes, TypeOK
  <2>3. GoodFile(e, files[e])' /\ GoodFile(e, got[e])' /\ \A w \in Workers : ~On(w, e)'
    BY Zenon, <2>1 DEF GoodFile, Idle
  <2>4. Counted(e)'
    BY <1>3, <1>5, <2>1, ConstantsAssumption DEF Counted, Failures, Orphans, TypeOK
  <2>5. FirstRun(e)' /\ got'[e] # Damaged
    BY Zenon, <1>3, <2>1, <2>3, ConstantsAssumption DEF FirstRun
  <2>6. e \in accepted' => task'[e].state # "none"
    BY Zenon, <1>0, <1>1, <1>3 DEF Unborn
  <2> QED
    BY Zenon, <1>3, <2>2, <2>3, <2>4, <2>5, <2>6 DEF Born
<1>9. Sound(e)'
  BY Zenon, <1>2, <1>4, <1>8 DEF Sound
<1> QED
  BY <1>5, <1>7, <1>9 DEF IInv

\* A queued task is taken: it is the first run, or the task has been retried.
LEMMA TakeStep ==
  ASSUME IInv, NEW w \in Workers, NEW e \in Ids, Take(w, e)
  PROVE  IInv'
<1> DEFINE work == [id |-> e, stage |-> "list", rows |-> 0]
<1>1. /\ worker[w] = None /\ task[e].state = "queued"
      /\ task' = [task EXCEPT ![e].state = "active"] /\ worker' = [worker EXCEPT ![w] = work]
      /\ UNCHANGED <<atomic, posted, exports, files, client, faults>>
  BY DEF Take
<1>2. TypeOK /\ Born(e) /\ exports[e] \in Row /\ exports[e] # None /\ task \in [Ids -> TaskType]
  BY <1>1 DEF IInv, Sound, Unborn, TypeOK, TaskType
<1>3. /\ task' \in [Ids -> TaskType] /\ task'[e].state = "active" /\ task'[e].tries = task[e].tries
      /\ \A d \in Ids \ {e} : task'[d] = task[d]
  <2>1. /\ [task[e] EXCEPT !.state = "active"] \in TaskType
        /\ [task[e] EXCEPT !.state = "active"].tries = task[e].tries
        /\ [task[e] EXCEPT !.state = "active"].state = "active"
    BY <1>2 DEF TaskType
  <2> QED
    BY <1>1, <1>2, <2>1
<1>4. /\ work \in Work /\ work # None /\ work.id = e
      /\ worker'[w] = work /\ \A v \in Workers \ {w} : worker'[v] = worker[v]
      /\ worker' \in [Workers -> Work \cup {None}]
  BY <1>1, <1>2, ConstantsAssumption DEF TypeOK, Work
<1>5. TypeOK' /\ Grows
  BY <1>1, <1>2, <1>3, <1>4 DEF TypeOK, TaskType, Grows, client
<1>6. ASSUME NEW d \in Ids, d # e PROVE Sound(d)'
  <2>1. Same(d)
    BY <1>1, <1>3, <1>4, <1>6 DEF Same, On, client
  <2> QED
    BY Zenon, <1>5, <2>1, SameSound
<1>7. Born(e)'
  <2>1. On(w, e)' /\ \A v \in Workers : On(v, e)' => v = w \/ (On(v, e) /\ worker'[v] = worker[v])
    BY Zenon, <1>4 DEF On
  <2>2. GoodFile(e, files[e])' /\ GoodFile(e, got[e])' /\ Owes(e)'
    BY <1>1, <1>2, Zenon DEF Born, GoodFile, GoodRows, Owes, client
  <2>3. ASSUME NEW v \in Workers, On(v, e)' PROVE GoodWork(v, e)'
    <3>1. CASE v = w
      BY <1>4, <3>1 DEF GoodWork
    <3>2. CASE v # w
      BY Zenon, <1>1, <1>2, <2>1, <2>3, <3>2 DEF GoodWork, GoodRows, Born
    <3> QED
      BY Zenon, <3>1, <3>2
  <2>4. Counted(e)'
    <3>1. Failures(e)' = Failures(e) /\ Orphans(e)' = 0
      BY Zenon, <1>1, <1>3, <2>1 DEF Failures, Orphans, Idle
    <3> QED
      BY <1>1, <1>2, <1>3, <3>1, Counts DEF Born, Counted, TypeOK
  <2>5. ASSUME task'[e].tries = MaxRetry PROVE FirstRun(e)' /\ got'[e] # Damaged
    <3>1. /\ FirstRun(e) /\ Idle(e) /\ e \notin opening
          /\ exports[e].status = "pending" /\ got[e] # Damaged
      BY Zenon, <1>1, <1>2, <1>3, <2>5 DEF Born, FirstRun
    <3>2. \A v \in Workers : On(v, e)' => v = w /\ worker'[v].stage = "list"
      BY <1>4, <2>1, <3>1 DEF Idle
    <3> QED
      BY <1>1, <1>3, <3>1, <3>2 DEF FirstRun, client
  <2> QED
    BY Zenon, <1>1, <1>2, <1>3, <2>2, <2>3, <2>4, <2>5 DEF Born, client
<1>8. Sound(e)'
  BY <1>1, <1>2, <1>7 DEF Sound
<1> QED
  BY <1>5, <1>6, <1>8 DEF IInv

\* A lost lease is a failure of the task: a fault, of the lease or of the worker
\* that held it.
LEMMA LeaseStep ==
  ASSUME IInv, NEW e \in Ids, LeaseLost(e)
  PROVE  IInv'
<1>1. /\ task[e].state = "active" /\ task' = [task EXCEPT ![e] = Retry(@)]
      /\ UNCHANGED <<atomic, posted, exports, worker, files, client>>
  BY Zenon DEF LeaseLost
<1>2. TypeOK /\ Born(e) /\ exports[e] \in Row /\ exports[e] # None /\ task \in [Ids -> TaskType]
  BY Zenon, <1>1 DEF IInv, Sound, Unborn, TypeOK, TaskType
<1>3. task'[e] = Retry(task[e]) /\ \A d \in Ids \ {e} : task'[d] = task[d]
  BY Zenon, <1>1, <1>2
<1>4. /\ task'[e] \in TaskType
      /\ \/ task[e].tries > 0 /\ task'[e] = [state |-> "queued", tries |-> task[e].tries - 1]
         \/ task[e].tries = 0 /\ task'[e] = [state |-> "archived", tries |-> 0]
  BY Zenon, <1>2, <1>3, Retried
<1>5. \A v \in Workers : On(v, e)' <=> On(v, e)
  BY Zenon, <1>1 DEF On
<1>6. faults' \in {faults, faults + 1} /\ (Idle(e) \/ faults' = faults + 1)
  BY Zenon DEF LeaseLost, Fault, Idle, On
<1>7. TypeOK' /\ Grows
  <2>1. task' \in [Ids -> TaskType]
    BY Zenon, <1>1, <1>2, <1>3, <1>4
  <2> QED
    BY <1>1, <1>2, <1>6, <2>1 DEF TypeOK, TaskType, Grows, client
<1>8. ASSUME NEW d \in Ids, d # e PROVE Sound(d)'
  <2>1. Same(d)
    BY Zenon, <1>1, <1>3, <1>8 DEF Same, client
  <2> QED
    BY Zenon, <1>7, <2>1, SameSound
<1>9. Born(e)'
  <2>1. GoodFile(e, files[e])' /\ GoodFile(e, got[e])' /\ Owes(e)'
    BY <1>1, <1>2, Zenon DEF Born, GoodFile, GoodRows, Owes, client
  <2>2. \A v \in Workers : On(v, e)' => GoodWork(v, e)'
    BY Zenon, <1>1, <1>2, <1>5 DEF Born, GoodWork, GoodRows
  <2>3. Counted(e)'
    <3> SUFFICES ASSUME exports[e].status = "pending"
                 PROVE  task'[e].state # "done" /\ faults' >= Failures(e)' + Orphans(e)'
      BY Zenon, <1>1 DEF Counted
    <3>1. faults >= Failures(e) + Orphans(e)
      BY Zenon, <1>2 DEF Born, Counted
    <3>2. Failures(e) = MaxRetry - task[e].tries /\ task[e].tries \in 0..MaxRetry
      BY <1>1, <1>2, ConstantsAssumption DEF Failures, TaskType
    <3>3. Failures(e)' = Failures(e) + 1 /\ Orphans(e)' = 0 /\ task'[e].state # "done"
      <4>1. task'[e].state \notin {"active", "done"}
        BY <1>4
      <4>2. Failures(e)' = Failures(e) + 1
        BY <1>4, <3>2, ConstantsAssumption DEF Failures
      <4> QED
        BY Zenon, <4>1, <4>2 DEF Orphans
    <3>4. faults' >= Failures(e) + 1
      <4>1. CASE Idle(e)
        <5>1. Orphans(e) = 1
          BY Zenon, <1>1, <4>1 DEF Orphans
        <5> QED
          BY <1>2, <1>6, <3>1, <3>2, <5>1, ConstantsAssumption DEF TypeOK
      <4>2. CASE faults' = faults + 1
        BY <1>2, <3>1, <3>2, <4>2, Counts, ConstantsAssumption DEF TypeOK
      <4> QED
        BY Zenon, <1>6, <4>1, <4>2
    <3> QED
      BY <1>2, <1>7, <3>2, <3>3, <3>4, ConstantsAssumption DEF TypeOK
  <2>4. ASSUME task'[e].tries = MaxRetry PROVE FirstRun(e)' /\ got'[e] # Damaged
    <3>1. task[e].tries = MaxRetry /\ task'[e].state = "archived"
      BY <1>2, <1>4, <2>4, ConstantsAssumption DEF TaskType
    <3>2. FirstRun(e) /\ got[e] # Damaged
      BY Zenon, <1>2, <3>1 DEF Born
    <3> QED
      BY Zenon, <1>1, <1>5, <3>1, <3>2 DEF FirstRun, client
  <2> QED
    BY <1>1, <1>2, <1>4, <2>1, <2>2, <2>3, <2>4 DEF Born, client
<1>10. Sound(e)'
  BY Zenon, <1>1, <1>2, <1>9 DEF Sound
<1> QED
  BY <1>7, <1>8, <1>10 DEF IInv

\* A worker that dies is a fault, and its lease is still to expire.
LEMMA CrashStep ==
  ASSUME IInv, NEW w \in Workers, Crash(w)
  PROVE  IInv'
<1>1. /\ worker[w] # None /\ faults' = faults + 1
      /\ UNCHANGED <<atomic, posted, exports, task, files, client>>
  BY Zenon DEF Crash, Fault
<1>2. PICK e \in Ids : /\ worker[w].id = e /\ On(w, e) /\ exports[e] \in Row /\ Born(e)
                       /\ worker[w].rows \in Nat /\ faults \in Nat
  BY Zenon, <1>1, Handling
<1>3. TypeOK /\ exports[e] # None
  BY Zenon, <1>2, ConstantsAssumption DEF IInv
<1>4. /\ worker' \in [Workers -> Work \cup {None}] /\ worker'[w] = None
      /\ \A v \in Workers \ {w} : worker'[v] = worker[v]
  BY Zenon, <1>3 DEF Crash, TypeOK
<1>5. TypeOK' /\ Grows
  BY <1>1, <1>2, <1>3, <1>4 DEF TypeOK, Grows, client
<1>6. ASSUME NEW d \in Ids, d # e PROVE Sound(d)'
  <2>1. Same(d)
    BY Zenon, <1>1, <1>2, <1>4, <1>6 DEF Same, On, client
  <2> QED
    BY Zenon, <1>5, <2>1, SameSound
<1>7. \A v \in Workers : On(v, e)' => On(v, e) /\ worker'[v] = worker[v]
  BY Zenon, <1>4 DEF On
<1>8. Born(e)'
  <2>1. GoodFile(e, files[e])' /\ GoodFile(e, got[e])' /\ Owes(e)'
    BY <1>1, <1>2, Zenon DEF Born, GoodFile, GoodRows, Owes, client
  <2>2. \A v \in Workers : On(v, e)' => GoodWork(v, e)'
    BY Zenon, <1>1, <1>2, <1>7 DEF Born, GoodWork, GoodRows
  <2>3. Counted(e)'
    <3>1. Failures(e)' = Failures(e)
      BY Zenon, <1>1 DEF Failures
    <3>2. Orphans(e)' <= 1 /\ Orphans(e)' \in Nat
      BY DEF Orphans
    <3>3. Failures(e) \in Nat /\ Orphans(e) \in Nat
      BY <1>3, Counts
    <3> QED
      BY <1>1, <1>2, <3>1, <3>2, <3>3 DEF Born, Counted
  <2>4. ASSUME task'[e].tries = MaxRetry PROVE FirstRun(e)' /\ got'[e] # Damaged
    <3>1. FirstRun(e) /\ got[e] # Damaged /\ task[e].state \notin {"none", "queued"}
      BY Zenon, <1>1, <1>2, <2>4 DEF Born, FirstRun, Idle
    <3> QED
      BY Zenon, <1>1, <1>7, <3>1 DEF FirstRun, client
  <2> QED
    BY Zenon, <1>1, <1>2, <2>1, <2>2, <2>3, <2>4 DEF Born, client
<1>9. Sound(e)'
  BY Zenon, <1>1, <1>3, <1>8 DEF Sound
<1> QED
  BY Zenon, <1>5, <1>6, <1>9 DEF IInv

\* A download reads the row, and then the file.
LEMMA DownloadStep ==
  ASSUME IInv, NEW e \in Ids, Download(e) \/ Open(e)
  PROVE  IInv'
<1>1. /\ UNCHANGED <<atomic, posted, exports, task, worker, files, accepted, faults>>
      /\ e \in accepted \/ e \in opening
  BY Zenon DEF Download, Open
<1>2. TypeOK /\ Born(e) /\ exports[e] \in Row /\ exports[e] # None
  BY Zenon, <1>1 DEF IInv, Sound, Unborn, TypeOK
<1>3. /\ opening' \subseteq Ids /\ got' \in [Ids -> File \cup {None, Damaged}]
      /\ \A d \in Ids \ {e} : got'[d] = got[d] /\ (d \in opening' <=> d \in opening)
  BY Zenon, <1>2 DEF Download, Open, Key, TypeOK
<1>4. TypeOK' /\ Grows
  BY <1>1, <1>2, <1>3 DEF TypeOK, Grows
<1>5. ASSUME NEW d \in Ids, d # e PROVE Sound(d)'
  <2>1. Same(d)
    BY Zenon, <1>1, <1>3, <1>5 DEF Same
  <2> QED
    BY Zenon, <1>4, <2>1, SameSound
<1>6. \A v \in Workers : On(v, e)' <=> On(v, e)
  BY Zenon, <1>1 DEF On
<1>7. Born(e)'
  <2>1. GoodFile(e, files[e])' /\ Owes(e)'
    BY <1>1, <1>2, Zenon DEF Born, GoodFile, GoodRows, Owes
  <2>2. GoodFile(e, got[e])'
    <3>1. got'[e] = got[e] \/ got'[e] = files'[e]
      BY Zenon, <1>1, <1>2 DEF Download, Open, Key, TypeOK
    <3>2. CASE got'[e] = got[e]
      BY <1>1, <1>2, <3>2, Zenon DEF Born, GoodFile, GoodRows
    <3> QED
      BY <2>1, <3>1, <3>2, Zenon DEF GoodFile, GoodRows
  <2>3. \A v \in Workers : On(v, e)' => GoodWork(v, e)'
    BY Zenon, <1>1, <1>2, <1>6 DEF Born, GoodWork, GoodRows
  <2>4. Counted(e)'
    BY Zenon, <1>1, <1>2, <1>6 DEF Born, Counted, Failures, Orphans, Idle
  <2>5. ASSUME task'[e].tries = MaxRetry PROVE FirstRun(e)' /\ got'[e] # Damaged
    <3>1. FirstRun(e) /\ got[e] # Damaged
      BY Zenon, <1>1, <1>2, <2>5 DEF Born
    <3>2. CASE Download(e)
      <4>1. opening' = opening \cup {e} /\ got' = got /\ exports[e].status = "done"
        BY Zenon, <3>2 DEF Download
      <4> QED
        BY Zenon, <1>1, <1>6, <3>1, <4>1 DEF FirstRun
    <3>3. CASE Open(e)
      <4>1. e \in opening /\ opening' = opening \ {e} /\ got'[e] = files[e]
        BY Zenon, <1>2, <3>3 DEF Open, Key, TypeOK
      <4> QED
        BY Zenon, <1>1, <1>6, <3>1, <4>1 DEF FirstRun, Idle
    <3> QED
      BY Zenon, <3>2, <3>3
  <2> QED
    BY Zenon, <1>1, <1>2, <2>1, <2>2, <2>3, <2>4, <2>5 DEF Born
<1>8. Sound(e)'
  BY Zenon, <1>1, <1>2, <1>7 DEF Sound
<1> QED
  BY Zenon, <1>4, <1>5, <1>8 DEF IInv
---------------------------------------------------------------------------
\* The invariant holds throughout.
LEMMA Inductive == Spec => []IInv
<1>1. Init => IInv
  <2> SUFFICES ASSUME Init PROVE IInv
    OBVIOUS
  <2>1. atomic \in BOOLEAN
    BY Zenon DEF Init
  <2>2. TypeOK
    BY <2>1, ConstantsAssumption DEF Init, TypeOK
  <2>3. \A e \in Ids : exports[e] = None /\ Unborn(e)
    BY Zenon DEF Init, Unborn, Idle, On
  <2> QED
    BY Zenon, <2>2, <2>3 DEF IInv, Sound
<1>2. ASSUME IInv, [Next]_vars PROVE IInv'
  <2>1. CASE UNCHANGED vars
    <3>1. TypeOK' /\ Grows
      BY <1>2, <2>1 DEF vars, client, IInv, TypeOK, Grows
    <3>2. \A e \in Ids : Same(e)
      BY Zenon, <2>1 DEF vars, client, Same
    <3> QED
      BY Zenon, <1>2, <3>1, <3>2, SameSound DEF IInv
  <2> QED
    BY Zenon, <1>2, <2>1, PostStep, CreateStep, LeaseStep, DownloadStep, TakeStep, ListStep, SaveStep,
       CopyStep, MarkStep, FailsStep, CrashStep DEF Next, Handle
<1> QED
  BY <1>1, <1>2, PTL DEF Spec

\* Every variable has its type, and a row has a file exactly when it is done.
THEOREM TypesHold == Spec => []TypeOK
<1>1. IInv => TypeOK
  BY DEF IInv
<1> QED
  BY <1>1, Inductive, PTL

\* A download returns the CSV of its own export, complete and with every posting
\* of before the request, but on local disk after a retry.
THEOREM DownloadFinishedHolds == Spec => []DownloadFinished
<1>1. ASSUME IInv, NEW e \in Ids, got[e] # None
      PROVE  IF got[e] = Damaged THEN ~atomic /\ task[e].tries < MaxRetry
             ELSE /\ got[e].user = exports[e].user
                  /\ got[e].rows \in exports[e].owed..posted[got[e].user]
  <2>1. TypeOK /\ Born(e)
    BY Zenon, <1>1 DEF IInv, Sound, Unborn
  <2>2. CASE got[e] = Damaged
    <3>1. ~atomic /\ task[e].tries # MaxRetry
      BY Zenon, <1>1, <2>1, <2>2 DEF Born, GoodFile
    <3>2. task[e].tries \in 0..MaxRetry
      BY Zenon, <2>1 DEF TypeOK
    <3>3. task[e].tries < MaxRetry
      BY <3>1, <3>2, ConstantsAssumption
    <3> QED
      BY <2>2, <3>1, <3>3, Zenon
  <2>3. CASE got[e] # Damaged
    BY Zenon, <1>1, <2>1, <2>3 DEF Born, GoodFile, GoodRows
  <2> QED
    BY Zenon, <2>2, <2>3
<1>2. IInv => DownloadFinished
  BY <1>1, Zenon DEF DownloadFinished
<1> QED
  BY <1>2, Inductive, PTL

\* An accepted export stays pending without a task only when more went wrong
\* than asynq retries.
THEOREM NotForgottenHolds == Spec => []NotForgotten
<1>1. ASSUME IInv, NEW e \in accepted, exports[e].status = "pending",
             task[e].state \notin {"queued", "active"}
      PROVE  faults > MaxRetry
  <2>1. e \in Ids /\ TypeOK /\ Born(e)
    BY Zenon, <1>1 DEF IInv, TypeOK, Sound, Unborn
  <2>2. task[e].state = "archived" /\ task[e].tries = 0
    BY Zenon, <1>1, <2>1 DEF Born, Counted, TypeOK
  <2>3. Failures(e) = MaxRetry + 1 /\ Orphans(e) = 0
    BY <2>2, ConstantsAssumption DEF Failures, Orphans
  <2> QED
    BY <1>1, <2>1, <2>3, ConstantsAssumption DEF Born, Counted, TypeOK
<1>2. IInv => NotForgotten
  BY Zenon, <1>1 DEF NotForgotten
<1> QED
  BY <1>2, Inductive, PTL
=============================================================================
