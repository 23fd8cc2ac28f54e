---------------------------- MODULE OutboxProofs ----------------------------
(***************************************************************************)
(* The publisher's safety properties, for any number of workers and rows   *)
(* and any batch limit.                                                    *)
(***************************************************************************)
EXTENDS Outbox, TLAPS

\* A row in hand: published by the batch that holds it, or marked.
InHand(e) == e \in processed \/ \E w \in Workers : e \in done[w]

\* Each publication of a row is in hand, had its answer lost, or was rolled back.
Causes(e) == lost[e] + rollbacks[e]
Accounted ==
    \A e \in Events : /\ published[e] <= Causes(e) + 1
                      /\ ~InHand(e) => published[e] <= Causes(e)

Acknowledged == \A e \in Events : InHand(e) => published[e] > 0

IInv == TypeOK /\ DisjointBatches /\ Accounted /\ Acknowledged

\* The rows before the first ledger transaction satisfy the invariant.
LEMMA InitInv == Init => IInv
<1> SUFFICES ASSUME Init PROVE IInv
  OBVIOUS
<1>1. TypeOK
  BY DEF Init, TypeOK
<1>2. DisjointBatches
  BY DEF Init, DisjointBatches
<1>3. Accounted /\ Acknowledged
  BY DEF Init, Accounted, Acknowledged, InHand, Causes
<1>. QED
  BY <1>1, <1>2, <1>3 DEF IInv

\* The beginning of a ledger transaction preserves the invariant.
LEMMA BeginInv == ASSUME IInv, NEW e \in Events, Begin(e) PROVE IInv'
<1>0. /\ begun' = begun \cup {e} /\ created' = [created EXCEPT ![e] = now]
      /\ before' = before \cup {<<a, e>> : a \in committed}
      /\ UNCHANGED <<now, committed, processed, pc, locked, todo, done, published, lost, rollbacks,
                     delayed, failures>>
  BY DEF Begin, worker
<1>1. created' \in [Events -> Nat] /\ before' \subseteq committed' \X begun'
  BY <1>0 DEF IInv, TypeOK
<1>2. TypeOK'
  BY <1>0, <1>1 DEF IInv, TypeOK
<1>3. DisjointBatches'
  BY <1>0 DEF IInv, DisjointBatches
<1>4. Accounted' /\ Acknowledged'
  BY <1>0 DEF IInv, Accounted, Acknowledged, InHand, Causes
<1>. QED
  BY <1>2, <1>3, <1>4 DEF IInv

\* Its commit preserves the invariant.
LEMMA InsertInv == ASSUME IInv, NEW e \in Events, Insert(e) PROVE IInv'
<1>0. /\ committed' = committed \cup {e} /\ e \in begun \ committed /\ now' = now + 1
      /\ UNCHANGED <<begun, created, before, processed, pc, locked, todo, done, published, lost,
                     rollbacks, delayed, failures>>
  BY DEF Insert, worker
<1>1. now' \in Nat /\ before' \subseteq committed' \X begun'
  BY <1>0 DEF IInv, TypeOK
<1>2. TypeOK'
  BY <1>0, <1>1 DEF IInv, TypeOK
<1>3. DisjointBatches'
  BY <1>0 DEF IInv, DisjointBatches
<1>4. Accounted' /\ Acknowledged'
  BY <1>0 DEF IInv, Accounted, Acknowledged, InHand, Causes
<1>. QED
  BY <1>2, <1>3, <1>4 DEF IInv

\* Locking a batch with FOR UPDATE SKIP LOCKED preserves the invariant.
LEMMA SelectBatchInv == ASSUME IInv, NEW w \in Workers, SelectBatch(w) PROVE IInv'
<1>0. PICK B \in Batches : locked' = [locked EXCEPT ![w] = B] /\ todo' = [todo EXCEPT ![w] = B]
  BY Zenon DEF SelectBatch
<1>1. /\ B \subseteq committed \ processed
      /\ \A v \in Workers : locked[v] \cap B = {}
  BY DEF Batches, Selectable
<1>2. /\ pc[w] = "idle" /\ pc' = [pc EXCEPT ![w] = "batch"]
      /\ UNCHANGED <<now, begun, committed, created, before, processed, done, published, lost,
                     rollbacks, delayed, failures>>
  BY DEF SelectBatch, ledger
<1>3. /\ pc'[w] = "batch" /\ locked'[w] = B /\ todo'[w] = B /\ done[w] = {}
      /\ \A v \in Workers \ {w} : /\ pc'[v] = pc[v] /\ locked'[v] = locked[v]
                                  /\ todo'[v] = todo[v]
      /\ B \subseteq Events
  BY <1>0, <1>1, <1>2 DEF IInv, TypeOK
<1>4. TypeOK'
  <2>1. /\ pc' \in [Workers -> {"idle", "batch"}]
        /\ locked' \in [Workers -> SUBSET Events] /\ todo' \in [Workers -> SUBSET Events]
    BY <1>0, <1>2, <1>3 DEF IInv, TypeOK
  <2>. QED
    BY <1>2, <1>3, <2>1 DEF IInv, TypeOK
<1>5. DisjointBatches'
  BY <1>1, <1>2, <1>3 DEF IInv, DisjointBatches
<1>6. Accounted' /\ Acknowledged'
  BY <1>2 DEF IInv, Accounted, Acknowledged, InHand, Causes
<1>. QED
  BY <1>4, <1>5, <1>6 DEF IInv

\* A PUBLISH that Redis acknowledges preserves the invariant: the row was in
\* nobody's hand before.
LEMMA PublishOkInv ==
  ASSUME IInv, NEW w \in Workers, NEW e \in Events, PublishOk(w, e) PROVE IInv'
<1>0. /\ pc[w] = "batch" /\ e \in todo[w]
      /\ todo' = [todo EXCEPT ![w] = @ \ {e}]
      /\ done' = [done EXCEPT ![w] = @ \cup {e}]
      /\ published' = [published EXCEPT ![e] = @ + 1]
      /\ UNCHANGED <<now, begun, committed, created, before, processed, pc, locked, lost, rollbacks,
                     delayed, failures>>
  BY DEF PublishOk, Oldest, ledger
<1>1. /\ todo'[w] = todo[w] \ {e} /\ done'[w] = done[w] \cup {e}
      /\ \A v \in Workers \ {w} : todo'[v] = todo[v] /\ done'[v] = done[v]
      /\ published'[e] = published[e] + 1
      /\ \A f \in Events \ {e} : published'[f] = published[f]
  BY <1>0 DEF IInv, TypeOK
<1>2. e \in locked[w] /\ e \notin processed /\ e \notin done[w]
      /\ \A v \in Workers \ {w} : e \notin done[v]
  BY <1>0 DEF IInv, TypeOK, DisjointBatches
<1>3. TypeOK'
  <2>1. /\ todo' \in [Workers -> SUBSET Events] /\ done' \in [Workers -> SUBSET Events]
        /\ published' \in [Events -> Nat]
    BY <1>0 DEF IInv, TypeOK
  <2>. QED
    BY <1>0, <1>1, <1>2, <2>1 DEF IInv, TypeOK
<1>4. DisjointBatches'
  BY <1>0 DEF IInv, DisjointBatches
<1>5. ~InHand(e) /\ InHand(e)'
  BY <1>0, <1>1, <1>2 DEF InHand
<1>6. \A f \in Events \ {e} : InHand(f)' <=> InHand(f)
  BY <1>0, <1>1 DEF InHand
<1>7. \A f \in Events : published[f] \in Nat /\ Causes(f) \in Nat /\ Causes(f)' = Causes(f)
  BY <1>0 DEF IInv, TypeOK, Causes
<1>8. Accounted' /\ Acknowledged'
  <2>1. published'[e] <= Causes(e)' + 1 /\ published'[e] > 0
    BY <1>1, <1>5, <1>7 DEF IInv, Accounted
  <2>. QED
    BY <1>1, <1>5, <1>6, <1>7, <2>1 DEF IInv, Accounted, Acknowledged
<1>. QED
  BY <1>3, <1>4, <1>8 DEF IInv

\* A PUBLISH that fails preserves the invariant: the row is only put off.
LEMMA PublishFailsInv ==
  ASSUME IInv, NEW w \in Workers, NEW e \in Events, PublishFails(w, e) PROVE IInv'
<1>0. /\ todo' = [todo EXCEPT ![w] = @ \ {e}]
      /\ delayed' = delayed \cup {e}
      /\ UNCHANGED <<now, begun, committed, created, before, processed, pc, locked, done,
                     published, lost, rollbacks, failures>>
  BY DEF PublishFails, ledger
<1>1. TypeOK'
  <2>1. /\ todo' \in [Workers -> SUBSET Events]
        /\ \A v \in Workers : todo'[v] \subseteq todo[v]
    BY <1>0 DEF IInv, TypeOK
  <2>. QED
    BY <1>0, <2>1 DEF IInv, TypeOK
<1>2. DisjointBatches'
  BY <1>0 DEF IInv, DisjointBatches
<1>3. Accounted' /\ Acknowledged'
  BY <1>0 DEF IInv, Accounted, Acknowledged, InHand, Causes
<1>. QED
  BY <1>1, <1>2, <1>3 DEF IInv

\* A PUBLISH whose answer is lost preserves the invariant: the row was in
\* nobody's hand and is not now, and the lost answer is counted.
LEMMA PublishLostInv ==
  ASSUME IInv, NEW w \in Workers, NEW e \in Events, PublishLost(w, e) PROVE IInv'
<1>0. /\ e \in todo[w]
      /\ todo' = todo \/ todo' = [todo EXCEPT ![w] = @ \ {e}]
      /\ delayed' = delayed \/ delayed' = delayed \cup {e}
      /\ published' = [published EXCEPT ![e] = @ + 1]
      /\ lost' = [lost EXCEPT ![e] = @ + 1]
      /\ UNCHANGED <<now, begun, committed, created, before, processed, pc, locked, done,
                     rollbacks, failures>>
  BY DEF PublishLost, Oldest, ledger
<1>1. /\ published \in [Events -> Nat] /\ lost \in [Events -> Nat]
      /\ rollbacks \in [Events -> Nat] /\ todo \in [Workers -> SUBSET Events]
  BY DEF IInv, TypeOK
<1>2. /\ published'[e] = published[e] + 1 /\ lost'[e] = lost[e] + 1
      /\ \A f \in Events \ {e} : published'[f] = published[f] /\ lost'[f] = lost[f]
  BY <1>0, <1>1
<1>3. TypeOK'
  <2>1. /\ todo' \in [Workers -> SUBSET Events] /\ \A v \in Workers : todo'[v] \subseteq todo[v]
        /\ published' \in [Events -> Nat] /\ lost' \in [Events -> Nat]
        /\ delayed' \subseteq delayed \cup {e}
    BY <1>0, <1>1
  <2>. QED
    BY <1>0, <2>1 DEF IInv, TypeOK
<1>4. DisjointBatches'
  BY <1>0 DEF IInv, DisjointBatches
<1>5. ~InHand(e)
  BY <1>0 DEF IInv, TypeOK, DisjointBatches, InHand
<1>6. \A f \in Events : InHand(f)' <=> InHand(f)
  BY <1>0 DEF InHand
<1>7. /\ Causes(e)' = Causes(e) + 1 /\ \A f \in Events \ {e} : Causes(f)' = Causes(f)
      /\ \A f \in Events : Causes(f) \in Nat
  BY <1>0, <1>1, <1>2 DEF Causes
<1>8. Accounted' /\ Acknowledged'
  <2>1. published'[e] <= Causes(e)'
    BY <1>1, <1>2, <1>5, <1>7 DEF IInv, Accounted
  <2>2. Accounted'
    BY <1>1, <1>2, <1>6, <1>7, <2>1 DEF IInv, Accounted
  <2>3. Acknowledged'
    BY <1>2, <1>5, <1>6 DEF IInv, Acknowledged
  <2>. QED
    BY <2>2, <2>3
<1>. QED
  BY <1>3, <1>4, <1>8 DEF IInv

\* What ending a batch leaves of the worker.
LEMMA EndBatchFacts ==
  ASSUME IInv, NEW w \in Workers, EndBatch(w)
  PROVE  /\ pc' \in [Workers -> {"idle", "batch"}]
         /\ locked' \in [Workers -> SUBSET Events] /\ todo' \in [Workers -> SUBSET Events]
         /\ done' \in [Workers -> SUBSET Events]
         /\ locked'[w] = {} /\ todo'[w] = {} /\ done'[w] = {}
         /\ \A v \in Workers \ {w} : /\ pc'[v] = pc[v] /\ locked'[v] = locked[v]
                                     /\ todo'[v] = todo[v] /\ done'[v] = done[v]
BY DEF EndBatch, IInv, TypeOK

\* Marking what was published and committing preserves the invariant.
LEMMA CommitBatchInv == ASSUME IInv, NEW w \in Workers, CommitBatch(w) PROVE IInv'
<1>0. /\ processed' = processed \cup done[w] /\ EndBatch(w)
      /\ UNCHANGED <<now, begun, committed, created, before, published, lost, rollbacks, delayed,
                     failures>>
  BY DEF CommitBatch, ledger
<1>1. /\ pc' \in [Workers -> {"idle", "batch"}]
      /\ locked' \in [Workers -> SUBSET Events] /\ todo' \in [Workers -> SUBSET Events]
      /\ done' \in [Workers -> SUBSET Events]
      /\ locked'[w] = {} /\ todo'[w] = {} /\ done'[w] = {}
      /\ \A v \in Workers \ {w} : /\ pc'[v] = pc[v] /\ locked'[v] = locked[v]
                                  /\ todo'[v] = todo[v] /\ done'[v] = done[v]
  BY <1>0, EndBatchFacts
<1>2. TypeOK'
  BY <1>0, <1>1 DEF IInv, TypeOK
<1>3. DisjointBatches'
  BY <1>0, <1>1 DEF IInv, TypeOK, DisjointBatches
<1>4. \A e \in Events : InHand(e)' <=> InHand(e)
  BY <1>0, <1>1 DEF InHand
<1>5. Accounted' /\ Acknowledged'
  BY <1>0, <1>4 DEF IInv, Accounted, Acknowledged, Causes
<1>. QED
  BY <1>2, <1>3, <1>5 DEF IInv

\* A failed or crashed batch preserves the invariant: what it published is no
\* longer in hand, and counted as rolled back.
LEMMA RollbackInv == ASSUME IInv, NEW w \in Workers, Rollback(w) PROVE IInv'
<1>0. /\ EndBatch(w) /\ failures' = failures + 1
      /\ rollbacks' = [e \in Events |-> IF e \in done[w] THEN rollbacks[e] + 1 ELSE rollbacks[e]]
      /\ delayed' = delayed \cup todo[w]
      /\ UNCHANGED <<now, begun, committed, created, before, processed, published, lost>>
  BY DEF Rollback, ledger
<1>1. /\ pc' \in [Workers -> {"idle", "batch"}]
      /\ locked' \in [Workers -> SUBSET Events] /\ todo' \in [Workers -> SUBSET Events]
      /\ done' \in [Workers -> SUBSET Events]
      /\ locked'[w] = {} /\ todo'[w] = {} /\ done'[w] = {}
      /\ \A v \in Workers \ {w} : /\ pc'[v] = pc[v] /\ locked'[v] = locked[v]
                                  /\ todo'[v] = todo[v] /\ done'[v] = done[v]
  BY <1>0, EndBatchFacts
<1>2. \A e \in Events : published[e] \in Nat /\ lost[e] \in Nat /\ rollbacks[e] \in Nat
  BY DEF IInv, TypeOK
<1>3. TypeOK'
  <2>1. rollbacks' \in [Events -> Nat] /\ failures' \in Nat
    BY <1>0, <1>2 DEF IInv, TypeOK
  <2>. QED
    BY <1>0, <1>1, <2>1 DEF IInv, TypeOK
<1>4. DisjointBatches'
  BY <1>0, <1>1 DEF IInv, DisjointBatches
<1>5. \A e \in Events : /\ InHand(e)' => InHand(e)
                        /\ InHand(e) /\ e \notin done[w] => InHand(e)'
  BY <1>0, <1>1 DEF InHand
<1>6. Accounted'
  <2>1. \A e \in Events : /\ Causes(e)' = IF e \in done[w] THEN Causes(e) + 1 ELSE Causes(e)
                          /\ Causes(e) \in Nat
    BY <1>0, <1>2 DEF Causes
  <2>2. \A e \in Events : published[e] <= Causes(e) + 1
                          /\ (~InHand(e) => published[e] <= Causes(e))
    BY DEF IInv, Accounted
  <2>3. \A e \in Events : /\ published'[e] <= Causes(e)' + 1
                          /\ ~InHand(e)' => published'[e] <= Causes(e)'
    BY <1>0, <1>2, <1>5, <2>1, <2>2
  <2>. QED
    BY <2>3 DEF Accounted
<1>7. Acknowledged'
  BY <1>0, <1>5 DEF IInv, Acknowledged
<1>. QED
  BY <1>3, <1>4, <1>6, <1>7 DEF IInv

\* Every step preserves the invariant.
LEMMA NextInv == IInv /\ [Next]_vars => IInv'
<1>1. ASSUME IInv, UNCHANGED vars PROVE IInv'
  <2>1. TypeOK'
    BY <1>1 DEF IInv, TypeOK, vars, ledger, worker
  <2>2. DisjointBatches' /\ Accounted' /\ Acknowledged'
    BY <1>1 DEF IInv, DisjointBatches, Accounted, Acknowledged, InHand, Causes, vars, ledger, worker
  <2>. QED
    BY <2>1, <2>2 DEF IInv
<1>. QED
  BY <1>1, BeginInv, InsertInv, SelectBatchInv, PublishOkInv, PublishFailsInv, PublishLostInv,
     CommitBatchInv, RollbackInv DEF Next

\* The invariant holds in every behaviour of the publisher.
LEMMA Invariant == Spec => []IInv
BY InitInv, NextInv, PTL DEF Spec

\* FOR UPDATE SKIP LOCKED: batches are disjoint and hold unmarked rows only.
THEOREM BatchesAreDisjoint == Spec => []DisjointBatches
<1>1. IInv => DisjointBatches
  BY DEF IInv
<1>. QED
  BY <1>1, Invariant, PTL

\* ProcessBatch marks a row only after Redis has executed its PUBLISH.
THEOREM MarkedOnlyPublished == Spec => []MarkedAfterPublish
<1>1. ASSUME IInv PROVE MarkedAfterPublish
  BY <1>1 DEF IInv, TypeOK, Acknowledged, InHand, MarkedAfterPublish
<1>. QED
  BY <1>1, Invariant, PTL

\* ProcessBatch repeats a row only for a PUBLISH whose answer was lost or a batch
\* that published it and rolled back.
THEOREM RepeatsExplained == Spec => []RepeatsHaveCause
<1>1. ASSUME IInv PROVE RepeatsHaveCause
  BY <1>1 DEF IInv, TypeOK, Accounted, Causes, RepeatsHaveCause
<1>. QED
  BY <1>1, Invariant, PTL

---------------------------------------------------------------------------
\* What the order of publication rests on: non-overlapping transactions are
\* ordered by created_at, a row leaves a batch's list published or delayed, and
\* the predecessors of a locked row are published, delayed or on some list.
StampsOrdered ==
    /\ \A e \in begun : created[e] <= now
    /\ \A e \in committed : created[e] < now
    /\ \A p \in before : created[p[1]] < created[p[2]]

Handled ==
    /\ \A e \in Events : published[e] > 0 => e \in committed
    /\ \A w \in Workers : locked[w] \subseteq todo[w] \cup done[w] \cup delayed

Waiting(e) == published[e] = 0 /\ e \notin delayed

Predecessors ==
    \A p \in before, w \in Workers :
        p[2] \in locked[w] /\ Waiting(p[1]) => \E v \in Workers : p[1] \in todo[v]

OInv == StampsOrdered /\ Handled /\ Predecessors /\ InOrder

\* Begin preserves the order: the new row is younger than every committed one,
\* and not yet published.
LEMMA BeginOrder == ASSUME IInv, OInv, NEW e \in Events, Begin(e) PROVE OInv'
<1>0. /\ e \notin begun /\ begun' = begun \cup {e} /\ created' = [created EXCEPT ![e] = now]
      /\ before' = before \cup {<<a, e>> : a \in committed}
      /\ UNCHANGED <<now, committed, processed, locked, todo, done, published, delayed>>
  BY DEF Begin, worker
<1>1. /\ now \in Nat /\ created \in [Events -> Nat] /\ committed \subseteq begun
      /\ begun \subseteq Events /\ before \subseteq committed \X begun
      /\ published \in [Events -> Nat]
      /\ \A w \in Workers : locked[w] \subseteq committed
  BY DEF IInv, TypeOK, DisjointBatches
<1>2. e \notin committed /\ published[e] = 0
  BY <1>0, <1>1 DEF OInv, Handled
<1>3. \A p \in before' : \/ p \in before /\ p[1] # e /\ p[2] # e
                         \/ p[1] \in committed /\ p[1] # e /\ p[2] = e
  BY <1>0, <1>1
<1>4. StampsOrdered'
  <2>1. created'[e] = now /\ \A f \in begun : created'[f] = created[f]
    BY <1>0, <1>1
  <2>2. \A f \in begun : created[f] <= now
    BY DEF OInv, StampsOrdered
  <2>3. \A f \in committed : created[f] < now /\ created'[f] = created[f]
    BY <1>1, <2>1 DEF OInv, StampsOrdered
  <2>4. \A p \in before' : created'[p[1]] < created'[p[2]]
    <3> TAKE p \in before'
    <3>1. CASE p \in before /\ p[1] # e /\ p[2] # e
      BY <1>1, <2>1, <3>1 DEF OInv, StampsOrdered
    <3>2. CASE p[1] \in committed /\ p[1] # e /\ p[2] = e
      BY <2>1, <2>3, <3>2
    <3>. QED
      BY <1>3, <3>1, <3>2
  <2>. QED
    BY <1>0, <1>1, <2>1, <2>2, <2>3, <2>4 DEF StampsOrdered
<1>5. Handled'
  BY <1>0 DEF OInv, Handled
<1>6. Predecessors'
  BY <1>0, <1>1, <1>2, <1>3 DEF OInv, Predecessors, Waiting
<1>7. InOrder'
  BY <1>0, <1>2, <1>3 DEF OInv, InOrder
<1>. QED
  BY <1>4, <1>5, <1>6, <1>7 DEF OInv

\* A commit preserves the order: the clock moves past the row's created_at.
LEMMA InsertOrder == ASSUME IInv, OInv, NEW e \in Events, Insert(e) PROVE OInv'
<1>0. /\ committed' = committed \cup {e} /\ e \in begun /\ now' = now + 1
      /\ UNCHANGED <<begun, created, before, locked, todo, done, published, delayed>>
  BY DEF Insert, worker
<1>1. now \in Nat /\ created \in [Events -> Nat] /\ begun \subseteq Events /\ committed \subseteq begun
  BY DEF IInv, TypeOK
<1>2. StampsOrdered'
  <2>1. \A f \in begun : created[f] \in Nat /\ created[f] <= now
    BY <1>1 DEF OInv, StampsOrdered
  <2>2. \A f \in begun : created[f] <= now + 1 /\ created[f] < now + 1
    BY <1>1, <2>1
  <2>. QED
    BY <1>0, <1>1, <2>2 DEF OInv, StampsOrdered
<1>3. Handled' /\ Predecessors' /\ InOrder'
  BY <1>0 DEF OInv, Handled, Predecessors, InOrder, Waiting
<1>. QED
  BY <1>2, <1>3 DEF OInv

\* Locking a batch preserves the order: a predecessor that waits and that no
\* other batch has is older, so the same query returned it.
LEMMA SelectBatchOrder == ASSUME IInv, OInv, NEW w \in Workers, SelectBatch(w) PROVE OInv'
<1>0. PICK B \in Batches : locked' = [locked EXCEPT ![w] = B] /\ todo' = [todo EXCEPT ![w] = B]
  BY Zenon DEF SelectBatch
<1>1. /\ pc[w] = "idle"
      /\ UNCHANGED <<now, begun, committed, created, before, done, published, delayed>>
  BY DEF SelectBatch, ledger
<1>2. /\ locked \in [Workers -> SUBSET Events] /\ todo \in [Workers -> SUBSET Events]
      /\ todo[w] = {} /\ done[w] = {} /\ before \subseteq committed \X begun
      /\ committed \subseteq Events /\ begun \subseteq Events
      /\ created \in [Events -> Nat] /\ published \in [Events -> Nat]
  BY <1>1 DEF IInv, TypeOK
<1>3. /\ locked'[w] = B /\ todo'[w] = B
      /\ \A v \in Workers \ {w} : locked'[v] = locked[v] /\ todo'[v] = todo[v]
  BY <1>0, <1>2
<1>4. B \subseteq Selectable /\ \A e \in B, f \in Selectable \ B : created[e] <= created[f]
  BY DEF Batches
<1>5. StampsOrdered'
  BY <1>1 DEF OInv, StampsOrdered
<1>6. Handled'
  BY <1>1, <1>3 DEF OInv, Handled
<1>7. Predecessors'
  <2> SUFFICES ASSUME NEW p \in before, NEW u \in Workers, p[2] \in locked'[u], Waiting(p[1])
               PROVE  \E v \in Workers : p[1] \in todo'[v]
    BY <1>1 DEF Predecessors, Waiting
  <2>1. p[1] \in committed /\ p[1] \in Events /\ p[2] \in Events /\ created[p[1]] < created[p[2]]
    BY <1>2 DEF OInv, StampsOrdered
  <2>2. p[1] \notin processed /\ \A v \in Workers : p[1] \notin done[v]
    BY <2>1 DEF IInv, Acknowledged, InHand, Waiting
  <2>3. CASE \E v \in Workers : p[1] \in locked[v]
    <3>1. PICK v \in Workers : p[1] \in locked[v]
      BY <2>3
    <3>2. p[1] \in todo[v] /\ v # w
      BY <1>2, <2>2, <3>1 DEF OInv, Handled, Waiting
    <3>. QED
      BY <1>3, <3>2
  <2>4. CASE ~\E v \in Workers : p[1] \in locked[v]
    <3>1. p[1] \in Selectable
      BY <2>1, <2>2, <2>4 DEF Selectable
    <3>2. CASE u = w
      <4>1. ~(created[p[2]] <= created[p[1]])
        BY <1>2, <2>1
      <4>. QED
        BY <1>3, <1>4, <3>1, <3>2, <4>1
    <3>3. CASE u # w
      <4>1. \E v \in Workers : p[1] \in todo[v]
        BY <1>3, <3>3 DEF OInv, Predecessors
      <4>. QED
        BY <1>2, <1>3, <4>1
    <3>. QED
      BY <3>2, <3>3
  <2>. QED
    BY <2>3, <2>4
<1>8. InOrder'
  BY <1>1, <1>2, <1>3 DEF OInv, InOrder
<1>. QED
  BY <1>5, <1>6, <1>7, <1>8 DEF OInv

\* Every row but e stays on its list, and only w's list changes.
ListsKept(w, e) ==
    \A v \in Workers : /\ todo[v] \ {e} \subseteq todo'[v] /\ done[v] \subseteq done'[v]
                       /\ v # w => todo'[v] = todo[v]

\* A PUBLISH that Redis executes preserves the order, acknowledged or not: a
\* predecessor that waits is on another worker's list, because this worker takes
\* its own list oldest first.
LEMMA PublishedOrder ==
  ASSUME IInv, OInv, NEW w \in Workers, NEW e \in Events, Oldest(w, e),
         published' = [published EXCEPT ![e] = @ + 1],
         ListsKept(w, e), delayed \subseteq delayed', e \in todo'[w] \cup done'[w] \cup delayed',
         UNCHANGED <<now, begun, committed, created, before, locked>>
  PROVE  OInv'
<1>0. e \in todo[w] /\ \A f \in todo[w] : created[e] <= created[f]
  BY DEF Oldest
<1>1. published'[e] > 0 /\ \A f \in Events \ {e} : published'[f] = published[f]
  BY DEF IInv, TypeOK
<1>2. /\ e \in locked[w] /\ e \in committed /\ \A v \in Workers \ {w} : e \notin locked[v]
      /\ created \in [Events -> Nat] /\ \A v \in Workers : todo[v] \subseteq Events
      /\ \A p \in before : p[1] \in Events /\ p[2] \in Events
  BY <1>0 DEF IInv, TypeOK, DisjointBatches
<1>3. StampsOrdered'
  BY DEF OInv, StampsOrdered
<1>4. Handled'
  <2>1. \A v \in Workers : locked[v] \subseteq todo'[v] \cup done'[v] \cup delayed'
    BY <1>2 DEF OInv, Handled, ListsKept
  <2>. QED
    BY <1>1, <1>2, <2>1 DEF OInv, Handled
<1>5. \A f \in Events : Waiting(f)' => Waiting(f) /\ f # e
  BY <1>1 DEF Waiting
<1>6. Predecessors'
  BY <1>2, <1>5 DEF OInv, Predecessors, ListsKept
<1>7. InOrder'
  <2> SUFFICES ASSUME NEW p \in before, published'[p[2]] > 0, published'[p[1]] = 0,
                      p[1] \notin delayed'
               PROVE  \E v \in Workers : p[1] \in todo'[v] /\ p[2] \notin locked[v]
    BY DEF InOrder
  <2>1. /\ p[1] \in Events /\ p[2] \in Events /\ p[1] # e /\ published[p[1]] = 0
        /\ p[1] \notin delayed /\ Waiting(p[1])
    BY <1>1, <1>2 DEF Waiting
  <2>2. CASE p[2] = e
    <3>1. PICK v \in Workers : p[1] \in todo[v]
      BY <1>2, <2>1, <2>2 DEF OInv, Predecessors
    <3>2. created[p[1]] < created[e]
      BY <2>2 DEF OInv, StampsOrdered
    <3>3. v # w
      BY <1>0, <1>2, <2>1, <3>1, <3>2
    <3>. QED
      BY <1>2, <2>2, <3>1, <3>3 DEF ListsKept
  <2>3. CASE p[2] # e
    <3>1. PICK v \in Workers : p[1] \in todo[v] /\ p[2] \notin locked[v]
      BY <1>1, <2>1, <2>3 DEF OInv, InOrder
    <3>. QED
      BY <2>1, <3>1 DEF ListsKept
  <2>. QED
    BY <2>2, <2>3
<1>. QED
  BY <1>3, <1>4, <1>6, <1>7 DEF OInv

\* An acknowledged PUBLISH preserves the order.
LEMMA PublishOkOrder ==
  ASSUME IInv, OInv, NEW w \in Workers, NEW e \in Events, PublishOk(w, e) PROVE OInv'
<1>0. /\ Oldest(w, e)
      /\ todo' = [todo EXCEPT ![w] = @ \ {e}] /\ done' = [done EXCEPT ![w] = @ \cup {e}]
      /\ published' = [published EXCEPT ![e] = @ + 1]
      /\ UNCHANGED <<now, begun, committed, created, before, locked, delayed>>
  BY DEF PublishOk, ledger
<1>1. /\ ListsKept(w, e)
      /\ e \in done'[w]
  BY <1>0 DEF IInv, TypeOK, ListsKept
<1>2. /\ delayed \subseteq delayed' /\ e \in todo'[w] \cup done'[w] \cup delayed'
      /\ UNCHANGED <<now, begun, committed, created, before, locked>>
  BY <1>0, <1>1
<1>. QED
  BY <1>0, <1>1, <1>2, PublishedOrder, Zenon

\* A PUBLISH whose answer is lost preserves the order.
LEMMA PublishLostOrder ==
  ASSUME IInv, OInv, NEW w \in Workers, NEW e \in Events, PublishLost(w, e) PROVE OInv'
<1>0. /\ Oldest(w, e)
      /\ \/ todo' = todo /\ delayed' = delayed
         \/ todo' = [todo EXCEPT ![w] = @ \ {e}] /\ delayed' = delayed \cup {e}
      /\ published' = [published EXCEPT ![e] = @ + 1]
      /\ UNCHANGED <<now, begun, committed, created, before, locked, done>>
  BY DEF PublishLost, ledger
<1>1. /\ ListsKept(w, e)
      /\ delayed \subseteq delayed' /\ e \in todo'[w] \cup delayed'
  BY <1>0 DEF IInv, TypeOK, Oldest, ListsKept
<1>2. /\ delayed \subseteq delayed' /\ e \in todo'[w] \cup done'[w] \cup delayed'
      /\ UNCHANGED <<now, begun, committed, created, before, locked>>
  BY <1>0, <1>1
<1>. QED
  BY <1>0, <1>1, <1>2, PublishedOrder, Zenon

\* A failed PUBLISH preserves the order: its row is delayed.
LEMMA PublishFailsOrder ==
  ASSUME IInv, OInv, NEW w \in Workers, NEW e \in Events, PublishFails(w, e) PROVE OInv'
<1>0. /\ todo' = [todo EXCEPT ![w] = @ \ {e}] /\ delayed' = delayed \cup {e}
      /\ UNCHANGED <<now, begun, committed, created, before, locked, done, published>>
  BY DEF PublishFails, ledger
<1>1. /\ todo'[w] = todo[w] \ {e}
      /\ \A v \in Workers \ {w} : todo'[v] = todo[v]
  BY <1>0 DEF IInv, TypeOK
<1>2. StampsOrdered'
  BY <1>0 DEF OInv, StampsOrdered
<1>3. Handled'
  BY <1>0, <1>1 DEF OInv, Handled
<1>4. Predecessors'
  BY <1>0, <1>1 DEF OInv, Predecessors, Waiting
<1>5. InOrder'
  BY <1>0, <1>1 DEF OInv, InOrder
<1>. QED
  BY <1>2, <1>3, <1>4, <1>5 DEF OInv

\* The end of a batch, committed or rolled back, preserves the order when what is
\* left on its list is delayed.
LEMMA EndBatchOrder ==
  ASSUME IInv, OInv, NEW w \in Workers, EndBatch(w), delayed' = delayed \cup todo[w],
         UNCHANGED <<now, begun, committed, created, before, published>>
  PROVE  OInv'
<1>1. /\ locked'[w] = {} /\ todo'[w] = {} /\ done'[w] = {}
      /\ \A v \in Workers \ {w} : /\ locked'[v] = locked[v]
                                  /\ todo'[v] = todo[v] /\ done'[v] = done[v]
  BY EndBatchFacts
<1>2. StampsOrdered'
  BY DEF OInv, StampsOrdered
<1>3. Handled'
  BY <1>1 DEF OInv, Handled
<1>4. Predecessors'
  BY <1>1 DEF OInv, Predecessors, Waiting
<1>5. InOrder'
  BY <1>1 DEF OInv, InOrder
<1>. QED
  BY <1>2, <1>3, <1>4, <1>5 DEF OInv

\* Every step preserves the order.
LEMMA NextOrder == IInv /\ OInv /\ [Next]_vars => OInv'
<1>1. ASSUME OInv, UNCHANGED vars PROVE OInv'
  BY <1>1 DEF OInv, StampsOrdered, Handled, Predecessors, Waiting, InOrder, vars, ledger, worker
<1>2. ASSUME IInv, OInv, NEW w \in Workers, CommitBatch(w) \/ Rollback(w) PROVE OInv'
  <2>1. /\ EndBatch(w) /\ delayed' = delayed \cup todo[w]
        /\ UNCHANGED <<now, begun, committed, created, before, published>>
    BY <1>2 DEF CommitBatch, Rollback, ledger
  <2>. QED
    BY <1>2, <2>1, EndBatchOrder
<1>. QED
  BY <1>1, <1>2, BeginOrder, InsertOrder, SelectBatchOrder, PublishOkOrder,
     PublishFailsOrder, PublishLostOrder
  DEF Next

\* ProcessBatch: events of transactions that did not overlap are published in
\* their order, unless another batch has the older one or had it and let it go.
THEOREM PublishedInOrder == Spec => []InOrder
<1>1. Init => OInv
  BY DEF Init, OInv, StampsOrdered, Handled, Predecessors, InOrder
<1>2. OInv => InOrder
  BY DEF OInv
<1>. QED
  BY <1>1, <1>2, Invariant, NextOrder, PTL DEF Spec
=============================================================================
