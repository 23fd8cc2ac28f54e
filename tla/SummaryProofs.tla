--------------------------- MODULE SummaryProofs ---------------------------
(***************************************************************************)
(* The bound on the age of a summary, for any number of readers, writers   *)
(* and months, any TTL and any request timeout.                            *)
(***************************************************************************)
EXTENDS Summary, TLAPS

\* An entry expires in time: what it lacks was committed less than a TTL and a
\* request before its end.
CacheInv ==
    \A m \in Months : cache[m] # None =>
        /\ cache[m].expires <= now + TTL
        /\ \A t \in Sum(m) \ cache[m].val : cache[m].expires <= tx[t].at + TTL + Timeout

\* A reader holds its sum no longer than a request lasts, and what the sum lacks
\* was committed after it was read.
ReaderInv ==
    \A r \in Readers : reader[r] # None /\ reader[r].stage = "set" =>
        /\ reader[r].at <= now /\ now <= reader[r].at + Timeout
        /\ \A t \in Sum(reader[r].month) \ reader[r].val : reader[r].at <= tx[t].at

IInv == TypeOK /\ CacheInv /\ ReaderInv /\ BoundedStaleness

\* A step that leaves the rows of the database as they are.
RowsKept ==
    \A t \in Txs : /\ tx'[t] = None <=> tx[t] = None
                   /\ tx[t] # None => tx'[t].month = tx[t].month /\ tx'[t].at = tx[t].at

\* The empty cache of a new account satisfies the invariant.
LEMMA InitInv == Init => IInv
<1> SUFFICES ASSUME Init PROVE IInv
  OBVIOUS
<1>1. TypeOK
  BY DEF Init, TypeOK
<1>2. CacheInv /\ ReaderInv /\ BoundedStaleness
  BY DEF Init, CacheInv, ReaderInv, BoundedStaleness
<1>. QED
  BY <1>1, <1>2 DEF IInv

\* Steps that leave the rows and the clock alone and store nothing new preserve
\* the invariant on the cache; those that also leave the readers alone, or end
\* one, that on the readers.
LEMMA CacheKept ==
  ASSUME IInv, RowsKept, now' = now,
         \A m \in Months : cache'[m] = cache[m] \/ cache'[m] = None
  PROVE  CacheInv'
<1>1. \A m \in Months : Sum(m)' = Sum(m)
  BY DEF RowsKept, Sum
<1>2. \A m \in Months : \A t \in Sum(m) : tx'[t].at = tx[t].at
  BY DEF RowsKept, Sum
<1>. QED
  BY <1>1, <1>2 DEF IInv, CacheInv

\* The same for what the readers hold.
LEMMA ReaderKept ==
  ASSUME IInv, RowsKept, now' = now,
         \A r \in Readers : \/ reader'[r] = reader[r] \/ reader'[r] = None
                            \/ reader'[r].stage # "set"
  PROVE  ReaderInv'
<1>1. \A m \in Months : Sum(m)' = Sum(m)
  BY DEF RowsKept, Sum
<1>2. \A m \in Months : \A t \in Sum(m) : tx'[t].at = tx[t].at
  BY DEF RowsKept, Sum
<1>3. \A r \in Readers : reader[r] # None => reader[r].month \in Months
  BY DEF IInv, TypeOK, Work
<1>. QED
  BY <1>1, <1>2, <1>3 DEF IInv, ReaderInv

\* The clock preserves the invariant: a reader whose time is up stops it.
LEMMA TickInv == ASSUME IInv, Tick PROVE IInv'
<1>0. /\ now' = now + 1 /\ UNCHANGED <<tx, reader, answer, raced>>
      /\ \A m \in Months : \/ cache'[m] = None
                           \/ cache'[m] = cache[m] /\ ~(cache[m].expires <= now + 1)
      /\ \A r \in Readers : reader[r] # None /\ reader[r].stage = "set" =>
           now < reader[r].at + Timeout
  BY DEF Tick, Expired
<1>1. now \in Nat /\ TTL \in Nat /\ Timeout \in Nat
  BY ConstantsAssumption DEF IInv, TypeOK
<1>2. \A m \in Months : cache'[m] # None => cache'[m] = cache[m] /\ cache[m].expires > now + 1
                                            /\ cache[m].expires \in Nat
  BY <1>0, <1>1 DEF IInv, TypeOK, Entry
<1>3. TypeOK'
  <2>1. cache' \in [Months -> Entry \cup {None}]
    BY DEF Tick, IInv, TypeOK
  <2>2. \A m \in Months : cache'[m] # None => cache'[m].expires > now'
    BY <1>0, <1>2
  <2>. QED
    BY <1>0, <1>1, <2>1, <2>2 DEF IInv, TypeOK
<1>4. CacheInv'
  <2>1. \A m \in Months : cache'[m] # None => cache'[m].expires <= now' + TTL
    BY <1>0, <1>1, <1>2 DEF IInv, CacheInv
  <2>2. \A m \in Months : Sum(m)' = Sum(m)
    BY <1>0 DEF Sum
  <2>. QED
    BY <1>0, <1>2, <2>1, <2>2 DEF IInv, CacheInv
<1>5. ReaderInv'
  <2>1. \A r \in Readers : reader[r] # None => reader[r].at \in Nat
    BY DEF IInv, TypeOK, Work
  <2>2. \A r \in Readers : reader[r] # None /\ reader[r].stage = "set" =>
          reader[r].at <= now + 1 /\ now + 1 <= reader[r].at + Timeout
    BY <1>0, <1>1, <2>1 DEF IInv, ReaderInv
  <2>. QED
    BY <1>0, <2>2 DEF IInv, ReaderInv, Sum
<1>6. BoundedStaleness'
  BY <1>0 DEF IInv, BoundedStaleness
<1>. QED
  BY <1>3, <1>4, <1>5, <1>6 DEF IInv

\* A commit preserves the invariant: it is younger than any entry and any sum.
LEMMA CommitInv == ASSUME IInv, NEW t \in Txs, Commit(t) PROVE IInv'
<1>0. PICK m \in Months : \E k \in Keys(m) :
        tx' = [tx EXCEPT ![t] = [month |-> m, at |-> now, keys |-> k, todo |-> k, failed |-> FALSE]]
  BY Zenon DEF Commit
<1>00. PICK k \in Keys(m) :
        tx' = [tx EXCEPT ![t] = [month |-> m, at |-> now, keys |-> k, todo |-> k, failed |-> FALSE]]
  BY Zenon, <1>0
<1>1. tx[t] = None /\ UNCHANGED <<now, cache, reader, answer, raced>>
  BY DEF Commit
<1>2. k \in SUBSET Months
  BY DEF Keys, ClientMonths
<1>3. [month |-> m, at |-> now, keys |-> k, todo |-> k, failed |-> FALSE] \in Row
  <2>1. now \in Nat
    BY DEF IInv, TypeOK
  <2>. QED
    BY <1>2, <2>1, Zenon DEF Row
<1>4. tx' \in [Txs -> Row \cup {None}]
  BY <1>00, <1>3 DEF IInv, TypeOK
<1>5. /\ tx'[t].at = now
      /\ \A u \in Txs \ {t} : tx'[u] = tx[u]
  BY <1>00 DEF IInv, TypeOK
<1>6. TypeOK'
  BY <1>1, <1>4 DEF IInv, TypeOK
<1>7. \A n \in Months : \A u \in Sum(n)' : u = t \/ (u \in Sum(n) /\ tx'[u].at = tx[u].at)
  BY <1>5 DEF Sum
<1>8. now \in Nat /\ TTL \in Nat /\ Timeout \in Nat
  BY ConstantsAssumption DEF IInv, TypeOK
<1>9. CacheInv'
  <2>1. \A n \in Months : cache[n] # None => cache[n].expires <= now + TTL /\ cache[n].expires \in Nat
    BY DEF IInv, TypeOK, CacheInv, Entry
  <2>2. \A n \in Months : cache[n] # None => cache[n].expires <= now + TTL + Timeout
    BY <1>8, <2>1
  <2>. QED
    BY <1>1, <1>5, <1>7, <2>2 DEF IInv, CacheInv
<1>10. ReaderInv'
  <2>1. \A r \in Readers : reader[r] # None => reader[r].month \in Months
    BY DEF IInv, TypeOK, Work
  <2>. QED
    BY <1>1, <1>5, <1>7, <2>1 DEF IInv, ReaderInv
<1>11. BoundedStaleness'
  BY <1>1 DEF IInv, BoundedStaleness
<1>. QED
  BY <1>6, <1>9, <1>10, <1>11 DEF IInv

\* A deletion done, failed or lost preserves the invariant: it changes no row
\* and stores nothing.
LEMMA InvalidateInv ==
  ASSUME IInv, NEW t \in Txs,
         CommitLost(t) \/ \E k \in Months : Invalidate(t, k) \/ InvalidateFails(t, k)
  PROVE  IInv'
<1>0. /\ now' = now /\ reader' = reader /\ answer' = answer /\ tx[t] # None
      /\ raced' \subseteq raced \cup {t}
      /\ cache' = cache \/ \E k \in Months : cache' = [cache EXCEPT ![k] = None]
  BY Zenon DEF CommitLost, Invalidate, InvalidateFails
<1>1. \E K \in SUBSET Months :
        \/ tx' = [tx EXCEPT ![t].todo = K]
        \/ tx' = [tx EXCEPT ![t].todo = K, ![t].failed = TRUE]
  <2>1. tx[t].todo \in SUBSET Months
    BY SMTT(30), <1>0 DEF IInv, TypeOK, Row
  <2>2. \A k : tx[t].todo \ {k} \in SUBSET Months
    BY <2>1
  <2>. QED
    BY Zenon, <2>2 DEF CommitLost, Invalidate, InvalidateFails
<1>2. PICK K \in SUBSET Months :
        \/ tx' = [tx EXCEPT ![t].todo = K]
        \/ tx' = [tx EXCEPT ![t].todo = K, ![t].failed = TRUE]
  BY <1>1
<1>3. tx' \in [Txs -> Row \cup {None}] /\ RowsKept
  <2>1. tx[t] \in Row
    BY <1>0 DEF IInv, TypeOK
  <2>2. PICK x \in Row : x.month = tx[t].month /\ x.at = tx[t].at /\ tx' = [tx EXCEPT ![t] = x]
    <3>1. [tx[t] EXCEPT !.todo = K] \in Row
      BY <2>1 DEF Row
    <3>2. [tx[t] EXCEPT !.todo = K, !.failed = TRUE] \in Row
      BY Zenon, <2>1 DEF Row
    <3>. QED
      BY <1>2, <2>1, <3>1, <3>2 DEF Row
  <2>. QED
    BY <1>0, <2>2, ConstantsAssumption DEF IInv, TypeOK, RowsKept
<1>4. cache' \in [Months -> Entry \cup {None}]
      /\ \A m \in Months : cache'[m] = cache[m] \/ cache'[m] = None
  BY <1>0 DEF IInv, TypeOK
<1>5. TypeOK'
  BY <1>0, <1>3, <1>4 DEF IInv, TypeOK
<1>. QED
  BY <1>0, <1>3, <1>4, <1>5, CacheKept, ReaderKept DEF IInv, BoundedStaleness

\* A hit is young enough.
LEMMA GetHitInv == ASSUME IInv, NEW r \in Readers, NEW m \in Months, GetHit(r, m) PROVE IInv'
<1>0. /\ cache[m] # None /\ answer' = [val |-> cache[m].val, owed |-> Owed(m)]
      /\ UNCHANGED <<now, tx, cache, reader, raced>>
  BY DEF GetHit
<1>1. Owed(m) \subseteq cache[m].val
  <2>1. SUFFICES ASSUME NEW t \in Sum(m), t \notin cache[m].val
                 PROVE  ~(tx[t].at + TTL + Timeout <= now)
    BY DEF Owed
  <2>2. cache[m].expires > now /\ cache[m].expires <= tx[t].at + TTL + Timeout
    BY <1>0, <2>1 DEF IInv, TypeOK, CacheInv
  <2>3. /\ tx[t].at \in Nat /\ cache[m].expires \in Nat /\ now \in Nat
        /\ TTL \in Nat /\ Timeout \in Nat
    BY <1>0, ConstantsAssumption DEF IInv, TypeOK, Row, Entry, Sum
  <2>. QED
    BY <2>2, <2>3
<1>2. cache[m].val \in SUBSET Txs /\ Owed(m) \in SUBSET Txs
  BY <1>0 DEF IInv, TypeOK, Entry, Owed, Sum
<1>3. TypeOK'
  BY <1>0, <1>2 DEF IInv, TypeOK
<1>4. CacheInv' /\ ReaderInv'
  BY <1>0 DEF IInv, CacheInv, ReaderInv, Sum
<1>. QED
  BY <1>0, <1>1, <1>3, <1>4 DEF IInv, BoundedStaleness

\* A miss and a failed query preserve the invariant.
LEMMA MissInv ==
  ASSUME IInv, NEW r \in Readers, QueryFails(r) \/ \E m \in Months : GetMiss(r, m) PROVE IInv'
<1>0. UNCHANGED <<now, tx, cache, answer, raced>>
  BY DEF GetMiss, QueryFails
<1>1. PICK x \in Work \cup {None} : reader' = [reader EXCEPT ![r] = x] /\ (x = None \/ x.stage # "set")
  <2>1. \A m \in Months : [stage |-> "query", month |-> m, val |-> {}, at |-> now] \in Work
    BY DEF Work, IInv, TypeOK
  <2>. QED
    BY <2>1 DEF GetMiss, QueryFails
<1>2. /\ reader' \in [Readers -> Work \cup {None}]
      /\ reader'[r] = x /\ \A q \in Readers \ {r} : reader'[q] = reader[q]
  BY <1>1 DEF IInv, TypeOK
<1>3. TypeOK'
  BY <1>0, <1>2 DEF IInv, TypeOK
<1>4. RowsKept
  BY <1>0 DEF RowsKept
<1>. QED
  BY <1>0, <1>1, <1>2, <1>3, <1>4, CacheKept, ReaderKept DEF IInv, BoundedStaleness

\* A query returns everything committed so far.
LEMMA QueryInv == ASSUME IInv, NEW r \in Readers, Query(r) PROVE IInv'
<1> DEFINE x == [stage |-> "set", month |-> reader[r].month, val |-> Sum(reader[r].month), at |-> now]
<1>0. /\ reader[r] # None /\ reader' = [reader EXCEPT ![r] = x]
      /\ UNCHANGED <<now, tx, cache, answer, raced>>
  BY DEF Query
<1>1. x \in Work
  BY <1>0 DEF IInv, TypeOK, Work, Sum
<1>2. /\ reader' \in [Readers -> Work \cup {None}]
      /\ reader'[r] = x /\ \A q \in Readers \ {r} : reader'[q] = reader[q]
  BY <1>0, <1>1 DEF IInv, TypeOK
<1>3. TypeOK'
  BY <1>0, <1>2 DEF IInv, TypeOK
<1>4. CacheInv' /\ BoundedStaleness'
  BY <1>0 DEF IInv, CacheInv, BoundedStaleness, Sum
<1>5. ReaderInv'
  <2>1. x.at <= now /\ now <= x.at + Timeout
    BY ConstantsAssumption DEF IInv, TypeOK
  <2>4. ASSUME NEW q \in Readers, reader'[q] # None, reader'[q].stage = "set"
        PROVE  /\ reader'[q].at <= now' /\ now' <= reader'[q].at + Timeout
               /\ \A t \in Sum(reader[q].month)' \ reader'[q].val : reader'[q].at <= tx'[t].at
    <3>1. CASE q = r
      <4>1. Sum(reader[q].month)' \ reader'[q].val = {}
        BY <1>0, <1>2, <3>1 DEF Sum
      <4>. QED
        BY <1>0, <1>2, <2>1, <3>1, <4>1
    <3>2. CASE q # r
      <4>1. Sum(reader[q].month)' = Sum(reader[q].month)
        BY <1>0, <1>2, <3>2 DEF Sum
      <4>. QED
        BY <1>0, <1>2, <2>4, <3>2, <4>1 DEF IInv, ReaderInv
    <3>. QED
      BY <3>1, <3>2
  <2>. QED
    BY <2>4 DEF ReaderInv
<1>. QED
  BY <1>3, <1>4, <1>5 DEF IInv

\* A SET stores a sum no older than a request, for a TTL.
LEMMA SetInv == ASSUME IInv, NEW r \in Readers, Set(r) PROVE IInv'
<1> DEFINE m == reader[r].month
           e == [val |-> reader[r].val, expires |-> now + TTL]
<1>0. /\ reader[r] # None /\ reader[r].stage = "set"
      /\ cache' = [cache EXCEPT ![m] = e] \/ cache' = cache
      /\ answer' = [val |-> reader[r].val, owed |-> Owed(m)]
      /\ reader' = [reader EXCEPT ![r] = None]
      /\ UNCHANGED <<now, tx, raced>>
  BY DEF Set, Expires
<1>1. /\ reader[r] \in Work /\ now \in Nat /\ TTL \in Nat \ {0} /\ Timeout \in Nat
  BY <1>0, ConstantsAssumption DEF IInv, TypeOK
<1>2. /\ m \in Months /\ reader[r].val \in SUBSET Txs /\ reader[r].at \in Nat
  BY <1>1 DEF Work
<1>3. e \in Entry /\ e.expires > now /\ e.expires <= now + TTL
  <2>1. now + TTL \in Nat /\ now + TTL > now
    BY <1>1
  <2>. QED
    BY <1>2, <2>1 DEF Entry
<1>4. \A t \in Sum(m) \ reader[r].val : /\ tx[t].at \in Nat
                                        /\ now <= tx[t].at + Timeout
                                        /\ now + TTL <= tx[t].at + TTL + Timeout
  <2>1. \A t \in Sum(m) \ reader[r].val : reader[r].at <= tx[t].at /\ tx[t].at \in Nat
    BY <1>0 DEF IInv, TypeOK, Row, Sum, ReaderInv
  <2>2. now <= reader[r].at + Timeout
    BY <1>0 DEF IInv, ReaderInv
  <2>. QED
    BY <1>1, <1>2, <2>1, <2>2
<1>5. /\ cache' \in [Months -> Entry \cup {None}]
      /\ cache'[m] = e \/ cache'[m] = cache[m]
      /\ \A n \in Months \ {m} : cache'[n] = cache[n]
  BY <1>0, <1>2, <1>3 DEF IInv, TypeOK
<1>6. /\ reader' \in [Readers -> Work \cup {None}]
      /\ reader'[r] = None /\ \A q \in Readers \ {r} : reader'[q] = reader[q]
  BY <1>0 DEF IInv, TypeOK
<1>7. TypeOK'
  <2>1. \A n \in Months : cache'[n] # None => cache'[n].expires > now
    BY <1>3, <1>5 DEF IInv, TypeOK
  <2>2. answer' \in [val : SUBSET Txs, owed : SUBSET Txs]
    BY <1>0, <1>2 DEF Owed, Sum
  <2>. QED
    BY <1>0, <1>5, <1>6, <2>1, <2>2 DEF IInv, TypeOK
<1>8. CacheInv'
  <2>1. \A n \in Months : Sum(n)' = Sum(n)
    BY <1>0 DEF Sum
  <2>2. \A n \in Months : (cache'[n] = e /\ n = m) \/ cache'[n] = cache[n]
    BY <1>5
  <2>3. \A t \in Sum(m) \ e.val : e.expires <= tx[t].at + TTL + Timeout
    BY <1>4
  <2> HIDE DEF e, m
  <2>. QED
    BY <1>0, <1>3, <2>1, <2>2, <2>3 DEF IInv, CacheInv
<1>9. ReaderInv'
  BY <1>0, <1>6, ReaderKept DEF RowsKept
<1>10. BoundedStaleness'
  <2>1. Owed(m) \subseteq reader[r].val
    <3>1. SUFFICES ASSUME NEW t \in Sum(m), t \notin reader[r].val
                   PROVE  ~(tx[t].at + TTL + Timeout <= now)
      BY DEF Owed
    <3>. QED
      BY <1>1, <1>4, <3>1
  <2>. QED
    BY <1>0, <2>1 DEF BoundedStaleness
<1>. QED
  BY <1>7, <1>8, <1>9, <1>10 DEF IInv

\* A stutter preserves the invariant.
LEMMA StutterInv == ASSUME IInv, UNCHANGED vars PROVE IInv'
BY DEF vars, IInv, TypeOK, CacheInv, ReaderInv, BoundedStaleness, Sum

\* The invariant is inductive.
LEMMA Inductive == Spec => []IInv
<1>1. IInv /\ [Next]_vars => IInv'
  BY TickInv, CommitInv, InvalidateInv, GetHitInv, MissInv, QueryInv, SetInv, StutterInv DEF Next
<1>. QED
  BY <1>1, InitInv, PTL DEF Spec

\* Every answer of GetMonthlySummary holds what was committed one TTL and one
\* request timeout before, whatever was deleted from the cache, or not.
THEOREM BoundedStalenessHolds == Spec => []BoundedStaleness
<1>1. IInv => BoundedStaleness
  BY DEF IInv
<1>. QED
  BY <1>1, Inductive, PTL
---------------------------------------------------------------------------
\* A sum v of month m lacks only transactions that do not delete the month, have
\* still to delete it, failed to, or raced with a reader.
Excused(t, m) ==
    m \in tx[t].keys => t \in raced \/ m \in tx[t].todo \/ tx[t].failed
Covered(m, v) == \A t \in Sum(m) \ v : Excused(t, m)

\* That holds of the sums in the cache and of those readers are about to store.
RacedInv ==
    /\ \A m \in Months : cache[m] # None => Covered(m, cache[m].val)
    /\ \A r \in Readers : \A m \in Months : Holds(r, m) => Covered(m, reader[r].val)

\* Steps that leave the transactions alone, and store or hold no new sum.
LEMMA CoveredKept ==
  ASSUME RacedInv, UNCHANGED <<tx, raced>>,
         \A m \in Months : cache'[m] = cache[m] \/ cache'[m] = None,
         \A r \in Readers : \/ reader'[r] = reader[r] \/ reader'[r] = None
                            \/ reader'[r].stage # "set"
  PROVE  RacedInv'
<1>1. \A m, v : Covered(m, v)' <=> Covered(m, v)
  BY DEF Covered, Excused, Sum
<1>2. \A m \in Months : cache'[m] # None => Covered(m, cache[m].val)'
  BY <1>1 DEF RacedInv
<1>3. \A r \in Readers : \A m \in Months : Holds(r, m)' => Covered(m, reader[r].val)'
  BY <1>1 DEF RacedInv, Holds
<1>. QED
  BY <1>2, <1>3 DEF RacedInv

\* A new transaction has all its months to delete.
LEMMA CommitCovered == ASSUME IInv, RacedInv, NEW t \in Txs, Commit(t) PROVE RacedInv'
<1>1. PICK m \in Months, k \in SUBSET Months :
        tx' = [tx EXCEPT ![t] = [month |-> m, at |-> now, keys |-> k, todo |-> k, failed |-> FALSE]]
  <2>1. \A n \in Months : Keys(n) \subseteq SUBSET Months
    BY DEF Keys, ClientMonths
  <2>. QED
    BY <2>1, Zenon DEF Commit
<1>2. tx[t] = None /\ UNCHANGED <<cache, reader, raced>>
  BY DEF Commit
<1>3. tx'[t].keys = k /\ tx'[t].todo = k /\ \A u \in Txs \ {t} : tx'[u] = tx[u]
  BY <1>1 DEF IInv, TypeOK
<1>4. \A n, v : Covered(n, v) => Covered(n, v)'
  BY <1>2, <1>3 DEF Covered, Excused, Sum
<1>. QED
  BY <1>2, <1>4 DEF RacedInv, Holds

\* A deletion done, failed or lost changes what its transaction has still to
\* delete, and no row.
LEMMA DeletionKeeps ==
  ASSUME IInv, NEW t \in Txs, tx[t] # None, NEW K \in SUBSET Months,
         \/ tx' = [tx EXCEPT ![t].todo = K]
         \/ tx' = [tx EXCEPT ![t].todo = K, ![t].failed = TRUE]
  PROVE  /\ \A m : Sum(m)' = Sum(m)
         /\ \A u \in Txs \ {t} : tx'[u] = tx[u]
         /\ tx'[t].keys = tx[t].keys /\ tx'[t].todo = K
         /\ tx'[t].failed = tx[t].failed \/ tx'[t].failed
<1>1. tx[t] \in Row /\ tx \in [Txs -> Row \cup {None}]
  BY DEF IInv, TypeOK
<1>2. PICK x : /\ tx' = [tx EXCEPT ![t] = x] /\ x \in Row
               /\ x.month = tx[t].month /\ x.keys = tx[t].keys /\ x.todo = K
               /\ x.failed = tx[t].failed \/ x.failed
  <2>1. CASE tx' = [tx EXCEPT ![t].todo = K]
    <3> DEFINE x == [tx[t] EXCEPT !.todo = K]
    <3>1. /\ x \in Row /\ x.month = tx[t].month /\ x.keys = tx[t].keys /\ x.todo = K
          /\ x.failed = tx[t].failed
      BY <1>1 DEF Row
    <3>2. tx' = [tx EXCEPT ![t] = x]
      BY <2>1
    <3> HIDE DEF x
    <3>. QED
      BY <3>1, <3>2, Zenon
  <2>2. CASE tx' = [tx EXCEPT ![t].todo = K, ![t].failed = TRUE]
    <3> DEFINE x == [tx[t] EXCEPT !.todo = K, !.failed = TRUE]
    <3>1. x \in Row
      BY Zenon, <1>1 DEF Row
    <3>2. /\ x.month = tx[t].month /\ x.keys = tx[t].keys /\ x.todo = K /\ x.failed
      BY <1>1 DEF Row
    <3>3. tx' = [tx EXCEPT ![t] = x]
      BY <1>1, <2>2, Zenon DEF Row
    <3> HIDE DEF x
    <3>. QED
      BY <3>1, <3>2, <3>3, Zenon
  <2>. QED
    BY <2>1, <2>2
<1>3. tx'[t] = x /\ x # None /\ \A u \in Txs \ {t} : tx'[u] = tx[u]
  BY <1>1, <1>2, ConstantsAssumption
<1>4. \A m : Sum(m)' = Sum(m)
  BY <1>2, <1>3 DEF Sum
<1>. QED
  BY <1>2, <1>3, <1>4

\* The deletion of a month leaves no entry of it, and counts as raced if a reader
\* has still to store an older sum.
LEMMA InvalidateCovered ==
  ASSUME IInv, RacedInv, NEW t \in Txs, NEW k \in Months, Invalidate(t, k) PROVE RacedInv'
<1>0. /\ tx[t] # None /\ tx' = [tx EXCEPT ![t].todo = tx[t].todo \ {k}]
      /\ cache' = [cache EXCEPT ![k] = None] /\ reader' = reader
      /\ raced \subseteq raced'
      /\ (\E r \in Readers : Holds(r, tx[t].month) /\ t \notin reader[r].val) => t \in raced'
  BY DEF Invalidate
<1>1. PICK K \in SUBSET Months : K = tx[t].todo \ {k}
  BY SMTT(30), <1>0 DEF IInv, TypeOK, Row
<1>2. /\ \A m : Sum(m)' = Sum(m)
      /\ \A u \in Txs \ {t} : tx'[u] = tx[u]
      /\ tx'[t].keys = tx[t].keys /\ tx'[t].todo = tx[t].todo \ {k}
      /\ tx'[t].failed = tx[t].failed \/ tx'[t].failed
  <2>1. tx' = [tx EXCEPT ![t].todo = K]
    BY <1>0, <1>1
  <2>. QED
    BY <1>0, <1>1, <2>1, DeletionKeeps, Zenon
<1>3. ASSUME NEW m \in Months, NEW v, Covered(m, v),
             m = k /\ t \in Sum(m) /\ t \notin v => t \in raced'
      PROVE  Covered(m, v)'
  <2>1. ASSUME NEW u \in Sum(m) \ v PROVE Excused(u, m)'
    <3>1. Excused(u, m) /\ u \in Txs
      BY <1>3 DEF Covered, Sum
    <3>. QED
      BY <1>0, <1>2, <1>3, <3>1 DEF Excused
  <2>. QED
    BY <1>2, <2>1 DEF Covered
<1>4. ASSUME NEW m \in Months, cache'[m] # None PROVE Covered(m, cache[m].val)'
  <2>1. m # k /\ cache'[m] = cache[m]
    BY <1>0, <1>4 DEF IInv, TypeOK
  <2>2. Covered(m, cache[m].val)
    BY <1>4, <2>1 DEF RacedInv
  <2>. QED
    BY <1>3, <2>1, <2>2
<1>5. ASSUME NEW r \in Readers, NEW m \in Months, Holds(r, m) PROVE Covered(m, reader[r].val)'
  <2>1. Covered(m, reader[r].val)
    BY <1>5 DEF RacedInv
  <2>2. t \in Sum(m) => tx[t].month = m
    BY DEF Sum
  <2>. QED
    BY <1>0, <1>3, <1>5, <2>1, <2>2
<1>. QED
  BY <1>0, <1>4, <1>5 DEF RacedInv, Holds

\* A deletion that failed or was never sent is recorded as failed.
LEMMA DeletionLost ==
  ASSUME IInv, RacedInv, NEW t \in Txs,
         CommitLost(t) \/ \E k \in Months : InvalidateFails(t, k)
  PROVE  RacedInv'
<1>0. tx[t] # None /\ UNCHANGED <<cache, reader, raced>>
  BY Zenon DEF CommitLost, InvalidateFails
<1>1. PICK K \in SUBSET Months : tx' = [tx EXCEPT ![t].todo = K, ![t].failed = TRUE]
  <2>1. tx[t].todo \in SUBSET Months
    BY SMTT(30), <1>0 DEF IInv, TypeOK, Row
  <2>2. \A k : tx[t].todo \ {k} \in SUBSET Months
    BY <2>1
  <2>. QED
    BY Zenon, <2>2 DEF CommitLost, InvalidateFails
<1>2. /\ \A m : Sum(m)' = Sum(m) /\ \A u \in Txs \ {t} : tx'[u] = tx[u]
  BY <1>0, <1>1, DeletionKeeps, Zenon
<1>3. tx'[t].failed
  <2>1. tx[t] \in Row /\ tx \in [Txs -> Row \cup {None}]
    BY <1>0 DEF IInv, TypeOK
  <2>. QED
    BY <1>1, <2>1 DEF Row
<1>4. \A m, v : Covered(m, v) => Covered(m, v)'
  BY <1>0, <1>2, <1>3 DEF Covered, Excused, Sum
<1>. QED
  BY <1>0, <1>4 DEF RacedInv, Holds

\* A query misses nothing.
LEMMA QueryCovered == ASSUME IInv, RacedInv, NEW r \in Readers, Query(r) PROVE RacedInv'
<1>0. UNCHANGED <<tx, cache, raced>>
  BY DEF Query
<1>1. /\ reader'[r].val = Sum(reader'[r].month)
      /\ \A q \in Readers \ {r} : reader'[q] = reader[q]
  BY DEF Query, IInv, TypeOK
<1>2. \A m, v : Covered(m, v)' <=> Covered(m, v)
  BY <1>0 DEF Covered, Excused, Sum
<1>3. \A m \in Months : Holds(r, m)' => Covered(m, reader[r].val)'
  BY <1>1, <1>2 DEF Holds, Covered
<1>4. \A q \in Readers \ {r} : \A m \in Months : Holds(q, m)' => Covered(m, reader[q].val)'
  BY <1>1, <1>2 DEF Holds, RacedInv
<1>. QED
  BY <1>0, <1>2, <1>3, <1>4 DEF RacedInv

\* A SET stores what the reader held.
LEMMA SetCovered == ASSUME IInv, RacedInv, NEW r \in Readers, Set(r) PROVE RacedInv'
<1> DEFINE m == reader[r].month
           e == [val |-> reader[r].val, expires |-> Expires]
<1>0. /\ Holds(r, m) /\ UNCHANGED <<tx, raced>>
      /\ cache' = [cache EXCEPT ![m] = e] \/ cache' = cache
      /\ reader' = [reader EXCEPT ![r] = None]
  BY DEF Set, Holds
<1>1. m \in Months
  BY DEF Set, IInv, TypeOK, Work
<1>2. Covered(m, e.val)
  BY <1>0, <1>1 DEF RacedInv
<1>3. \A n, v : Covered(n, v)' <=> Covered(n, v)
  BY <1>0 DEF Covered, Excused, Sum
<1>4. \A n \in Months : (n = m /\ cache'[n] = e) \/ cache'[n] = cache[n]
  BY <1>0, <1>1 DEF IInv, TypeOK
<1>5. reader'[r] = None /\ \A q \in Readers \ {r} : reader'[q] = reader[q]
  BY <1>0 DEF IInv, TypeOK
<1> HIDE DEF m, e
<1>6. \A n \in Months : cache'[n] # None => Covered(n, cache[n].val)'
  BY <1>2, <1>3, <1>4 DEF RacedInv
<1>7. \A q \in Readers, n \in Months : Holds(q, n)' => Covered(n, reader[q].val)'
  BY <1>3, <1>5 DEF RacedInv, Holds
<1>. QED
  BY <1>6, <1>7 DEF RacedInv

\* The other steps store nothing.
LEMMA OtherCovered ==
  ASSUME IInv, RacedInv,
         \/ Tick \/ UNCHANGED vars
         \/ \E r \in Readers : \/ QueryFails(r)
                               \/ \E m \in Months : GetHit(r, m) \/ GetMiss(r, m)
  PROVE  RacedInv'
<1>1. UNCHANGED <<tx, raced>>
  BY DEF Tick, vars, QueryFails, GetHit, GetMiss
<1>2. \A m \in Months : cache'[m] = cache[m] \/ cache'[m] = None
  BY DEF Tick, vars, QueryFails, GetHit, GetMiss
<1>3. \A r \in Readers : reader'[r] = reader[r] \/ reader'[r] = None \/ reader'[r].stage # "set"
  BY DEF Tick, vars, QueryFails, GetHit, GetMiss, IInv, TypeOK
<1>. QED
  BY <1>1, <1>2, <1>3, CoveredKept

\* A cached summary that lacks a transaction whose month Invalidate deleted was
\* stored by a reader that held it at the time of the deletion.
THEOREM StaleOnlyIfRacedHolds == Spec => []StaleOnlyIfRaced
<1>1. Init => RacedInv
  BY DEF Init, RacedInv, Holds
<1>2. IInv /\ RacedInv /\ [Next]_vars => RacedInv'
  BY CommitCovered, InvalidateCovered, DeletionLost, QueryCovered, SetCovered, OtherCovered, Zenon
     DEF Next
<1>3. RacedInv => StaleOnlyIfRaced
  BY DEF RacedInv, StaleOnlyIfRaced, Covered, Excused, Invalidated
<1>. QED
  BY <1>1, <1>2, <1>3, Inductive, PTL DEF Spec
=============================================================================
