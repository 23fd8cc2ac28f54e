--------------------------- MODULE BalancesProofs ---------------------------
(***************************************************************************)
(* Balances are exact for any number of accounts, postings, workers,       *)
(* readers and days, when snapshot:all is handled late enough after        *)
(* midnight for the transactions of the day before to have ended.          *)
(***************************************************************************)
EXTENDS Balances, TLAPS

\* No transaction that began on day d or before is still in flight.
Closed(d) == d \in Nat /\ d < day /\ (d + 1 = day => time >= Timeout)

InflightInv ==
    /\ \A p \in inflight :
         \/ created[p].day = day
         \/ created[p].day + 1 = day /\ time + DayLen - created[p].time <= Timeout
    /\ \A p \in inflight : Age(p) <= Timeout
    /\ \A p \in inflight : p \notin postings
    /\ \A p \in inflight \cup postings : account[p] # None

\* What a sum read by a worker, a snapshot and a reader hold.
Right(s) == Closed(s.date) /\ s.counted = SumPostingsUpTo(s.account, s.date)

SumsInv ==
    /\ \A t \in tasks : Closed(t.date)
    /\ \A w \in Workers : job[w] # None => Right(job[w])
    /\ \A s \in snapshots : Right(s)

ReadInv ==
    \A r \in Readers : read[r] # None =>
        \/ read[r].since = None /\ read[r].counted = {}
        \/ /\ read[r].since # None
           /\ Closed(read[r].since)
           /\ read[r].counted = SumPostingsUpTo(read[r].account, read[r].since)

IInv == TypeOK /\ InflightInv /\ SumsInv /\ ReadInv /\ BalanceExact

\* A step that leaves closed days closed and adds nothing to their sums leaves
\* what is known of sums alone.
SumsKept ==
    \A d \in Nat : Closed(d) =>
        /\ Closed(d)'
        /\ \A a \in Accounts : SumPostingsUpTo(a, d)' = SumPostingsUpTo(a, d)

\* A transaction in flight began after every day that is closed.
LEMMA ClosedBefore ==
  ASSUME IInv, NEW d \in Nat, Closed(d), NEW p \in inflight
  PROVE  created[p].day > d
<1>1. /\ p \in Postings /\ created[p].day \in Nat /\ created[p].time \in 0..(DayLen - 1)
      /\ day \in Nat /\ time \in 0..(DayLen - 1)
  BY DEF IInv, TypeOK
<1>2. CASE created[p].day = day
  BY <1>1, <1>2 DEF Closed
<1>3. CASE created[p].day + 1 = day /\ time + DayLen - created[p].time <= Timeout
  <2>1. time < Timeout
    BY <1>1, <1>3, ConstantsAssumption
  <2>. QED
    BY <1>1, <1>3, <2>1, ConstantsAssumption DEF Closed
<1>. QED
  BY <1>2, <1>3 DEF IInv, InflightInv

\* Sums that are right stay right under such a step.
LEMMA RightKept ==
  ASSUME SumsKept, NEW s, s.account \in Accounts, Right(s)
  PROVE  Right(s)'
BY DEF SumsKept, Right, Closed

\* The same for what a reader has read.
LEMMA ReadKept ==
  ASSUME IInv, SumsKept, UNCHANGED read PROVE ReadInv'
<1>1. \A r \in Readers : read[r] # None =>
        read[r].account \in Accounts /\ read[r].since \in Nat \cup {None}
  BY DEF IInv, TypeOK, Reading
<1>. QED
  BY <1>1 DEF SumsKept, IInv, ReadInv, Closed

\* The same for tasks, running jobs and written snapshots.
LEMMA SumsInvKept ==
  ASSUME IInv, SumsKept, UNCHANGED <<tasks, job, snapshots>> PROVE SumsInv'
<1>1. \A t \in tasks : Closed(t.date)'
  BY DEF SumsKept, IInv, SumsInv, Closed
<1>2. \A w \in Workers : job[w] # None => Right(job[w])'
  <2>1. \A w \in Workers : job[w] # None => job[w].account \in Accounts
    BY DEF IInv, TypeOK, Sum
  <2>. QED
    BY <2>1, RightKept DEF IInv, SumsInv
<1>3. \A s \in snapshots : Right(s)'
  <2>1. \A s \in snapshots : s.account \in Accounts
    BY DEF IInv, TypeOK, Sum
  <2>. QED
    BY <2>1, RightKept DEF IInv, SumsInv
<1>. QED
  BY <1>1, <1>2, <1>3 DEF SumsInv

\* A database without postings satisfies the invariant.
LEMMA InitInv == Init => IInv
<1> SUFFICES ASSUME Init PROVE IInv
  OBVIOUS
<1>1. TypeOK
  <2>1. 0 \in 0..(DayLen - 1)
    BY ConstantsAssumption
  <2>. QED
    BY <2>1 DEF Init, TypeOK
<1>2. InflightInv /\ SumsInv /\ ReadInv /\ BalanceExact
  BY DEF Init, InflightInv, SumsInv, ReadInv, BalanceExact
<1>. QED
  BY <1>1, <1>2 DEF IInv

\* The clock preserves the invariant: a closed day stays closed, and no
\* transaction outlives its request.
LEMMA TickInv == ASSUME IInv, Tick PROVE IInv'
<1>0. UNCHANGED <<account, created, inflight, postings, snapshots, tasks, job, read, result>>
  BY DEF Tick, book
<1>1. /\ day \in Nat /\ time \in 0..(DayLen - 1) /\ DayLen \in Nat \ {0} /\ Timeout \in Nat
      /\ Timeout < DayLen
  BY ConstantsAssumption DEF IInv, TypeOK
<1>2. \/ time' = time + 1 /\ day' = day /\ time + 1 < DayLen
      \/ time' = 0 /\ day' = day + 1 /\ time + 1 = DayLen
  BY DEF Tick
<1>3. day' \in Nat /\ time' \in 0..(DayLen - 1) /\ day' >= day
  BY <1>1, <1>2
<1>4. TypeOK'
  <2>1. \A s \in snapshots : s.date < day'
    BY <1>1, <1>3 DEF IInv, TypeOK, Sum
  <2>. QED
    BY <1>0, <1>3, <2>1 DEF IInv, TypeOK
<1>5. SumsKept
  <2>1. \A d \in Nat : Closed(d) => Closed(d)'
    BY <1>1, <1>2 DEF Closed
  <2>. QED
    BY <1>0, <2>1 DEF SumsKept, SumPostingsUpTo
<1>6. InflightInv'
  <2>1. ASSUME NEW p \in inflight
        PROVE  /\ \/ created[p].day = day'
                  \/ created[p].day + 1 = day' /\ time' + DayLen - created[p].time <= Timeout
               /\ Age(p)' <= Timeout
    <3>1. /\ created[p].day \in Nat /\ created[p].time \in 0..(DayLen - 1)
          /\ Age(p) < Timeout
          /\ \/ created[p].day = day
             \/ created[p].day + 1 = day /\ time + DayLen - created[p].time <= Timeout
      BY DEF Tick, IInv, TypeOK, InflightInv
    <3>2. CASE created[p].day = day
      <4>1. time - created[p].time < Timeout
        BY <3>1, <3>2 DEF Age
      <4>. QED
        BY <1>0, <1>1, <1>2, <3>1, <3>2, <4>1 DEF Age
    <3>3. CASE created[p].day + 1 = day /\ time + DayLen - created[p].time <= Timeout
      <4>1. time + DayLen - created[p].time < Timeout
        BY <1>1, <3>1, <3>3 DEF Age
      <4>2. time' = time + 1 /\ day' = day
        BY <1>1, <1>2, <3>1, <3>3
      <4>. QED
        BY <1>0, <1>1, <3>1, <3>3, <4>1, <4>2 DEF Age
    <3>. QED
      BY <3>1, <3>2, <3>3
  <2>. QED
    BY <1>0, <2>1 DEF IInv, InflightInv
<1>7. SumsInv' /\ ReadInv'
  BY <1>0, <1>5, SumsInvKept, ReadKept
<1>8. BalanceExact'
  BY <1>0 DEF IInv, BalanceExact
<1>. QED
  BY <1>4, <1>6, <1>7, <1>8 DEF IInv

\* Beginning a transaction preserves the invariant.
LEMMA BeginPostingInv ==
  ASSUME IInv, NEW p \in Postings, NEW a \in Accounts, BeginPosting(p, a) PROVE IInv'
<1>0. /\ p \notin inflight \cup postings
      /\ account' = [account EXCEPT ![p] = a]
      /\ created' = [created EXCEPT ![p] = [day |-> day, time |-> time]]
      /\ inflight' = inflight \cup {p}
      /\ UNCHANGED <<day, time, postings, snapshots, tasks, job, read, result>>
  BY DEF BeginPosting, clock
<1>1. /\ account'[p] = a /\ created'[p].day = day /\ created'[p].time = time
      /\ \A q \in Postings \ {p} : account'[q] = account[q] /\ created'[q] = created[q]
      /\ account' \in [Postings -> Accounts \cup {None}]
      /\ created' \in [Postings -> [day : Nat, time : 0..(DayLen - 1)]]
  BY <1>0 DEF IInv, TypeOK
<1>2. TypeOK'
  BY <1>0, <1>1 DEF IInv, TypeOK
<1>3. InflightInv'
  <2>1. Age(p)' <= Timeout
    BY <1>0, <1>1, ConstantsAssumption DEF Age, IInv, TypeOK
  <2>2. \A q \in inflight : q # p /\ q \in Postings
    BY <1>0 DEF IInv, TypeOK
  <2>3. \A q \in inflight : Age(q)' = Age(q)
    BY <1>0, <1>1, <2>2 DEF Age
  <2>4. \A q \in inflight \cup postings : account'[q] # None
    BY <1>0, <1>1, <2>2, ConstantsAssumption DEF IInv, InflightInv, TypeOK
  <2>5. a # None
    BY ConstantsAssumption
  <2>. QED
    BY <1>0, <1>1, <2>1, <2>2, <2>3, <2>4, <2>5 DEF IInv, InflightInv
<1>4. SumsKept
  <2>1. \A q \in postings : account'[q] = account[q] /\ created'[q] = created[q]
    BY <1>0, <1>1 DEF IInv, TypeOK
  <2>. QED
    BY <1>0, <2>1 DEF SumsKept, SumPostingsUpTo, Closed
<1>5. SumsInv' /\ ReadInv'
  BY <1>0, <1>4, SumsInvKept, ReadKept
<1>6. BalanceExact'
  BY <1>0 DEF IInv, BalanceExact
<1>. QED
  BY <1>2, <1>3, <1>5, <1>6 DEF IInv

\* A commit, or a rollback, preserves the invariant: it adds nothing to the
\* sums of closed days.
LEMMA EndPostingInv == ASSUME IInv, NEW p \in Postings, EndPosting(p) PROVE IInv'
<1>0. /\ p \in inflight /\ inflight' = inflight \ {p}
      /\ postings' = postings \cup {p} \/ postings' = postings
      /\ UNCHANGED <<day, time, account, created, snapshots, tasks, job, read, result>>
  BY DEF EndPosting, clock
<1>1. TypeOK'
  BY <1>0 DEF IInv, TypeOK
<1>2. InflightInv'
  BY <1>0 DEF IInv, InflightInv, Age
<1>3. SumsKept
  <2>1. \A d \in Nat : Closed(d) => created[p].day > d /\ created[p].day \in Nat
    BY <1>0, ClosedBefore DEF IInv, TypeOK
  <2>2. \A d \in Nat : Closed(d) => ~(created[p].day <= d)
    BY <2>1
  <2>. QED
    BY <1>0, <2>2 DEF SumsKept, SumPostingsUpTo, Closed
<1>4. SumsInv' /\ ReadInv'
  BY <1>0, <1>3, SumsInvKept, ReadKept
<1>5. BalanceExact'
  BY <1>0 DEF IInv, BalanceExact
<1>. QED
  BY <1>1, <1>2, <1>4, <1>5 DEF IInv

\* Steps that touch neither the clock nor the postings keep the sums, and what
\* is known of transactions in flight.
LEMMA BookKept ==
  ASSUME IInv, UNCHANGED <<day, time, account, created, inflight, postings>>
  PROVE  SumsKept /\ InflightInv'
BY DEF SumsKept, SumPostingsUpTo, Closed, IInv, InflightInv, Age

\* handleSnapshotAll preserves the invariant if it runs late enough: the day it
\* asks to be summed up is closed.
LEMMA SnapshotAllInv == ASSUME SafeRunAt, IInv, SnapshotAll PROVE IInv'
<1>0. /\ time \in RunAt /\ day > 0
      /\ UNCHANGED <<day, time, account, created, inflight, postings, snapshots, job, read, result>>
  BY DEF SnapshotAll, clock, book
<1>1. PICK A \in SUBSET Accounts :
        tasks' = tasks \cup {[account |-> a, date |-> Yesterday] : a \in A}
  BY DEF SnapshotAll
<1>2. Yesterday \in Nat /\ Closed(Yesterday)
  <2>1. time >= Timeout /\ day \in Nat
    BY <1>0 DEF SafeRunAt, IInv, TypeOK
  <2>. QED
    BY <1>0, <2>1 DEF Yesterday, Closed
<1> HIDE DEF Yesterday
<1>3. \A t \in tasks' : t \in tasks \/ (t.account \in Accounts /\ t.date = Yesterday /\ t \in Task)
  BY <1>1, <1>2 DEF Task
<1>4. TypeOK'
  BY <1>0, <1>3 DEF IInv, TypeOK
<1>5. SumsKept /\ InflightInv'
  BY <1>0, BookKept
<1>6. SumsInv'
  <2>1. \A t \in tasks' : Closed(t.date)
    BY <1>2, <1>3 DEF IInv, SumsInv
  <2>. QED
    BY <1>0, <2>1 DEF IInv, SumsInv, Right, Closed, SumPostingsUpTo
<1>7. ReadInv' /\ BalanceExact'
  BY <1>0, <1>5, ReadKept DEF IInv, BalanceExact
<1>. QED
  BY <1>4, <1>5, <1>6, <1>7 DEF IInv

\* The first statement of handleSnapshotAccount preserves the invariant.
LEMMA SnapshotSumInv ==
  ASSUME IInv, NEW w \in Workers, NEW t \in tasks, SnapshotSum(w, t) PROVE IInv'
<1> DEFINE s == [account |-> t.account, date |-> t.date,
                 counted |-> SumPostingsUpTo(t.account, t.date)]
<1>0. /\ job' = [job EXCEPT ![w] = s]
      /\ UNCHANGED <<day, time, account, created, inflight, postings, snapshots, tasks, read, result>>
  BY DEF SnapshotSum, clock, book
<1>1. /\ s \in Sum /\ Right(s)
  <2>1. t.account \in Accounts /\ t.date \in Nat /\ Closed(t.date)
    BY DEF IInv, TypeOK, Task, SumsInv
  <2>2. SumPostingsUpTo(t.account, t.date) \in SUBSET Postings
    BY DEF IInv, TypeOK, SumPostingsUpTo
  <2>. QED
    BY <2>1, <2>2 DEF Sum, Right
<1> HIDE DEF s
<1>2. TypeOK'
  BY <1>0, <1>1 DEF IInv, TypeOK
<1>3. SumsKept /\ InflightInv'
  BY <1>0, BookKept
<1>4. SumsInv'
  <2>1. job'[w] = s /\ \A v \in Workers \ {w} : job'[v] = job[v]
    BY <1>0 DEF IInv, TypeOK
  <2>. QED
    BY <1>0, <1>1, <2>1 DEF IInv, SumsInv, Right, Closed, SumPostingsUpTo
<1>5. ReadInv' /\ BalanceExact'
  BY <1>0, <1>3, ReadKept DEF IInv, BalanceExact
<1>. QED
  BY <1>2, <1>3, <1>4, <1>5 DEF IInv

\* UpsertBalanceSnapshot preserves the invariant: the sum it writes may be old,
\* and is still right.
LEMMA UpsertInv == ASSUME IInv, NEW w \in Workers, UpsertBalanceSnapshot(w) PROVE IInv'
<1>0. /\ job[w] # None /\ snapshots' = Upsert(job[w])
      /\ tasks' \subseteq tasks
      /\ job' = [job EXCEPT ![w] = None]
      /\ UNCHANGED <<day, time, account, created, inflight, postings, read, result>>
  BY DEF UpsertBalanceSnapshot, clock, book
<1>1. job[w] \in Sum /\ Right(job[w])
  BY <1>0 DEF IInv, TypeOK, SumsInv
<1>2. \A s \in snapshots' : s = job[w] \/ s \in snapshots
  BY <1>0 DEF Upsert
<1>3. \A s \in snapshots' : s # job[w] => s.account # job[w].account \/ s.date # job[w].date
  BY <1>0 DEF Upsert
<1>4. job'[w] = None /\ \A v \in Workers \ {w} : job'[v] = job[v]
  BY <1>0 DEF IInv, TypeOK
<1>5. TypeOK'
  <2>1. job' \in [Workers -> Sum \cup {None}]
    BY <1>0 DEF IInv, TypeOK
  <2>2. snapshots' \subseteq Sum /\ \A s \in snapshots' : s.date < day
    BY <1>1, <1>2 DEF IInv, TypeOK, Right, Closed
  <2>3. \A s, r \in snapshots' : s.account = r.account /\ s.date = r.date => s = r
    BY <1>2, <1>3 DEF IInv, TypeOK
  <2>. QED
    BY <1>0, <2>1, <2>2, <2>3 DEF IInv, TypeOK
<1>6. SumsKept /\ InflightInv'
  BY <1>0, BookKept
<1>7. SumsInv'
  <2>1. /\ \A t \in tasks' : Closed(t.date)
        /\ \A v \in Workers : job'[v] # None => Right(job'[v])
        /\ \A s \in snapshots' : Right(s)
    BY <1>0, <1>1, <1>2, <1>4 DEF IInv, SumsInv
  <2>. QED
    BY <1>0, <2>1 DEF SumsInv, Right, Closed, SumPostingsUpTo
<1>8. ReadInv' /\ BalanceExact'
  BY <1>0, <1>6, ReadKept DEF IInv, BalanceExact
<1>. QED
  BY <1>5, <1>6, <1>7, <1>8 DEF IInv

\* A failed snapshot task preserves the invariant.
LEMMA SnapshotFailsInv == ASSUME IInv, NEW w \in Workers, SnapshotFails(w) PROVE IInv'
<1>0. /\ job' = [job EXCEPT ![w] = None] /\ tasks' \subseteq tasks
      /\ UNCHANGED <<day, time, account, created, inflight, postings, snapshots, read, result>>
  BY DEF SnapshotFails, clock, book
<1>1. job'[w] = None /\ \A v \in Workers \ {w} : job'[v] = job[v]
  BY <1>0 DEF IInv, TypeOK
<1>2. TypeOK'
  BY <1>0 DEF IInv, TypeOK
<1>3. SumsKept /\ InflightInv'
  BY <1>0, BookKept
<1>4. SumsInv'
  <2>1. /\ \A t \in tasks' : Closed(t.date)
        /\ \A v \in Workers : job'[v] # None => Right(job'[v])
        /\ \A s \in snapshots' : Right(s)
    BY <1>0, <1>1 DEF IInv, SumsInv
  <2>. QED
    BY <1>0, <2>1 DEF SumsInv, Right, Closed, SumPostingsUpTo
<1>5. ReadInv' /\ BalanceExact'
  BY <1>0, <1>3, ReadKept DEF IInv, BalanceExact
<1>. QED
  BY <1>2, <1>3, <1>4, <1>5 DEF IInv

\* Reading the latest snapshot, or failing to, preserves the invariant.
LEMMA GetLatestSnapshotInv ==
  ASSUME IInv, NEW r \in Readers, NEW a \in Accounts, GetLatestSnapshot(r, a) PROVE IInv'
<1>0. UNCHANGED <<day, time, account, created, inflight, postings, snapshots, tasks, job, result>>
  BY DEF GetLatestSnapshot, clock, book
<1> DEFINE P(c) == \/ c.since = None /\ c.counted = {}
                   \/ /\ c.since # None /\ Closed(c.since)
                      /\ c.counted = SumPostingsUpTo(c.account, c.since)
<1>1. PICK b \in Reading : read' = [read EXCEPT ![r] = b] /\ P(b)
  <2>1. CASE read' = [read EXCEPT ![r] = [account |-> a, since |-> None, counted |-> {}]]
    <3>1. [account |-> a, since |-> None, counted |-> {}] \in Reading
      BY DEF Reading
    <3>2. P([account |-> a, since |-> None, counted |-> {}])
      OBVIOUS
    <3>. QED
      BY Zenon, <2>1, <3>1, <3>2
  <2>2. ASSUME NEW s \in snapshots, s.account = a,
               read' = [read EXCEPT ![r] = [account |-> a, since |-> s.date, counted |-> s.counted]]
        PROVE  \E b \in Reading : read' = [read EXCEPT ![r] = b] /\ P(b)
    <3>1. s \in Sum /\ Right(s)
      BY DEF IInv, TypeOK, SumsInv
    <3>2. s.date \in Nat /\ s.date # None
      BY <3>1, ConstantsAssumption DEF Sum
    <3>3. [account |-> a, since |-> s.date, counted |-> s.counted] \in Reading
      BY <3>1 DEF Sum, Reading
    <3>4. P([account |-> a, since |-> s.date, counted |-> s.counted])
      BY <2>2, <3>1, <3>2 DEF Right
    <3> HIDE DEF P
    <3>. QED
      BY Zenon, <2>2, <3>3, <3>4
  <2>3. \/ read' = [read EXCEPT ![r] = [account |-> a, since |-> None, counted |-> {}]]
        \/ \E s \in snapshots : s.account = a /\
             read' = [read EXCEPT ![r] = [account |-> a, since |-> s.date, counted |-> s.counted]]
    BY DEF GetLatestSnapshot, Latest
  <2> HIDE DEF P
  <2>. QED
    BY <2>1, <2>2, <2>3
<1>2. read'[r] = b /\ \A q \in Readers \ {r} : read'[q] = read[q]
  BY <1>1 DEF IInv, TypeOK
<1>3. TypeOK'
  BY <1>0, <1>1 DEF IInv, TypeOK
<1>4. SumsKept /\ InflightInv'
  BY <1>0, BookKept
<1>5. SumsInv'
  BY <1>0, <1>4, SumsInvKept
<1>6. ReadInv'
  BY <1>0, <1>1, <1>2 DEF IInv, ReadInv, Closed, SumPostingsUpTo
<1>7. BalanceExact'
  BY <1>0 DEF IInv, BalanceExact
<1>. QED
  BY <1>3, <1>4, <1>5, <1>6, <1>7 DEF IInv

\* CurrentBalance returns every posting once.
LEMMA CurrentBalanceInv == ASSUME IInv, NEW r \in Readers, CurrentBalance(r) PROVE IInv'
<1> DEFINE b == [snap  |-> read[r].counted,
                 delta |-> SumPostingsSince(read[r].account, read[r].since),
                 truth |-> {p \in postings : account[p] = read[r].account}]
<1>0. /\ read[r] # None
      /\ result' = [result EXCEPT ![r] = b] /\ read' = [read EXCEPT ![r] = None]
      /\ UNCHANGED <<day, time, account, created, inflight, postings, snapshots, tasks, job>>
  BY DEF CurrentBalance, clock, book
<1>1. /\ b \in [snap : SUBSET Postings, delta : SUBSET Postings, truth : SUBSET Postings]
      /\ b.snap \cap b.delta = {} /\ b.snap \cup b.delta = b.truth
  <2>1. read[r] \in Reading /\ postings \subseteq Postings
        /\ \A p \in postings : created[p].day \in Nat
    BY <1>0 DEF IInv, TypeOK
  <2>2. \/ read[r].since = None /\ read[r].counted = {}
        \/ /\ read[r].since # None /\ read[r].since \in Nat
           /\ read[r].counted = SumPostingsUpTo(read[r].account, read[r].since)
    BY <1>0 DEF IInv, ReadInv, Closed
  <2>3. \A d \in Nat : \A p \in postings : created[p].day > d <=> ~(created[p].day <= d)
    BY <2>1
  <2>. QED
    BY SMTT(60), <2>1, <2>2, <2>3 DEF Reading, SumPostingsSince, SumPostingsUpTo
<1> HIDE DEF b
<1>2. /\ read'[r] = None /\ result'[r] = b
      /\ \A q \in Readers \ {r} : read'[q] = read[q] /\ result'[q] = result[q]
  BY <1>0 DEF IInv, TypeOK
<1>3. TypeOK'
  BY <1>0, <1>1 DEF IInv, TypeOK
<1>4. SumsKept /\ InflightInv'
  BY <1>0, BookKept
<1>5. SumsInv'
  BY <1>0, <1>4, SumsInvKept
<1>6. ReadInv'
  BY SMTT(60), <1>0, <1>2 DEF IInv, ReadInv, Closed, SumPostingsUpTo
<1>7. BalanceExact'
  BY <1>1, <1>2 DEF IInv, BalanceExact
<1>. QED
  BY <1>3, <1>4, <1>5, <1>6, <1>7 DEF IInv

\* A stutter preserves the invariant.
LEMMA StutterInv == ASSUME IInv, UNCHANGED vars PROVE IInv'
<1>0. UNCHANGED <<day, time, account, created, inflight, postings, snapshots, tasks, job, read,
                  result>>
  BY DEF vars, clock, book
<1>1. TypeOK' /\ BalanceExact'
  BY <1>0 DEF IInv, TypeOK, BalanceExact
<1>2. SumsKept /\ InflightInv'
  BY <1>0, BookKept
<1>. QED
  BY <1>0, <1>1, <1>2, SumsInvKept, ReadKept DEF IInv

\* The invariant holds throughout, if snapshot:all is handled no earlier in the
\* day than the longest transaction lasts.
LEMMA Inductive == ASSUME SafeRunAt PROVE Spec => []IInv
<1>1. IInv /\ [Next]_vars => IInv'
  BY TickInv, BeginPostingInv, EndPostingInv, SnapshotAllInv, SnapshotSumInv, UpsertInv,
     SnapshotFailsInv, GetLatestSnapshotInv, CurrentBalanceInv, StutterInv DEF Next
<1>. QED
  BY <1>1, InitInv, PTL DEF Spec

\* CurrentBalance counts every committed posting exactly once, if snapshot:all
\* is handled no earlier in the day than the longest transaction lasts.
THEOREM BalanceExactHolds == ASSUME SafeRunAt PROVE Spec => []BalanceExact
<1>1. IInv => BalanceExact
  BY DEF IInv
<1>. QED
  BY <1>1, Inductive, PTL

\* A snapshot has every posting up to its day, and stays right once written,
\* under the same condition.
THEOREM SnapshotCompleteHolds == ASSUME SafeRunAt PROVE Spec => []SnapshotComplete
<1>1. IInv => SnapshotComplete
  BY DEF IInv, SumsInv, Right, SumPostingsUpTo, SnapshotComplete
<1>. QED
  BY <1>1, Inductive, PTL
=============================================================================
