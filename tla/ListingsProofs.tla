--------------------------- MODULE ListingsProofs ---------------------------
(***************************************************************************)
(* The keyset listing of entries, for any number of readers, rows and      *)
(* limits: pages descend, a finished listing is complete, and every row is *)
(* the user's own; and the listing of accounts by offsets, which misses no *)
(* account that was there when it began.                                   *)
(***************************************************************************)
EXTENDS Listings, FiniteSetTheorems, TLAPS

Types ==
    /\ accounts \subseteq Account /\ entries \subseteq Entry
    /\ kind \in [Readers -> {"none", "entries", "accounts"}]
    /\ uid \in [Readers -> Users \cup {None}]
    /\ account \in [Readers -> Accounts \cup {None}]
    /\ cursor \in [Readers -> Cursor \cup {None}]
    /\ state \in [Readers -> {"open", "ended", "error"}]
    /\ seen \in [Readers -> SUBSET (Entry \cup Account)]
    /\ page \in [Readers -> SUBSET (Entry \cup Account)]
    /\ owed \in [Readers -> SUBSET (Entry \cup Account)]

At(r) == decodeCursor(cursor[r])

\* A reader that has not begun.
Unborn(r) == cursor[r] = None /\ state[r] = "open" /\ Received(r) = {}

\* What holds of a reader of entries: the cursor of an open listing divides what
\* was received, at or above it, from what is still to come, below it.
Divided(r) ==
    /\ Received(r) \cup owed[r] \subseteq EntriesOf(account[r])
    /\ Received(r) # {} => ownedAccount(uid[r], account[r])
    /\ \A e \in page[r], f \in seen[r] : Older(e, f)
    /\ state[r] = "open" =>
         /\ \A e \in Received(r) : ~Before(e, At(r))
         /\ \A e \in owed[r] : e.at <= Far /\ ~Before(e, At(r)) => e \in Received(r)
    /\ state[r] = "ended" => \A e \in owed[r] : e.at <= Far => e \in Received(r)

IInv ==
    /\ Types
    /\ \A r \in Readers :
         /\ kind[r] = "none" => Unborn(r)
         /\ kind[r] = "entries" => Divided(r)
         /\ kind[r] = "accounts" => \A e \in Received(r) : e.user = uid[r]

\* (occurred_at, id) is ordered lexicographically: a total order.
LEMMA Lexicographic ==
  ASSUME NEW e, NEW f, NEW c, e.at \in Nat, e.id \in Nat, f.at \in Nat, f.id \in Nat,
         c.at \in Nat, c.id \in Nat
  PROVE  /\ Before(e, c) /\ ~Before(f, c) => Older(e, f) /\ ~Before(f, e)
         /\ Before(e, f) => ~Before(f, e)
         /\ ~Before(e, e)
BY DEF Before, Older

\* Rows and cursors are pairs of naturals; an entry up to the sentinel is below it.
LEMMA Pairs ==
  /\ \A e \in Entry : e.at \in Nat /\ e.id \in Nat
  /\ \A c \in Cursor \cup {None} : decodeCursor(c).at \in Nat /\ decodeCursor(c).id \in Nat
  /\ \A e \in Entry : e.at <= Far => Before(e, decodeCursor(None))
<1>1. \A e \in Entry : e.at \in Nat /\ e.id \in Nat /\ e.id < MaxId
  <2>1. \A e \in Entry : e.at \in Instants /\ e.id \in Ids
    BY DEF Entry
  <2>2. /\ \A t \in Instants : t \in Nat
        /\ \A i \in Ids : i \in Nat /\ i < MaxId
    BY Zenon, ConstantsAssumption
  <2>. QED
    BY Zenon, <2>1, <2>2
<1>2. \A c \in Cursor \cup {None} : decodeCursor(c).at \in Nat /\ decodeCursor(c).id \in Nat
  BY ConstantsAssumption DEF Cursor, decodeCursor
<1>3. \A e \in Entry : e.at <= Far => Before(e, decodeCursor(None))
  BY <1>1, ConstantsAssumption DEF Before, decodeCursor
<1>. QED
  BY <1>1, <1>2, <1>3

\* The tables only grow, which preserves the invariant.
LEMMA TablesGrow ==
  ASSUME IInv, accounts \subseteq accounts', entries \subseteq entries',
         accounts' \subseteq Account, entries' \subseteq Entry,
         UNCHANGED <<kind, uid, account, owed, cursor, state, seen, page>>
  PROVE  IInv'
<1>1. Types'
  BY DEF IInv, Types
<1>2. ASSUME NEW r \in Readers, kind[r] = "entries" PROVE Divided(r)'
  <2>1. Divided(r)
    BY <1>2 DEF IInv
  <2>2. EntriesOf(account[r]) \subseteq EntriesOf(account[r])'
    BY DEF EntriesOf
  <2>3. ownedAccount(uid[r], account[r]) => ownedAccount(uid[r], account[r])'
    BY DEF ownedAccount
  <2>4. Received(r)' = Received(r) /\ At(r)' = At(r)
    BY DEF Received, At
  <2>. QED
    BY <2>1, <2>2, <2>3, <2>4 DEF Divided
<1>3. \A r \in Readers : kind[r] = "none" => Unborn(r)'
  BY DEF IInv, Unborn, Received
<1>4. \A r \in Readers : kind[r] = "accounts" => \A e \in Received(r)' : e.user = uid[r]
  BY DEF IInv, Received
<1>. QED
  BY <1>1, <1>2, <1>3, <1>4 DEF IInv

\* A step of reader r leaves the other readers' part of the invariant alone.
LEMMA OtherReaders ==
  ASSUME IInv, Types', UNCHANGED tables, NEW r \in Readers,
         \A s \in Readers \ {r} :
             /\ kind'[s] = kind[s] /\ uid'[s] = uid[s] /\ account'[s] = account[s]
             /\ owed'[s] = owed[s] /\ cursor'[s] = cursor[s] /\ state'[s] = state[s]
             /\ seen'[s] = seen[s] /\ page'[s] = page[s],
         kind'[r] = "none" => Unborn(r)',
         kind'[r] = "entries" => Divided(r)',
         kind'[r] = "accounts" => \A e \in Received(r)' : e.user = uid'[r]
  PROVE  IInv'
<1>1. ASSUME NEW s \in Readers \ {r}
      PROVE  /\ kind'[s] = "none" => Unborn(s)'
             /\ kind'[s] = "entries" => Divided(s)'
             /\ kind'[s] = "accounts" => \A e \in Received(s)' : e.user = uid'[s]
  <2>1. Received(s)' = Received(s) /\ At(s)' = At(s) /\ (Unborn(s)' <=> Unborn(s))
    BY Zenon, <1>1 DEF Received, At, Unborn
  <2>2. Divided(s)' <=> Divided(s)
    BY <1>1, <2>1 DEF Divided, EntriesOf, ownedAccount, tables
  <2>. QED
    BY Zenon, <1>1, <2>1, <2>2 DEF IInv
<1>. QED
  BY <1>1 DEF IInv

\* Setting out preserves the invariant: everything owed is below the sentinel.
LEMMA StartEntriesInv ==
  ASSUME IInv, NEW r \in Readers, NEW u \in Users, NEW a \in Accounts, StartEntries(r, u, a)
  PROVE  IInv'
<1>0. /\ kind[r] = "none" /\ kind' = [kind EXCEPT ![r] = "entries"]
      /\ uid' = [uid EXCEPT ![r] = u] /\ account' = [account EXCEPT ![r] = a]
      /\ owed' = [owed EXCEPT ![r] = EntriesOf(a)]
      /\ UNCHANGED <<accounts, entries, cursor, state, seen, page>>
  BY Zenon DEF StartEntries, tables
<1>1. EntriesOf(a) \subseteq Entry
  BY DEF IInv, Types, EntriesOf
<1>2. Types'
  BY <1>0, <1>1 DEF IInv, Types
<1>3. /\ kind'[r] = "entries" /\ uid'[r] = u /\ account'[r] = a /\ owed'[r] = EntriesOf(a)
      /\ \A s \in Readers \ {r} : /\ kind'[s] = kind[s] /\ uid'[s] = uid[s]
                                  /\ account'[s] = account[s] /\ owed'[s] = owed[s]
  BY Zenon, <1>0 DEF IInv, Types
<1>4. Unborn(r)
  BY <1>0 DEF IInv
<1>5. Divided(r)'
  <2>1. Received(r)' = {} /\ page'[r] = {} /\ At(r)' = decodeCursor(None) /\ state'[r] = "open"
    BY Zenon, <1>0, <1>4 DEF Unborn, Received, At
  <2>2. \A e \in owed'[r] : e.at <= Far => Before(e, At(r)')
    BY Zenon, <1>1, <1>3, <2>1, Pairs
  <2>3. EntriesOf(a)' = EntriesOf(a)
    BY Zenon, <1>0 DEF EntriesOf
  <2>. QED
    BY Zenon, <1>3, <2>1, <2>2, <2>3 DEF Divided
<1>. QED
  BY Zenon, <1>0, <1>2, <1>3, <1>5, OtherReaders DEF tables

\* A page preserves the invariant: its rows are below the old cursor and at or
\* above the new one, and none of what was owed between the two is missing.
LEMMA ListAccountEntriesInv ==
  ASSUME IInv, NEW r \in Readers, NEW q \in Limits \cup {None}, ListAccountEntries(r, q)
  PROVE  IInv'
<1> DEFINE a == account[r]
           c == At(r)
           n == PageLimit(q)
<1>0. /\ kind[r] = "entries" /\ state[r] = "open" /\ ownedAccount(uid[r], a)
      /\ UNCHANGED <<accounts, entries, kind, uid, account, owed>>
  BY Zenon DEF ListAccountEntries, tables, request
<1>1. PICK P \in Pages(a, c, n) :
        /\ Answer(r, P)
        /\ \/ /\ \E last \in P : /\ \A e \in P \ {last} : Before(last, e)
                                 /\ cursor' = [cursor EXCEPT ![r] = encodeCursor(last)]
              /\ UNCHANGED state
           \/ /\ Cardinality(P) # n
              /\ state' = [state EXCEPT ![r] = "ended"]
              /\ UNCHANGED cursor
  BY Zenon DEF ListAccountEntries, At
<1>2. /\ P \subseteq Below(a, c)
      /\ P # Below(a, c) => Cardinality(P) = n
      /\ \A e \in P, f \in Below(a, c) \ P : Before(f, e)
  BY DEF Pages
<1>3. Below(a, c) \subseteq EntriesOf(a) /\ EntriesOf(a) \subseteq Entry
      /\ \A e \in EntriesOf(a) : e \in Below(a, c) <=> Before(e, c)
  BY Zenon DEF Below, EntriesOf, IInv, Types
<1>4. /\ seen'[r] = Received(r) /\ page'[r] = P
      /\ \A s \in Readers \ {r} : seen'[s] = seen[s] /\ page'[s] = page[s]
      /\ seen' \in [Readers -> SUBSET (Entry \cup Account)]
      /\ page' \in [Readers -> SUBSET (Entry \cup Account)]
  BY Zenon, <1>1, <1>2, <1>3 DEF Answer, IInv, Types, Received
<1>5. Received(r)' = Received(r) \cup P
  BY Zenon, <1>4 DEF Received
<1>6. Divided(r)
  BY Zenon, <1>0 DEF IInv
<1>7. /\ Received(r) \cup owed[r] \subseteq EntriesOf(a)
      /\ \A e \in Received(r) : ~Before(e, c)
      /\ \A e \in owed[r] : e.at <= Far /\ ~Before(e, c) => e \in Received(r)
  BY Zenon, <1>0, <1>6 DEF Divided
<1>8. c.at \in Nat /\ c.id \in Nat
  BY Zenon, Pairs DEF At, IInv, Types
<1>9. \A e \in P, f \in Received(r) : Older(e, f) /\ ~Before(f, e)
  <2> TAKE e \in P, f \in Received(r)
  <2>1. e \in Entry /\ f \in Entry /\ Before(e, c) /\ ~Before(f, c)
    BY Zenon, <1>2, <1>3, <1>7
  <2>2. e.at \in Nat /\ e.id \in Nat /\ f.at \in Nat /\ f.id \in Nat
    BY <2>1, Pairs
  <2>. QED
    BY <1>8, <2>1, <2>2, Lexicographic
<1>10. EntriesOf(a)' = EntriesOf(a) /\ (ownedAccount(uid[r], a)' <=> ownedAccount(uid[r], a))
  BY Zenon, <1>0 DEF EntriesOf, ownedAccount
<1>11. /\ (Received(r) \cup owed[r])' \subseteq EntriesOf(account[r])'
       /\ Received(r)' # {} => ownedAccount(uid[r], account[r])'
       /\ \A e \in page'[r], f \in seen'[r] : Older(e, f)
  BY <1>0, <1>2, <1>3, <1>4, <1>5, <1>7, <1>9, <1>10
<1>12. CASE Cardinality(P) # n /\ state' = [state EXCEPT ![r] = "ended"] /\ UNCHANGED cursor
  <2>1. P = Below(a, c)
    BY Zenon, <1>2, <1>12
  <2>2. /\ state'[r] = "ended" /\ \A s \in Readers \ {r} : state'[s] = state[s]
        /\ state' \in [Readers -> {"open", "ended", "error"}]
    BY Zenon, <1>12 DEF IInv, Types
  <2>3. \A e \in owed[r] : e.at <= Far => e \in Received(r)'
    BY Zenon, <1>3, <1>5, <1>7, <2>1
  <2>4. Divided(r)'
    BY Zenon, <1>0, <1>11, <2>2, <2>3 DEF Divided
  <2>5. Types'
    BY Zenon, <1>0, <1>4, <1>12, <2>2 DEF IInv, Types
  <2>. QED
    BY <1>0, <1>4, <1>12, <2>2, <2>4, <2>5, OtherReaders DEF tables
<1>13. ASSUME NEW last \in P, \A e \in P \ {last} : Before(last, e),
              cursor' = [cursor EXCEPT ![r] = encodeCursor(last)], UNCHANGED state
       PROVE  IInv'
  <2>1. last \in Entry /\ Before(last, c) /\ last.at \in Nat /\ last.id \in Nat
    BY Zenon, <1>2, <1>3, Pairs
  <2>2. /\ cursor'[r] = encodeCursor(last) /\ encodeCursor(last) \in Cursor
        /\ \A s \in Readers \ {r} : cursor'[s] = cursor[s]
        /\ cursor' \in [Readers -> Cursor \cup {None}]
    BY Zenon, <1>13, <2>1 DEF encodeCursor, Cursor, IInv, Types
  <2>3. At(r)' = encodeCursor(last)
    BY Zenon, <2>2, ConstantsAssumption DEF At, decodeCursor
  <2>4. \A e : Before(e, At(r)') <=> Before(e, last)
    BY <2>3 DEF Before, encodeCursor
  <2>5. \A e \in P : ~Before(e, last)
    <3> TAKE e \in P
    <3>1. e.at \in Nat /\ e.id \in Nat
      BY Zenon, <1>2, <1>3, Pairs
    <3>. QED
      BY <1>13, <2>1, <3>1, Lexicographic
  <2>6. \A e \in Received(r)' : ~Before(e, last)
    BY Zenon, <1>5, <1>9, <2>5
  <2>7. \A e \in owed[r] : e.at <= Far /\ ~Before(e, last) => e \in Received(r)'
    BY Zenon, <1>2, <1>3, <1>5, <1>7
  <2>8. Divided(r)'
    BY Zenon, <1>0, <1>11, <1>13, <2>4, <2>6, <2>7 DEF Divided
  <2>9. Types'
    BY Zenon, <1>0, <1>4, <1>13, <2>2 DEF IInv, Types
  <2>. QED
    BY Zenon, <1>0, <1>4, <1>13, <2>2, <2>8, <2>9, OtherReaders DEF tables
<1>. QED
  BY <1>1, <1>12, <1>13

\* A page of List has accounts of the user only.
LEMMA WindowRows ==
  ASSUME NEW u, NEW n, NEW o, NEW P \in Windows(u, n, o)
  PROVE  P \subseteq AccountsOf(u)
<1>1. PICK S : P \in Newest(AccountsOf(u) \ S, n)
  BY Zenon DEF Windows
<1>. QED
  BY <1>1 DEF Newest

\* The other steps: an error, a page of accounts, and the start of their listing.
LEMMA OtherStepsInv ==
  ASSUME IInv, NEW r \in Readers,
         \/ \E u \in Users : StartAccounts(r, u)
         \/ \E q \in Limits \cup {None} : EntriesError(r, q) \/ List(r, q) \/ ListError(r, q)
  PROVE  IInv'
<1>1. ASSUME NEW u \in Users, StartAccounts(r, u) PROVE IInv'
  <2>1. AccountsOf(u) \subseteq Account
    BY Zenon DEF IInv, Types, AccountsOf
  <2>2. /\ kind'[r] = "accounts" /\ Types'
        /\ \A s \in Readers \ {r} : /\ kind'[s] = kind[s] /\ uid'[s] = uid[s]
                                    /\ owed'[s] = owed[s]
    BY Zenon, <1>1, <2>1 DEF StartAccounts, tables, IInv, Types
  <2>3. Received(r)' = {} /\ UNCHANGED <<tables, account, cursor, state, seen, page>>
    BY Zenon, <1>1 DEF StartAccounts, tables, IInv, Unborn, Received
  <2>. QED
    BY Zenon, <2>2, <2>3, OtherReaders
<1>2. ASSUME NEW q \in Limits \cup {None}, EntriesError(r, q) PROVE IInv'
  <2>1. /\ kind[r] = "entries" /\ state' = [state EXCEPT ![r] = "error"]
        /\ UNCHANGED <<accounts, entries, kind, uid, account, owed, cursor, seen, page>>
    BY Zenon, <1>2 DEF EntriesError, tables, request
  <2>2. /\ state'[r] = "error" /\ state' \in [Readers -> {"open", "ended", "error"}]
        /\ \A s \in Readers \ {r} : state'[s] = state[s]
    BY Zenon, <2>1 DEF IInv, Types
  <2>3. Types'
    BY <2>1, <2>2, Zenon DEF IInv, Types
  <2>4. Divided(r)'
    <3>1. Divided(r) /\ Received(r)' = Received(r)
      BY <2>1, ZenonT(60) DEF IInv, Received
    <3>2. EntriesOf(account[r])' = EntriesOf(account[r])
      BY Zenon, <2>1 DEF EntriesOf
    <3>3. ownedAccount(uid[r], account[r])' <=> ownedAccount(uid[r], account[r])
      BY Zenon, <2>1 DEF ownedAccount
    <3>. QED
      BY <2>1, <2>2, <3>1, <3>2, <3>3, Zenon DEF Divided
  <2>. QED
    BY <2>1, <2>2, <2>3, <2>4, OtherReaders, ZenonT(60) DEF tables
<1>3. ASSUME NEW q \in Limits \cup {None}, List(r, q) PROVE IInv'
  <2>0. PICK P \in Windows(uid[r], int32(parseInt(q)), int32(offset[r])) :
          /\ Answer(r, P)
          /\ state' = [state EXCEPT ![r] = "ended"] \/ state' = state
    BY Zenon, <1>3 DEF List
  <2>1. P \subseteq Account /\ \A e \in P : e.user = uid[r]
    <3>1. P \subseteq AccountsOf(uid[r])
      BY Zenon, WindowRows
    <3>. QED
      BY Zenon, <3>1 DEF AccountsOf, IInv, Types
  <2>2. /\ kind[r] = "accounts"
        /\ UNCHANGED <<accounts, entries, kind, uid, account, owed, cursor>>
    BY Zenon, <1>3 DEF List, tables, request
  <2>3. /\ seen'[r] = Received(r) /\ page'[r] = P /\ Types'
        /\ \A s \in Readers \ {r} : /\ seen'[s] = seen[s] /\ page'[s] = page[s]
                                    /\ state'[s] = state[s]
    BY Zenon, <2>0, <2>1, <2>2 DEF Answer, IInv, Types, Received
  <2>4. \A e \in Received(r)' : e.user = uid'[r]
    BY Zenon, <2>1, <2>2, <2>3 DEF IInv, Received
  <2>. QED
    BY <2>2, <2>3, <2>4, OtherReaders, ZenonT(60) DEF tables
<1>4. ASSUME NEW q \in Limits \cup {None}, ListError(r, q) PROVE IInv'
  <2>1. /\ kind[r] = "accounts" /\ state' = [state EXCEPT ![r] = "error"]
        /\ UNCHANGED <<accounts, entries, kind, uid, account, owed, cursor, seen, page>>
    BY Zenon, <1>4 DEF ListError, tables, request
  <2>2. Types' /\ \A s \in Readers \ {r} : state'[s] = state[s]
    BY Zenon, <2>1 DEF IInv, Types
  <2>3. \A e \in Received(r)' : e.user = uid'[r]
    BY Zenon, <2>1 DEF IInv, Received
  <2>. QED
    BY <2>1, <2>2, <2>3, OtherReaders, ZenonT(60) DEF tables
<1>. QED
  BY <1>1, <1>2, <1>3, <1>4, ZenonT(60)

\* The invariant is inductive.
LEMMA Inductive ==
  /\ Init => IInv
  /\ IInv /\ [Next]_vars => IInv'
<1>1. Init => IInv
  BY Zenon DEF Init, IInv, Types, Unborn, Received
<1>2. ASSUME IInv, NEW a \in Accounts, NEW t \in Instants,
             \/ \E u \in Users : CreateAccount(a, u, t)
             \/ \E i \in Ids : Post(i, a, t)
      PROVE  IInv'
  <2>1. /\ accounts \subseteq accounts' /\ entries \subseteq entries'
        /\ accounts' \subseteq Account /\ entries' \subseteq Entry
        /\ UNCHANGED <<kind, uid, account, owed, cursor, state, seen, page>>
    BY <1>2 DEF CreateAccount, Post, request, Account, Entry, IInv, Types
  <2>. QED
    BY <1>2, <2>1, TablesGrow, ZenonT(60)
<1>3. ASSUME IInv, UNCHANGED vars PROVE IInv'
  <2>1. /\ accounts \subseteq accounts' /\ entries \subseteq entries'
        /\ accounts' \subseteq Account /\ entries' \subseteq Entry
        /\ UNCHANGED <<kind, uid, account, owed, cursor, state, seen, page>>
    BY Zenon, <1>3 DEF vars, tables, request, IInv, Types
  <2>. QED
    BY <1>3, <2>1, TablesGrow
<1>4. ASSUME IInv, Next PROVE IInv'
  BY <1>2, <1>4, StartEntriesInv, ListAccountEntriesInv, OtherStepsInv, Zenon DEF Next
<1>. QED
  BY <1>1, <1>3, <1>4

\* Pages of entries descend: ListAccountEntries shows no entry twice, for any
\* postings committed between two pages and any limits.
THEOREM PagesDescend == Spec => []EntriesDescend
<1>1. IInv => EntriesDescend
  BY Zenon DEF IInv, Divided, EntriesDescend
<1>. QED
  BY <1>1, Inductive, PTL DEF Spec

\* A keyset listing that ListAccountEntries has ended skips no entry that was
\* committed before it began, up to the sentinel of decodeCursor.
THEOREM ListingComplete == Spec => []EntriesComplete
<1>1. IInv => EntriesComplete
  BY Zenon DEF IInv, Divided, EntriesComplete
<1>. QED
  BY <1>1, Inductive, PTL DEF Spec

\* ListAccountEntries and List return rows of the token's user only.
THEOREM RowsAreOwn == Spec => []OwnRows
<1>1. ASSUME IInv, NEW r \in Readers, NEW e \in Received(r), kind[r] = "entries"
      PROVE  e.account = account[r] /\ \E b \in accounts : b.id = e.account /\ b.user = uid[r]
  <2>1. Divided(r)
    BY <1>1 DEF IInv
  <2>2. e \in EntriesOf(account[r]) /\ ownedAccount(uid[r], account[r])
    BY Zenon, <1>1, <2>1 DEF Divided
  <2>. QED
    BY Zenon, <2>2 DEF EntriesOf, ownedAccount
<1>2. ASSUME IInv, NEW r \in Readers, NEW e \in Received(r), kind[r] # "entries"
      PROVE  e.user = uid[r]
  BY Zenon, <1>2 DEF IInv, Types, Unborn
<1>3. IInv => OwnRows
  BY <1>1, <1>2 DEF OwnRows
<1>. QED
  BY <1>3, Inductive, PTL DEF Spec
---------------------------------------------------------------------------
\* Rows of accounts can be counted.
Counted == accounts \subseteq Account /\ IsFiniteSet(accounts)

\* An account's rank in the listing: how many accounts of the user are newer.
Newer(b, u) == {x \in AccountsOf(u) : x.created > b.created}
Rank(b, u) == Cardinality(Newer(b, u))

\* A subset has no more elements than the set, and fewer if it is a proper one.
LEMMA Counts ==
  ASSUME NEW T, IsFiniteSet(T), NEW S \in SUBSET T
  PROVE  /\ IsFiniteSet(S) /\ Cardinality(S) \in Nat /\ Cardinality(T) \in Nat
         /\ Cardinality(S) <= Cardinality(T)
         /\ S # T => Cardinality(S) < Cardinality(T)
<1>1. IsFiniteSet(S) /\ Cardinality(S) <= Cardinality(T)
      /\ (Cardinality(S) = Cardinality(T) => S = T)
  BY FS_Subset
<1>2. Cardinality(S) \in Nat /\ Cardinality(T) \in Nat
  BY Zenon, <1>1, FS_CardinalityType
<1>. QED
  BY <1>1, <1>2

\* The accounts of a user can be counted, and have comparable created_at.
LEMMA Accountable ==
  ASSUME Counted, NEW u
  PROVE  /\ IsFiniteSet(AccountsOf(u))
         /\ \A b \in AccountsOf(u) : b \in accounts /\ b.user = u /\ b.created \in Nat
<1>1. AccountsOf(u) \in SUBSET accounts
  BY Zenon DEF AccountsOf
<1>2. \A b \in Account : b.created \in Nat
  <2>1. \A b \in Account : b.created \in Instants
    BY DEF Account
  <2>. QED
    BY Zenon, <2>1, ConstantsAssumption
<1>3. IsFiniteSet(AccountsOf(u))
  BY Zenon, <1>1, Counts DEF Counted
<1>. QED
  BY Zenon, <1>2, <1>3 DEF AccountsOf, Counted

\* A page of n rows behind the newest o: an account without ties is on it only if
\* its rank is one the page covers, and only a full page leaves one behind it.
LEMMA PageRanks ==
  ASSUME Counted, NEW u, NEW n \in Nat, NEW o \in Nat, NEW P \in Windows(u, n, o)
  PROVE  /\ Cardinality(P) \in Nat /\ Cardinality(P) <= n
         /\ \A b \in AccountsOf(u) : ~Tied(b) =>
              /\ b \in P => Rank(b, u) >= o /\ Rank(b, u) < o + Cardinality(P)
              /\ b \notin P /\ Rank(b, u) >= o =>
                   Rank(b, u) >= o + Cardinality(P) /\ Cardinality(P) = n
<1> DEFINE A == AccountsOf(u)
<1>1. PICK S \in Newest(A, o) : P \in Newest(A \ S, n)
  BY Zenon DEF Windows
<1>2. /\ S \subseteq A /\ Cardinality(S) <= o /\ (S # A => Cardinality(S) = o)
      /\ \A b \in S, c \in A \ S : b.created >= c.created
  BY Zenon DEF Newest
<1>3. /\ P \subseteq A \ S /\ Cardinality(P) <= n /\ (P # A \ S => Cardinality(P) = n)
      /\ \A b \in P, c \in (A \ S) \ P : b.created >= c.created
  BY Zenon, <1>1 DEF Newest
<1>4. IsFiniteSet(A) /\ \A b \in A : b \in accounts /\ b.user = u /\ b.created \in Nat
  BY Zenon, Accountable
<1>5. \A b : Newer(b, u) \in SUBSET A /\ \A x \in A : x \in Newer(b, u) <=> x.created > b.created
  BY Zenon DEF Newer
<1> HIDE DEF A
<1>6. S \in SUBSET A /\ P \in SUBSET A /\ (S \cup P) \in SUBSET A
  BY Zenon, <1>2, <1>3
<1>7. /\ IsFiniteSet(S) /\ IsFiniteSet(P) /\ IsFiniteSet(S \cup P)
      /\ Cardinality(S) \in Nat /\ Cardinality(P) \in Nat /\ Cardinality(S \cup P) \in Nat
  BY Zenon, <1>4, <1>6, Counts
<1>8. Cardinality(S \cup P) = Cardinality(S) + Cardinality(P)
  <2>1. S \cap P = {}
    BY Zenon, <1>3
  <2>2. Cardinality(S \cup P) = Cardinality(S) + Cardinality(P) - Cardinality({})
    BY Zenon, <1>7, <2>1, FS_Union
  <2>. QED
    BY <1>7, <2>2, FS_EmptySet
<1>9. ASSUME NEW b \in A, ~Tied(b)
      PROVE  /\ b \in P => Rank(b, u) >= o /\ Rank(b, u) < o + Cardinality(P)
             /\ b \notin P /\ Rank(b, u) >= o =>
                  Rank(b, u) >= o + Cardinality(P) /\ Cardinality(P) = n
  <2>1. \A x \in A : x.created \in Nat /\ (x # b => x.created # b.created)
    BY Zenon, <1>4, <1>9 DEF Tied
  <2>2. \A x \in A : /\ x.created >= b.created /\ x # b => x \in Newer(b, u)
                     /\ b.created >= x.created => x \notin Newer(b, u)
    BY <1>5, <2>1
  <2>3. IsFiniteSet(Newer(b, u)) /\ Rank(b, u) \in Nat /\ b \notin Newer(b, u)
    <3>1. b.created >= b.created
      BY <2>1
    <3>. QED
      BY Zenon, <1>4, <1>5, <2>2, <3>1, Counts DEF Rank
  <2>4. ASSUME b \in P PROVE Rank(b, u) >= o /\ Rank(b, u) < o + Cardinality(P)
    <3>1. b \notin S /\ Cardinality(S) = o
      BY Zenon, <1>2, <1>3, <2>4
    <3>2. S \in SUBSET Newer(b, u)
      BY Zenon, <1>2, <2>2, <3>1
    <3>3. Newer(b, u) \in SUBSET (S \cup P) /\ Newer(b, u) # S \cup P
      BY Zenon, <1>3, <1>5, <2>2, <2>3, <2>4
    <3>4. Cardinality(S) <= Rank(b, u)
      BY Zenon, <2>3, <3>2, Counts DEF Rank
    <3>5. Rank(b, u) < Cardinality(S \cup P)
      BY Zenon, <1>7, <3>3, Counts DEF Rank
    <3>. QED
      BY <1>7, <1>8, <2>3, <3>1, <3>4, <3>5
  <2>5. ASSUME b \notin P, Rank(b, u) >= o
        PROVE  Rank(b, u) >= o + Cardinality(P) /\ Cardinality(P) = n
    <3>1. b \notin S
      <4>1. ASSUME b \in S PROVE FALSE
        <5>1. Newer(b, u) \in SUBSET S /\ Newer(b, u) # S
          BY Zenon, <1>2, <1>5, <2>2, <2>3, <4>1
        <5>2. Rank(b, u) < Cardinality(S)
          BY Zenon, <1>7, <5>1, Counts DEF Rank
        <5>. QED
          BY <1>2, <1>7, <2>3, <2>5, <5>2
      <4>. QED
        BY Zenon, <4>1
    <3>2. Cardinality(S) = o /\ Cardinality(P) = n
      BY Zenon, <1>2, <1>3, <2>5, <3>1
    <3>3. (S \cup P) \in SUBSET Newer(b, u)
      BY Zenon, <1>2, <1>3, <2>2, <2>5, <3>1
    <3>4. Cardinality(S \cup P) <= Rank(b, u)
      BY Zenon, <2>3, <3>3, Counts DEF Rank
    <3>. QED
      BY <1>7, <1>8, <2>3, <3>2, <3>4
  <2>. QED
    BY Zenon, <2>4, <2>5
<1>. QED
  BY Zenon, <1>3, <1>7, <1>9 DEF A

\* int32 keeps what fits, and makes what is up to twice as large negative.
LEMMA Converted ==
  ASSUME NEW n \in Nat
  PROVE  /\ int32(n) \in Int /\ int32(n) <= MaxInt32
         /\ n <= MaxInt32 => int32(n) = n
         /\ n <= 2 * MaxInt32 + 1 /\ int32(n) >= 0 => int32(n) = n
<1> DEFINE a == n + MaxInt32 + 1
           m == 2 * MaxInt32 + 2
<1>1. MaxInt32 \in Nat
  BY Zenon, ConstantsAssumption
<1>2. a \in Nat /\ m \in Nat \ {0}
  BY <1>1
<1>3. a % m \in 0..(m - 1)
  BY <1>2
<1>4. a < m => a % m = a
  BY <1>2
<1>5. a >= m /\ a < 2 * m => a % m = a - m
  BY <1>2
<1>6. int32(n) = (a % m) - (MaxInt32 + 1)
  BY Zenon DEF int32
<1> DEFINE k == a % m
<1>7. k \in 0..(m - 1) /\ (a < m => k = a) /\ (a >= m /\ a < 2 * m => k = a - m)
      /\ int32(n) = k - (MaxInt32 + 1)
  BY Zenon, <1>3, <1>4, <1>5, <1>6
<1> HIDE DEF k
<1>. QED
  BY <1>1, <1>7

\* A new account is newer than some and older than none: ranks only grow.
LEMMA RanksGrow ==
  ASSUME Counted, Counted', accounts \subseteq accounts', NEW u, NEW b
  PROVE  /\ Rank(b, u) \in Nat /\ Rank(b, u)' \in Nat /\ Rank(b, u) <= Rank(b, u)'
<1>1. AccountsOf(u) \in SUBSET accounts /\ AccountsOf(u)' \in SUBSET accounts'
  BY Zenon DEF AccountsOf
<1>2. Newer(b, u) \in SUBSET (Newer(b, u)') /\ Newer(b, u)' \in SUBSET accounts'
  BY Zenon DEF Newer, AccountsOf
<1>3. IsFiniteSet(Newer(b, u)')
  BY Zenon, <1>2, Counts DEF Counted
<1>. QED
  BY Zenon, <1>2, <1>3, Counts DEF Rank

\* What holds of a reader of accounts, of accounts without ties: the rows it is
\* owed and has not received rank at or behind its offset, which int32 keeps or
\* makes negative; as long as no account was created since it set out, what it
\* has received ranks before it.
Paged(r) ==
    /\ owed[r] \subseteq AccountsOf(uid[r])
    /\ state[r] = "open" =>
         /\ offset[r] <= 2 * MaxInt32 + 1
         /\ \A b \in owed[r] :
              b \in Received(r) \/ Tied(b) \/ Rank(b, uid[r]) >= offset[r]
    /\ state[r] = "ended" /\ ~wide[r] => \A b \in owed[r] : b \in Received(r) \/ Tied(b)
    /\ owed[r] = AccountsOf(uid[r]) =>
         /\ \A b \in page[r] \cap seen[r] : Tied(b)
         /\ state[r] = "open" =>
              \A b \in Received(r) : Tied(b) \/ Rank(b, uid[r]) < offset[r]

PagedInv ==
    /\ Counted /\ offset \in [Readers -> Nat] /\ wide \in [Readers -> BOOLEAN]
    /\ \A r \in Readers : /\ kind[r] = "none" => offset[r] = 0
                          /\ kind[r] = "accounts" => Paged(r)

\* A row committed between two pages shifts ranks up only, and unties none.
LEMMA PagedGrow ==
  ASSUME PagedInv, Counted', accounts \subseteq accounts',
         UNCHANGED <<kind, uid, owed, offset, wide, state, seen, page>>
  PROVE  PagedInv'
<1>1. ASSUME NEW r \in Readers, kind[r] = "accounts" PROVE Paged(r)'
  <2>1. Paged(r) /\ Received(r)' = Received(r)
    BY Zenon, <1>1 DEF PagedInv, Received
  <2>2. AccountsOf(uid[r]) \subseteq AccountsOf(uid[r])'
    BY Zenon DEF AccountsOf
  <2>3. \A b : /\ Rank(b, uid[r]) \in Nat /\ Rank(b, uid[r])' \in Nat
               /\ Rank(b, uid[r]) <= Rank(b, uid[r])'
    BY Zenon, RanksGrow DEF PagedInv
  <2>4. offset[r] \in Nat
    BY Zenon DEF PagedInv
  <2>5. \A b : Rank(b, uid[r]) >= offset[r] => Rank(b, uid[r])' >= offset[r]
    BY <2>3, <2>4
  <2>6. \A b : Tied(b) => Tied(b)'
    BY Zenon DEF Tied
  <2>7. ASSUME owed[r] = AccountsOf(uid[r])'
        PROVE  owed[r] = AccountsOf(uid[r]) /\ \A b : Rank(b, uid[r])' = Rank(b, uid[r])
    <3>1. owed[r] \subseteq AccountsOf(uid[r])
      BY Zenon, <2>1 DEF Paged
    <3>2. AccountsOf(uid[r])' = AccountsOf(uid[r])
      BY <2>2, <2>7, <3>1, Zenon
    <3>. QED
      BY Zenon, <2>7, <3>2 DEF Rank, Newer
  <2>. QED
    BY Zenon, <2>1, <2>2, <2>5, <2>6, <2>7 DEF Paged
<1>. QED
  BY Zenon, <1>1 DEF PagedInv

\* A step of reader r leaves the other listings of accounts alone.
LEMMA PagedOthers ==
  ASSUME IInv, PagedInv, NEW r \in Readers, UNCHANGED accounts,
         offset' \in [Readers -> Nat], wide' \in [Readers -> BOOLEAN],
         kind'[r] = "accounts" => Paged(r)',
         kind'[r] = "none" => offset'[r] = 0,
         \A s \in Readers \ {r} :
             /\ kind'[s] = kind[s] /\ uid'[s] = uid[s] /\ owed'[s] = owed[s]
             /\ offset'[s] = offset[s] /\ wide'[s] = wide[s]
             /\ state'[s] = state[s] /\ seen'[s] = seen[s] /\ page'[s] = page[s]
  PROVE  PagedInv'
<1>1. ASSUME NEW s \in Readers \ {r}, kind[s] = "accounts" PROVE Paged(s)'
  <2>1. Paged(s) /\ Received(s)' = Received(s)
    BY Zenon, <1>1 DEF PagedInv, Received
  <2>2. AccountsOf(uid[s])' = AccountsOf(uid[s]) /\ \A b : Tied(b)' <=> Tied(b)
    BY Zenon DEF AccountsOf, Tied
  <2>3. \A b : Rank(b, uid[s])' = Rank(b, uid[s])
    BY Zenon, <2>2 DEF Rank, Newer
  <2>. QED
    BY SMTT(30), <2>1, <2>2, <2>3 DEF Paged
<1>. QED
  BY Zenon, <1>1 DEF PagedInv, Counted

\* A page of accounts: no row of a rank between the old offset and the new one is
\* missing from it, and a page that is short of a limit int32 keeps is the last.
LEMMA ListPaged ==
  ASSUME IInv, PagedInv, NEW r \in Readers, NEW q \in Limits \cup {None}, List(r, q)
  PROVE  PagedInv'
<1> DEFINE u == uid[r]
           m == parseInt(q)
           n == int32(m)
           o == offset[r]
<1>0. /\ kind[r] = "accounts" /\ state[r] = "open" /\ n >= 0 /\ int32(o) >= 0
      /\ wide' = [wide EXCEPT ![r] = m > MaxInt32]
      /\ UNCHANGED <<accounts, kind, uid, owed>>
  BY Zenon DEF List, tables, request
<1>1. PICK P \in Windows(u, n, int32(o)) :
        /\ Answer(r, P)
        /\ offset' = [offset EXCEPT ![r] = @ + Cardinality(P)]
        /\ state' = IF Cardinality(P) < m THEN [state EXCEPT ![r] = "ended"] ELSE state
  BY Zenon DEF List
<1>2. Paged(r) /\ m \in Nat /\ o \in Nat /\ MaxInt32 \in Nat
  BY Zenon, <1>0, ConstantsAssumption DEF parseInt, PagedInv
<1>3. o <= 2 * MaxInt32 + 1
  BY Zenon, <1>0, <1>2 DEF Paged
<1>4. int32(o) = o /\ o <= MaxInt32
  <2>1. int32(o) = o /\ int32(o) <= MaxInt32
    BY Zenon, <1>0, <1>2, <1>3, Converted
  <2>. QED
    BY Zenon, <2>1
<1>5. n \in Int /\ n <= MaxInt32 /\ (m <= MaxInt32 => n = m)
  BY Zenon, <1>2, Converted
<1> HIDE DEF m, n, o
<1>6. n \in Nat
  BY <1>0, <1>5
<1>7. /\ Cardinality(P) \in Nat /\ Cardinality(P) <= n
      /\ \A b \in AccountsOf(u) : ~Tied(b) =>
           /\ b \in P => Rank(b, u) >= o /\ Rank(b, u) < o + Cardinality(P)
           /\ b \notin P /\ Rank(b, u) >= o =>
                Rank(b, u) >= o + Cardinality(P) /\ Cardinality(P) = n
  <2>1. P \in Windows(u, n, o)
    BY Zenon, <1>4
  <2>. QED
    BY ONLY ZenonT(60), PagedInv, <1>2, <1>6, <2>1, PageRanks DEF PagedInv
<1>8. P \subseteq AccountsOf(u)
  BY Zenon, WindowRows
<1> DEFINE k == o + Cardinality(P)
<1>9. k \in Nat /\ k <= 2 * MaxInt32 + 1
  BY <1>2, <1>4, <1>5, <1>7
<1> HIDE DEF k
<1>10. /\ seen'[r] = Received(r) /\ page'[r] = P /\ Received(r)' = Received(r) \cup P
       /\ offset'[r] = k /\ offset' \in [Readers -> Nat]
       /\ wide'[r] = (m > MaxInt32) /\ wide' \in [Readers -> BOOLEAN]
       /\ state'[r] = IF Cardinality(P) < m THEN "ended" ELSE "open"
       /\ \A s \in Readers \ {r} : /\ seen'[s] = seen[s] /\ page'[s] = page[s]
                                   /\ offset'[s] = offset[s] /\ wide'[s] = wide[s]
                                   /\ state'[s] = state[s]
  <2>1. /\ seen \in [Readers -> SUBSET (Entry \cup Account)] /\ offset \in [Readers -> Nat]
        /\ page \in [Readers -> SUBSET (Entry \cup Account)] /\ wide \in [Readers -> BOOLEAN]
        /\ state \in [Readers -> {"open", "ended", "error"}]
    BY Zenon DEF IInv, Types, PagedInv
  <2>2. seen'[r] = Received(r) /\ page'[r] = P
        /\ \A s \in Readers \ {r} : seen'[s] = seen[s] /\ page'[s] = page[s]
    BY Zenon, <1>1, <2>1 DEF Answer, Received
  <2>3. offset' = [offset EXCEPT ![r] = k]
    BY Zenon, <1>1 DEF k, o
  <2>4. offset'[r] = k /\ offset' \in [Readers -> Nat]
        /\ \A s \in Readers \ {r} : offset'[s] = offset[s]
    BY Zenon, <1>9, <2>1, <2>3
  <2>5. /\ state'[r] = IF Cardinality(P) < m THEN "ended" ELSE "open"
        /\ \A s \in Readers \ {r} : state'[s] = state[s]
    BY Zenon, <1>0, <1>1, <2>1
  <2>6. (m > MaxInt32) \in BOOLEAN
    BY <1>2
  <2>7. wide'[r] = (m > MaxInt32) /\ wide' \in [Readers -> BOOLEAN]
        /\ \A s \in Readers \ {r} : wide'[s] = wide[s]
    BY Zenon, <1>0, <2>1, <2>6
  <2>. QED
    BY Zenon, <2>2, <2>4, <2>5, <2>7 DEF Received
<1>11. /\ AccountsOf(u)' = AccountsOf(u) /\ uid'[r] = u /\ owed'[r] = owed[r]
       /\ \A b : (Tied(b)' <=> Tied(b)) /\ Rank(b, u)' = Rank(b, u)
  BY Zenon, <1>0 DEF AccountsOf, Rank, Newer, Tied
<1>12. owed[r] \subseteq AccountsOf(u)
       /\ \A b \in owed[r] : b \in Received(r) \/ Tied(b) \/ Rank(b, u) >= o
  BY Zenon, <1>0, <1>2 DEF Paged, o
<1>13. \A b \in owed[r] : b \in Received(r) \cup P \/ Tied(b)
                          \/ (Rank(b, u) >= k /\ Cardinality(P) = n)
  BY Zenon, <1>7, <1>12 DEF k
<1>14. ASSUME Cardinality(P) < m, ~(m > MaxInt32)
       PROVE  \A b \in owed[r] : b \in Received(r) \cup P \/ Tied(b)
  <2>1. Cardinality(P) # n
    BY <1>2, <1>5, <1>7, <1>14
  <2>. QED
    BY Zenon, <1>13, <2>1
<1>15. ASSUME owed[r] = AccountsOf(u)
       PROVE  /\ \A b \in P \cap Received(r) : Tied(b)
              /\ \A b \in Received(r) \cup P : Tied(b) \/ Rank(b, u) < k
  <2>1. \A b \in Received(r) : Tied(b) \/ Rank(b, u) < o
    BY Zenon, <1>0, <1>2, <1>15 DEF Paged, o
  <2>2. \A b \in P : Tied(b) \/ (Rank(b, u) >= o /\ Rank(b, u) < k)
    BY Zenon, <1>7, <1>8 DEF k
  <2>3. \A b : Rank(b, u) \in Nat
    BY Zenon, RanksGrow, <1>0 DEF PagedInv, Counted
  <2>4. \A i \in Nat : ~(i < o /\ i >= o) /\ (i < o => i < k)
    BY <1>2, <1>7 DEF k
  <2>. QED
    BY Zenon, <2>1, <2>2, <2>3, <2>4
<1>16. Paged(r)'
  <2>1. state'[r] = "open" =>
          /\ offset'[r] <= 2 * MaxInt32 + 1
          /\ \A b \in owed'[r] : b \in Received(r)' \/ Tied(b)' \/ Rank(b, u)' >= offset'[r]
    <3>1. offset'[r] <= 2 * MaxInt32 + 1
      BY Zenon, <1>9, <1>10
    <3>2. ASSUME NEW b \in owed'[r]
          PROVE  b \in Received(r)' \/ Tied(b)' \/ Rank(b, u)' >= offset'[r]
      <4>1. b \in owed[r] /\ (Tied(b)' <=> Tied(b)) /\ Rank(b, u)' = Rank(b, u)
        BY Zenon, <1>11
      <4>2. b \in Received(r) \cup P \/ Tied(b) \/ Rank(b, u) >= k
        BY Zenon, <1>13, <4>1
      <4>. QED
        BY Zenon, <1>10, <4>1, <4>2
    <3>. QED
      BY Zenon, <3>1, <3>2
  <2>2. ASSUME state'[r] = "ended", ~wide'[r]
        PROVE  \A b \in owed'[r] : b \in Received(r)' \/ Tied(b)'
    <3>1. Cardinality(P) < m
      BY Zenon, <1>10, <2>2
    <3>2. ~(m > MaxInt32)
      BY Zenon, <1>10, <2>2
    <3>. QED
      BY Zenon, <1>10, <1>11, <1>14, <3>1, <3>2
  <2>3. ASSUME owed'[r] = AccountsOf(u)'
        PROVE  /\ \A b \in page'[r] \cap seen'[r] : Tied(b)'
               /\ \A b \in Received(r)' : Tied(b)' \/ Rank(b, u)' < offset'[r]
    BY Zenon, <1>10, <1>11, <1>15, <2>3
  <2>. QED
    BY Zenon, <1>11, <1>12, <2>1, <2>2, <2>3 DEF Paged
<1>. QED
  BY Zenon, <1>0, <1>10, <1>16, PagedOthers

\* The other steps.
LEMMA PagedStep == ASSUME IInv, PagedInv, [Next]_vars PROVE PagedInv'
<1>0. offset \in [Readers -> Nat] /\ wide \in [Readers -> BOOLEAN]
  BY Zenon DEF PagedInv
<1>1. ASSUME UNCHANGED accounts, UNCHANGED <<kind, uid, owed, offset, wide, state, seen, page>>
      PROVE  PagedInv'
  <2>1. Counted'
    BY Zenon, <1>1 DEF PagedInv, Counted
  <2>. QED
    BY Zenon, <1>1, <2>1, PagedGrow
<1>2. ASSUME NEW a \in Accounts, NEW t \in Instants, NEW u \in Users, CreateAccount(a, u, t)
      PROVE  PagedInv'
  <2> DEFINE b == [id |-> a, user |-> u, created |-> t]
  <2>1. /\ accounts' = accounts \cup {b}
        /\ UNCHANGED <<kind, uid, owed, offset, wide, state, seen, page>>
    BY Zenon, <1>2 DEF CreateAccount, request
  <2>2. b \in Account
    BY Zenon DEF Account
  <2>3. IsFiniteSet(accounts')
    BY <2>1, FS_AddElement, Zenon DEF PagedInv, Counted
  <2> HIDE DEF b
  <2>4. Counted'
    BY Zenon, <2>1, <2>2, <2>3 DEF PagedInv, Counted
  <2>. QED
    BY Zenon, <2>1, <2>4, PagedGrow
<1>3. ASSUME NEW i \in Ids, NEW a \in Accounts, NEW t \in Instants, Post(i, a, t) PROVE PagedInv'
  BY Zenon, <1>1, <1>3 DEF Post, request
<1>4. ASSUME NEW r \in Readers, NEW u \in Users, StartAccounts(r, u) PROVE PagedInv'
  <2>1. /\ kind[r] = "none" /\ kind' = [kind EXCEPT ![r] = "accounts"]
        /\ uid' = [uid EXCEPT ![r] = u] /\ owed' = [owed EXCEPT ![r] = AccountsOf(u)]
        /\ UNCHANGED <<accounts, offset, wide, state, seen, page>>
    BY Zenon, <1>4 DEF StartAccounts, tables
  <2>2. /\ kind'[r] = "accounts" /\ uid'[r] = u /\ owed'[r] = AccountsOf(u)
        /\ \A s \in Readers \ {r} : kind'[s] = kind[s] /\ uid'[s] = uid[s] /\ owed'[s] = owed[s]
    BY Zenon, <2>1 DEF IInv, Types
  <2>3. /\ Received(r)' = {} /\ page'[r] = {} /\ state'[r] = "open" /\ offset'[r] = 0
    BY Zenon, <2>1 DEF IInv, Unborn, Received, PagedInv
  <2>4. AccountsOf(u)' = AccountsOf(u)
    BY Zenon, <2>1 DEF AccountsOf
  <2>5. 0 <= 2 * MaxInt32 + 1 /\ \A x : Rank(x, u)' >= 0
    <3>1. \A x : Rank(x, u)' \in Nat
      BY Zenon, <2>1, RanksGrow DEF PagedInv, Counted
    <3>. QED
      BY <3>1, ConstantsAssumption
  <2>6. Paged(r)'
    BY Zenon, <2>2, <2>3, <2>4, <2>5 DEF Paged
  <2>. QED
    BY Zenon, <1>0, <2>1, <2>2, <2>6, PagedOthers
<1>5. ASSUME NEW r \in Readers, NEW u \in Users, NEW a \in Accounts, StartEntries(r, u, a)
      PROVE  PagedInv'
  <2>1. /\ kind' = [kind EXCEPT ![r] = "entries"] /\ uid' = [uid EXCEPT ![r] = u]
        /\ owed' = [owed EXCEPT ![r] = EntriesOf(a)]
        /\ UNCHANGED <<accounts, offset, wide, state, seen, page>>
    BY Zenon, <1>5 DEF StartEntries, tables
  <2>2. /\ kind'[r] = "entries"
        /\ \A s \in Readers \ {r} : kind'[s] = kind[s] /\ uid'[s] = uid[s] /\ owed'[s] = owed[s]
    BY Zenon, <2>1 DEF IInv, Types
  <2>. QED
    BY Zenon, <1>0, <2>1, <2>2, PagedOthers
<1>6. ASSUME NEW r \in Readers, NEW q \in Limits \cup {None},
             ListAccountEntries(r, q) \/ EntriesError(r, q)
      PROVE  PagedInv'
  <2>1. /\ kind[r] = "entries" /\ UNCHANGED <<accounts, kind, uid, owed, offset, wide>>
    BY ZenonT(30), <1>6 DEF ListAccountEntries, EntriesError, tables, request
  <2>2. \A s \in Readers \ {r} : state'[s] = state[s] /\ seen'[s] = seen[s] /\ page'[s] = page[s]
    BY Zenon, <1>6 DEF ListAccountEntries, EntriesError, Answer, IInv, Types
  <2>. QED
    BY Zenon, <1>0, <2>1, <2>2, PagedOthers
<1>7. ASSUME NEW r \in Readers, NEW q \in Limits \cup {None}, ListError(r, q) PROVE PagedInv'
  <2>1. /\ kind[r] = "accounts" /\ state' = [state EXCEPT ![r] = "error"]
        /\ UNCHANGED <<accounts, kind, uid, owed, offset, wide, seen, page>>
    BY Zenon, <1>7 DEF ListError, tables, request
  <2>2. state'[r] = "error" /\ \A s \in Readers \ {r} : state'[s] = state[s]
    BY Zenon, <2>1 DEF IInv, Types
  <2>3. Paged(r) /\ AccountsOf(uid[r])' = AccountsOf(uid[r]) /\ \A b : Tied(b)' <=> Tied(b)
    BY Zenon, <2>1 DEF PagedInv, AccountsOf, Tied
  <2>4. Paged(r)'
    BY Zenon, <2>1, <2>2, <2>3 DEF Paged
  <2>. QED
    BY Zenon, <1>0, <2>1, <2>2, <2>4, PagedOthers
<1>8. ASSUME UNCHANGED vars PROVE PagedInv'
  BY Zenon, <1>1, <1>8 DEF vars, tables, request
<1>. QED
  BY <1>2, <1>3, <1>4, <1>5, <1>6, <1>7, <1>8, ListPaged, Zenon DEF Next

\* A user's accounts, read page by page with List while accounts are created: of
\* the accounts no other shares its created_at with, a listing ended by a limit
\* that int32 keeps has all that were there, and one is repeated only if another
\* was created meanwhile.
THEOREM OffsetListingComplete == Spec => []AccountsComplete
<1>1. Init => PagedInv
  BY SMTT(30), FS_EmptySet DEF Init, PagedInv, Counted
<1>2. IInv /\ PagedInv => AccountsComplete
  BY Zenon DEF PagedInv, Paged, AccountsComplete
<1>. QED
  BY <1>1, <1>2, Inductive, PagedStep, PTL DEF Spec
=============================================================================
