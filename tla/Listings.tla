------------------------------ MODULE Listings ------------------------------
(***************************************************************************)
(* The two paged listings, read while the ledger grows: an account's       *)
(* entries by keyset cursor, newest first, and a user's accounts by        *)
(* offset.  Each page is one query of its own; between two pages rows are  *)
(* committed anywhere in the order, since occurred_at is the client's and  *)
(* created_at and the ids are fixed before the commit.                     *)
(*                                                                         *)
(* A page is modelled as the set of its rows; a reader keeps what it has   *)
(* received, the last page apart.                                          *)
(***************************************************************************)
EXTENDS Integers, FiniteSets

CONSTANTS
    Users,
    Accounts,      \* account ids
    Ids,           \* posting ids
    Instants,      \* values of occurred_at and created_at
    Far,           \* 9999-01-01
    MaxId,         \* math.MaxInt64
    DefaultLimit,  \* 20
    MaxLimit,      \* 100
    Limits,        \* values of the limit parameter that parse
    MaxInt32,      \* 2^31 - 1, the largest LIMIT and OFFSET of the query
    Readers,
    MaxRows,       \* bound on the rows of both tables together
    None           \* no parameter, no cursor, no listing

Entry == [account : Accounts, at : Instants, id : Ids]
Account == [id : Accounts, user : Users, created : Instants]
Cursor == [at : Nat, id : Nat]

ASSUME ConstantsAssumption ==
    /\ Ids \subseteq Nat /\ Instants \subseteq Nat /\ Limits \subseteq Nat
    /\ Far \in Nat /\ MaxId \in Nat /\ \A i \in Ids : i < MaxId
    /\ DefaultLimit \in Nat \ {0} /\ MaxLimit \in Nat \ {0} /\ MaxInt32 \in Nat
    /\ MaxRows \in Nat
    /\ None \notin Limits /\ None \notin Cursor /\ None \notin Users

VARIABLES
    accounts,   \* rows of accounts
    entries,    \* postings with the occurred_at of their transaction
    kind,       \* per reader: "none", "entries" or "accounts"
    uid,        \* per reader: the user of its token
    account,    \* per reader of entries: the account
    cursor,     \* per reader of entries: the cursor of its next request
    offset,     \* per reader of accounts: the offset of its next request
    wide,       \* history, per reader of accounts: its last limit exceeds int32
    state,      \* per reader: "open", "ended" or "error"
    seen,       \* per reader: the rows received before the last page
    page,       \* per reader: the rows of the last page
    owed        \* history, per reader: the rows committed when it started

tables == <<accounts, entries>>
request == <<kind, uid, account, owed>>
vars == <<tables, request, cursor, offset, wide, state, seen, page>>

Init ==
    /\ accounts = {} /\ entries = {}
    /\ kind = [r \in Readers |-> "none"]
    /\ uid = [r \in Readers |-> None]
    /\ account = [r \in Readers |-> None]
    /\ cursor = [r \in Readers |-> None]
    /\ offset = [r \in Readers |-> 0]
    /\ wide = [r \in Readers |-> FALSE]
    /\ state = [r \in Readers |-> "open"]
    /\ seen = [r \in Readers |-> {}]
    /\ page = [r \in Readers |-> {}]
    /\ owed = [r \in Readers |-> {}]

Room == Cardinality(accounts) + Cardinality(entries) < MaxRows

\* An account becomes visible.  Nothing keeps two from having one created_at.
CreateAccount(a, u, t) ==
    /\ Room
    /\ \A b \in accounts : b.id # a
    /\ accounts' = accounts \cup {[id |-> a, user |-> u, created |-> t]}
    /\ UNCHANGED <<entries, request, cursor, offset, wide, state, seen, page>>

\* A transaction's posting becomes visible.
Post(i, a, t) ==
    /\ Room
    /\ \E b \in accounts : b.id = a
    /\ \A e \in entries : e.id # i
    /\ entries' = entries \cup {[account |-> a, at |-> t, id |-> i]}
    /\ UNCHANGED <<accounts, request, cursor, offset, wide, state, seen, page>>

EntriesOf(a) == {e \in entries : e.account = a}
AccountsOf(u) == {b \in accounts : b.user = u}

\* A client sets out to read a whole listing.
StartEntries(r, u, a) ==
    /\ kind[r] = "none"
    /\ kind' = [kind EXCEPT ![r] = "entries"]
    /\ uid' = [uid EXCEPT ![r] = u]
    /\ account' = [account EXCEPT ![r] = a]
    /\ owed' = [owed EXCEPT ![r] = EntriesOf(a)]
    /\ UNCHANGED <<tables, cursor, offset, wide, state, seen, page>>
StartAccounts(r, u) ==
    /\ kind[r] = "none"
    /\ kind' = [kind EXCEPT ![r] = "accounts"]
    /\ uid' = [uid EXCEPT ![r] = u]
    /\ owed' = [owed EXCEPT ![r] = AccountsOf(u)]
    /\ UNCHANGED <<tables, account, cursor, offset, wide, state, seen, page>>

\* parseInt: what is missing, negative or no number is the default; 0 is not.
parseInt(q) == IF q = None THEN DefaultLimit ELSE q
PageLimit(q) == IF parseInt(q) > MaxLimit THEN MaxLimit ELSE parseInt(q)

\* encodeCursor and decodeCursor keep the pair: occurred_at has microseconds,
\* the cursor nanoseconds.  No cursor is the sentinel.
MutEncodeCursor(e) == [at |-> e.at, id |-> 0]         \* mutant: occurred_at alone
encodeCursor(e) == [at |-> e.at, id |-> e.id]
decodeCursor(c) == IF c = None THEN [at |-> Far, id |-> MaxId] ELSE c

\* (t.occurred_at, p.id) < (cursor)
MutBefore(e, c) == e.at < c.at \/ (e.at = c.at /\ e.id <= c.id)    \* mutant: <=
Before(e, c) == e.at < c.at \/ (e.at = c.at /\ e.id < c.id)
Below(a, c) == {e \in EntriesOf(a) : Before(e, c)}

\* ORDER BY occurred_at DESC, id DESC LIMIT n
Pages(a, c, n) == {P \in SUBSET Below(a, c) :
    /\ Cardinality(P) <= n
    /\ P # Below(a, c) => Cardinality(P) = n
    /\ \A e \in P, f \in Below(a, c) \ P : Before(f, e)}

MutOwnedAccount(u, a) == \E b \in accounts : b.id = a   \* mutant: acc.UserID not compared
ownedAccount(u, a) == \E b \in accounts : b.id = a /\ b.user = u

Answer(r, P) ==
    /\ seen' = [seen EXCEPT ![r] = @ \cup page[r]]
    /\ page' = [page EXCEPT ![r] = P]

\* GET /accounts/{id}/transactions: a full page carries the cursor of its last
\* row.  A request whose answer is lost is repeated as it was.
ListAccountEntries(r, q) ==
    /\ kind[r] = "entries" /\ state[r] = "open"
    /\ ownedAccount(uid[r], account[r])
    /\ PageLimit(q) > 0
    /\ \E P \in Pages(account[r], decodeCursor(cursor[r]), PageLimit(q)) :
         /\ Answer(r, P)
         /\ \/ /\ Cardinality(P) = PageLimit(q)
               /\ \E last \in P : /\ \A e \in P \ {last} : Before(last, e)
                                  /\ cursor' = [cursor EXCEPT ![r] = encodeCursor(last)]
               /\ UNCHANGED state
            \/ /\ Cardinality(P) # PageLimit(q)
               /\ state' = [state EXCEPT ![r] = "ended"]
               /\ UNCHANGED cursor
    /\ UNCHANGED <<tables, request, offset, wide>>

\* 404 for an account that is missing or another user's; with limit 0 the empty
\* page is "full", its last row does not exist, and the panic is answered 500.
EntriesError(r, q) ==
    /\ kind[r] = "entries" /\ state[r] = "open"
    /\ ~ownedAccount(uid[r], account[r]) \/ PageLimit(q) = 0
    /\ state' = [state EXCEPT ![r] = "error"]
    /\ UNCHANGED <<tables, request, cursor, offset, wide, seen, page>>

\* The conversion of an int to int32 wraps.
int32(n) == ((n + MaxInt32 + 1) % (2 * MaxInt32 + 2)) - (MaxInt32 + 1)

\* ORDER BY created_at DESC LIMIT n OFFSET o: the newest o accounts are skipped
\* and the newest n of the others returned; rows of the same created_at come in
\* any order, another one in every query.
Newest(R, n) == {P \in SUBSET R :
    /\ Cardinality(P) <= n
    /\ P # R => Cardinality(P) = n
    /\ \A b \in P, c \in R \ P : b.created >= c.created}
MutWindows(u, n, o) ==                    \* mutant: offset counted from one
    UNION {Newest(AccountsOf(u) \ S, n) : S \in Newest(AccountsOf(u), o + 1)}
Windows(u, n, o) ==
    UNION {Newest(AccountsOf(u) \ S, n) : S \in Newest(AccountsOf(u), o)}

\* GET /accounts: the client asks on where the page ended, until one has fewer
\* rows than it asked for.
List(r, q) ==
    LET n == int32(parseInt(q))
        o == int32(offset[r]) IN
    /\ kind[r] = "accounts" /\ state[r] = "open"
    /\ n >= 0 /\ o >= 0
    /\ \E P \in Windows(uid[r], n, o) :
         /\ Answer(r, P)
         /\ offset' = [offset EXCEPT ![r] = @ + Cardinality(P)]
         /\ state' = IF Cardinality(P) < parseInt(q) THEN [state EXCEPT ![r] = "ended"]
                     ELSE state
    /\ wide' = [wide EXCEPT ![r] = parseInt(q) > MaxInt32]
    /\ UNCHANGED <<tables, request, cursor>>

\* PostgreSQL refuses a negative LIMIT or OFFSET, and the answer is 500.
ListError(r, q) ==
    /\ kind[r] = "accounts" /\ state[r] = "open"
    /\ int32(parseInt(q)) < 0 \/ int32(offset[r]) < 0
    /\ state' = [state EXCEPT ![r] = "error"]
    /\ UNCHANGED <<tables, request, cursor, offset, wide, seen, page>>

Next ==
    \/ \E a \in Accounts, t \in Instants : \/ \E u \in Users : CreateAccount(a, u, t)
                                           \/ \E i \in Ids : Post(i, a, t)
    \/ \E r \in Readers :
         \/ \E u \in Users : StartAccounts(r, u) \/ \E a \in Accounts : StartEntries(r, u, a)
         \/ \E q \in Limits \cup {None} :
              \/ ListAccountEntries(r, q) \/ EntriesError(r, q)
              \/ List(r, q) \/ ListError(r, q)

Spec == Init /\ [][Next]_vars
---------------------------------------------------------------------------
\* Every variable has its type.
TypeOK ==
    /\ accounts \subseteq Account /\ entries \subseteq Entry
    /\ kind \in [Readers -> {"none", "entries", "accounts"}]
    /\ uid \in [Readers -> Users \cup {None}]
    /\ account \in [Readers -> Accounts \cup {None}]
    /\ cursor \in [Readers -> Cursor \cup {None}]
    /\ offset \in [Readers -> Nat] /\ wide \in [Readers -> BOOLEAN]
    /\ state \in [Readers -> {"open", "ended", "error"}]
    /\ seen \in [Readers -> SUBSET (Entry \cup Account)]
    /\ page \in [Readers -> SUBSET (Entry \cup Account)]
    /\ owed \in [Readers -> SUBSET (Entry \cup Account)]

Older(e, f) == e.at < f.at \/ (e.at = f.at /\ e.id < f.id)
Received(r) == seen[r] \cup page[r]

\* Newest first across pages: every entry of a page is older than every entry of
\* the pages before it, so that none is shown twice, whatever was posted between.
EntriesDescend ==
    \A r \in Readers : kind[r] = "entries" =>
        \A e \in page[r], f \in seen[r] : Older(e, f)

\* A listing read to its end has every entry committed before it began, up to
\* the sentinel: 9999-01-01 in decodeCursor.
EntriesComplete ==
    \A r \in Readers : kind[r] = "entries" /\ state[r] = "ended" =>
        \A e \in owed[r] : e.at <= Far => e \in Received(r)

\* ownedAccount: whatever a reader receives is of an account of its user.
OwnRows ==
    \A r \in Readers : \A e \in Received(r) :
        IF kind[r] = "entries"
        THEN e.account = account[r] /\ \E b \in accounts : b.id = e.account /\ b.user = uid[r]
        ELSE e.user = uid[r]

\* Another account of the user has the same created_at.
Tied(b) == \E c \in accounts : c # b /\ c.user = b.user /\ c.created = b.created

\* Offsets shift when an account is created between two pages.  No account that
\* was there is skipped for it, and a row is repeated only then.  Excepted are
\* accounts tied in created_at, whose order may change from page to page, and a
\* last page whose limit does not fit an int32: it may be short for that alone.
AccountsComplete ==
    \A r \in Readers : kind[r] = "accounts" =>
        /\ state[r] = "ended" /\ ~wide[r] =>
             \A b \in owed[r] : b \in Received(r) \/ Tied(b)
        /\ \A b \in page[r] \cap seen[r] : owed[r] # AccountsOf(uid[r]) \/ Tied(b)
=============================================================================
