-------------------------------- MODULE Auth --------------------------------
(***************************************************************************)
(* Registration, login and the tokens that /v1 asks for, on instances with *)
(* clocks of their own: clients race for an address, in any spelling of    *)
(* it, their answers are lost, and tokens expire.  A password is known by  *)
(* its length and by the key that bcrypt makes of it.                      *)
(***************************************************************************)
EXTENDS Integers

CONSTANTS
    Clients,
    Instances,
    Names,         \* addresses, whatever their spelling
    NoAt,          \* the names that are no address: empty, or without "@"
    Spellings,     \* upper and lower case, blanks around
    Lower,         \* the spelling of TrimSpace(ToLower(email))
    Passwords,
    Length,        \* their lengths
    MinLength,     \* 8
    MaxLength,     \* bcrypt's 72
    Key,           \* the password up to what bcrypt reads of it: 72 bytes
    TTL,           \* 24 h
    ClockSkew,     \* how far two clocks are apart
    MaxIds,        \* bound: ids taken from the sequence of users
    MaxTime,       \* bound: the clocks
    None           \* no token

Email == [name : Names, spelling : Spellings]
Credentials == [email : Email, password : Passwords]

ASSUME AuthAssumption ==
    /\ NoAt \subseteq Names /\ Lower \in Spellings
    /\ Length \in [Passwords -> Nat] /\ MinLength \in Nat /\ MaxLength \in Nat
    /\ Key \in [Passwords -> Passwords]
    /\ TTL \in Nat /\ ClockSkew \in Nat /\ MaxIds \in Nat /\ MaxTime \in Nat

VARIABLES
    users,      \* rows of users: [id, email, password]
    nextId,     \* their sequence
    clocks,     \* per instance
    session,    \* per client: its token, with the credentials it was sent for, or None
    use         \* history: the last token shown, [ok, age], age by the clock it met

AuthVars == <<users, nextId, clocks, session, use>>

AuthInit ==
    /\ users = {} /\ nextId = 1
    /\ clocks = [i \in Instances |-> 0]
    /\ session = [c \in Clients |-> None]
    /\ use = [ok |-> FALSE, age |-> TTL]

Advance(i) ==
    /\ clocks[i] < MaxTime
    /\ \A j \in Instances : clocks[i] + 1 - clocks[j] <= ClockSkew
    /\ clocks' = [clocks EXCEPT ![i] = @ + 1]
    /\ UNCHANGED <<users, nextId, session, use>>

Normal(e) == [e EXCEPT !.spelling = Lower]

\* What credentials.validate and bcrypt let through.
validate(cr) ==
    /\ cr.email.name \notin NoAt
    /\ Length[cr.password] >= MinLength /\ Length[cr.password] <= MaxLength

\* GenerateJWT; at is history, the clocks when the token was issued.
Expiry(i) == clocks[i] + TTL
GenerateJWT(u, i, cr) == [user |-> u, exp |-> Expiry(i), at |-> clocks, for |-> cr]

\* The client gets the token, or the answer is lost.
Reply(c, token) == session' \in {session, [session EXCEPT ![c] = token]}

\* POST /auth/register.  The unique index decides between racing clients; the
\* failed INSERT has used its id.  After another failure of the database, which
\* may have committed, the answer is 409 all the same.
MutTaken(e) == FALSE                       \* mutant: no unique index
Taken(e) == \E u \in users : u.email = e
Register(c, i, cr) ==
    LET e == Normal(cr.email)
        row == [id |-> nextId, email |-> e, password |-> cr.password] IN
    /\ validate(cr)
    /\ nextId <= MaxIds
    /\ nextId' = nextId + 1
    /\ \/ /\ ~Taken(e)
          /\ users' = users \cup {row}
          /\ Reply(c, GenerateJWT(nextId, i, cr))
       \/ UNCHANGED <<users, session>>
    /\ UNCHANGED <<clocks, use>>

\* POST /auth/login: GetUserByEmail, CheckPassword.  HashPassword refuses what is
\* longer than 72 bytes; CompareHashAndPassword cuts it there, and Login does not
\* look at the length.
MutCheckPassword(u, cr) == TRUE            \* mutant: the result ignored
CheckPassword(u, cr) == Key[u.password] = Key[cr.password]
MutLoginEmail(cr) == cr.email              \* mutant: not normalised
LoginEmail(cr) == Normal(cr.email)
Matches(u, cr) == u.email = LoginEmail(cr) /\ CheckPassword(u, cr)
Login(c, i, cr) ==
    /\ \E u \in users : Matches(u, cr) /\ Reply(c, GenerateJWT(u.id, i, cr))
    /\ UNCHANGED <<users, nextId, clocks, use>>

\* AuthMiddleware: ParseJWT on any instance.
MutParseJWT(t, i) == TRUE                  \* mutant: no expiry required
ParseJWT(t, i) == clocks[i] < t.exp
Request(c, i) ==
    /\ session[c] # None
    /\ use' = [ok |-> ParseJWT(session[c], i), age |-> clocks[i] - session[c].at[i]]
    /\ UNCHANGED <<users, nextId, clocks, session>>

AuthNext ==
    \/ \E i \in Instances : Advance(i)
    \/ \E c \in Clients, i \in Instances :
         \/ Request(c, i)
         \/ \E cr \in Credentials : Register(c, i, cr) \/ Login(c, i, cr)

AuthSpec == AuthInit /\ [][AuthNext]_AuthVars
---------------------------------------------------------------------------
\* An address has one user, however it is spelled and whoever races for it.
OneUserPerAddress == \A u, v \in users : u.email.name = v.email.name => u = v

\* A token names the user with the address it was issued for, also when another
\* client registered it meanwhile, and that user's password agrees with the one
\* it was issued for in the 72 bytes that bcrypt reads.
TokenNamesOwner ==
    \A c \in Clients : session[c] # None =>
        \E u \in users : /\ u.id = session[c].user
                         /\ u.email.name = session[c].for.email.name
                         /\ Key[u.password] = Key[session[c].for.password]

\* Whoever registered can log in: a lost answer or a 409 to the retry locks
\* nobody out, and no spelling of the address does.
LoginWorks ==
    \A u \in users, s \in Spellings :
        \E v \in users : /\ Matches(v, [email |-> [u.email EXCEPT !.spelling = s],
                                        password |-> u.password])
                         /\ v.id = u.id

\* A token is accepted while it is younger than its lifetime and refused
\* afterwards, up to the skew between the clocks of the two instances.
TokenLifetime == IF use.ok THEN use.age < TTL + ClockSkew ELSE use.age >= TTL - ClockSkew
=============================================================================
