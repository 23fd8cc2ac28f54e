---------------------------- MODULE RateLimiter ----------------------------
(***************************************************************************)
(* The token bucket in Redis that every request passes.  A goroutine reads *)
(* its instance's clock, then runs the Lua script, which Redis executes    *)
(* atomically; between the two any number of other scripts may run, so the *)
(* script can see a now older than the bucket's last refill.               *)
(***************************************************************************)
EXTENDS Integers, FiniteSets

CONSTANTS
    Procs,       \* request goroutines, of all instances
    Keys,        \* "user:<id>" and "ip:<host>"
    Configs,     \* [capacity, rate] as read from the environment
    Skew,        \* how far the clock of an instance may be ahead
    MaxClock,    \* bound: seconds in a behaviour
    MaxRequests, \* bound: requests in a behaviour
    Absent       \* GET of a missing key

ASSUME ConstantsAssumption ==
    /\ Configs \subseteq [capacity : Int, rate : Int]
    /\ Skew \in Nat /\ MaxClock \in Nat /\ MaxRequests \in Nat
    /\ Absent \notin Int

VARIABLES
    capacity, rate,      \* fields of RateLimiter
    clock,               \* seconds, on the slowest instance
    tokens, timestamp,   \* the two Redis keys of every bucket
    pc, key, now,        \* per goroutine: where it is, its bucket, its time
    requests,            \* requests so far
    admitted,            \* history: admissions of a bucket in its window
    since,               \* history: timestamp when the window was opened
    answers              \* history: [now, last, status] of the goroutine's last answer

bucket == <<tokens, timestamp>>
history == <<admitted, since, answers>>
vars == <<capacity, rate, clock, bucket, pc, key, now, requests, history>>

Min2(a, b) == IF a <= b THEN a ELSE b
Max2(a, b) == IF a >= b THEN a ELSE b

\* NewRateLimiter: a bucket holds a token and gets one a second at least.
MutNewRateLimiter(c) ==                   \* mutant: capacity taken as it is
    [capacity |-> c.capacity, rate |-> IF c.rate <= 0 THEN 1 ELSE c.rate]
NewRateLimiter(c) ==
    [capacity |-> IF c.capacity > 0 THEN c.capacity
                  ELSE IF c.rate > 0 THEN c.rate ELSE 1,
     rate     |-> IF c.rate <= 0 THEN 1 ELSE c.rate]

Init ==
    /\ \E c \in Configs : /\ capacity = NewRateLimiter(c).capacity
                          /\ rate = NewRateLimiter(c).rate
    /\ clock = 0
    /\ tokens = [k \in Keys |-> Absent]
    /\ timestamp = [k \in Keys |-> Absent]
    /\ pc = [p \in Procs |-> "idle"]
    /\ key = [p \in Procs |-> Absent]
    /\ now = [p \in Procs |-> 0]
    /\ requests = 0
    /\ admitted = [k \in Keys |-> 0]
    /\ since = [k \in Keys |-> 0]
    /\ answers = [p \in Procs |-> [now |-> 0, last |-> 0, status |-> "none"]]

Tick ==
    /\ clock < MaxClock
    /\ clock' = clock + 1
    /\ UNCHANGED <<capacity, rate, bucket, pc, key, now, requests, history>>

\* The middleware picks the bucket and allow reads time.Now().Unix().
Arrive(p, k) ==
    /\ pc[p] = "idle"
    /\ requests < MaxRequests
    /\ requests' = requests + 1
    /\ pc' = [pc EXCEPT ![p] = "script"]
    /\ key' = [key EXCEPT ![p] = k]
    /\ \E d \in 0..Skew : now' = [now EXCEPT ![p] = clock + d]
    /\ UNCHANGED <<capacity, rate, clock, bucket, history>>

\* The Lua script.
Stored(k) == IF tokens[k] = Absent THEN capacity ELSE tokens[k]
LastRefill(k, t) == IF timestamp[k] = Absent THEN t ELSE timestamp[k]
Refill(k, t) == Max2(0, t - LastRefill(k, t)) * rate
Tokens(k, t) == Min2(capacity, Stored(k) + Refill(k, t))
MutRefilledAt(k, t) == t                             \* mutant: last_refill = now always
RefilledAt(k, t) == IF Refill(k, t) > 0 THEN t ELSE LastRefill(k, t)
Allowed(k, t) == Tokens(k, t) > 0

Script(k, t) ==
    /\ tokens' = [tokens EXCEPT ![k] = IF Allowed(k, t) THEN Tokens(k, t) - 1
                                       ELSE Tokens(k, t)]
    /\ timestamp' = [timestamp EXCEPT ![k] = RefilledAt(k, t)]
    /\ since' = [since EXCEPT ![k] = IF timestamp[k] = Absent THEN t ELSE @]

Answer(p, status) ==
    /\ pc' = [pc EXCEPT ![p] = "idle"]
    /\ answers' = [answers EXCEPT ![p] = [now |-> now[p], last |-> LastRefill(key[p], now[p]),
                                          status |-> status]]

\* The script ran and its reply came back: the request goes on, or is refused.
Allow(p) ==
    LET k == key[p] IN
    /\ pc[p] = "script"
    /\ Script(k, now[p])
    /\ Answer(p, IF Allowed(k, now[p]) THEN "next" ELSE "TooManyRequests")
    /\ admitted' = [admitted EXCEPT ![k] = IF Allowed(k, now[p]) THEN @ + 1 ELSE @]
    /\ UNCHANGED <<capacity, rate, clock, key, now, requests>>

\* Redis cannot be reached; or the script ran and its reply is lost.  Fail
\* closed either way.
MutUnavailable(p) ==                      \* mutant: fail open
    /\ pc[p] = "script"
    /\ Answer(p, "next")
    /\ admitted' = [admitted EXCEPT ![key[p]] = @ + 1]
    /\ UNCHANGED <<capacity, rate, clock, bucket, key, now, requests, since>>
Unavailable(p) ==
    /\ pc[p] = "script"
    /\ Answer(p, "ServiceUnavailable")
    /\ \/ UNCHANGED <<bucket, since>>
       \/ Script(key[p], now[p])
    /\ UNCHANGED <<capacity, rate, clock, key, now, requests, admitted>>

\* History only: a window of observation is opened on a bucket.
OpenWindow(k) ==
    /\ timestamp[k] # Absent
    /\ admitted[k] # 0
    /\ admitted' = [admitted EXCEPT ![k] = 0]
    /\ since' = [since EXCEPT ![k] = timestamp[k]]
    /\ UNCHANGED <<capacity, rate, clock, bucket, pc, key, now, requests, answers>>

Next ==
    \/ Tick
    \/ \E p \in Procs : \/ \E k \in Keys : Arrive(p, k)
                        \/ Allow(p)
                        \/ Unavailable(p)
    \/ \E k \in Keys : OpenWindow(k)

Spec == Init /\ [][Next]_vars
---------------------------------------------------------------------------
\* What becomes of a request: next.ServeHTTP, or an error.
Statuses == {"none", "next", "TooManyRequests", "ServiceUnavailable"}

\* Every variable has its type; a bucket has both of its keys or none.
TypeOK ==
    /\ capacity \in Nat \ {0} /\ rate \in Nat \ {0}
    /\ clock \in Nat
    /\ tokens \in [Keys -> Nat \cup {Absent}]
    /\ timestamp \in [Keys -> Nat \cup {Absent}]
    /\ \A k \in Keys : tokens[k] = Absent <=> timestamp[k] = Absent
    /\ pc \in [Procs -> {"idle", "script"}]
    /\ key \in [Procs -> Keys \cup {Absent}]
    /\ \A p \in Procs : pc[p] = "script" => key[p] \in Keys
    /\ now \in [Procs -> Nat]
    /\ requests \in Nat
    /\ admitted \in [Keys -> Nat]
    /\ since \in [Keys -> Nat]
    /\ answers \in [Procs -> [now : Nat, last : Nat, status : Statuses]]
    /\ \A k \in Keys : timestamp[k] = Absent => admitted[k] = 0

\* The limit: in any window of a bucket's own time, the requests admitted and
\* the tokens still in the bucket are no more than a full bucket and the rate
\* for the seconds that passed, whatever the scripts' order, the skew of the
\* instances' clocks and the replies lost.
Limit ==
    \A k \in Keys : timestamp[k] # Absent =>
        admitted[k] + tokens[k] <= capacity + rate * (timestamp[k] - since[k])

\* Bursts: a bucket never holds more than capacity.
Burst == \A k \in Keys : tokens[k] # Absent => tokens[k] <= capacity

\* Time in a bucket never runs backwards: a script with an old now leaves the
\* timestamp where it is, so the seconds in between are not credited twice.
Forward ==
    [][\A k \in Keys : timestamp[k] # Absent =>
           timestamp'[k] # Absent /\ timestamp'[k] >= timestamp[k]]_vars

\* No starvation: a request whose clock is past the last refill is never
\* refused, whatever capacity and rate were configured.
WaitersServed ==
    \A p \in Procs : answers[p].status = "TooManyRequests" => answers[p].now <= answers[p].last
=============================================================================
