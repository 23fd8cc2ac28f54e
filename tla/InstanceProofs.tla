--------------------------- MODULE InstanceProofs ---------------------------
(***************************************************************************)
(* What stands around the handlers of an instance: the rate limiter and    *)
(* the tokens of the middleware, and the shutdown.  First the limit, for   *)
(* every capacity and rate in the environment, any number of goroutines    *)
(* and buckets, any skew and any order of scripts.                         *)
(***************************************************************************)
EXTENDS RateLimiter, Server, Auth, TLAPS

IInv == TypeOK /\ Limit /\ Burst

\* rate * seconds adds up over consecutive stretches of time.
LEMMA Distributes ==
  ASSUME NEW r \in Int, NEW a \in Int, NEW b \in Int, NEW c \in Int
  PROVE  r * (a - c) = (a - b) * r + r * (b - c)
OBVIOUS

\* The refill of the script: nothing for a now that is not past the last
\* refill, at least a token for one that is.
LEMMA RefillFacts ==
  ASSUME NEW r \in Nat \ {0}, NEW d \in Int
  PROVE  /\ Max2(0, d) * r \in Nat
         /\ d <= 0 => Max2(0, d) * r = 0
         /\ d > 0 => Max2(0, d) * r = d * r /\ d * r >= 1
<1>1. CASE d <= 0
  BY <1>1 DEF Max2
<1>2. CASE d > 0
  <2>1. Max2(0, d) = d
    BY <1>2 DEF Max2
  <2>2. d * r \in Nat /\ d * r >= 1
    BY <1>2
  <2>. QED
    BY <1>2, <2>1, <2>2
<1>. QED
  BY <1>1, <1>2

\* What the Lua script computes from a bucket that satisfies the invariant: the
\* time of the refill, and a level within capacity that the elapsed seconds
\* account for.
LEMMA LevelFacts ==
  ASSUME IInv, NEW k \in Keys, NEW t \in Nat
  PROVE  /\ LastRefill(k, t) \in Nat /\ RefilledAt(k, t) \in Nat
         /\ RefilledAt(k, t) >= LastRefill(k, t)
         /\ Tokens(k, t) \in Nat /\ Tokens(k, t) <= capacity
         /\ timestamp[k] # Absent =>
              admitted[k] + Tokens(k, t) <= capacity + rate * (RefilledAt(k, t) - since[k])
         /\ timestamp[k] = Absent => RefilledAt(k, t) = t /\ admitted[k] = 0
         /\ t > LastRefill(k, t) => Tokens(k, t) > 0
<1> DEFINE l == LastRefill(k, t)
           f == Refill(k, t)
           s == Stored(k)
           c == Tokens(k, t)
           n == RefilledAt(k, t)
<1>0. /\ capacity \in Nat \ {0} /\ rate \in Nat \ {0} /\ admitted[k] \in Nat /\ since[k] \in Nat
      /\ timestamp[k] \in Nat \cup {Absent} /\ tokens[k] \in Nat \cup {Absent}
      /\ tokens[k] = Absent <=> timestamp[k] = Absent
      /\ timestamp[k] = Absent => admitted[k] = 0
  BY DEF IInv, TypeOK
<1>1. l \in Nat /\ (timestamp[k] = Absent => l = t)
      /\ (timestamp[k] # Absent => l = timestamp[k])
  BY <1>0 DEF LastRefill
<1>2. s \in Nat /\ s <= capacity
      /\ (timestamp[k] # Absent => admitted[k] + s <= capacity + rate * (l - since[k]))
  BY <1>0, <1>1 DEF Stored, IInv, Burst, Limit
<1>3. /\ f \in Nat
      /\ t - l <= 0 => f = 0
      /\ t - l > 0 => f = (t - l) * rate /\ f >= 1
  <2>1. t - l \in Int /\ f = Max2(0, t - l) * rate
    BY <1>1 DEF Refill
  <2>. QED
    BY Zenon, <1>0, <2>1, RefillFacts
<1>4. c = Min2(capacity, s + f) /\ n = IF f > 0 THEN t ELSE l
  BY DEF Tokens, RefilledAt
<1> HIDE DEF l, f, s, c, n
<1>5. c \in Nat /\ c <= capacity /\ c <= s + f /\ (t > l => c > 0)
  <2>1. t > l => f >= 1
    BY <1>1, <1>3
  <2>. QED
    BY <1>0, <1>2, <1>3, <1>4, <2>1 DEF Min2
<1>6. n \in Nat /\ n >= l
  BY <1>1, <1>3, <1>4
<1>7. ASSUME timestamp[k] # Absent
      PROVE  admitted[k] + c <= capacity + rate * (n - since[k])
  <2>1. CASE t - l <= 0
    <3>1. f = 0 /\ n = l
      BY <1>3, <1>4, <2>1
    <3>2. c <= s
      BY <1>2, <1>5, <3>1
    <3> DEFINE y == rate * (l - since[k])
    <3>3. y \in Int /\ admitted[k] + s <= capacity + y
      BY <1>0, <1>1, <1>2, <1>7
    <3>4. admitted[k] + c <= capacity + y
      <4> HIDE DEF y
      <4>. QED
        BY <1>0, <1>2, <1>5, <3>2, <3>3
    <3>. QED
      BY <3>1, <3>4
  <2>2. CASE t - l > 0
    <3>1. f = (t - l) * rate /\ n = t
      BY <1>3, <1>4, <2>2
    <3>0. rate \in Int /\ t \in Int /\ l \in Int /\ since[k] \in Int
      BY <1>0, <1>1
    <3>2. rate * (t - since[k]) = (t - l) * rate + rate * (l - since[k])
      BY <3>0, Distributes
    <3>3. (t - l) * rate \in Int /\ rate * (l - since[k]) \in Int
          /\ rate * (t - since[k]) \in Int
      BY <1>0, <1>1
    <3> DEFINE x == (t - l) * rate
               y == rate * (l - since[k])
    <3>4. admitted[k] + c <= capacity + (x + y)
      <4>1. x \in Int /\ y \in Int /\ c <= s + x /\ admitted[k] + s <= capacity + y
        BY <1>2, <1>5, <1>7, <3>1, <3>3
      <4> HIDE DEF x, y
      <4>. QED
        BY <1>0, <1>2, <1>5, <4>1
    <3>. QED
      BY <3>1, <3>2, <3>4
  <2>. QED
    BY <1>1, <2>1, <2>2
<1>8. timestamp[k] = Absent => n = t /\ admitted[k] = 0
  BY <1>0, <1>1, <1>3, <1>4
<1>. QED
  BY <1>1, <1>5, <1>6, <1>7, <1>8 DEF l, c, n

\* One run of the script on a bucket: the other buckets stay, and this one has
\* both keys, within capacity, with the level the seconds account for.
LEMMA ScriptFacts ==
  ASSUME IInv, NEW k \in Keys, NEW t \in Nat, Script(k, t)
  PROVE  /\ tokens' \in [Keys -> Nat \cup {Absent}] /\ timestamp' \in [Keys -> Nat \cup {Absent}]
         /\ since' \in [Keys -> Nat]
         /\ \A j \in Keys \ {k} : /\ tokens'[j] = tokens[j] /\ timestamp'[j] = timestamp[j]
                                 /\ since'[j] = since[j]
         /\ tokens'[k] \in Nat /\ timestamp'[k] \in Nat /\ tokens'[k] <= capacity
         /\ tokens'[k] = Tokens(k, t) - (IF Allowed(k, t) THEN 1 ELSE 0)
         /\ admitted[k] + Tokens(k, t) <= capacity + rate * (timestamp'[k] - since'[k])
         /\ timestamp[k] # Absent => timestamp'[k] >= timestamp[k]
<1>1. /\ LastRefill(k, t) \in Nat /\ RefilledAt(k, t) \in Nat
      /\ RefilledAt(k, t) >= LastRefill(k, t)
      /\ Tokens(k, t) \in Nat /\ Tokens(k, t) <= capacity
      /\ timestamp[k] # Absent =>
           admitted[k] + Tokens(k, t) <= capacity + rate * (RefilledAt(k, t) - since[k])
      /\ timestamp[k] = Absent => RefilledAt(k, t) = t /\ admitted[k] = 0
  BY Zenon, LevelFacts
<1>2. /\ capacity \in Nat /\ rate \in Nat
      /\ tokens \in [Keys -> Nat \cup {Absent}] /\ timestamp \in [Keys -> Nat \cup {Absent}]
      /\ since \in [Keys -> Nat]
  BY Zenon DEF IInv, TypeOK
<1>3. /\ tokens'[k] = IF Tokens(k, t) > 0 THEN Tokens(k, t) - 1 ELSE Tokens(k, t)
      /\ timestamp'[k] = RefilledAt(k, t)
      /\ since'[k] = IF timestamp[k] = Absent THEN t ELSE since[k]
      /\ \A j \in Keys \ {k} : /\ tokens'[j] = tokens[j] /\ timestamp'[j] = timestamp[j]
                              /\ since'[j] = since[j]
  BY <1>2 DEF Script, Allowed
<1>4. tokens'[k] \in Nat /\ tokens'[k] <= capacity
      /\ tokens'[k] = Tokens(k, t) - (IF Allowed(k, t) THEN 1 ELSE 0)
  BY <1>1, <1>2, <1>3 DEF Allowed
<1>5. /\ tokens' \in [Keys -> Nat \cup {Absent}] /\ timestamp' \in [Keys -> Nat \cup {Absent}]
      /\ since' \in [Keys -> Nat]
  <2>1. /\ tokens' = [tokens EXCEPT ![k] = tokens'[k]]
        /\ timestamp' = [timestamp EXCEPT ![k] = timestamp'[k]]
        /\ since' = [since EXCEPT ![k] = since'[k]]
    BY <1>2 DEF Script
  <2>2. timestamp'[k] \in Nat /\ since'[k] \in Nat
    BY Zenon, <1>1, <1>2, <1>3
  <2>. QED
    BY Zenon, <1>2, <1>4, <2>1, <2>2
<1>6. admitted[k] + Tokens(k, t) <= capacity + rate * (timestamp'[k] - since'[k])
  <2>1. CASE timestamp[k] = Absent
    <3>1. timestamp'[k] - since'[k] = 0 /\ admitted[k] = 0
      BY <1>1, <1>3, <2>1
    <3>2. rate * 0 = 0
      BY <1>2
    <3>. QED
      BY <1>1, <1>2, <3>1, <3>2
  <2>2. CASE timestamp[k] # Absent
    BY Zenon, <1>1, <1>3, <2>2
  <2>. QED
    BY Zenon, <2>1, <2>2
<1>7. timestamp[k] # Absent => timestamp'[k] >= timestamp[k]
  BY Zenon, <1>1, <1>3 DEF LastRefill
<1>. QED
  BY Zenon, <1>1, <1>3, <1>4, <1>5, <1>6, <1>7

\* What answering leaves the goroutine with.
LEMMA AnswerFacts ==
  ASSUME IInv, NEW p \in Procs, pc[p] = "script",
         NEW status \in Statuses, Answer(p, status)
  PROVE  /\ key[p] \in Keys /\ now[p] \in Nat
         /\ pc' \in [Procs -> {"idle", "script"}]
         /\ \A q \in Procs : pc'[q] = "script" => pc[q] = "script"
         /\ answers' \in [Procs -> [now : Nat, last : Nat, status : Statuses]]
<1>1. key[p] \in Keys /\ now[p] \in Nat
  BY DEF IInv, TypeOK
<1>2. LastRefill(key[p], now[p]) \in Nat
  BY Zenon, <1>1, LevelFacts
<1>3. [now |-> now[p], last |-> LastRefill(key[p], now[p]), status |-> status]
        \in [now : Nat, last : Nat, status : Statuses]
  BY Zenon, <1>1, <1>2
<1>4. answers' \in [Procs -> [now : Nat, last : Nat, status : Statuses]]
  BY Zenon, <1>3 DEF Answer, IInv, TypeOK
<1>. QED
  BY Zenon, <1>1, <1>4 DEF Answer, IInv, TypeOK

\* A script whose reply arrives preserves the invariant: the token it takes is
\* the admission it counts.
LEMMA AllowInv == ASSUME IInv, NEW p \in Procs, Allow(p) PROVE IInv'
<1> DEFINE k == key[p]
<1>0. /\ pc[p] = "script" /\ Script(k, now[p])
      /\ Answer(p, IF Allowed(k, now[p]) THEN "next" ELSE "TooManyRequests")
      /\ admitted' = [admitted EXCEPT ![k] = IF Allowed(k, now[p]) THEN @ + 1 ELSE @]
      /\ UNCHANGED <<capacity, rate, clock, key, now, requests>>
  BY Zenon DEF Allow
<1>1. /\ k \in Keys /\ now[p] \in Nat
      /\ pc' \in [Procs -> {"idle", "script"}]
      /\ \A q \in Procs : pc'[q] = "script" => pc[q] = "script"
      /\ answers' \in [Procs -> [now : Nat, last : Nat, status : Statuses]]
  BY Zenon, <1>0, AnswerFacts DEF Statuses
<1> HIDE DEF k
<1>2. /\ tokens' \in [Keys -> Nat \cup {Absent}] /\ timestamp' \in [Keys -> Nat \cup {Absent}]
      /\ since' \in [Keys -> Nat]
      /\ \A j \in Keys \ {k} : /\ tokens'[j] = tokens[j] /\ timestamp'[j] = timestamp[j]
                              /\ since'[j] = since[j]
      /\ tokens'[k] \in Nat /\ timestamp'[k] \in Nat /\ tokens'[k] <= capacity
      /\ tokens'[k] = Tokens(k, now[p]) - (IF Allowed(k, now[p]) THEN 1 ELSE 0)
      /\ admitted[k] + Tokens(k, now[p]) <= capacity + rate * (timestamp'[k] - since'[k])
  BY Zenon, <1>0, <1>1, ScriptFacts
<1>3. /\ admitted \in [Keys -> Nat] /\ admitted[k] \in Nat
      /\ \A j \in Keys \ {k} : admitted'[j] = admitted[j]
      /\ admitted'[k] = admitted[k] + (IF Allowed(k, now[p]) THEN 1 ELSE 0)
      /\ admitted' \in [Keys -> Nat]
      /\ Absent \notin Nat
  BY <1>0, <1>1, ConstantsAssumption DEF IInv, TypeOK
<1>4. TypeOK'
  BY <1>0, <1>1, <1>2, <1>3 DEF IInv, TypeOK
<1>5. Limit'
  <2>1. admitted'[k] + tokens'[k] = admitted[k] + Tokens(k, now[p])
    <3>1. Tokens(k, now[p]) \in Nat
      BY Zenon, <1>1, LevelFacts
    <3>. QED
      BY <1>2, <1>3, <3>1
  <2>. QED
    BY Zenon, <1>0, <1>2, <1>3, <2>1 DEF IInv, Limit
<1>6. Burst'
  BY Zenon, <1>0, <1>2 DEF IInv, Burst
<1>. QED
  BY <1>4, <1>5, <1>6 DEF IInv

\* A script that could not run, or whose reply is lost, preserves the
\* invariant: the request is not admitted, its token at most spent.
LEMMA UnavailableInv == ASSUME IInv, NEW p \in Procs, Unavailable(p) PROVE IInv'
<1> DEFINE k == key[p]
<1>0. /\ pc[p] = "script" /\ Answer(p, "ServiceUnavailable")
      /\ UNCHANGED <<capacity, rate, clock, key, now, requests, admitted>>
  BY Zenon DEF Unavailable
<1>1. /\ k \in Keys /\ now[p] \in Nat
      /\ pc' \in [Procs -> {"idle", "script"}]
      /\ \A q \in Procs : pc'[q] = "script" => pc[q] = "script"
      /\ answers' \in [Procs -> [now : Nat, last : Nat, status : Statuses]]
  BY Zenon, <1>0, AnswerFacts DEF Statuses
<1>2. CASE UNCHANGED <<bucket, since>>
  <2>1. TypeOK'
    BY Zenon, <1>0, <1>1, <1>2 DEF bucket, IInv, TypeOK
  <2>2. Limit' /\ Burst'
    BY Zenon, <1>0, <1>2 DEF bucket, IInv, Limit, Burst
  <2>. QED
    BY <2>1, <2>2 DEF IInv
<1>3. CASE Script(k, now[p])
  <2> HIDE DEF k
  <2>2. /\ tokens' \in [Keys -> Nat \cup {Absent}] /\ timestamp' \in [Keys -> Nat \cup {Absent}]
        /\ since' \in [Keys -> Nat]
        /\ \A j \in Keys \ {k} : /\ tokens'[j] = tokens[j] /\ timestamp'[j] = timestamp[j]
                                /\ since'[j] = since[j]
        /\ tokens'[k] \in Nat /\ timestamp'[k] \in Nat /\ tokens'[k] <= capacity
        /\ tokens'[k] = Tokens(k, now[p]) - (IF Allowed(k, now[p]) THEN 1 ELSE 0)
        /\ admitted[k] + Tokens(k, now[p]) <= capacity + rate * (timestamp'[k] - since'[k])
    BY Zenon, <1>1, <1>3, ScriptFacts
  <2>3. TypeOK'
    BY <1>0, <1>1, <2>2, ConstantsAssumption DEF IInv, TypeOK
  <2>4. Limit'
    <3> DEFINE y == rate * (timestamp'[k] - since'[k])
    <3>1. Tokens(k, now[p]) \in Nat /\ admitted[k] \in Nat /\ capacity \in Nat /\ y \in Int
      BY <1>1, <2>2, LevelFacts DEF IInv, TypeOK
    <3>2. admitted[k] + Tokens(k, now[p]) <= capacity + y
      BY Zenon, <2>2
    <3>3. admitted[k] + tokens'[k] <= capacity + y
      <4> HIDE DEF y
      <4>. QED
        BY ONLY <2>2, <3>1, <3>2
    <3>. QED
      BY Zenon, <1>0, <2>2, <3>3 DEF IInv, Limit
  <2>5. Burst'
    BY Zenon, <1>0, <2>2 DEF IInv, Burst
  <2>. QED
    BY <2>3, <2>4, <2>5 DEF IInv
<1>. QED
  BY Zenon, <1>2, <1>3 DEF Unavailable

\* Time passing preserves the invariant.
LEMMA TickInv == ASSUME IInv, Tick PROVE IInv'
<1>1. TypeOK'
  BY DEF Tick, bucket, history, IInv, TypeOK
<1>2. Limit' /\ Burst'
  BY Zenon DEF Tick, bucket, history, IInv, Limit, Burst
<1>. QED
  BY <1>1, <1>2 DEF IInv

\* A request that arrives and reads its instance's clock preserves it.
LEMMA ArriveInv == ASSUME IInv, NEW p \in Procs, NEW k \in Keys, Arrive(p, k) PROVE IInv'
<1>0. UNCHANGED <<capacity, rate, clock, tokens, timestamp, admitted, since, answers>>
  BY DEF Arrive, bucket, history
<1>1. now' \in [Procs -> Nat]
  <2>1. PICK d \in 0..Skew : now' = [now EXCEPT ![p] = clock + d]
    BY Zenon DEF Arrive
  <2>2. clock + d \in Nat
    BY ConstantsAssumption DEF IInv, TypeOK
  <2>. QED
    BY Zenon, <2>1, <2>2 DEF IInv, TypeOK
<1>2. /\ requests' \in Nat
      /\ pc' \in [Procs -> {"idle", "script"}]
      /\ key' \in [Procs -> Keys \cup {Absent}]
      /\ \A q \in Procs : pc'[q] = "script" => key'[q] \in Keys
  BY DEF Arrive, IInv, TypeOK
<1>3. TypeOK'
  BY Zenon, <1>0, <1>1, <1>2 DEF IInv, TypeOK
<1>4. Limit' /\ Burst'
  BY Zenon, <1>0 DEF IInv, Limit, Burst
<1>. QED
  BY <1>3, <1>4 DEF IInv

\* Opening a window on a bucket preserves the invariant: a bucket within
\* capacity satisfies the limit of a window that starts now.
LEMMA OpenWindowInv == ASSUME IInv, NEW k \in Keys, OpenWindow(k) PROVE IInv'
<1>0. /\ UNCHANGED <<capacity, rate, clock, tokens, timestamp, pc, key, now, requests, answers>>
      /\ timestamp[k] # Absent
      /\ admitted' = [admitted EXCEPT ![k] = 0]
      /\ since' = [since EXCEPT ![k] = timestamp[k]]
  BY Zenon DEF OpenWindow, bucket
<1>1. /\ timestamp[k] \in Nat /\ tokens[k] \in Nat /\ tokens[k] <= capacity
      /\ capacity \in Nat /\ rate \in Nat
  BY Zenon, <1>0, ConstantsAssumption DEF IInv, TypeOK, Burst
<1>2. TypeOK'
  BY Zenon, <1>0, <1>1 DEF IInv, TypeOK
<1>3. Limit'
  <2>1. rate * (timestamp[k] - timestamp[k]) = 0
    BY <1>1
  <2>2. admitted'[k] + tokens'[k] <= capacity' + rate' * (timestamp'[k] - since'[k])
    BY <1>0, <1>1, <2>1 DEF IInv, TypeOK
  <2>3. \A j \in Keys \ {k} : admitted'[j] = admitted[j] /\ since'[j] = since[j]
    BY Zenon, <1>0 DEF IInv, TypeOK
  <2>. QED
    BY Zenon, <1>0, <2>2, <2>3 DEF IInv, Limit
<1>4. Burst'
  BY Zenon, <1>0 DEF IInv, Burst
<1>. QED
  BY <1>2, <1>3, <1>4 DEF IInv

\* NewRateLimiter makes a bucket that can admit, whatever it is given.
LEMMA InitInv == Init => IInv
<1> SUFFICES ASSUME Init PROVE IInv
  OBVIOUS
<1>1. capacity \in Nat \ {0} /\ rate \in Nat \ {0}
  <2>1. PICK c \in Configs : /\ capacity = NewRateLimiter(c).capacity
                             /\ rate = NewRateLimiter(c).rate
    BY Zenon DEF Init
  <2>2. c.capacity \in Int /\ c.rate \in Int
    BY ConstantsAssumption
  <2>. QED
    BY <2>1, <2>2 DEF NewRateLimiter
<1>2. TypeOK
  BY Zenon, <1>1 DEF Init, TypeOK, Statuses
<1>3. Limit /\ Burst
  BY Zenon DEF Init, Limit, Burst
<1>. QED
  BY <1>2, <1>3 DEF IInv

\* Every step preserves the invariant.
LEMMA NextInv == IInv /\ [Next]_vars => IInv'
<1>1. ASSUME IInv, UNCHANGED vars PROVE IInv'
  <2>1. TypeOK'
    BY Zenon, <1>1 DEF vars, bucket, history, IInv, TypeOK
  <2>2. Limit' /\ Burst'
    BY Zenon, <1>1 DEF vars, bucket, history, IInv, Limit, Burst
  <2>. QED
    BY Zenon, <2>1, <2>2 DEF IInv
<1>. QED
  BY <1>1, TickInv, ArriveInv, AllowInv, UnavailableInv, OpenWindowInv DEF Next

\* allow never admits more than a full bucket and the rate for the time that
\* passed, in any window.
THEOREM LimitHolds == Spec => []Limit
<1>1. IInv => Limit
  BY DEF IInv
<1>. QED
  BY <1>1, InitInv, NextInv, PTL DEF Spec

\* No bucket holds more than capacity, whatever was stored or refilled.
THEOREM BurstHolds == Spec => []Burst
<1>1. IInv => Burst
  BY DEF IInv
<1>. QED
  BY <1>1, InitInv, NextInv, PTL DEF Spec

\* The timestamp of a bucket never moves back, whatever now a script carries.
THEOREM ForwardHolds == Spec => Forward
<1> DEFINE Later == \A k \in Keys : timestamp[k] # Absent =>
                  timestamp'[k] # Absent /\ timestamp'[k] >= timestamp[k]
<1>1. ASSUME IInv, [Next]_vars PROVE [Later]_vars
  <2>0. \A k \in Keys : timestamp[k] # Absent => timestamp[k] >= timestamp[k]
    BY <1>1 DEF IInv, TypeOK
  <2>1. ASSUME UNCHANGED timestamp PROVE Later
    BY Zenon, <2>0, <2>1
  <2>2. ASSUME NEW p \in Procs, pc[p] = "script", Script(key[p], now[p]) PROVE Later
    <3>1. key[p] \in Keys /\ now[p] \in Nat
      BY Zenon, <1>1, <2>2 DEF IInv, TypeOK
    <3>2. /\ \A j \in Keys \ {key[p]} : timestamp'[j] = timestamp[j]
          /\ timestamp'[key[p]] \in Nat
          /\ timestamp[key[p]] # Absent => timestamp'[key[p]] >= timestamp[key[p]]
      BY Zenon, <1>1, <2>2, <3>1, ScriptFacts
    <3>. QED
      BY <2>0, <3>1, <3>2, ConstantsAssumption
  <2>3. ASSUME Next PROVE Later
    <3>1. UNCHANGED timestamp
          \/ \E p \in Procs : pc[p] = "script" /\ Script(key[p], now[p])
      BY Zenon, <2>3 DEF Next, Tick, Arrive, Allow, Unavailable, OpenWindow, bucket
    <3>. QED
      BY Zenon, <2>1, <2>2, <3>1
  <2>. QED
    BY Zenon, <1>1, <2>3
<1>2. Spec => []IInv
  BY InitInv, NextInv, PTL DEF Spec
<1>. QED
  BY <1>1, <1>2, PTL DEF Spec, Forward

\* A client whose clock is past its bucket's last refill is never refused:
\* NewRateLimiter leaves no configuration that starves one.
THEOREM WaitersServedHolds == Spec => []WaitersServed
<1>1. Init => WaitersServed
  BY DEF Init, WaitersServed
<1>2. ASSUME IInv, WaitersServed, [Next]_vars PROVE WaitersServed'
  <2>1. CASE UNCHANGED answers
    BY Zenon, <1>2, <2>1 DEF WaitersServed
  <2>2. ASSUME NEW p \in Procs, NEW s \in Statuses, Answer(p, s),
               s = "TooManyRequests" => now[p] <= LastRefill(key[p], now[p])
        PROVE  WaitersServed'
    <3>1. /\ answers'[p].status = s /\ answers'[p].now = now[p]
          /\ answers'[p].last = LastRefill(key[p], now[p])
          /\ \A q \in Procs \ {p} : answers'[q] = answers[q]
      BY Zenon, <1>2, <2>2 DEF Answer, IInv, TypeOK
    <3>. QED
      BY Zenon, <1>2, <2>2, <3>1 DEF WaitersServed
  <2>3. ASSUME NEW p \in Procs, Allow(p) PROVE WaitersServed'
    <3>1. key[p] \in Keys /\ now[p] \in Nat
      BY Zenon, <1>2, <2>3 DEF Allow, IInv, TypeOK
    <3>2. /\ LastRefill(key[p], now[p]) \in Nat
          /\ now[p] > LastRefill(key[p], now[p]) => Tokens(key[p], now[p]) > 0
      BY Zenon, <1>2, <3>1, LevelFacts
    <3>3. CASE Allowed(key[p], now[p])
      <4>1. Answer(p, "next")
        BY Zenon, <2>3, <3>3 DEF Allow
      <4>. QED
        BY Zenon, <2>2, <4>1 DEF Statuses
    <3>4. CASE ~Allowed(key[p], now[p])
      <4>1. now[p] <= LastRefill(key[p], now[p])
        BY ONLY <3>1, <3>2, <3>4 DEF Allowed
      <4>2. Answer(p, "TooManyRequests")
        BY Zenon, <2>3, <3>4 DEF Allow
      <4>. QED
        BY Zenon, <2>2, <4>1, <4>2 DEF Statuses
    <3>. QED
      BY Zenon, <3>3, <3>4
  <2>4. ASSUME NEW p \in Procs, Unavailable(p) PROVE WaitersServed'
    BY Zenon, <2>2, <2>4 DEF Unavailable, Statuses
  <2>. QED
    BY Zenon, <1>2, <2>1, <2>3, <2>4 DEF Next, Tick, Arrive, OpenWindow, history, vars
<1>. QED
  BY <1>1, <1>2, InitInv, NextInv, PTL DEF Spec
---------------------------------------------------------------------------
(***************************************************************************)
(* The shutdown, for any number of requests and tasks, any size of the     *)
(* pool and any timeouts with Timeout <= Grace.                            *)
(***************************************************************************)
UnitsOK ==
    /\ main \in {"boot", "serving", "drain", "worker", "close", "exited"}
    /\ asynq \in {"off", "new", "active", "closed"}
    /\ request \in [Requests -> {"none", "connected", "running", "answered"}]
    /\ task \in [Tasks -> {"idle", "running", "aborted"}]
    /\ left \in [Requests -> 0..Timeout] /\ grace \in Nat
    /\ early \subseteq Requests

\* Only main's last wait has a closed pool.
Refusals == main \notin {"close", "exited"} => refused = {}

\* A request of before the shutdown has no more time than the drain, and none
\* when the drain is over.
Early(r) ==
    /\ request[r] \in {"running", "answered"} /\ r \notin refused
    /\ request[r] = "running" => IF main = "drain" THEN left[r] <= grace ELSE left[r] = 0
EarlyInv ==
    /\ main \in {"boot", "serving"} => early = {}
    /\ \A r \in early : Early(r)

\* Where tasks can run once the worker has been shut down, it was started late.
LateInv ==
    /\ main = "boot" => asynq = "off"
    /\ asynq \in {"off", "new"} => refused \cap Tasks = {} /\ \A k \in Tasks : task[k] = "idle"
    /\ main \in {"worker", "close"} /\ asynq = "active" => late
    /\ main = "close" => \A k \in Tasks : task[k] = "running" => late
    /\ TasksDrained

ServerInv == UnitsOK /\ Refusals /\ EarlyInv /\ LateInv

\* An instance starts with nothing running.
LEMMA ServerInitInv == ServerInit => ServerInv
<1> SUFFICES ASSUME ServerInit PROVE ServerInv
  OBVIOUS
<1>1. UnitsOK
  BY ServerAssumption DEF ServerInit, UnitsOK
<1>2. Refusals /\ EarlyInv
  BY DEF ServerInit, Refusals, EarlyInv
<1>3. LateInv
  BY Zenon DEF ServerInit, LateInv, TasksDrained
<1> QED
  BY <1>1, <1>2, <1>3 DEF ServerInv

\* Every step keeps the types.
LEMMA UnitsStep ==
  ASSUME ServerInv, [ServerNext]_ServerVars
  PROVE  UnitsOK'
<1> USE ServerAssumption
<1>1. CASE UNCHANGED ServerVars
  BY Zenon, <1>1 DEF ServerInv, UnitsOK, ServerVars, units, timers, observed
<1>2. CASE Signal \/ Main \/ Listen \/ ListenerFails \/ StartWorker \/ StartScheduler
  <2>1. CASE \/ Signal \/ Boot \/ BootFails \/ Exit
            \/ Listen \/ ListenerFails \/ StartScheduler
    BY Zenon, <2>1 DEF ServerInv, UnitsOK, units, timers, observed, Signal, Boot, BootFails,
       Exit, Listen,
       ListenerFails, StartScheduler
  <2>2. CASE StartWorker
    BY Zenon, <2>2 DEF ServerInv, UnitsOK, units, timers, observed, StartWorker
  <2>3. CASE BeginDrain
    BY Zenon, <2>3 DEF ServerInv, UnitsOK, BeginDrain, DrainTime
  <2>4. CASE EndDrain
    BY Zenon, <2>4 DEF ServerInv, UnitsOK, observed, EndDrain, AfterDrain
  <2>5. CASE StopWorker
    BY Zenon, <2>5 DEF ServerInv, UnitsOK, units, timers, observed, StopWorker
  <2> QED
    BY Zenon, <1>2, <2>1, <2>2, <2>3, <2>4, <2>5 DEF Main
<1>3. CASE OutboxTick \/ OutboxStops \/ Elapse
  <2>1. CASE OutboxTick \/ OutboxStops
    BY Zenon, <2>1 DEF ServerInv, UnitsOK, units, timers, observed, OutboxTick, OutboxStops
  <2>2. CASE Elapse
    BY <2>2 DEF ServerInv, UnitsOK, units, timers, observed, Elapse, Less
  <2> QED
    BY <1>3, <2>1, <2>2
<1>4. ASSUME NEW u \in Users, Release(u) PROVE UnitsOK'
  BY Zenon, <1>4 DEF ServerInv, UnitsOK, units, timers, observed, Release
<1>5. ASSUME NEW r \in Requests, Connect(r) \/ Handle(r) \/ RequestUses(r) \/ Respond(r)
      PROVE  UnitsOK'
  BY <1>5 DEF ServerInv, UnitsOK, units, timers, observed, Connect, Handle,
     RequestUses, Respond
<1>6. ASSUME NEW k \in Tasks, TakeTask(k) \/ TaskUses(k) \/ TaskDone(k)
      PROVE  UnitsOK'
  BY Zenon, <1>6
     DEF ServerInv, UnitsOK, units, timers, observed, TakeTask, TaskUses, TaskDone
<1> QED
  BY Zenon, <1>1, <1>2, <1>3, <1>4, <1>5, <1>6 DEF ServerNext

\* What meets a closed pool does so while main waits for the last connections.
LEMMA Acquired ==
  ASSUME NEW u, Acquire(u)
  PROVE  /\ refused \subseteq refused' /\ refused' \subseteq refused \cup {u}
         /\ refused' # refused => main = "close"
  BY DEF Acquire, PoolOpen

\* The actions that neither the requests nor their timers nor main's place are
\* changed by.
LEMMA EarlyOthers ==
  ASSUME Refusals, EarlyInv, UNCHANGED <<main, request, left, grace, early, refused>>
  PROVE  Refusals' /\ EarlyInv'
  BY Zenon DEF Refusals, EarlyInv, Early

\* A step of a request keeps what is known of the requests of before the
\* shutdown: one of them that still runs when the pool is closed has no time left.
LEMMA EarlyRequests ==
  ASSUME ServerInv, NEW r \in Requests, Connect(r) \/ Handle(r) \/ RequestUses(r) \/ Respond(r)
  PROVE  Refusals' /\ EarlyInv'
<1>1. CASE Connect(r)
  BY Zenon, <1>1 DEF ServerInv, UnitsOK, Refusals, EarlyInv, Early, Connect, timers, observed
<1>2. CASE Handle(r)
  BY Zenon, <1>2 DEF ServerInv, UnitsOK, Refusals, EarlyInv, Early, Handle, observed
<1>3. CASE RequestUses(r)
  <2>1. /\ refused' \subseteq refused \cup {r} /\ (refused' # refused => main = "close")
        /\ UNCHANGED <<main, request, left, grace, early>>
        /\ request[r] = "running" /\ left[r] > 0
    BY Zenon, <1>3, Acquired DEF RequestUses, timers
  <2>2. main = "close" => r \notin early
    BY <2>1 DEF ServerInv, UnitsOK, EarlyInv, Early
  <2> QED
    BY Zenon, <2>1, <2>2 DEF ServerInv, UnitsOK, Refusals, EarlyInv, Early
<1>4. CASE Respond(r)
  BY Zenon, <1>4 DEF ServerInv, UnitsOK, Refusals, EarlyInv, Early, Respond, timers, observed
<1> QED
  BY Zenon, <1>1, <1>2, <1>3, <1>4

\* The shutdown gives every request that runs as much time as it has left.
LEMMA EarlyMain ==
  ASSUME ServerInv, Main \/ Elapse
  PROVE  Refusals' /\ EarlyInv'
<1> USE ServerAssumption
<1>1. CASE Boot \/ BootFails
  BY Zenon, <1>1 DEF ServerInv, Refusals, EarlyInv, Early, Boot, BootFails, timers, observed
<1>2. CASE BeginDrain
  BY <1>2 DEF ServerInv, UnitsOK, Refusals, EarlyInv, Early, BeginDrain, DrainTime
<1>3. CASE EndDrain
  BY <1>3 DEF ServerInv, UnitsOK, Refusals, EarlyInv, Early, EndDrain, AfterDrain, observed
<1>4. CASE StopWorker \/ Exit
  BY Zenon, <1>4 DEF ServerInv, Refusals, EarlyInv, Early, StopWorker, Exit, timers, observed
<1>5. CASE Elapse
  <2>1. UNCHANGED <<main, request, early, refused>>
    BY Zenon, <1>5 DEF Elapse, observed
  <2>2. ASSUME NEW r \in Requests, NEW g \in Nat, left[r] <= g
        PROVE  left'[r] <= Less(g)
    BY <1>5, <2>2 DEF ServerInv, UnitsOK, Elapse, Less
  <2>3. ASSUME NEW r \in Requests, left[r] = 0 PROVE left'[r] = 0
    BY <1>5, <2>3 DEF ServerInv, UnitsOK, Elapse, Less
  <2>4. grace' = Less(grace)
    BY Zenon, <1>5 DEF Elapse
  <2> QED
    BY Zenon, <2>1, <2>2, <2>3, <2>4 DEF ServerInv, UnitsOK, Refusals, EarlyInv, Early
<1> QED
  BY Zenon, <1>1, <1>2, <1>3, <1>4, <1>5 DEF Main

\* Every step keeps what is known of the requests of before the shutdown.
LEMMA EarlyStep ==
  ASSUME ServerInv, [ServerNext]_ServerVars
  PROVE  Refusals' /\ EarlyInv'
<1>0. Refusals /\ EarlyInv
  BY Zenon DEF ServerInv
<1>1. CASE UNCHANGED ServerVars
  BY Zenon, <1>0, <1>1, EarlyOthers DEF ServerVars, timers, observed
<1>2. CASE Signal \/ Listen \/ ListenerFails \/ StartWorker \/ StartScheduler \/ OutboxStops
  BY Zenon, <1>0, <1>2, EarlyOthers DEF timers, observed, Signal, Listen, ListenerFails,
     StartWorker,
     StartScheduler, OutboxStops
<1>3. CASE OutboxTick
  <2>1. /\ refused' \subseteq refused \cup {Outbox} /\ (refused' # refused => main = "close")
        /\ UNCHANGED <<main, request, left, grace, early>>
    BY Zenon, <1>3, Acquired DEF OutboxTick, timers
  <2>2. Outbox \notin early
    BY ServerAssumption, Zenon DEF ServerInv, UnitsOK
  <2> QED
    BY Zenon, <1>0, <2>1, <2>2 DEF Refusals, EarlyInv, Early
<1>4. ASSUME NEW u \in Users, Release(u) PROVE Refusals' /\ EarlyInv'
  BY Zenon, <1>0, <1>4, EarlyOthers DEF timers, observed, Release
<1>5. ASSUME NEW k \in Tasks, TakeTask(k) \/ TaskDone(k) PROVE Refusals' /\ EarlyInv'
  BY Zenon, <1>0, <1>5, EarlyOthers DEF timers, observed, TakeTask, TaskDone
<1>6. ASSUME NEW k \in Tasks, TaskUses(k) PROVE Refusals' /\ EarlyInv'
  <2>1. /\ refused' \subseteq refused \cup {k} /\ (refused' # refused => main = "close")
        /\ UNCHANGED <<main, request, left, grace, early>>
    BY Zenon, <1>6, Acquired DEF TaskUses, timers
  <2>2. k \notin early
    BY ServerAssumption, Zenon DEF ServerInv, UnitsOK
  <2> QED
    BY Zenon, <1>0, <2>1, <2>2 DEF Refusals, EarlyInv, Early
<1> QED
  BY Zenon, <1>1, <1>2, <1>3, <1>4, <1>5, <1>6, EarlyMain, EarlyRequests DEF ServerNext

\* The steps that leave the worker, its tasks and main's place alone.
LEMMA LateOthers ==
  ASSUME LateInv, UNCHANGED <<main, asynq, task, late>>, UNCHANGED (refused \cap Tasks)
  PROVE  LateInv'
  BY Zenon DEF LateInv, TasksDrained

\* Every step keeps what is known of the tasks: only a worker started late has
\* tasks that run once the pool is closed.
LEMMA LateStep ==
  ASSUME ServerInv, [ServerNext]_ServerVars
  PROVE  LateInv'
<1>0. LateInv
  BY Zenon DEF ServerInv
<1>1. CASE UNCHANGED ServerVars
  BY Zenon, <1>0, <1>1, LateOthers DEF ServerVars, units, observed
<1>2. CASE \/ Signal \/ Listen \/ ListenerFails \/ StartScheduler
          \/ OutboxStops \/ Elapse \/ BeginDrain
  <2>1. UNCHANGED <<asynq, task, late, refused>>
    BY Zenon, <1>2 DEF units, observed, Signal, Listen, ListenerFails, StartScheduler,
       OutboxStops, Elapse,
       BeginDrain
  <2>2. main' = main \/ main' = "drain"
    BY Zenon, <1>2 DEF Signal, Listen, ListenerFails, StartScheduler, OutboxStops, Elapse,
       BeginDrain
  <2> QED
    BY Zenon, <1>0, <2>1, <2>2 DEF LateInv, TasksDrained
<1>3. CASE StartWorker
  <2>1. asynq = "new" /\ asynq' \in {"active", "closed"} /\ UNCHANGED <<main, task, refused>>
    BY Zenon, <1>3 DEF StartWorker
  <2>2. ASSUME asynq' = "active", main \in {"worker", "close"} PROVE late'
    <3>1. late' = (main \in {"worker", "close"})
      BY Zenon, <1>3, <2>2 DEF StartWorker
    <3> QED
      BY <2>2, <3>1, Zenon
  <2> QED
    BY Zenon, <1>0, <2>1, <2>2 DEF LateInv, TasksDrained
<1>4. CASE Boot \/ BootFails \/ Exit
  BY Zenon, <1>0, <1>4 DEF LateInv, TasksDrained, Boot, BootFails, Exit, units, observed
<1>5. CASE EndDrain
  BY Zenon, <1>0, <1>5 DEF LateInv, TasksDrained, EndDrain, AfterDrain, observed
<1>6. CASE StopWorker
  BY Zenon, <1>0, <1>6 DEF ServerInv, UnitsOK, LateInv, TasksDrained, StopWorker, units, observed
<1>7. CASE OutboxTick
  <2>1. UNCHANGED (refused \cap Tasks)
    BY ServerAssumption, <1>7, Acquired DEF OutboxTick
  <2> QED
    BY Zenon, <1>0, <1>7, <2>1, LateOthers DEF OutboxTick
<1>8. ASSUME NEW u \in Users, Release(u) PROVE LateInv'
  BY Zenon, <1>0, <1>8, LateOthers DEF units, observed, Release
<1>9. ASSUME NEW r \in Requests, Connect(r) \/ Handle(r) \/ RequestUses(r) \/ Respond(r)
      PROVE  LateInv'
  <2>1. UNCHANGED (refused \cap Tasks)
    BY ServerAssumption, <1>9, Acquired DEF Connect, Handle, RequestUses, Respond,
       observed
  <2>2. UNCHANGED <<main, asynq, task, late>>
    BY Zenon, <1>9 DEF Connect, Handle, RequestUses, Respond, units, observed
  <2> QED
    BY Zenon, <1>0, <2>1, <2>2, LateOthers
<1>10. ASSUME NEW k \in Tasks, TakeTask(k) \/ TaskDone(k) PROVE LateInv'
  BY Zenon, <1>0, <1>10 DEF ServerInv, UnitsOK, LateInv, TasksDrained, TakeTask, TaskDone,
     units, observed, Alive
<1>11. ASSUME NEW k \in Tasks, TaskUses(k) PROVE LateInv'
  <2>1. /\ task[k] = "running" /\ (refused' # refused => main = "close")
        /\ UNCHANGED <<main, asynq, task, late>>
    BY Zenon, <1>11, Acquired DEF TaskUses, units
  <2> QED
    BY Zenon, <1>0, <2>1 DEF LateInv, TasksDrained
<1> QED
  BY Zenon, <1>1, <1>2, <1>3, <1>4, <1>5, <1>6, <1>7, <1>8, <1>9, <1>10, <1>11 DEF ServerNext, Main

\* The invariant holds throughout.
LEMMA ServerInductive == ServerSpec => []ServerInv
<1>1. ASSUME ServerInv, [ServerNext]_ServerVars PROVE ServerInv'
  BY Zenon, <1>1, UnitsStep, EarlyStep, LateStep DEF ServerInv
<1> QED
  BY <1>1, ServerInitInv, PTL DEF ServerSpec

\* The drain is long enough: no request that ran when the shutdown began meets
\* a closed pool, and the process ends with one only when its timeout is over.
THEOREM RequestsDrainedHolds == ServerSpec => []RequestsDrained
<1>1. ServerInv => RequestsDrained
  BY Zenon DEF ServerInv, EarlyInv, Early, RequestsDrained
<1> QED
  BY <1>1, ServerInductive, PTL

\* The order of the defers lets tasks finish: a task meets a closed pool only
\* when the worker was started after its own Shutdown.
THEOREM TasksDrainedHolds == ServerSpec => []TasksDrained
<1>1. ServerInv => TasksDrained
  BY Zenon DEF ServerInv, LateInv
<1> QED
  BY <1>1, ServerInductive, PTL
---------------------------------------------------------------------------
(***************************************************************************)
(* The users and the tokens that any number of instances, with clocks of   *)
(* their own, agree on.                                                    *)
(***************************************************************************)
UsersInv ==
    /\ users \subseteq [id : Nat, email : Email, password : Passwords] /\ nextId \in Nat
    /\ \A u \in users : u.email.spelling = Lower
    /\ OneUserPerAddress

\* Clocks, now or when a token was issued.
Close(at) == at \in [Instances -> Nat] /\ \A i, j \in Instances : at[i] - at[j] <= ClockSkew

\* A token names a row, and expires by the clock of one of the instances.
Owner(t, u) ==
    u.id = t.user /\ u.email.name = t.for.email.name /\ Key[u.password] = Key[t.for.password]
Token(t, us) ==
    /\ \E u \in us : Owner(t, u)
    /\ Close(t.at) /\ \E j \in Instances : t.exp = t.at[j] + TTL

AuthInv ==
    /\ UsersInv /\ Close(clocks)
    /\ session = [c \in Clients |-> session[c]]
    /\ \A c \in Clients : session[c] # None => Token(session[c], users)
    /\ TokenLifetime

\* An address in lower case is known by its name.
LEMMA Spelled ==
  ASSUME NEW e \in Email
  PROVE  /\ Normal(e).name = e.name /\ Normal(e).spelling = Lower
         /\ Lower \in Spellings => Normal(e) \in Email
         /\ \A f \in Email : f.spelling = Lower /\ f.name = e.name => f = Normal(e)
  BY DEF Email, Normal

\* Nobody is registered, and no token has been shown.
LEMMA AuthInitInv == AuthInit => AuthInv
<1> SUFFICES ASSUME AuthInit PROVE AuthInv
  BY Zenon
<1>1. UsersInv /\ Close(clocks)
  BY AuthAssumption DEF AuthInit, UsersInv, Close, OneUserPerAddress
<1>2. TokenLifetime
  <2>1. ~use.ok /\ use.age = TTL
    BY Zenon DEF AuthInit
  <2>2. TTL >= TTL - ClockSkew
    BY AuthAssumption
  <2> QED
    BY Zenon, <2>1, <2>2 DEF TokenLifetime
<1>3. session = [c \in Clients |-> session[c]] /\ \A c \in Clients : session[c] = None
  BY Zenon DEF AuthInit
<1> QED
  BY Zenon, <1>1, <1>2, <1>3 DEF AuthInv

\* A reply, received or lost, gives at most its own client a token.
LEMMA Replied ==
  ASSUME AuthInv, NEW c \in Clients, NEW t, Reply(c, t), users \subseteq users', Token(t, users')
  PROVE  /\ session' = [d \in Clients |-> session'[d]]
         /\ \A d \in Clients : session'[d] # None => Token(session'[d], users')
<1>1. \A d \in Clients : session[d] # None => Token(session[d], users')
  BY Zenon DEF AuthInv, Token
<1>2. CASE session' = session
  BY Zenon, <1>1, <1>2 DEF AuthInv
<1>3. CASE session' = [session EXCEPT ![c] = t]
  BY Zenon, <1>1, <1>3 DEF AuthInv
<1> QED
  BY Zenon, <1>2, <1>3 DEF Reply

\* A token expires by the clock of the instance that issued it.
LEMMA Issued ==
  ASSUME AuthInv, NEW i \in Instances, NEW u, NEW cr, NEW us, NEW w \in us,
         w.id = u, w.email.name = cr.email.name, Key[w.password] = Key[cr.password]
  PROVE  Token(GenerateJWT(u, i, cr), us)
  BY Zenon DEF AuthInv, Token, Owner, GenerateJWT, Expiry

\* A registration takes an address that no row has, in lower case.
LEMMA RegisterStep ==
  ASSUME AuthInv, NEW c \in Clients, NEW i \in Instances,
         NEW cr \in Credentials, Register(c, i, cr)
  PROVE  AuthInv'
<1> DEFINE e == Normal(cr.email)
           row == [id |-> nextId, email |-> e, password |-> cr.password]
<1>1. cr.email \in Email /\ cr.password \in Passwords
  BY Zenon DEF Credentials
<1>2. e \in Email /\ e.spelling = Lower /\ e.name = cr.email.name
  BY AuthAssumption, Zenon, <1>1, Spelled
<1>3. nextId' = nextId + 1 /\ UNCHANGED <<clocks, use>>
  BY Zenon DEF Register
<1>4. CASE UNCHANGED <<users, session>>
  BY <1>3, <1>4 DEF AuthInv, UsersInv, OneUserPerAddress, TokenLifetime
<1>5. CASE /\ ~Taken(e) /\ users' = users \cup {row}
           /\ Reply(c, GenerateJWT(nextId, i, cr))
  <2>1. \A u \in users : u.email.name # e.name
    <3> SUFFICES ASSUME NEW u \in users, u.email.name = e.name PROVE FALSE
      BY Zenon
    <3>1. u.email \in Email /\ u.email.spelling = Lower
      BY Zenon DEF AuthInv, UsersInv
    <3>2. u.email = e
      BY Zenon, <1>1, <1>2, <3>1, Spelled
    <3> QED
      BY Zenon, <1>5, <3>2 DEF Taken
  <2>2. UsersInv'
    <3>1. users' \subseteq [id : Nat, email : Email, password : Passwords] /\ nextId' \in Nat
      BY <1>1, <1>2, <1>3, <1>5 DEF AuthInv, UsersInv
    <3>2. \A u \in users' : u.email.spelling = Lower
      BY <1>2, <1>5 DEF AuthInv, UsersInv
    <3>3. OneUserPerAddress'
      BY SMTT(30), <1>5, <2>1 DEF AuthInv, UsersInv, OneUserPerAddress
    <3> QED
      BY Zenon, <3>1, <3>2, <3>3 DEF UsersInv
  <2>3. Token(GenerateJWT(nextId, i, cr), users')
    <3>1. row \in users'
      BY Zenon, <1>5
    <3>2. row.id = nextId /\ row.email.name = cr.email.name /\ row.password = cr.password
      BY Zenon, <1>2
    <3> HIDE DEF row
    <3> QED
      BY Zenon, <3>1, <3>2, Issued
  <2>4. /\ session' = [d \in Clients |-> session'[d]]
        /\ \A d \in Clients : session'[d] # None => Token(session'[d], users')
    <3>1. users \subseteq users'
      BY Zenon, <1>5
    <3> QED
      BY <1>5, <2>3, <3>1, Replied, Zenon
  <2> QED
    BY Zenon, <1>3, <2>2, <2>4 DEF AuthInv, TokenLifetime
<1> QED
  BY Zenon, <1>4, <1>5 DEF Register

\* A login returns a token for the row that matched.
LEMMA LoginStep ==
  ASSUME AuthInv, NEW c \in Clients, NEW i \in Instances, NEW cr \in Credentials,
         Login(c, i, cr)
  PROVE  AuthInv'
<1>1. PICK u \in users : Matches(u, cr) /\ Reply(c, GenerateJWT(u.id, i, cr))
  BY Zenon DEF Login
<1>2. UNCHANGED <<users, nextId, clocks, use>>
  BY Zenon DEF Login
<1>3. u.email.name = cr.email.name /\ Key[u.password] = Key[cr.password]
  BY Zenon, <1>1, Spelled DEF Matches, LoginEmail, CheckPassword, Credentials
<1>4. Token(GenerateJWT(u.id, i, cr), users')
  BY Zenon, <1>2, <1>3, Issued
<1>5. /\ session' = [d \in Clients |-> session'[d]]
      /\ \A d \in Clients : session'[d] # None => Token(session'[d], users')
  BY Zenon, <1>1, <1>2, <1>4, Replied
<1> QED
  BY Zenon, <1>2, <1>5 DEF AuthInv, UsersInv, OneUserPerAddress, TokenLifetime

\* The clock that a token meets and the clock that it was issued by were at most
\* ClockSkew apart when it was issued.
LEMMA RequestStep ==
  ASSUME AuthInv, NEW c \in Clients, NEW i \in Instances, Request(c, i)
  PROVE  AuthInv'
<1> DEFINE t == session[c]
<1>1. UNCHANGED <<users, nextId, clocks, session>>
  BY Zenon DEF Request
<1>2. Token(t, users) /\ Close(clocks)
  BY ZenonT(30) DEF AuthInv, Request
<1>3. PICK j \in Instances : t.exp = t.at[j] + TTL
  BY Zenon, <1>2 DEF Token
<1>4. /\ t.at[i] \in Nat /\ t.at[j] \in Nat /\ clocks[i] \in Nat
      /\ t.at[i] - t.at[j] <= ClockSkew /\ t.at[j] - t.at[i] <= ClockSkew
  BY Zenon, <1>2 DEF Token, Close
<1>5. use'.age = clocks[i] - t.at[i] /\ use'.ok = ParseJWT(t, i)
  BY Zenon DEF Request
<1>6. TokenLifetime'
  <2>1. ParseJWT(t, i) => use'.age < TTL + ClockSkew
    BY AuthAssumption, SMTT(30), <1>3, <1>4, <1>5 DEF ParseJWT
  <2>2. ~ParseJWT(t, i) => use'.age >= TTL - ClockSkew
    BY AuthAssumption, <1>3, <1>4, <1>5 DEF ParseJWT
  <2> QED
    BY <1>5, <2>1, <2>2, ZenonT(30) DEF TokenLifetime
<1> QED
  BY Zenon, <1>1, <1>6 DEF AuthInv, UsersInv, OneUserPerAddress

\* The invariant holds throughout.
LEMMA AuthInductive == AuthSpec => []AuthInv
<1>1. ASSUME AuthInv, [AuthNext]_AuthVars PROVE AuthInv'
  <2>1. CASE UNCHANGED AuthVars
    BY Zenon, <1>1, <2>1 DEF AuthVars, AuthInv, UsersInv, OneUserPerAddress, TokenLifetime
  <2>2. ASSUME NEW i \in Instances, Advance(i) PROVE AuthInv'
    <3>1. Close(clocks')
      BY AuthAssumption, <1>1, <2>2 DEF Advance, AuthInv, Close
    <3> QED
      BY Zenon, <1>1, <2>2, <3>1 DEF Advance, AuthInv, UsersInv, OneUserPerAddress, TokenLifetime
  <2> QED
    BY Zenon, <1>1, <2>1, <2>2, RegisterStep, LoginStep, RequestStep DEF AuthNext
<1> QED
  BY <1>1, AuthInitInv, PTL DEF AuthSpec

\* An address has one user, however it is spelled and whoever races for it: the
\* unique index on the normalised email decides.
THEOREM OneUserPerAddressHolds == AuthSpec => []OneUserPerAddress
<1>1. AuthInv => OneUserPerAddress
  BY Zenon DEF AuthInv, UsersInv
<1> QED
  BY <1>1, AuthInductive, PTL

\* A token names the user with the address and the password that it was issued
\* for, whatever other clients register meanwhile.
THEOREM TokenNamesOwnerHolds == AuthSpec => []TokenNamesOwner
<1>1. AuthInv => TokenNamesOwner
  BY Zenon DEF AuthInv, Token, Owner, TokenNamesOwner
<1> QED
  BY <1>1, AuthInductive, PTL

\* Whoever registered can log in, in every spelling of the address.
THEOREM LoginWorksHolds == AuthSpec => []LoginWorks
<1>1. ASSUME AuthInv, NEW u \in users, NEW s \in Spellings
      PROVE  Matches(u, [email |-> [u.email EXCEPT !.spelling = s], password |-> u.password])
  <2> DEFINE m == [u.email EXCEPT !.spelling = s]
             cr == [email |-> m, password |-> u.password]
  <2>1. u.email \in Email /\ u.email.spelling = Lower
    BY Zenon, <1>1 DEF AuthInv, UsersInv
  <2>2. m \in Email /\ m.name = u.email.name
    BY <2>1 DEF Email
  <2>3. u.email = Normal(m)
    <3> HIDE DEF m
    <3> QED
      BY Zenon, <2>1, <2>2, Spelled
  <2>4. LoginEmail(cr) = Normal(m) /\ CheckPassword(u, cr)
    BY DEF LoginEmail, CheckPassword
  <2> QED
    BY <2>3, <2>4, Zenon DEF Matches
<1>2. AuthInv => LoginWorks
  BY <1>1, Zenon DEF LoginWorks
<1> QED
  BY <1>2, AuthInductive, PTL

\* A token is accepted while it is younger than its lifetime and refused
\* afterwards, up to the skew between two clock.
THEOREM TokenLifetimeHolds == AuthSpec => []TokenLifetime
<1>1. AuthInv => TokenLifetime
  BY Zenon DEF AuthInv
<1> QED
  BY <1>1, AuthInductive, PTL
=============================================================================
