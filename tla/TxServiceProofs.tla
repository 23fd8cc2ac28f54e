-------------------------- MODULE TxServiceProofs --------------------------
(***************************************************************************)
(* Facts about int64 amounts and the sums of one and of two legs; every    *)
(* statement of a goroutine, its COMMIT and the steps of clients and       *)
(* faults preserve IInv, for any number of goroutines, users and requests  *)
(* and any pool size; and what follows from IInv for every behaviour.      *)
(***************************************************************************)
EXTENDS TxServiceInv, SequenceTheorems, TLAPS

\* int64 arithmetic stays in int64.
LEMMA WrapType == ASSUME NEW n \in Int PROVE Wrap(n) \in Int64
<1>1. 2 * MaxInt + 2 \in Nat \ {0} /\ n - MinInt \in Int
  BY MaxIntAssumption DEF MinInt
<1>2. \A a \in Int, b \in Nat \ {0} : a % b \in 0..(b - 1)
  OBVIOUS
<1>3. (n - MinInt) % (2 * MaxInt + 2) \in 0..((2 * MaxInt + 2) - 1)
  BY <1>1, <1>2, Zenon
<1>. QED
  BY <1>3, MaxIntAssumption DEF Wrap, Int64, MinInt

\* An amount that is already an int64 is not changed.
LEMMA WrapId == ASSUME NEW n \in Int64 PROVE Wrap(n) = n
<1>1. n - MinInt \in 0..(2 * MaxInt + 1) /\ 2 * MaxInt + 2 \in Nat \ {0}
  BY MaxIntAssumption DEF Int64, MinInt
<1>2. \A a \in Int, b \in Nat \ {0} : a \in 0..(b - 1) => a % b = a
  OBVIOUS
<1>3. (n - MinInt) % (2 * MaxInt + 2) = n - MinInt
  BY <1>1, <1>2, MaxIntAssumption
<1>. QED
  BY <1>3, MaxIntAssumption DEF Wrap, Int64, MinInt

\* Every int64 but the smallest has a negation.
LEMMA NegValue ==
  ASSUME NEW n \in Int64
  PROVE  /\ Neg(n) \in Int64
         /\ n # MinInt => Neg(n) = -n
<1>1. n \in Int /\ -n \in Int /\ (n # MinInt => -n \in Int64)
  BY MaxIntAssumption DEF Int64, MinInt
<1>. QED
  BY <1>1, WrapType, WrapId DEF Neg

\* The smallest int64 is its own negation.
LEMMA NegMinInt == Neg(MinInt) = MinInt
<1>1. \A b \in Nat \ {0} : b % b = 0 
  OBVIOUS
<1>2. (-MinInt) - MinInt = 2 * MaxInt + 2 /\ 2 * MaxInt + 2 \in Nat \ {0}
  BY MaxIntAssumption DEF MinInt
<1>. QED
  BY <1>1, <1>2, MaxIntAssumption DEF Neg, Wrap, MinInt

\* The sum of one leg is its amount.
LEMMA TotalOne == ASSUME NEW l \in Leg PROVE Total(<<l>>) = l.amount
<1> DEFINE ls == <<l>>
           F(S) == [n \in 0..Len(ls) |-> IF n = 0 THEN 0 ELSE S[n - 1] + ls[n].amount]
           G == [n \in 0..1 |-> IF n = 0 THEN 0 ELSE l.amount]
           T == CHOOSE S : S = F(S)
<1>1. G = F(G)
  BY DEF Leg, Int64
<1>2. T = F(T)
  BY <1>1, Zenon
<1> HIDE DEF T
<1>3. T[0] = 0 /\ T[1] = T[0] + l.amount
  BY <1>2
<1>4. T[Len(ls)] = l.amount
  BY <1>3 DEF Leg, Int64
<1>. QED
  BY <1>4, Zenon DEF Total, T

\* The sum of two legs is the sum of their amounts.
LEMMA TotalTwo ==
  ASSUME NEW k \in Leg, NEW l \in Leg
  PROVE  Total(<<k, l>>) = k.amount + l.amount
<1> DEFINE ls == <<k, l>>
           F(S) == [n \in 0..Len(ls) |-> IF n = 0 THEN 0 ELSE S[n - 1] + ls[n].amount]
           G == [n \in 0..2 |-> IF n = 0 THEN 0
                                ELSE IF n = 1 THEN k.amount ELSE k.amount + l.amount]
           T == CHOOSE S : S = F(S)
<1>1. G = F(G)
  BY DEF Leg, Int64
<1>2. T = F(T)
  BY <1>1, Zenon
<1> HIDE DEF T
<1>3. T[0] = 0 /\ T[1] = T[0] + k.amount /\ T[2] = T[1] + l.amount
  BY <1>2
<1>4. T[Len(ls)] = k.amount + l.amount
  BY <1>3 DEF Leg, Int64
<1>. QED
  BY <1>4, Zenon DEF Total, T
---------------------------------------------------------------------------
\* A step of p leaves what the other goroutines carry alone.
Others(p) ==
    \A q \in Procs \ {p} :
        /\ pc'[q] = pc[q] /\ req'[q] = req[q] /\ legs'[q] = legs[q]
        /\ ext'[q] = ext[q] /\ id'[q] = id[q]

\* The types of what goroutines carry.
LocalType ==
    /\ pc \in [Procs -> InTx \cup {"idle", "begin", "invalidate"}]
    /\ req \in [Procs -> Requests \cup {NoReq}]
    /\ legs \in [Procs -> Seq(Leg)]
    /\ ext \in [Procs -> Nat]
    /\ id \in [Procs -> Nat]
    /\ \A a \in replies : a.req \in Requests /\ a.tx \in Nat

\* The properties of committed rows alone.
TableInv == ZeroSum /\ ExactlyOnce /\ KeyWithTransaction /\ ReversedOnce /\ OneExternal

\* A goroutine that is not idle serves a request.
LEMMA Serving ==
  ASSUME IInv, NEW p \in Procs, pc[p] # "idle"
  PROVE  req[p] \in Requests /\ req[p] \in Request
BY Zenon, RequestsAssumption DEF IInv, TypeOK, LocalInv

\* The explicit legs of a request are legs.
LEMMA ReqLegsType == ASSUME NEW r \in Request PROVE ReqLegs(r) \in Seq(Leg)
<1>0. /\ r.op \in {"create", "transfer", "reverse"}
      /\ r.account \in Nat /\ r.to \in Nat /\ r.amount \in Int64
      /\ Neg(r.amount) \in Int64
  BY Zenon, NegValue DEF Request
<1>1. /\ [account |-> r.account, amount |-> r.amount] \in Leg
      /\ [account |-> r.account, amount |-> Neg(r.amount)] \in Leg
      /\ [account |-> r.to, amount |-> r.amount] \in Leg
  BY Zenon, <1>0 DEF Leg
<1>2. \A k, l \in Leg : <<k>> \in Seq(Leg) /\ <<k, l>> \in Seq(Leg)
  OBVIOUS
<1>3. CASE r.op = "create"
  BY Zenon, <1>1, <1>2, <1>3 DEF ReqLegs
<1>4. CASE r.op = "transfer"
  BY Zenon, <1>1, <1>2, <1>4 DEF ReqLegs
<1>5. CASE r.op = "reverse"
  BY SMTT(60), <1>5 DEF ReqLegs
<1>. QED
  BY Zenon, <1>0, <1>3, <1>4, <1>5

\* The offsetting leg of a create is the negation of its amount.
LEMMA ExternalLeg ==
  ASSUME NEW r \in Request, r.op = "create"
  PROVE  /\ Neg(Wrap(Total(ReqLegs(r)))) = Neg(r.amount)
         /\ Neg(r.amount) \in Int64
<1>1. /\ ReqLegs(r) = <<[account |-> r.account, amount |-> r.amount]>>
      /\ [account |-> r.account, amount |-> r.amount] \in Leg
      /\ r.amount \in Int64
  BY Zenon DEF ReqLegs, Request, Leg
<1>2. Total(ReqLegs(r)) = r.amount
  BY Zenon, <1>1, TotalOne
<1>. QED
  BY Zenon, <1>1, <1>2, WrapId, NegValue

\* A new row of accounts has the columns of one.
LEMMA AccountType ==
  ASSUME NEW i \in Nat \ {0}, NEW u \in Users, NEW c \in STRING
  PROVE  /\ External(u, i, c) \in Account
         /\ \A n \in STRING :
              [id |-> i, user |-> u, name |-> n, currency |-> c, kind |-> "normal",
               is_active |-> TRUE] \in Account
BY Zenon, ExternalNameAssumption DEF Account, External

\* Negated postings are postings.
LEMMA NegatedType == ASSUME NEW ls \in Seq(Leg) PROVE Negated(ls) \in Seq(Leg)
<1>0. \A i \in 1..Len(ls) : ls[i] \in Leg
  BY Zenon, ElementOfSeq
<1>1. \A i \in 1..Len(ls) : ls[i].account \in Nat /\ ls[i].amount \in Int64
  BY Zenon, <1>0 DEF Leg
<1>2. \A i \in 1..Len(ls) :
        [account |-> ls[i].account, amount |-> Neg(ls[i].amount)] \in Leg
  BY Zenon, <1>1, NegValue DEF Leg
<1>3. Len(ls) \in Nat /\ Negated(ls) \in [1..Len(ls) -> Leg]
  BY SMTT(60), <1>2 DEF Negated
<1>. QED
  BY SMTT(60), <1>3, SeqDef
---------------------------------------------------------------------------
\* Answering a request and dropping its uncommitted rows is safe anywhere.
LEMMA FinishInv ==
  ASSUME IInv, NEW p \in Procs, NEW out, NEW tx \in Nat,
         pc[p] # "idle", Finish(p, out, tx),
         UNCHANGED <<users, accounts, transactions, idempotency_keys, outbox, submitted>>,
         account_seq' \in Nat \ {0}, tx_seq' \in Nat \ {0}, tx_seq' >= tx_seq
  PROVE  IInv'
<1>0. /\ req[p] \in Requests
      /\ pc'[p] = "idle" /\ req'[p] = NoReq /\ ext'[p] = 0
      /\ Others(p)
  BY Zenon, Serving DEF Others, Finish, IInv, TypeOK
<1>1. TypeOK'
  <2>1. /\ pc' \in [Procs -> InTx \cup {"idle", "begin", "invalidate"}]
        /\ req' \in [Procs -> Requests \cup {NoReq}]
        /\ legs' \in [Procs -> Seq(Leg)]
        /\ ext' \in [Procs -> Nat]
        /\ id' \in [Procs -> Nat]
    BY SMTT(60) DEF Finish, IInv, TypeOK
  <2>2. \A a \in replies' : a.req \in Requests /\ a.tx \in Nat
    BY SMTT(60), <1>0 DEF Finish, Reply, IInv, TypeOK
  <2>. QED
    BY Zenon, <2>1, <2>2 DEF IInv, TypeOK
<1>2. LocalInv'
  BY SMTT(60), <1>0 DEF Others, IInv, LocalInv
<1>3. IdInv'
  <2>1. /\ \A t \in transactions : t.id \in Nat /\ t.id < tx_seq
        /\ \A q \in Procs : id[q] \in Nat
        /\ tx_seq \in Nat
    BY Zenon DEF IInv, IdInv, TypeOK, Transaction
  <2>2. \A t \in transactions' : t.id < tx_seq'
    BY SMTT(60), <2>1
  <2>3. \A q \in Procs : pc'[q] = "commit" => id'[q] # 0 /\ id'[q] < tx_seq'
    BY SMTT(60), <1>0, <2>1 DEF Others, IInv, IdInv
  <2>. QED
    BY SMTT(60), <1>0, <2>2, <2>3 DEF Others, IInv, IdInv
<1>4. KeyInv'
  BY SMTT(60), <1>0 DEF Others, IInv, KeyInv, InTx, Claimed
<1>5. ReversalInv'
  BY SMTT(60), <1>0 DEF Others, IInv, ReversalInv
<1>6. ExternalInv'
  BY SMTT(60), <1>0 DEF Others, IInv, ExternalInv
<1>7. TableInv'
  BY Zenon DEF IInv, TableInv, ZeroSum, ExactlyOnce, KeyWithTransaction, ReversedOnce, OneExternal
<1>. QED
  BY Zenon, <1>1, <1>2, <1>3, <1>4, <1>5, <1>6, <1>7 DEF IInv, TableInv

\* A step that only moves p on leaves the properties of committed rows alone.
LEMMA TablesUnchanged ==
  ASSUME IInv, UNCHANGED <<accounts, transactions, idempotency_keys>>
  PROVE  TableInv'
BY Zenon DEF IInv, TableInv, ZeroSum, ExactlyOnce, KeyWithTransaction, ReversedOnce, OneExternal

\* A step before the insert of the header leaves the ids alone.
LEMMA IdsUnchanged ==
  ASSUME IInv, NEW p \in Procs, Others(p), pc'[p] \notin {"commit", "invalidate"},
         UNCHANGED <<transactions, tx_seq>>
  PROVE  IdInv'
BY SMTT(60) DEF Others, IInv, IdInv

\* A step that neither claims a key nor commits one leaves the claims alone.
LEMMA KeysUnchanged ==
  ASSUME IInv, NEW p \in Procs, Others(p), req'[p] = req[p],
         pc'[p] \in Claimed => pc[p] \in Claimed, UNCHANGED idempotency_keys
  PROVE  KeyInv'
BY SMTT(60) DEF Others, IInv, KeyInv

\* Creates, transfers and the statements before a reversal is written leave
\* what is known of reversals alone.
LEMMA ReversalsUnchanged ==
  ASSUME IInv, NEW p \in Procs, Others(p), UNCHANGED transactions,
         pc'[p] \notin {"write", "commit"} \/ req'[p].op # "reverse"
  PROVE  ReversalInv'
BY SMTT(60) DEF Others, IInv, ReversalInv

\* Taking a connection from the pool (pool.Begin) preserves the invariant.
LEMMA BeginInv == ASSUME IInv, NEW p \in Procs, Begin(p) PROVE IInv'
<1>0. /\ pc[p] = "begin" /\ pc'[p] = "claim" /\ Others(p)
      /\ req' = req /\ legs' = legs /\ ext' = ext /\ id' = id
  BY Zenon DEF Begin, Goto, Others, IInv, TypeOK
<1>1. TypeOK'
  BY Zenon DEF Begin, Goto, tables, IInv, TypeOK, InTx
<1>2. LocalInv'
  BY SMTT(60), <1>0 DEF Others, IInv, LocalInv
<1>3. IdInv'
  BY Zenon, <1>0, IdsUnchanged DEF Begin, tables
<1>4. KeyInv'
  BY Zenon, <1>0, KeysUnchanged DEF Begin, tables, InTx, Claimed
<1>5. ReversalInv'
  BY Zenon, <1>0, ReversalsUnchanged DEF Begin, tables
<1>6. ExternalInv'
  <2>1. ext'[p] = 0
    BY Zenon, <1>0 DEF IInv, LocalInv
  <2>. QED
    BY Zenon, <1>0, <2>1 DEF Begin, tables, Others, IInv, ExternalInv
<1>7. TableInv'
  BY Zenon, TablesUnchanged DEF Begin, tables
<1>. QED
  BY Zenon, <1>1, <1>2, <1>3, <1>4, <1>5, <1>6, <1>7 DEF IInv, TableInv

\* claimIdempotency preserves the invariant: a key that is free, committed
\* or in flight elsewhere is handled so that only one goroutine owns it.
LEMMA ClaimInv == ASSUME IInv, NEW p \in Procs, Claim(p) PROVE IInv'
<1> DEFINE r == req[p]
           found == {k \in idempotency_keys : k.user = r.user /\ k.key = r.key}
<1>0. /\ pc[p] = "claim" /\ r \in Requests /\ r \in Request
      /\ UNCHANGED <<users, accounts, transactions, idempotency_keys, outbox, submitted>>
      /\ account_seq' = account_seq /\ tx_seq' = tx_seq
      /\ account_seq \in Nat \ {0} /\ tx_seq \in Nat \ {0}
  BY Zenon, Serving DEF Claim, tables, IInv, TypeOK
<1>1. CASE \E out : \E tx \in Nat : Finish(p, out, tx)
  BY SMTT(60), <1>0, <1>1, FinishInv
<1>2. CASE /\ r.key = NoKey \/ found = {}
           /\ pc' = [pc EXCEPT ![p] = CASE r.op = "create"   -> "external"
                                        [] r.op = "transfer" -> "check"
                                        [] OTHER             -> "load"]
           /\ UNCHANGED <<req, replies, ext, id>>
           /\ legs' = [legs EXCEPT ![p] = ReqLegs(r)]
  <2>0. /\ Others(p) /\ legs'[p] = ReqLegs(r) /\ req' = req /\ ext' = ext /\ id' = id
        /\ pc'[p] \in {"external", "check", "load"}
        /\ pc'[p] = "external" => r.op = "create"
        /\ pc'[p] = "check" => r.op = "transfer"
        /\ pc'[p] = "load" => r.op = "reverse"
    BY Zenon, <1>0, <1>2 DEF Others, IInv, TypeOK, Request
  <2>1. TypeOK'
    <3>1. pc' \in [Procs -> InTx \cup {"idle", "begin", "invalidate"}]
      BY Zenon, <1>2, <2>0 DEF IInv, TypeOK, InTx
    <3>2. legs' \in [Procs -> Seq(Leg)]
      BY Zenon, <1>0, <1>2, ReqLegsType DEF IInv, TypeOK
    <3>. QED
      BY Zenon, <1>0, <1>2, <3>1, <3>2 DEF IInv, TypeOK
  <2>2. LocalInv'
    BY SMTT(60), <1>0, <2>0 DEF Others, IInv, LocalInv
  <2>3. IdInv'
    BY Zenon, <1>0, <2>0, IdsUnchanged
  <2>4. KeyInv'
    <3>1. r.key # NoKey => \A k \in idempotency_keys : k.user = r.user => k.key # r.key
      BY Zenon, <1>2
    <3>2. r.key # NoKey => ~\E q \in Procs \ {p} : HoldsKey(q, r.user, r.key)
      BY Zenon DEF Claim
    <3>. QED
      BY SMTT(60), <1>0, <2>0, <3>1, <3>2 DEF Others, IInv, KeyInv, HoldsKey
  <2>5. ReversalInv'
    BY Zenon, <1>0, <2>0, ReversalsUnchanged
  <2>6. ExternalInv'
    <3>1. ext'[p] = 0
      BY Zenon, <1>0, <2>0 DEF IInv, LocalInv
    <3>. QED
      BY Zenon, <1>0, <2>0, <3>1 DEF Others, IInv, ExternalInv
  <2>7. TableInv'
    BY Zenon, <1>0, TablesUnchanged
  <2>. QED
    BY Zenon, <2>1, <2>2, <2>3, <2>4, <2>5, <2>6, <2>7 DEF IInv, TableInv
<1>3. \A k \in found : k.response \in Nat
  BY Zenon DEF IInv, TypeOK
<1>. QED
  BY Zenon, <1>1, <1>2, <1>3 DEF Claim, Goto

\* The legs of a create once its offsetting leg is added.
LEMMA AddExternalLegType ==
  ASSUME IInv, NEW p \in Procs, pc[p] \in {"external", "lazy"}, NEW acc \in Nat,
         AddExternalLeg(p, acc)
  PROVE  legs' \in [Procs -> Seq(Leg)] /\ \A q \in Procs \ {p} : legs'[q] = legs[q]
<1>1. req[p] \in Request /\ req[p].op = "create" /\ legs[p] = ReqLegs(req[p])
  BY Zenon, Serving DEF IInv, LocalInv
<1>2. [account |-> acc, amount |-> Neg(Wrap(Total(legs[p])))] \in Leg
  BY Zenon, <1>1, ExternalLeg DEF Leg
<1>3. legs \in [Procs -> Seq(Leg)]
  BY Zenon DEF IInv, TypeOK
<1>4. Append(legs[p], [account |-> acc, amount |-> Neg(Wrap(Total(legs[p])))]) \in Seq(Leg)
  BY Zenon, <1>2, <1>3, AppendProperties
<1>. QED
  BY Zenon, <1>3, <1>4 DEF AddExternalLeg

\* Looking the external account up preserves the invariant.
LEMMA GetExternalAccountInv ==
  ASSUME IInv, NEW p \in Procs, GetExternalAccount(p) PROVE IInv'
<1>0. /\ pc[p] = "external" /\ req[p] \in Requests /\ req[p].op = "create"
      /\ legs[p] = ReqLegs(req[p]) /\ ext[p] = 0
      /\ UNCHANGED <<users, accounts, transactions, idempotency_keys, outbox, account_seq,
                     tx_seq, submitted, req, replies, ext, id>>
  BY Zenon, Serving DEF GetExternalAccount, Goto, tables, IInv, LocalInv
<1>1. /\ legs' \in [Procs -> Seq(Leg)]
      /\ \A q \in Procs \ {p} : legs'[q] = legs[q]
      /\ \/ pc' = [pc EXCEPT ![p] = "lazy"] /\ legs' = legs
         \/ pc' = [pc EXCEPT ![p] = "check"]
  <2>1. CASE pc' = [pc EXCEPT ![p] = "lazy"] /\ legs' = legs
    BY Zenon, <2>1 DEF IInv, TypeOK
  <2>2. CASE \E a \in accounts : pc' = [pc EXCEPT ![p] = "check"] /\ AddExternalLeg(p, a.id)
    <3>1. \A a \in accounts : a.id \in Nat
      BY Zenon DEF IInv, TypeOK, Account
    <3>. QED
      BY Zenon, <1>0, <2>2, <3>1, AddExternalLegType
  <2>. QED
    BY Zenon, <2>1, <2>2 DEF GetExternalAccount, Goto
<1>2. pc'[p] \in {"lazy", "check"} /\ (pc'[p] = "lazy" => legs' = legs) /\ Others(p)
  BY Zenon, <1>0, <1>1 DEF Others, IInv, TypeOK
<1>3. TypeOK'
  <2>1. pc' \in [Procs -> InTx \cup {"idle", "begin", "invalidate"}]
    BY Zenon, <1>1 DEF IInv, TypeOK, InTx
  <2>. QED
    BY Zenon, <1>0, <1>1, <2>1 DEF IInv, TypeOK
<1>4. LocalInv'
  BY SMTT(60), <1>0, <1>2 DEF Others, IInv, LocalInv
<1>5. IdInv'
  BY Zenon, <1>0, <1>2, IdsUnchanged
<1>6. KeyInv'
  BY Zenon, <1>0, <1>2, KeysUnchanged DEF InTx, Claimed
<1>7. ReversalInv'
  BY Zenon, <1>0, <1>2, ReversalsUnchanged
<1>8. ExternalInv'
  BY Zenon, <1>0, <1>2 DEF Others, IInv, ExternalInv
<1>9. TableInv'
  BY Zenon, <1>0, TablesUnchanged
<1>. QED
  BY Zenon, <1>3, <1>4, <1>5, <1>6, <1>7, <1>8, <1>9 DEF IInv, TableInv

\* Inserting the external account on first use preserves the invariant: the
\* insert waited for every other uncommitted one of the user.
LEMMA CreateExternalAccountInv ==
  ASSUME IInv, NEW p \in Procs, CreateExternalAccount(p) PROVE IInv'
<1>0. /\ pc[p] = "lazy" /\ req[p] \in Requests /\ req[p].op = "create"
      /\ UNCHANGED <<users, accounts, transactions, idempotency_keys, outbox, tx_seq,
                     submitted>>
      /\ account_seq \in Nat \ {0} /\ account_seq' = account_seq + 1
      /\ tx_seq \in Nat \ {0}
  BY Zenon, Serving DEF CreateExternalAccount, tables, IInv, TypeOK, LocalInv
<1>1. CASE Finish(p, "internal", 0)
  BY SMTT(60), <1>0, <1>1, FinishInv
<1>2. CASE /\ ~ExternalTaken(req[p].user)
           /\ ext' = [ext EXCEPT ![p] = account_seq]
           /\ AddExternalLeg(p, account_seq)
           /\ pc' = [pc EXCEPT ![p] = "check"]
           /\ UNCHANGED <<req, replies, id>>
  <2>0. /\ pc'[p] = "check" /\ ext'[p] = account_seq /\ req' = req /\ id' = id /\ Others(p)
        /\ legs' \in [Procs -> Seq(Leg)]
    BY Zenon, <1>0, <1>2, AddExternalLegType DEF Others, IInv, TypeOK
  <2>1. TypeOK'
    <3>1. pc' \in [Procs -> InTx \cup {"idle", "begin", "invalidate"}]
      BY Zenon, <1>2 DEF IInv, TypeOK, InTx
    <3>2. ext' \in [Procs -> Nat] /\ account_seq' \in Nat \ {0}
      BY SMTT(60), <1>0, <1>2 DEF IInv, TypeOK
    <3>. QED
      BY Zenon, <1>0, <1>2, <2>0, <3>1, <3>2 DEF IInv, TypeOK
  <2>2. LocalInv'
    BY SMTT(60), <1>0, <2>0 DEF Others, IInv, LocalInv
  <2>3. IdInv'
    BY Zenon, <1>0, <2>0, IdsUnchanged
  <2>4. KeyInv'
    BY Zenon, <1>0, <2>0, KeysUnchanged DEF InTx, Claimed
  <2>5. ReversalInv'
    BY Zenon, <1>0, <2>0, ReversalsUnchanged
  <2>6. ExternalInv'
    <3>1. \A a \in accounts : a.user = req[p].user => a.kind # "external"
      BY Zenon, <1>2 DEF ExternalTaken
    <3>2. ~\E q \in Procs \ {p} : HoldsExternal(q, req[p].user)
      BY Zenon DEF CreateExternalAccount, ExternalFree
    <3>. QED
      BY ZenonT(60), <1>0, <2>0, <3>1, <3>2 DEF Others, IInv, ExternalInv, HoldsExternal
  <2>7. TableInv'
    BY Zenon, <1>0, TablesUnchanged
  <2>. QED
    BY Zenon, <2>1, <2>2, <2>3, <2>4, <2>5, <2>6, <2>7 DEF IInv, TableInv
<1>. QED
  BY Zenon, <1>1, <1>2 DEF CreateExternalAccount, Goto

\* The per-leg checks of createBalanced preserve the invariant.
LEMMA CheckLegsInv == ASSUME IInv, NEW p \in Procs, CheckLegs(p) PROVE IInv'
<1>0. /\ pc[p] = "check" /\ req[p].op # "reverse"
      /\ UNCHANGED <<users, accounts, transactions, idempotency_keys, outbox, account_seq,
                     tx_seq, submitted>>
      /\ account_seq \in Nat \ {0} /\ tx_seq \in Nat \ {0}
  BY Zenon DEF CheckLegs, tables, IInv, TypeOK, LocalInv
<1>1. CASE \E out : Finish(p, out, 0)
  BY SMTT(60), <1>0, <1>1, FinishInv
<1>2. CASE /\ pc' = [pc EXCEPT ![p] = "write"]
           /\ UNCHANGED <<req, replies, legs, ext, id>>
  <2>0. /\ pc'[p] = "write" /\ Others(p)
        /\ req' = req /\ legs' = legs /\ ext' = ext /\ id' = id
    BY Zenon, <1>2 DEF Others, IInv, TypeOK
  <2>1. TypeOK'
    <3>1. pc' \in [Procs -> InTx \cup {"idle", "begin", "invalidate"}]
      BY Zenon, <1>2 DEF IInv, TypeOK, InTx
    <3>. QED
      BY Zenon, <1>0, <1>2, <3>1 DEF IInv, TypeOK
  <2>2. LocalInv'
    BY SMTT(60), <1>0, <2>0 DEF Others, IInv, LocalInv
  <2>3. IdInv'
    BY Zenon, <1>0, <2>0, IdsUnchanged
  <2>4. KeyInv'
    BY Zenon, <1>0, <2>0, KeysUnchanged DEF InTx, Claimed
  <2>5. ReversalInv'
    BY Zenon, <1>0, <2>0, ReversalsUnchanged
  <2>6. ExternalInv'
    BY SMTT(60), <1>0, <2>0 DEF Others, IInv, ExternalInv, InTx
  <2>7. TableInv'
    BY Zenon, <1>0, TablesUnchanged
  <2>. QED
    BY Zenon, <2>1, <2>2, <2>3, <2>4, <2>5, <2>6, <2>7 DEF IInv, TableInv
<1>. QED
  BY Zenon, <1>1, <1>2 DEF CheckLegs, Goto

\* Reading the original of a reversal preserves the invariant: what goes on to
\* be written is the negation of a transaction that is no reversal.
LEMMA LoadOriginalInv == ASSUME IInv, NEW p \in Procs, LoadOriginal(p) PROVE IInv'
<1> DEFINE found == {t \in transactions : t.id = req[p].target /\ t.user = req[p].user}
<1>0. /\ pc[p] = "load" /\ req[p].op = "reverse"
      /\ UNCHANGED <<users, accounts, transactions, idempotency_keys, outbox, account_seq,
                     tx_seq, submitted>>
      /\ account_seq \in Nat \ {0} /\ tx_seq \in Nat \ {0}
  BY Zenon DEF LoadOriginal, tables, IInv, TypeOK, LocalInv
<1>1. CASE \E out : Finish(p, out, 0)
  BY SMTT(60), <1>0, <1>1, FinishInv
<1>2. ASSUME NEW orig \in found, OriginalError(orig) = "ok",
             pc' = [pc EXCEPT ![p] = "write"],
             legs' = [legs EXCEPT ![p] = Negated(orig.postings)],
             UNCHANGED <<req, replies, ext, id>>
      PROVE  IInv'
  <2>0. /\ pc'[p] = "write" /\ Others(p) /\ legs'[p] = Negated(orig.postings)
        /\ req' = req /\ ext' = ext /\ id' = id
    BY Zenon, <1>2 DEF Others, IInv, TypeOK
  <2>1. TypeOK'
    <3>1. pc' \in [Procs -> InTx \cup {"idle", "begin", "invalidate"}]
      BY Zenon, <1>2 DEF IInv, TypeOK, InTx
    <3>2. legs' \in [Procs -> Seq(Leg)]
      <4>1. orig.postings \in Seq(Leg)
        BY Zenon DEF IInv, TypeOK, Transaction
      <4>. QED
        BY Zenon, <1>2, <4>1, NegatedType DEF IInv, TypeOK
    <3>. QED
      BY Zenon, <1>0, <1>2, <3>1, <3>2 DEF IInv, TypeOK
  <2>2. LocalInv'
    BY SMTT(60), <1>0, <2>0 DEF Others, IInv, LocalInv
  <2>3. IdInv'
    BY Zenon, <1>0, <2>0, IdsUnchanged
  <2>4. KeyInv'
    BY ZenonT(30), <1>0, <2>0, KeysUnchanged DEF InTx, Claimed
  <2>5. ReversalInv'
    <3>1. orig.reversal_of = 0
      BY Zenon, <1>2 DEF OriginalError
    <3>. QED
      BY SMTT(60), <1>0, <2>0, <3>1 DEF Others, IInv, ReversalInv
  <2>6. ExternalInv'
    BY SMTT(60), <1>0, <2>0 DEF Others, IInv, ExternalInv, InTx
  <2>7. TableInv'
    BY Zenon, <1>0, TablesUnchanged
  <2>. QED
    BY Zenon, <2>1, <2>2, <2>3, <2>4, <2>5, <2>6, <2>7 DEF IInv, TableInv
<1>. QED
  BY Zenon, <1>1, <1>2 DEF LoadOriginal, Goto

\* Inserting the header preserves the invariant: its id is new, and the unique
\* index on reversal_of leaves one goroutine per original.
LEMMA WriteRowsInv == ASSUME IInv, NEW p \in Procs, WriteRows(p) PROVE IInv'
<1>0. /\ pc[p] = "write"
      /\ UNCHANGED <<users, accounts, transactions, idempotency_keys, outbox, account_seq,
                     submitted>>
  BY Zenon DEF WriteRows, tables
<1>1. /\ account_seq' \in Nat \ {0} /\ tx_seq \in Nat \ {0}
      /\ tx_seq' = tx_seq + 1 /\ tx_seq' \in Nat \ {0} /\ tx_seq' >= tx_seq
  BY SMTT(60), <1>0 DEF WriteRows, IInv, TypeOK
<1>2. CASE \E out : Finish(p, out, 0)
  BY Zenon, <1>0, <1>1, <1>2, FinishInv
<1>3. CASE /\ ~(req[p].op = "reverse" /\ \E t \in transactions : t.reversal_of = req[p].target)
           /\ id' = [id EXCEPT ![p] = tx_seq]
           /\ pc' = [pc EXCEPT ![p] = "commit"]
           /\ UNCHANGED <<req, replies, legs, ext>>
  <2>0. /\ pc'[p] = "commit" /\ Others(p) /\ id'[p] = tx_seq
        /\ req' = req /\ ext' = ext /\ legs' = legs
    BY Zenon, <1>3 DEF Others, IInv, TypeOK
  <2>1. TypeOK'
    <3>1. pc' \in [Procs -> InTx \cup {"idle", "begin", "invalidate"}]
      BY Zenon, <1>3 DEF IInv, TypeOK, InTx
    <3>2. id' \in [Procs -> Nat]
      BY Zenon, <1>1, <1>3 DEF IInv, TypeOK
    <3>. QED
      BY Zenon, <1>0, <1>1, <1>3, <3>1, <3>2 DEF IInv, TypeOK
  <2>2. LocalInv'
    BY SMTT(60), <1>0, <2>0 DEF Others, IInv, LocalInv
  <2>3. IdInv'
    <3>1. /\ \A t \in transactions : t.id \in Nat /\ t.id < tx_seq
          /\ \A q \in Procs : id[q] \in Nat
      BY Zenon DEF IInv, IdInv, TypeOK, Transaction
    <3>2. \A t \in transactions : t.id < tx_seq' /\ t.id # id'[p]
      BY SMTT(60), <1>1, <2>0, <3>1
    <3>3. \A q \in Procs \ {p} : pc'[q] = "commit" => id'[q] < tx_seq' /\ id'[q] # id'[p]
      BY SMTT(60), <1>1, <2>0, <3>1 DEF Others, IInv, IdInv
    <3>4. id'[p] # 0 /\ id'[p] < tx_seq'
      BY SMTT(60), <1>1, <2>0
    <3>. QED
      BY SMTT(60), <1>0, <2>0, <3>2, <3>3, <3>4 DEF Others, IInv, IdInv
  <2>4. KeyInv'
    BY Zenon, <1>0, <2>0, KeysUnchanged DEF InTx, Claimed
  <2>5. ReversalInv'
    <3>1. req[p].op = "reverse" =>
            /\ \A t \in transactions : t.reversal_of # req[p].target
            /\ ~\E q \in Procs \ {p} : HoldsReversal(q, req[p].target)
      BY Zenon, <1>3 DEF WriteRows
    <3>. QED
      BY SMTT(60), <1>0, <2>0, <3>1 DEF Others, IInv, ReversalInv, HoldsReversal
  <2>6. ExternalInv'
    BY SMTT(60), <1>0, <2>0 DEF Others, IInv, ExternalInv, InTx
  <2>7. TableInv'
    BY Zenon, <1>0, TablesUnchanged
  <2>. QED
    BY Zenon, <2>1, <2>2, <2>3, <2>4, <2>5, <2>6, <2>7 DEF IInv, TableInv
<1>. QED
  BY Zenon, <1>2, <1>3 DEF WriteRows, Goto
---------------------------------------------------------------------------
\* The row a goroutine is about to commit.
LEMMA NewTransactionFacts ==
  ASSUME IInv, NEW p \in Procs, pc[p] = "commit"
  PROVE  LET t == NewTransaction(p) IN
         /\ t \in Transaction
         /\ t.id = id[p] /\ t.by = req[p] /\ t.postings = legs[p]
         /\ t.user = req[p].user
         /\ req[p].op # "reverse" => t.reversal_of = 0
         /\ req[p].op = "reverse" => t.reversal_of = req[p].target
         /\ t.reversal_of # 0 => req[p].op = "reverse"
<1>1. /\ req[p] \in Requests /\ req[p] \in Request
      /\ legs[p] \in Seq(Leg) /\ id[p] \in Nat \ {0}
  BY Zenon, Serving DEF IInv, TypeOK, IdInv
<1>2. CASE req[p].op # "reverse"
  BY Zenon, <1>1, <1>2 DEF NewTransaction, Transaction, Request, Instant
<1>3. CASE req[p].op = "reverse"
  <2>1. \E t \in transactions : t.id = req[p].target
    BY Zenon, <1>3 DEF IInv, ReversalInv
  <2>2. Reversed(req[p]) \in transactions
    BY Zenon, <2>1 DEF Reversed
  <2>3. Reversed(req[p]).currency \in STRING
    BY Zenon, <2>2 DEF IInv, TypeOK, Transaction
  <2>. QED
    BY Zenon, <1>1, <1>3, <2>3, ConstantsAssumption DEF NewTransaction, Transaction, Request
<1>. QED
  BY Zenon, <1>2, <1>3

\* The moment of COMMIT: the rows become visible, the locks go.
LEMMA CommitRowsInv ==
  ASSUME IInv, NEW p \in Procs, pc[p] = "commit", CommitRows(p),
         check_transaction_balanced(legs[p]),
         Others(p), pc'[p] \in {"idle", "invalidate"},
         pc'[p] = "idle" => req'[p] = NoReq /\ ext'[p] = 0,
         pc'[p] = "invalidate" => req'[p] = req[p] /\ id'[p] = id[p],
         LocalType', UNCHANGED <<users, account_seq, tx_seq, submitted>>
  PROVE  IInv'
<1> DEFINE n == NewTransaction(p)
<1>a. /\ p \in Procs /\ pc[p] = "commit" /\ Others(p) /\ pc'[p] \in {"idle", "invalidate"}
      /\ pc'[p] = "idle" => req'[p] = NoReq /\ ext'[p] = 0
      /\ pc'[p] = "invalidate" => req'[p] = req[p] /\ id'[p] = id[p]
      /\ tx_seq' = tx_seq /\ account_seq' = account_seq
  BY Zenon
<1>0. /\ transactions' = transactions \cup {n}
      /\ idempotency_keys' = idempotency_keys \cup NewKeys(p)
      /\ outbox' = Append(outbox, NewEvent(p))
      /\ accounts' = Visible(p)
  BY Zenon DEF CommitRows
<1>1. /\ n \in Transaction
      /\ n.id = id[p] /\ n.by = req[p] /\ n.postings = legs[p]
      /\ n.user = req[p].user
      /\ req[p].op = "reverse" => n.reversal_of = req[p].target
      /\ n.reversal_of # 0 => req[p].op = "reverse"
      /\ req[p] \in Requests /\ req[p] \in Request /\ req[p] # NoReq
  BY ZenonT(30), NewTransactionFacts, Serving, RequestsAssumption
<1> HIDE DEF n
<1>2. \A k \in NewKeys(p) :
        /\ req[p].key # NoKey
        /\ k.user = req[p].user /\ k.key = req[p].key /\ k.response = id[p]
        /\ k.status = "succeeded"
  BY SMTT(60) DEF NewKeys
<1>3. req[p].key # NoKey => \E k \in NewKeys(p) : TRUE
  BY Zenon DEF NewKeys
<1>4. id[p] \in Nat \ {0} /\ id[p] < tx_seq /\ \A t \in transactions : t.id # id[p]
  BY Zenon DEF IInv, IdInv, TypeOK
<1>5. TypeOK'
  <2>1. accounts' \subseteq Account
    <3>0. ext[p] \in Nat /\ req[p].user \in Users /\ req[p].currency \in STRING
      BY Zenon, <1>1 DEF Request, IInv, TypeOK
    <3>1. ASSUME ext[p] # 0
          PROVE  External(req[p].user, ext[p], req[p].currency) \in Account
      <4>1. ext[p] \in Nat \ {0}
        BY Zenon, <3>0, <3>1
      <4>. QED
        BY Zenon, <3>0, <4>1, AccountType
    <3>. QED
      BY Zenon, <1>0, <3>1 DEF Visible, IInv, TypeOK
  <2>2. transactions' \subseteq Transaction
    BY Zenon, <1>0, <1>1 DEF IInv, TypeOK
  <2>3. \A k \in idempotency_keys' :
         /\ k.user \in Users /\ k.key \in STRING \ {NoKey}
         /\ k.status \in {"started", "succeeded"} /\ k.response \in Nat \ {0}
    BY ZenonT(60), <1>0, <1>1, <1>2, <1>4 DEF IInv, TypeOK, Request
  <2>4. outbox' \in Seq([type : {"TransactionCreated", "TransactionReversed"},
                         tx : Nat \ {0}])
    <3>1. NewEvent(p) \in [type : {"TransactionCreated", "TransactionReversed"},
                           tx : Nat \ {0}]
      BY ZenonT(30), <1>4 DEF NewEvent
    <3>. QED
      BY Zenon, <1>0, <3>1, AppendProperties DEF IInv, TypeOK
  <2>. QED
    BY Zenon, <2>1, <2>2, <2>3, <2>4 DEF LocalType, IInv, TypeOK
<1>6. LocalInv'
  <2>1. pc'[p] = "invalidate" => Validate(req[p]) = "ok"
    BY ZenonT(30) DEF IInv, LocalInv
  <2>. QED
    BY ONLY IInv, <1>a, <1>1, <2>1, SMTT(60) DEF Others, IInv, LocalInv
<1>7. IdInv'
  <2>1. \A q \in Procs \ {p} : pc[q] = "commit" => id[q] # id[p]
    BY ZenonT(30) DEF IInv, IdInv
  <2>. QED
    BY ONLY IInv, <1>a, <1>0, <1>1, <1>4, <2>1, SMTT(60) DEF Others, IInv, IdInv
<1>8. KeyInv'
  <2>1. \A q \in Procs \ {p} : pc[q] \in Claimed /\ req[q].key # NoKey =>
          \A k \in NewKeys(p) : k.user = req[q].user => k.key # req[q].key
    BY ZenonT(60), <1>2 DEF IInv, KeyInv, Claimed, InTx
  <2>. QED
    BY ONLY IInv, <1>a, <1>0, <2>1, SMTT(60) DEF Others, IInv, KeyInv, Claimed, InTx
<1>9. ReversalInv'
  <2>1. \A q \in Procs \ {p} : pc[q] = "commit" /\ req[q].op = "reverse" =>
          n.reversal_of # req[q].target
    <3>1. \A q \in Procs : pc[q] = "commit" /\ req[q].op = "reverse" => req[q].target # 0
      BY ONLY IInv, SMTT(60) DEF IInv, ReversalInv, TypeOK, Transaction
    <3>. QED
      BY Zenon, <1>1, <3>1 DEF IInv, ReversalInv
  <2>. QED
    BY ONLY IInv, <1>a, <1>0, <2>1, SMTT(60) DEF Others, IInv, ReversalInv
<1>10. ExternalInv'
  <2>1. \A q \in Procs \ {p} : ext[q] # 0 /\ pc[q] \in InTx =>
          \A a \in accounts' : a.user = req[q].user => a.kind # "external"
    <3>1. \A q \in Procs \ {p} : ext[q] # 0 /\ pc[q] \in InTx /\ ext[p] # 0 =>
            req[q].user # req[p].user
      BY Zenon DEF IInv, ExternalInv, InTx
    <3>. QED
      BY ONLY IInv, p \in Procs, <1>0, <3>1, SMTT(60) DEF Visible, External, IInv, ExternalInv
  <2>. QED
    BY ONLY IInv, <1>a, <2>1, SMTT(60) DEF Others, IInv, ExternalInv, InTx
<1>11. ZeroSum'
  BY ZenonT(30), <1>0, <1>1 DEF IInv, ZeroSum, Balanced, check_transaction_balanced
<1>12. ExactlyOnce'
  <2>1. \A t \in transactions : t.by # NoReq /\ t.by.key # NoKey /\ req[p].key # NoKey =>
          ~(t.by.user = req[p].user /\ t.by.key = req[p].key)
    <3>1. req[p].key # NoKey =>
            \A k \in idempotency_keys : k.user = req[p].user => k.key # req[p].key
      BY Zenon DEF IInv, KeyInv, Claimed, InTx
    <3>2. \A t \in transactions : t.by # NoReq /\ t.by.key # NoKey =>
            \E k \in idempotency_keys : k.user = t.by.user /\ k.key = t.by.key
      BY Zenon DEF IInv, KeyWithTransaction
    <3>. QED
      BY ONLY <3>1, <3>2, SMTT(60)
  <2>2. \A t, u \in transactions :
          /\ t.by # NoReq /\ u.by # NoReq /\ t.by.key # NoKey
          /\ t.by.user = u.by.user /\ t.by.key = u.by.key
          => t = u
    BY Zenon DEF IInv, ExactlyOnce
  <2>3. \A t \in transactions : t.by # NoReq /\ t.by.key # NoKey =>
          ~(t.by.user = n.by.user /\ t.by.key = n.by.key)
    BY Zenon, <1>1, <2>1
  <2>4. \A t \in transactions : t.by # NoReq /\ n.by.key # NoKey =>
          ~(n.by.user = t.by.user /\ n.by.key = t.by.key)
    BY Zenon, <1>1, <2>1
  <2>. QED
    BY ONLY <1>0, <2>2, <2>3, <2>4, SMTT(60) DEF ExactlyOnce
<1>13. KeyWithTransaction'
  <2>1. \A k \in NewKeys(p) : /\ n.id = k.response /\ n.by # NoReq
                             /\ n.by.user = k.user /\ n.by.key = k.key
    BY Zenon, <1>1, <1>2
  <2>2. n.by.key # NoKey => \E k \in NewKeys(p) :
          k.user = n.by.user /\ k.key = n.by.key /\ k.response = n.id
    BY Zenon, <1>1, <1>2, <1>3
  <2>3. \A k \in idempotency_keys' : \E t \in transactions' :
         /\ t.id = k.response /\ t.by # NoReq
         /\ t.by.user = k.user /\ t.by.key = k.key
    BY Zenon, <1>0, <2>1 DEF IInv, KeyWithTransaction
  <2>4. \A t \in transactions' : t.by # NoReq /\ t.by.key # NoKey =>
         \E k \in idempotency_keys' :
            k.user = t.by.user /\ k.key = t.by.key /\ k.response = t.id
    <3>1. \A t \in transactions : t.by # NoReq /\ t.by.key # NoKey =>
            \E k \in idempotency_keys :
               k.user = t.by.user /\ k.key = t.by.key /\ k.response = t.id
      BY Zenon DEF IInv, KeyWithTransaction
    <3>. QED
      BY ONLY <1>0, <2>2, <3>1, SMTT(60)
  <2>. QED
    BY Zenon, <2>3, <2>4 DEF KeyWithTransaction
<1>14. ReversedOnce'
  BY ONLY IInv, pc[p] = "commit", p \in Procs, <1>0, <1>1, SMTT(60)
     DEF IInv, ReversedOnce, ReversalInv
<1>15. OneExternal'
  <2>1. CASE ext[p] = 0
    BY ZenonT(30), <1>0, <2>1 DEF Visible, IInv, OneExternal
  <2>2. CASE ext[p] # 0
    <3> DEFINE e == External(req[p].user, ext[p], req[p].currency)
    <3>1. e.user = req[p].user /\ accounts' = accounts \cup {e}
      BY Zenon, <1>0, <2>2 DEF Visible, External
    <3>2. \A a \in accounts : a.user = req[p].user => a.kind # "external"
      BY Zenon, <2>2 DEF IInv, ExternalInv, InTx
    <3> HIDE DEF e
    <3>3. OneExternal
      BY Zenon DEF IInv
    <3>. QED
      BY ONLY <3>1, <3>2, <3>3, SMTT(60) DEF OneExternal
  <2>. QED
    BY Zenon, <2>1, <2>2
<1>. QED
  BY ZenonT(30), <1>5, <1>6, <1>7, <1>8, <1>9, <1>10, <1>11, <1>12, <1>13, <1>14, <1>15 DEF IInv

\* COMMIT preserves the invariant, whether the deferred trigger passes or
\* raises.
LEMMA CommitInv == ASSUME IInv, NEW p \in Procs, Commit(p) PROVE IInv'
<1>1. CASE check_transaction_balanced(legs[p])
  <2>0. /\ pc[p] = "commit" /\ CommitRows(p)
        /\ pc' = [pc EXCEPT ![p] = "invalidate"]
        /\ UNCHANGED <<req, replies, legs, ext, id, users, account_seq, tx_seq, submitted>>
    BY Zenon, <1>1 DEF Commit, Goto
  <2>1. pc'[p] = "invalidate" /\ Others(p)
    BY Zenon, <2>0 DEF Others, IInv, TypeOK
  <2>2. LocalType'
    <3>1. pc' \in [Procs -> InTx \cup {"idle", "begin", "invalidate"}]
      BY Zenon, <2>0 DEF IInv, TypeOK, InTx
    <3>. QED
      BY Zenon, <2>0, <3>1 DEF LocalType, IInv, TypeOK
  <2>. QED
    BY Zenon, <1>1, <2>0, <2>1, <2>2, CommitRowsInv
<1>2. CASE ~check_transaction_balanced(legs[p])
  <2>1. Finish(p, "internal", 0) /\ pc[p] = "commit"
        /\ UNCHANGED <<users, accounts, transactions, idempotency_keys, outbox,
                       account_seq, tx_seq, submitted>>
        /\ account_seq \in Nat \ {0} /\ tx_seq \in Nat \ {0}
    BY Zenon, <1>2 DEF Commit, tables, IInv, TypeOK
  <2>. QED
    BY SMTT(60), <2>1, FinishInv
<1>. QED
  BY Zenon, <1>1, <1>2

\* A COMMIT the goroutine never hears of preserves the invariant.
LEMMA CommitLostInv == ASSUME IInv, NEW p \in Procs, CommitLost(p) PROVE IInv'
<1>0. /\ pc[p] = "commit" /\ CommitRows(p) /\ check_transaction_balanced(legs[p])
      /\ Finish(p, "internal", 0)
      /\ UNCHANGED <<users, account_seq, tx_seq, submitted>>
  BY Zenon DEF CommitLost
<1>1. /\ pc'[p] = "idle" /\ req'[p] = NoReq /\ ext'[p] = 0 /\ Others(p)
  BY Zenon, <1>0 DEF Finish, Others, IInv, TypeOK
<1>2. LocalType'
  <2>1. pc' \in [Procs -> InTx \cup {"idle", "begin", "invalidate"}]
    BY Zenon, <1>0 DEF Finish, IInv, TypeOK, InTx
  <2>2. req' \in [Procs -> Requests \cup {NoReq}] /\ legs' \in [Procs -> Seq(Leg)]
        /\ ext' \in [Procs -> Nat] /\ id' \in [Procs -> Nat]
    BY SMTT(60), <1>0 DEF Finish, IInv, TypeOK
  <2>3. \A a \in replies' : a.req \in Requests /\ a.tx \in Nat
    BY SMTT(60), <1>0, Serving DEF Finish, Reply, IInv, TypeOK
  <2>. QED
    BY Zenon, <2>1, <2>2, <2>3 DEF LocalType
<1>. QED
  BY Zenon, <1>0, <1>1, <1>2, CommitRowsInv

\* Answering after the cache invalidation preserves the invariant.
LEMMA InvalidateInv == ASSUME IInv, NEW p \in Procs, Invalidate(p) PROVE IInv'
<1>1. /\ pc[p] = "invalidate" /\ Finish(p, "ok", id[p]) /\ id[p] \in Nat
      /\ UNCHANGED <<users, accounts, transactions, idempotency_keys, outbox,
                     account_seq, tx_seq, submitted>>
      /\ account_seq \in Nat \ {0} /\ tx_seq \in Nat \ {0}
  BY Zenon DEF Invalidate, tables, IInv, TypeOK
<1>. QED
  BY SMTT(60), <1>1, FinishInv

\* A failed statement, a timeout or a crash before COMMIT preserves the
\* invariant.
LEMMA AbortInv == ASSUME IInv, NEW p \in Procs, Abort(p) PROVE IInv'
<1>1. /\ pc[p] # "idle" /\ Finish(p, "internal", 0)
      /\ UNCHANGED <<users, accounts, transactions, idempotency_keys, outbox,
                     account_seq, tx_seq, submitted>>
      /\ account_seq \in Nat \ {0} /\ tx_seq \in Nat \ {0}
  BY Zenon DEF Abort, InTx, tables, IInv, TypeOK
<1>. QED
  BY SMTT(60), <1>1, FinishInv
---------------------------------------------------------------------------
\* Accepting or rejecting a request before the database is touched preserves
\* the invariant.
LEMMA SubmitInv == ASSUME IInv, NEW p \in Procs, NEW r \in Requests, Submit(p, r) PROVE IInv'
<1>0. /\ pc[p] = "idle"
      /\ UNCHANGED <<users, accounts, transactions, idempotency_keys, outbox,
                     account_seq, tx_seq, legs, ext, id>>
      /\ submitted' = submitted + 1 /\ submitted \in Nat
  BY Zenon DEF Submit, tables, IInv, TypeOK
<1>1. submitted' \in Nat
  BY SMTT(60), <1>0
<1>2. CASE /\ Reply(r, Validate(r), 0) /\ UNCHANGED <<pc, req>>
  <2>1. TypeOK'
    BY SMTT(60), <1>0, <1>1, <1>2 DEF Reply, IInv, TypeOK
  <2>2. LocalInv'
    BY Zenon, <1>0, <1>2 DEF IInv, LocalInv
  <2>3. IdInv' /\ KeyInv'
    BY Zenon, <1>0, <1>2 DEF IInv, IdInv, KeyInv
  <2>4. ReversalInv' /\ ExternalInv'
    BY Zenon, <1>0, <1>2 DEF IInv, ReversalInv, ExternalInv
  <2>5. TableInv'
    BY Zenon, <1>0, TablesUnchanged
  <2>. QED
    BY Zenon, <2>1, <2>2, <2>3, <2>4, <2>5 DEF IInv, TableInv
<1>3. CASE /\ Validate(r) = "ok"
           /\ pc' = [pc EXCEPT ![p] = "begin"] /\ req' = [req EXCEPT ![p] = r]
           /\ UNCHANGED replies
  <2>0. pc'[p] = "begin" /\ req'[p] = r /\ r # NoReq /\ Others(p)
    BY Zenon, <1>0, <1>3, RequestsAssumption DEF Others, IInv, TypeOK
  <2>1. TypeOK'
    <3>1. pc' \in [Procs -> InTx \cup {"idle", "begin", "invalidate"}]
      BY Zenon, <1>3 DEF IInv, TypeOK, InTx
    <3>2. req' \in [Procs -> Requests \cup {NoReq}]
      BY Zenon, <1>3 DEF IInv, TypeOK
    <3>. QED
      BY Zenon, <1>0, <1>1, <1>3, <3>1, <3>2 DEF IInv, TypeOK
  <2>2. LocalInv'
    BY SMTT(60), <1>0, <1>3, <2>0 DEF Others, IInv, LocalInv
  <2>3. IdInv'
    BY SMTT(60), <1>0, <2>0 DEF Others, IInv, IdInv
  <2>4. KeyInv'
    BY SMTT(60), <1>0, <2>0 DEF Others, IInv, KeyInv, Claimed, InTx
  <2>5. ReversalInv'
    BY SMTT(60), <1>0, <2>0 DEF Others, IInv, ReversalInv
  <2>6. ExternalInv'
    BY SMTT(60), <1>0, <2>0 DEF Others, IInv, ExternalInv, InTx
  <2>7. TableInv'
    BY Zenon, <1>0, TablesUnchanged
  <2>. QED
    BY Zenon, <2>1, <2>2, <2>3, <2>4, <2>5, <2>6, <2>7 DEF IInv, TableInv
<1>. QED
  BY Zenon, <1>2, <1>3 DEF Submit

\* Registering a user preserves the invariant.
LEMMA RegisterInv == ASSUME IInv, NEW u \in Users, Register(u) PROVE IInv'
<1>0. /\ users' = users \cup {u}
      /\ UNCHANGED <<accounts, transactions, idempotency_keys, outbox, account_seq, tx_seq,
                     pc, req, legs, ext, id, submitted, replies>>
  BY Zenon DEF Register, tables, local
<1>1. TypeOK'
  BY Zenon, <1>0 DEF IInv, TypeOK
<1>2. LocalInv' /\ IdInv'
  BY Zenon, <1>0 DEF IInv, LocalInv, IdInv
<1>3. KeyInv' /\ ReversalInv' /\ ExternalInv'
  BY Zenon, <1>0 DEF IInv, KeyInv, ReversalInv, ExternalInv
<1>4. TableInv'
  BY Zenon, <1>0, TablesUnchanged
<1>. QED
  BY Zenon, <1>1, <1>2, <1>3, <1>4 DEF IInv, TableInv

\* POST /accounts preserves the invariant: it only inserts normal accounts.
LEMMA CreateAccountInv == ASSUME IInv, NEW b \in NewAccounts, CreateAccount(b) PROVE IInv'
<1> DEFINE row == [id |-> account_seq, user |-> b.user, name |-> b.name,
                   currency |-> b.currency, kind |-> "normal", is_active |-> TRUE]
<1>0. /\ account_seq' = account_seq + 1
      /\ UNCHANGED <<users, transactions, idempotency_keys, outbox, tx_seq,
                     pc, req, legs, ext, id, submitted, replies>>
      /\ accounts' = accounts \/ accounts' = accounts \cup {row}
  BY Zenon DEF CreateAccount, local
<1>1. row \in Account /\ row.kind = "normal"
  <2>1. account_seq \in Nat \ {0} /\ b.user \in Users /\ b.name \in STRING
        /\ b.currency \in STRING
    BY Zenon, RequestsAssumption DEF IInv, TypeOK
  <2>. QED
    BY Zenon, <2>1, AccountType
<1> HIDE DEF row
<1>2. TypeOK'
  <2>1. account_seq' \in Nat \ {0}
    BY SMTT(60), <1>0 DEF IInv, TypeOK
  <2>. QED
    BY Zenon, <1>0, <1>1, <2>1 DEF IInv, TypeOK
<1>3. LocalInv' /\ IdInv'
  BY Zenon, <1>0 DEF IInv, LocalInv, IdInv
<1>4. KeyInv' /\ ReversalInv'
  BY Zenon, <1>0 DEF IInv, KeyInv, ReversalInv
<1>5. ExternalInv'
  BY Zenon, <1>0, <1>1 DEF IInv, ExternalInv
<1>6. ZeroSum' /\ ExactlyOnce' /\ KeyWithTransaction' /\ ReversedOnce'
  BY Zenon, <1>0 DEF IInv, ZeroSum, ExactlyOnce, KeyWithTransaction, ReversedOnce
<1>7. OneExternal'
  BY Zenon, <1>0, <1>1 DEF IInv, OneExternal
<1>. QED
  BY Zenon, <1>2, <1>3, <1>4, <1>5, <1>6, <1>7 DEF IInv

\* The rows of a freshly migrated database satisfy the invariant.
LEMMA InitInv == Init => IInv
<1> SUFFICES ASSUME Init PROVE IInv
  BY Zenon
<1>0. /\ transactions = Transactions0 /\ accounts = Accounts0 /\ idempotency_keys = {}
      /\ tx_seq = TxSeq0
      /\ \A p \in Procs : pc[p] = "idle" /\ req[p] = NoReq /\ ext[p] = 0
  BY Zenon DEF Init
<1>1. TypeOK
  <2>1. <<>> \in Seq(Leg) /\ outbox \in Seq([type : {"TransactionCreated", "TransactionReversed"},
                                              tx : Nat \ {0}])
    BY SMTT(60) DEF Init
  <2>2. pc \in [Procs -> InTx \cup {"idle", "begin", "invalidate"}]
    BY Zenon DEF Init, InTx
  <2>3. legs \in [Procs -> Seq(Leg)]
    BY Zenon, <2>1 DEF Init
  <2>. QED
    BY Zenon, <2>1, <2>2, <2>3, ConstantsAssumption, Accounts0Assumption, Transactions0Assumption
    DEF Init, TypeOK
<1>2. LocalInv /\ KeyInv /\ ReversalInv
  BY Zenon, <1>0 DEF LocalInv, KeyInv, Claimed, InTx, ReversalInv
<1>3. IdInv
  BY Zenon, <1>0, Transactions0Assumption DEF IdInv
<1>4. ExternalInv
  BY Zenon, <1>0 DEF ExternalInv
<1>5. ZeroSum /\ ExactlyOnce /\ KeyWithTransaction /\ ReversedOnce
  BY Zenon, <1>0, Transactions0Assumption
  DEF ZeroSum, ExactlyOnce, KeyWithTransaction, ReversedOnce
<1>6. OneExternal
  BY SMTT(60), <1>0, Accounts0Assumption DEF OneExternal
<1>. QED
  BY Zenon, <1>1, <1>2, <1>3, <1>4, <1>5, <1>6 DEF IInv

\* Every step, and every stutter, preserves the invariant.
LEMMA NextInv == IInv /\ [Next]_vars => IInv'
<1>1. ASSUME IInv, UNCHANGED vars PROVE IInv'
  <2>0. UNCHANGED <<users, accounts, transactions, idempotency_keys, outbox, account_seq, tx_seq,
                    pc, req, legs, ext, id, submitted, replies>>
    BY Zenon, <1>1 DEF vars, tables, local
  <2>1. TypeOK'
    BY Zenon, <1>1, <2>0 DEF IInv, TypeOK
  <2>2. LocalInv' /\ IdInv'
    BY ZenonT(30), <1>1, <2>0 DEF IInv, LocalInv, IdInv
  <2>3. KeyInv' /\ ReversalInv' /\ ExternalInv'
    BY ZenonT(30), <1>1, <2>0 DEF IInv, KeyInv, ReversalInv, ExternalInv
  <2>4. TableInv'
    BY Zenon, <1>1, <2>0, TablesUnchanged
  <2>. QED
    BY Zenon, <2>1, <2>2, <2>3, <2>4 DEF IInv, TableInv
<1>2. ASSUME IInv, NEW p \in Procs, Step(p) PROVE IInv'
  BY Zenon, <1>2, BeginInv, ClaimInv, GetExternalAccountInv, CreateExternalAccountInv, CheckLegsInv,
     LoadOriginalInv, WriteRowsInv, CommitInv, InvalidateInv DEF Step
<1>. QED
  BY Zenon, <1>1, <1>2, RegisterInv, CreateAccountInv, SubmitInv, AbortInv, CommitLostInv DEF Next
---------------------------------------------------------------------------
\* The inductive invariant holds in every behaviour of the service.
THEOREM Invariance == Spec => []IInv
BY InitInv, NextInv, PTL DEF Spec

\* Every table, sequence and goroutine of the service keeps its type.
THEOREM TypeCorrect == Spec => []TypeOK
<1>1. IInv => TypeOK
  BY Zenon DEF IInv
<1>. QED
  BY <1>1, Invariance, PTL

\* createBalanced and Reverse never commit postings that do not sum to zero.
THEOREM ZeroSumHolds == Spec => []ZeroSum
<1>1. IInv => ZeroSum
  BY Zenon DEF IInv
<1>. QED
  BY <1>1, Invariance, PTL

\* A keyed request books at most one transaction, however requests of
\* createBalanced and Reverse interleave, fail, are cut off or are repeated.
THEOREM ExactlyOnceHolds == Spec => []ExactlyOnce
<1>1. IInv => ExactlyOnce
  BY Zenon DEF IInv
<1>. QED
  BY <1>1, Invariance, PTL

\* A key is spent exactly when the transaction it stands for is committed: no
\* crash between the two INSERTs leaves one without the other.
THEOREM KeyWithTransactionHolds == Spec => []KeyWithTransaction
<1>1. IInv => KeyWithTransaction
  BY Zenon DEF IInv
<1>. QED
  BY <1>1, Invariance, PTL

\* However many Reverse requests race, a transaction is reversed at most once.
THEOREM ReversedOnceHolds == Spec => []ReversedOnce
<1>1. IInv => ReversedOnce
  BY Zenon DEF IInv
<1>. QED
  BY <1>1, Invariance, PTL

\* Concurrent first creates of a user never leave two external accounts.
THEOREM OneExternalHolds == Spec => []OneExternal
<1>1. IInv => OneExternal
  BY Zenon DEF IInv
<1>. QED
  BY <1>1, Invariance, PTL
=============================================================================
