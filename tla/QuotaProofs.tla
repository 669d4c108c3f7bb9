---------------------------- MODULE QuotaProofs ----------------------------
(***************************************************************************)
(* Quota's window bound for every number of integrations, callers and      *)
(* every bucket configuration that validate_rate_limit_bucket accepts.     *)
(***************************************************************************)
EXTENDS Quota, TLAPS

(* Bucket constants as numbers: a capacity is a natural number.              *)
LEMMA CapacityNat ==
  ASSUME NEW b \in Buckets
  PROVE  Period[b] \in Nat \ {0} /\ Burst[b] \in Nat \ {0} /\ Capacity(b) \in Nat
<1>1. Period[b] \in Nat \ {0} /\ Burst[b] \in Nat \ {0}
  BY BucketConstants
<1>2. \A m, n \in Nat : m * n \in Nat
  OBVIOUS
<1> QED
  BY <1>1, <1>2 DEF Capacity

(* One more request costs one more period.                                   *)
LEMMA OneMore ==
  ASSUME NEW n \in Nat, NEW p \in Nat
  PROVE  (n + 1) * p = n * p + p /\ n * p \in Nat
  OBVIOUS

(* Ownership of the buckets a handler asks.                                  *)
LEMMA AskedBuckets ==
  /\ Asks \subseteq Buckets
  /\ \A a \in Asks : <<Global, a[2]>> \in Buckets
  /\ Nothing \notin Buckets
  /\ \A a \in Asks : a # Nothing
  BY DEF Asks, Buckets, Nothing, Capabilities

(* A fresh gateway owes nothing and watches nothing.                         *)
LEMMA InvInit == Init => Inv
<1> SUFFICES ASSUME Init PROVE Inv
  OBVIOUS
<1>1. TypeOK
  BY QuotaConstants DEF Init, BucketsInit, TypeOK, BucketsTypeOK
<1>2. DebtBounded
  BY CapacityNat DEF Init, BucketsInit, DebtBounded
<1> QED
  BY <1>1, <1>2 DEF Init, Inv, PaidOrOwed

(* A bucket that lets a request through, counted when it is watched, keeps   *)
(* the invariant.                                                            *)
LEMMA ChargeStep ==
  ASSUME Inv, NEW b \in Buckets, Charge(b), Count(b),
         UNCHANGED <<watched, elapsed>>,
         asks' \in [Callers -> Asks \cup {Nothing}]
  PROVE  Inv'
<1>0. /\ debt \in [Buckets -> Nat] /\ passed \in Nat /\ elapsed \in Nat
      /\ watched \in Buckets \cup {Nothing}
  BY QuotaConstants DEF Inv, TypeOK, BucketsTypeOK
<1>1. debt' = [debt EXCEPT ![b] = @ + Period[b]] /\ debt[b] + Period[b] <= Capacity(b)
  BY DEF Charge, HasRoom
<1>2. TypeOK'
  BY <1>0, <1>1, CapacityNat DEF Inv, TypeOK, BucketsTypeOK, Count
<1>3. DebtBounded'
  <2> SUFFICES ASSUME NEW q \in Buckets PROVE debt'[q] <= Capacity(q)
    BY DEF DebtBounded, Capacity
  <2> QED
    BY <1>0, <1>1 DEF Inv, DebtBounded
<1>4. PaidOrOwed'
  <2> SUFFICES ASSUME watched # Nothing
               PROVE  passed' * Period[watched] <= elapsed + debt'[watched]
    BY DEF PaidOrOwed
  <2>1. watched \in Buckets /\ Period[watched] \in Nat
    BY <1>0, CapacityNat
  <2>2. passed * Period[watched] <= elapsed + debt[watched]
    BY DEF Inv, PaidOrOwed
  <2>3. CASE b = watched
    <3>1. passed' = passed + 1 /\ debt'[watched] = debt[watched] + Period[watched]
      BY <1>0, <1>1, <2>1, <2>3 DEF Count
    <3>2. /\ (passed + 1) * Period[watched] = passed * Period[watched] + Period[watched]
          /\ passed * Period[watched] \in Nat
      BY <1>0, <2>1, OneMore
    <3>3. ASSUME NEW x \in Nat, NEW p \in Nat, NEW t \in Nat, NEW d \in Nat, x <= t + d
          PROVE  x + p <= t + (d + p)
      BY <3>3
    <3> QED
      BY <1>0, <2>1, <2>2, <3>1, <3>2, <3>3
  <2>4. CASE b # watched
    BY <1>0, <1>1, <2>1, <2>2, <2>4 DEF Count
  <2> QED
    BY <2>3, <2>4
<1>5. (watched = Nothing => elapsed = 0 /\ passed = 0)'
  BY AskedBuckets DEF Inv, Count
<1> QED
  BY <1>2, <1>3, <1>4, <1>5 DEF Inv

(* Time pays back at most what it lets pass.                                 *)
LEMMA TickStep == Inv /\ Tick => Inv'
<1> SUFFICES ASSUME Inv, Tick PROVE Inv'
  OBVIOUS
<1>0. /\ debt \in [Buckets -> Nat] /\ passed \in Nat /\ elapsed \in Nat
      /\ watched \in Buckets \cup {Nothing}
  BY QuotaConstants DEF Inv, TypeOK, BucketsTypeOK
<1>1. /\ debt' = [b \in Buckets |-> IF debt[b] = 0 THEN 0 ELSE debt[b] - 1]
      /\ watched' = watched /\ passed' = passed
  BY DEF Tick, Replenish
<1>2. TypeOK'
  BY <1>0, <1>1, QuotaConstants DEF Inv, TypeOK, BucketsTypeOK, Tick
<1>3. DebtBounded'
  <2> SUFFICES ASSUME NEW q \in Buckets PROVE debt'[q] <= Capacity(q)
    BY DEF DebtBounded, Capacity
  <2> QED
    BY <1>0, <1>1, CapacityNat DEF Inv, DebtBounded
<1>4. PaidOrOwed'
  <2> SUFFICES ASSUME watched # Nothing
               PROVE  passed * Period[watched] <= elapsed' + debt'[watched]
    BY <1>1 DEF PaidOrOwed
  <2>1. watched \in Buckets /\ Period[watched] \in Nat /\ passed * Period[watched] \in Nat
    BY <1>0, CapacityNat, OneMore
  <2>2. passed * Period[watched] <= elapsed + debt[watched]
    BY DEF Inv, PaidOrOwed
  <2>3. elapsed' = elapsed + 1
    BY DEF Tick
  <2> QED
    BY <1>0, <1>1, <2>1, <2>2, <2>3
<1>5. (watched = Nothing => elapsed = 0 /\ passed = 0)'
  BY <1>1 DEF Inv, Tick
<1> QED
  BY <1>2, <1>3, <1>4, <1>5 DEF Inv

(* Every step of the limiters keeps the invariant.                           *)
LEMMA InvStep == Inv /\ [Next]_vars => Inv'
<1> SUFFICES ASSUME Inv, [Next]_vars PROVE Inv'
  OBVIOUS
<1>0. asks \in [Callers -> Asks \cup {Nothing}]
  BY DEF Inv, TypeOK
<1>1. ASSUME NEW c \in Callers, NEW a \in Asks, CheckIntegration(c, a) PROVE Inv'
  <2>1. a \in Buckets /\ asks' \in [Callers -> Asks \cup {Nothing}]
    BY <1>0, <1>1, AskedBuckets DEF CheckIntegration
  <2> QED
    BY <1>1, <2>1, ChargeStep DEF CheckIntegration
<1>2. ASSUME NEW c \in Callers, CheckGlobal(c) PROVE Inv'
  <2>1. asks[c] \in Asks
    BY <1>0, <1>2 DEF CheckGlobal
  <2>2. <<Global, asks[c][2]>> \in Buckets
    BY <2>1, AskedBuckets
  <2>3. asks' \in [Callers -> Asks \cup {Nothing}]
    BY <1>0, <1>2 DEF CheckGlobal
  <2> QED
    BY <1>2, <2>2, <2>3, ChargeStep DEF CheckGlobal
<1>3. ASSUME NEW c \in Callers, RejectGlobal(c) PROVE Inv'
  BY <1>0, <1>3 DEF RejectGlobal, Inv, TypeOK, BucketsTypeOK, DebtBounded, PaidOrOwed, Capacity
<1>4. ASSUME NEW b \in Buckets, OpenWindow(b) PROVE Inv'
  <2>1. debt \in [Buckets -> Nat] /\ elapsed = 0 /\ passed = 0
    BY <1>4 DEF Inv, TypeOK, BucketsTypeOK, OpenWindow
  <2>2. 0 * Period[b] = 0
    BY CapacityNat
  <2>3. PaidOrOwed'
    BY <1>4, <2>1, <2>2 DEF OpenWindow, PaidOrOwed
  <2>4. TypeOK' /\ DebtBounded'
    BY <1>4 DEF OpenWindow, Inv, TypeOK, BucketsTypeOK, DebtBounded, Capacity
  <2> QED
    BY <1>4, <2>1, <2>3, <2>4, AskedBuckets DEF OpenWindow, Inv
<1>5. CASE CloseWindow
  BY <1>5, QuotaConstants DEF CloseWindow, Inv, TypeOK, BucketsTypeOK, DebtBounded, PaidOrOwed, Capacity
<1>6. CASE Tick
  BY <1>6, TickStep
<1>7. CASE UNCHANGED vars
  BY <1>7 DEF vars, Inv, TypeOK, BucketsTypeOK, DebtBounded, PaidOrOwed, Capacity
<1> QED
  BY <1>1, <1>2, <1>3, <1>4, <1>5, <1>6, <1>7 DEF Next

(* No bucket is charged past its burst, and what it let through while it is  *)
(* watched is still owed or has been paid.                                   *)
THEOREM Invariance == Spec => []Inv
  BY InvInit, InvStep, PTL DEF Spec

(* rate_limit.rs lets no more than burst + t / period requests through any   *)
(* bucket in any t ticks, for every configuration and any interleaving of    *)
(* the handlers.                                                             *)
THEOREM QuotaIsKept == Spec => []WithinQuota
<1>1. Inv => WithinQuota
  <2> SUFFICES ASSUME Inv, watched # Nothing
               PROVE  passed * Period[watched] <= elapsed + Capacity(watched)
    BY DEF WithinQuota
  <2>1. /\ watched \in Buckets /\ passed \in Nat /\ elapsed \in Nat
        /\ debt[watched] \in Nat
    BY QuotaConstants DEF Inv, TypeOK, BucketsTypeOK
  <2>2. /\ Capacity(watched) \in Nat /\ Period[watched] \in Nat
        /\ passed * Period[watched] \in Nat
    BY <2>1, CapacityNat, OneMore
  <2>3. /\ passed * Period[watched] <= elapsed + debt[watched]
        /\ debt[watched] <= Capacity(watched)
    BY <2>1 DEF Inv, PaidOrOwed, DebtBounded
  <2> QED
    BY <2>1, <2>2, <2>3
<1> QED
  BY <1>1, Invariance, PTL
=============================================================================
