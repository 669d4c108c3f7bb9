------------------------------ MODULE Buckets ------------------------------
(***************************************************************************)
(* The rate limiters of src/src/rate_limit.rs: one bucket per capability   *)
(* for every integration and one for all of them together.  A bucket is a  *)
(* governor limiter (external code): it lets a burst through at once and   *)
(* takes back one request per period.  It is kept as its debt, the ticks   *)
(* until it is as good as new.                                             *)
(***************************************************************************)
EXTENDS Integers

CONSTANTS
  Integrations,  \* names of configured integrations
  Global,        \* owner of the buckets shared by all
  Period,        \* Period[b]: window / requests, in ticks
  Burst          \* Burst[b]: requests let through at once

Capabilities == {"reading", "posting"}

Buckets == (Integrations \cup {Global}) \X Capabilities

\* validate_rate_limit_bucket: neither is zero.
ASSUME BucketConstants ==
  /\ Global \notin Integrations
  /\ Period \in [Buckets -> Nat \ {0}]
  /\ Burst \in [Buckets -> Nat \ {0}]

VARIABLE debt  \* debt[b]: ticks until bucket b is full again

Capacity(b) == Burst[b] * Period[b]

BucketsTypeOK == debt \in [Buckets -> Nat]

BucketsInit == debt = [b \in Buckets |-> 0]

\* limiter.check() succeeds.
HasRoom(b) == debt[b] + Period[b] <= Capacity(b)

\* Mutant: a full bucket takes one more request.
ChargeOneTooMany(b) ==
  /\ debt[b] <= Capacity(b)
  /\ debt' = [debt EXCEPT ![b] = @ + Period[b]]

\* It does, and the request is charged.
Charge(b) == HasRoom(b) /\ debt' = [debt EXCEPT ![b] = @ + Period[b]]

\* One tick pays back one tick of debt.
Replenish == debt' = [b \in Buckets |-> IF debt[b] = 0 THEN 0 ELSE debt[b] - 1]
=============================================================================
