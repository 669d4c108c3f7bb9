------------------------------- MODULE Quota -------------------------------
(***************************************************************************)
(* RateLimiters::check called by the handlers of concurrent requests: the  *)
(* bucket of the integration first, then the one all integrations share,   *)
(* two separate atomic steps.  A window opened at any moment counts what   *)
(* passes one bucket while it is open.  A request its own bucket rejects   *)
(* changes nothing.                                                        *)
(***************************************************************************)
EXTENDS Buckets

CONSTANTS
  Callers,  \* requests being handled
  Horizon   \* longest window looked at, in ticks

ASSUME QuotaConstants == Horizon \in Nat

VARIABLES
  asks,    \* asks[c]: <<integration, capability>> c has yet to ask the global
           \* bucket for, or Nothing
  watched, \* the bucket whose window is open, or Nothing
  elapsed, \* for how many ticks
  passed   \* requests the watched bucket let through in the window

vars == <<debt, asks, watched, elapsed, passed>>

Nothing == <<>>
Asks == Integrations \X Capabilities

(* Every variable holds a value of its kind.                                 *)
TypeOK ==
  /\ BucketsTypeOK
  /\ asks \in [Callers -> Asks \cup {Nothing}]
  /\ watched \in Buckets \cup {Nothing}
  /\ elapsed \in 0..Horizon
  /\ passed \in Nat

Init ==
  /\ BucketsInit
  /\ asks = [c \in Callers |-> Nothing]
  /\ watched = Nothing /\ elapsed = 0 /\ passed = 0

Count(b) == passed' = IF b = watched THEN passed + 1 ELSE passed

\* The integration's own bucket lets the request through.
CheckIntegration(c, a) ==
  /\ asks[c] = Nothing
  /\ Charge(a) /\ Count(a)
  /\ asks' = [asks EXCEPT ![c] = a]
  /\ UNCHANGED <<watched, elapsed>>

\* Then the shared one; the request goes on.
CheckGlobal(c) ==
  /\ asks[c] # Nothing
  /\ LET b == <<Global, asks[c][2]>> IN Charge(b) /\ Count(b)
  /\ asks' = [asks EXCEPT ![c] = Nothing]
  /\ UNCHANGED <<watched, elapsed>>

\* Rejected by the shared bucket; what the first one charged stays charged.
RejectGlobal(c) ==
  /\ asks[c] # Nothing
  /\ ~HasRoom(<<Global, asks[c][2]>>)
  /\ asks' = [asks EXCEPT ![c] = Nothing]
  /\ UNCHANGED <<debt, watched, elapsed, passed>>

OpenWindow(b) ==
  /\ watched = Nothing
  /\ watched' = b
  /\ UNCHANGED <<debt, asks, elapsed, passed>>

CloseWindow ==
  /\ watched # Nothing
  /\ watched' = Nothing /\ elapsed' = 0 /\ passed' = 0
  /\ UNCHANGED <<debt, asks>>

Tick ==
  /\ Replenish
  /\ watched # Nothing => elapsed < Horizon
  /\ elapsed' = IF watched = Nothing THEN elapsed ELSE elapsed + 1
  /\ UNCHANGED <<asks, watched, passed>>

Next ==
  \/ \E c \in Callers : \/ \E a \in Asks : CheckIntegration(c, a)
                        \/ CheckGlobal(c) \/ RejectGlobal(c)
  \/ (\E b \in Buckets : OpenWindow(b)) \/ CloseWindow \/ Tick

Spec == Init /\ [][Next]_vars

-----------------------------------------------------------------------------
(* "Buckets refill requests evenly over the window and allow short bursts"   *)
(* (config/example.toml:14): whenever one starts to count and however the    *)
(* requests interleave, no bucket lets more through in t ticks than its      *)
(* burst and one request per period of the t ticks.                          *)
WithinQuota ==
  watched # Nothing =>
    passed * Period[watched] <= elapsed + Capacity(watched)

(* No bucket is ever charged past its burst.                                 *)
DebtBounded == \A b \in Buckets : debt[b] <= Capacity(b)

(* What a bucket let through in the window is still owed or has been paid.   *)
PaidOrOwed ==
  watched # Nothing => passed * Period[watched] <= elapsed + debt[watched]

\* The inductive invariant behind WithinQuota.
Inv ==
  /\ TypeOK /\ DebtBounded /\ PaidOrOwed
  /\ watched = Nothing => elapsed = 0 /\ passed = 0
=============================================================================
