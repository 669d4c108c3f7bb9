----------------------------- MODULE MCDelivery -----------------------------
(***************************************************************************)
(* Small instances of Delivery.  A tick stands for any unit of time; what  *)
(* matters is the order of the intervals, not their length.                *)
(***************************************************************************)
EXTENDS Delivery

CONSTANTS e1, e2, w1, w2

\* Delays that grow with the attempts, as 2^attempts does.
MCBackoff == [n \in 1..MaxAttempts |-> n]

\* e1 is on a board both webhooks take, e2 on one that only w2 takes.
MCAllowed == [e \in Events |-> IF e = e1 THEN Webhooks ELSE {w2} \cap Webhooks]

BothConfigured == {Webhooks}

\* w1 is removed from the configuration at some restart, or comes back.
W1Removable == {Webhooks, Webhooks \ {w1}}

\* A requested shutdown fulfils EventuallyDelivered and EventuallyPruned, so
\* only behaviours without one are left to check; no fair action requests it.
NoShutdown == ~shutdown
=============================================================================
