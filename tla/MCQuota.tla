------------------------------ MODULE MCQuota ------------------------------
(***************************************************************************)
(* Two integrations with small buckets that share a smaller one.           *)
(***************************************************************************)
EXTENDS Quota

MCPeriod == [b \in Buckets |-> IF b[1] = Global THEN 1 ELSE 2]
MCBurst == [b \in Buckets |-> IF b[2] = "reading" THEN 2 ELSE 1]
=============================================================================
