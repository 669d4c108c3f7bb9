----------------------------- MODULE MCUpstream -----------------------------
(***************************************************************************)
(* Small instances of Upstream: intervals of a few ticks, in the order the *)
(* code gives them (open timeout and silence below the socket refresh).    *)
(***************************************************************************)
EXTENDS Upstream

MCHeartbeats == {<<1, 1>>}
=============================================================================
