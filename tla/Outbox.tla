------------------------------- MODULE Outbox -------------------------------
(***************************************************************************)
(* What the webhook pipeline promises (docs/operations.md, "Delivery and   *)
(* recovery"): a durable at-least-once outbox.  An event is enqueued for   *)
(* all its webhooks or for none; an entry is acknowledged only after its   *)
(* endpoint got it; nothing but whole, fully acknowledged events is        *)
(* forgotten.  Crashes, retries and batches are not visible here.          *)
(***************************************************************************)
CONSTANTS Events, Webhooks

VARIABLES
  box,  \* box[r]: "none", "pending" or "delivered"
  got   \* got[r]: the endpoint received r since it was enqueued

Entries == Events \X Webhooks

EntriesOf(e) == {e} \X Webhooks

Init ==
  /\ box = [r \in Entries |-> "none"]
  /\ got = [r \in Entries |-> FALSE]

\* All rows of one event appear together.
Enqueue(e, W) ==
  /\ \A r \in EntriesOf(e) : box[r] = "none"
  /\ box' = [r \in Entries |-> IF r \in {e} \X W THEN "pending" ELSE box[r]]
  /\ got' = [r \in Entries |-> got[r] /\ r \notin EntriesOf(e)]

\* First and repeated receptions.
Receive(r) ==
  /\ box[r] = "pending"
  /\ got' = [got EXCEPT ![r] = TRUE]
  /\ UNCHANGED box

Acknowledge(r) ==
  /\ box[r] = "pending" /\ got[r]
  /\ box' = [box EXCEPT ![r] = "delivered"]
  /\ UNCHANGED got

\* Events may be forgotten together, each of them fully acknowledged.
Forget(D) ==
  /\ \A e \in D : \A r \in EntriesOf(e) : box[r] # "pending"
  /\ box' = [r \in Entries |-> IF r[1] \in D THEN "none" ELSE box[r]]
  /\ UNCHANGED got

Next ==
  \/ \E e \in Events, W \in SUBSET Webhooks : Enqueue(e, W)
  \/ \E r \in Entries : Receive(r) \/ Acknowledge(r)
  \/ \E D \in SUBSET Events : Forget(D)

Spec == Init /\ [][Next]_<<box, got>>
=============================================================================
