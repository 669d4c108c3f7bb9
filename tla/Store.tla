------------------------------- MODULE Store -------------------------------
(***************************************************************************)
(* The SQLite outbox of src/src/store.rs: the tables "events" and          *)
(* "deliveries", and the operations the rest of the gateway calls on them. *)
(* Every operation runs on the single thread of one tokio_rusqlite         *)
(* connection, so each is one atomic step.                                 *)
(*                                                                         *)
(* Time is relative.  next_attempt_at is kept as "wait", the ticks from    *)
(* now until the row is due (due when wait <= 0), and created_at as "age", *)
(* the ticks since the event was observed.  Only the order of overdue rows *)
(* is ever used (ORDER BY next_attempt_at), so Elapse keeps exactly that   *)
(* order and the state space is finite without a bound on the clock.       *)
(***************************************************************************)
EXTENDS Integers, FiniteSets, Functions

CONSTANTS
  Events,       \* event ids (posts of the upstream room)
  Webhooks,     \* names of webhook integrations
  MaxAttempts,  \* delivery_backoff is constant from this attempt on (8)
  Backoff,      \* Backoff[n]: ticks of delay after the n-th failed attempt
  BatchLimit,   \* LIMIT of pending_deliveries (50)
  Retention     \* storage.event_retention, in ticks

ASSUME StoreConstants ==
  /\ IsFiniteSet(Events) /\ IsFiniteSet(Webhooks)
  /\ MaxAttempts \in Nat \ {0}
  /\ Backoff \in [1..MaxAttempts -> Nat \ {0}]
  /\ BatchLimit \in Nat \ {0}
  /\ Retention \in Nat

VARIABLES
  stored,    \* stored[e]: the events table has row e
  status,    \* status[r]: "none" (no row), "pending" or "delivered"
  attempts,  \* attempts[r]: recorded failed attempts
  wait,      \* wait[r]: next_attempt_at - now; meaningful while r is pending
  age        \* age[e]: now - created_at, no further than Retention + 1

storeVars == <<stored, status, attempts, wait, age>>

Rows == Events \X Webhooks

StoreTypeOK ==
  /\ stored \in [Events -> BOOLEAN]
  /\ status \in [Rows -> {"none", "pending", "delivered"}]
  /\ attempts \in [Rows -> 0..MaxAttempts]
  /\ wait \in [Rows -> Int]
  /\ age \in [Events -> 0..(Retention + 1)]

StoreInit ==
  /\ stored = [e \in Events |-> FALSE]
  /\ status = [r \in Rows |-> "none"]
  /\ attempts = [r \in Rows |-> 0]
  /\ wait = [r \in Rows |-> 0]
  /\ age = [e \in Events |-> 0]

-----------------------------------------------------------------------------
(* What the queries read. *)

Pending == {r \in Rows : status[r] = "pending"}

RowsOf(e) == {e} \X Webhooks

\* Mutant: a retried row is loaded again before its next_attempt_at.
DueIgnoringRetryTime == Pending

\* WHERE status = 'pending' AND next_attempt_at <= now.
Due == {r \in Pending : wait[r] <= 0}

\* Mutant: the newest rows first.
NewestFirst(s) ==
  /\ \A i, j \in DOMAIN s : i < j => wait[s[i]] >= wait[s[j]]
  /\ \A i \in DOMAIN s, r \in Due \ Range(s) : wait[s[i]] >= wait[r]

\* ORDER BY next_attempt_at, event_id.  Distinct timestamps fall into one
\* tick, so rows with equal wait come in any order.
OldestFirst(s) ==
  /\ \A i, j \in DOMAIN s : i < j => wait[s[i]] <= wait[s[j]]
  /\ \A i \in DOMAIN s, r \in Due \ Range(s) : wait[s[i]] <= wait[r]

\* s is a result of pending_deliveries(BatchLimit, now).
pending_deliveries(s) ==
  /\ \E n \in 0..BatchLimit : /\ s \in Injection(1..n, Due)
                              /\ n < BatchLimit => Range(s) = Due
  /\ OldestFirst(s)

NotBefore(d) == IF d < 0 THEN 0 ELSE d

FirstPending == {r \in Pending : \A q \in Pending : wait[r] <= wait[q]}

\* What next_delivery_delay(now) may give as Some(delay) when "now" was taken
\* old ticks ago: the delay of the first pending row, a time before now giving
\* zero.  A row that is due may have fallen due at any time since.
next_delivery_delay(old) ==
  UNION {IF wait[r] > 0 THEN {wait[r] + old} ELSE 0..old : r \in FirstPending}

\* attempts.clamp(1, 8) and 2^exp, at most 300, as a table.
delivery_backoff(n) ==
  Backoff[IF n < 1 THEN 1 ELSE IF n > MaxAttempts THEN MaxAttempts ELSE n]

-----------------------------------------------------------------------------
(* The statements that write. *)

InsertRows(e, W) ==
  LET new == {e} \X W IN
  /\ stored' = [stored EXCEPT ![e] = TRUE]
  /\ status' = [r \in Rows |-> IF r \in new THEN "pending" ELSE status[r]]
  /\ attempts' = [r \in Rows |-> IF r \in new THEN 0 ELSE attempts[r]]
  /\ wait' = [r \in Rows |-> IF r \in new THEN 0 ELSE wait[r]]
  /\ age' = [age EXCEPT ![e] = 0]

\* Mutant: INSERT OR REPLACE, a known event is queued again.
CreateEventReplacing(e, W) == InsertRows(e, W)

\* One transaction: INSERT OR IGNORE of the event; only when it was new, one
\* pending row per webhook of W, due at once.
create_event(e, W) ==
  \/ /\ ~stored[e]
     /\ InsertRows(e, W)
  \/ /\ stored[e]
     /\ UNCHANGED storeVars

\* The UPDATE touches nothing when the row is gone.
mark_delivered(r) ==
  /\ status' = [status EXCEPT ![r] = IF @ = "none" THEN @ ELSE "delivered"]
  /\ UNCHANGED <<stored, attempts, wait, age>>

\* n attempts so far, next one due in d ticks; the status is left alone.
mark_failed(r, n, d) ==
  /\ attempts' = [attempts EXCEPT ![r] = IF status[r] = "none" THEN @ ELSE n]
  /\ wait' = [wait EXCEPT ![r] = IF status[r] = "none" THEN @ ELSE d]
  /\ UNCHANGED <<stored, status, age>>

\* Mutant: the query does not look at the status of the rows.
PrunableByAge == {e \in Events : stored[e] /\ age[e] > Retention}

\* created_at < now - retention, and no row that is not delivered.
Prunable ==
  {e \in Events : /\ stored[e]
                  /\ age[e] > Retention
                  /\ \A r \in RowsOf(e) : status[r] # "pending"}

\* Mutant: foreign_keys is off, the rows outlive their event.
PruneWithoutCascade ==
  /\ stored' = [e \in Events |-> stored[e] /\ e \notin Prunable]
  /\ age' = [e \in Events |-> IF e \in Prunable THEN 0 ELSE age[e]]
  /\ UNCHANGED <<status, attempts, wait>>

\* DELETE FROM events; ON DELETE CASCADE removes the rows of each.
prune_delivered_events ==
  /\ stored' = [e \in Events |-> stored[e] /\ e \notin Prunable]
  /\ age' = [e \in Events |-> IF e \in Prunable THEN 0 ELSE age[e]]
  /\ status' = [r \in Rows |-> IF r[1] \in Prunable THEN "none" ELSE status[r]]
  /\ attempts' = [r \in Rows |-> IF r[1] \in Prunable THEN 0 ELSE attempts[r]]
  /\ wait' = [r \in Rows |-> IF r[1] \in Prunable THEN 0 ELSE wait[r]]

-----------------------------------------------------------------------------
(* One tick of the clock. *)

\* The rows overdue after a tick that do not come before r.
NotEarlier(r) == {q \in Due : wait[q] >= wait[r]}

\* A row still in the future comes one tick closer.  An overdue row gets its
\* rank among the overdue ones (below zero, rows of equal time alike), which
\* preserves their order and leaves 0 for rows that fall due now.  Of other
\* rows wait is not read.
Elapse ==
  /\ wait' = [r \in Rows |->
                CASE r \in Due -> -Cardinality(NotEarlier(r))
                  [] r \in Pending \ Due -> wait[r] - 1
                  [] OTHER -> 0]
  /\ age' = [e \in Events |->
               IF stored[e] /\ age[e] <= Retention THEN age[e] + 1 ELSE age[e]]
  /\ UNCHANGED <<stored, status, attempts>>
=============================================================================
