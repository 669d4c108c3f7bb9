------------------------------ MODULE Delivery ------------------------------
(***************************************************************************)
(* The webhook pipeline of the gateway process: the newPost handler of the *)
(* socket task (socket/ingest.rs), the delivery loop with its concurrent   *)
(* HTTP attempts (webhook.rs), the retention task (retention.rs) and the   *)
(* process around them (main.rs), over the durable store of module Store.  *)
(*                                                                         *)
(* The tasks interleave at every await.  A crash loses everything but the  *)
(* store; a restart may come with another set of configured webhooks.      *)
(***************************************************************************)
EXTENDS Store, Sequences

CONSTANTS
  Allowed,          \* Allowed[e]: webhooks whose boards include that of e
  Configs,          \* the sets of webhooks the gateway may be started with
  Concurrency,      \* DELIVERY_CONCURRENCY (16)
  IdleSweep,        \* IDLE_SWEEP_INTERVAL, in ticks
  DeliveryTimeout,  \* DELIVERY_TIMEOUT, in ticks
  StoreLatency,     \* the longest next_delivery_delay takes, in ticks
  Responsive,       \* webhooks whose endpoint answers 2xx again and again
  NoEvent           \* "the newPost handler is not running"

ASSUME DeliveryConstants ==
  /\ Allowed \in [Events -> SUBSET Webhooks]
  /\ Configs \subseteq SUBSET Webhooks
  /\ Concurrency \in Nat \ {0}
  /\ IdleSweep \in Nat
  /\ DeliveryTimeout \in Nat
  /\ StoreLatency \in Nat
  /\ Responsive \subseteq Webhooks
  /\ NoEvent \notin Events

VARIABLES
  up,          \* the process runs
  configured,  \* cfg.webhooks of the last start
  shutdown,    \* the watch channel holds true
  others,      \* the session refresh (module Upstream) or the HTTP server
               \* (module IntegrationApi) has not ended
  socket,      \* socket::supervise: "running" or "stopped"
  ingest,      \* event committed by new_post and not yet announced, or NoEvent
  permit,      \* the permit of the delivery_wakeup Notify
  loop,        \* program counter of delivery_loop
  queue,       \* rows loaded by deliver_pending and not yet started
  phase,       \* phase[r]: progress of deliver_one on row r, or "none"
  snap,        \* snap[r]: PendingDelivery.attempts of a loaded row
  left,        \* left[r]: ticks until the request of r times out
  sleep,       \* ticks left of time::sleep(sleep_for)
  late,        \* ticks since delivery_loop took the "now" of sleep_for
  cleanup,     \* program counter of retention::cleanup_loop
  received,    \* history: the endpoint got row r since r was inserted
  missed       \* history: the sleeping loop was not told of some pending row

loopVars == <<queue, phase, snap, left>>
procVars == <<up, configured, shutdown, others>>
timer == <<sleep, late>>
vars == <<storeVars, procVars, socket, ingest, permit, loop, loopVars, timer,
          cleanup, received, missed>>

LoopStates == {"check", "load", "batch", "delay", "arm", "select", "stopped"}
CleanupStates == {"idle", "prune", "stopped"}
Phases == {"none", "sending", "arrived", "ok", "fail"}

InFlight == {r \in Rows : phase[r] # "none"}

(* Every variable holds a value of the kind the code stores in it. *)
TypeOK ==
  /\ StoreTypeOK
  /\ up \in BOOLEAN /\ configured \in SUBSET Webhooks /\ shutdown \in BOOLEAN
  /\ others \in BOOLEAN
  /\ socket \in {"running", "stopped"} /\ cleanup \in CleanupStates
  /\ ingest \in Events \cup {NoEvent}
  /\ permit \in BOOLEAN
  /\ loop \in LoopStates
  /\ queue \in Seq(Rows)
  /\ phase \in [Rows -> Phases]
  /\ snap \in [Rows -> 0..MaxAttempts]
  /\ left \in [Rows -> 0..DeliveryTimeout]
  /\ sleep \in Nat /\ late \in 0..StoreLatency
  /\ received \in [Rows -> BOOLEAN]
  /\ missed \in BOOLEAN

Init ==
  /\ StoreInit
  /\ up = FALSE /\ configured = {} /\ shutdown = FALSE /\ others = FALSE
  /\ socket = "stopped" /\ cleanup = "idle"
  /\ ingest = NoEvent
  /\ permit = FALSE
  /\ loop = "check"
  /\ queue = <<>>
  /\ phase = [r \in Rows |-> "none"]
  /\ snap = [r \in Rows |-> 0]
  /\ left = [r \in Rows |-> 0]
  /\ sleep = 0 /\ late = 0
  /\ received = [r \in Rows |-> FALSE]
  /\ missed = FALSE

-----------------------------------------------------------------------------
(* The process. *)

\* main::run with the configuration W: open and migrate the store, spawn the
\* tasks; the session and the socket only where some webhook is configured.
Start(W) ==
  /\ ~up
  /\ up' = TRUE
  /\ configured' = W
  /\ socket' = IF W = {} THEN "stopped" ELSE "running"
  /\ others' = TRUE
  /\ UNCHANGED <<storeVars, shutdown, ingest, permit, loop, loopVars, timer,
                 cleanup, received, missed>>

\* The memory of the process is gone; the store stays.
LoseMemory ==
  /\ up' = FALSE
  /\ shutdown' = FALSE /\ others' = FALSE
  /\ socket' = "stopped" /\ cleanup' = "idle"
  /\ ingest' = NoEvent
  /\ permit' = FALSE
  /\ loop' = "check"
  /\ queue' = <<>>
  /\ phase' = [r \in Rows |-> "none"]
  /\ snap' = [r \in Rows |-> 0]
  /\ left' = [r \in Rows |-> 0]
  /\ sleep' = 0 /\ late' = 0
  /\ missed' = FALSE
  /\ UNCHANGED <<storeVars, configured, received>>

Crash == up /\ LoseMemory

\* SIGTERM or ctrl-c: shutdown_tx.send(true).
RequestShutdown ==
  /\ up /\ ~shutdown
  /\ shutdown' = TRUE
  /\ UNCHANGED <<storeVars, up, configured, others, socket, ingest, permit, loop,
                 loopVars, timer, cleanup, received, missed>>

\* The session refresh and the HTTP server have both seen the shutdown and
\* ended, each after the requests it was waiting for.
OtherTasksEnd ==
  /\ up /\ shutdown /\ others
  /\ others' = FALSE
  /\ UNCHANGED <<storeVars, up, configured, shutdown, socket, ingest, permit, loop,
                 loopVars, timer, cleanup, received, missed>>

\* run() has awaited every task it spawned.
Exit ==
  /\ up /\ shutdown
  /\ ~others
  /\ socket = "stopped" /\ loop = "stopped" /\ cleanup = "stopped"
  /\ LoseMemory

-----------------------------------------------------------------------------
(* The socket task: newPost events. *)

\* The webhooks that get e: those configured whose boards allow it.
event_deliveries(e) == Allowed[e] \cap configured

\* new_post up to the end of create_event; an event nobody takes is dropped
\* before the store, a known one ends the handler.
NewPost(e) ==
  /\ up /\ socket = "running" /\ ingest = NoEvent
  /\ event_deliveries(e) # {}
  /\ create_event(e, event_deliveries(e))
  /\ ingest' = IF stored[e] THEN NoEvent ELSE e
  /\ received' = [r \in Rows |->
                    received[r] /\ (stored[e] \/ r \notin RowsOf(e))]
  /\ UNCHANGED <<procVars, socket, permit, loop, loopVars, timer, cleanup, missed>>

\* Mutant: the Notify keeps no permit (notify_waiters).
NotifyOnlyAWaiter ==
  /\ up /\ ingest # NoEvent
  /\ ingest' = NoEvent
  /\ permit' = (permit \/ loop = "select")
  /\ UNCHANGED <<storeVars, procVars, socket, loop, loopVars, timer, cleanup,
                 received, missed>>

\* Ok(true): delivery_wakeup.notify_one().
NotifyDelivery ==
  /\ up /\ ingest # NoEvent
  /\ ingest' = NoEvent
  /\ permit' = TRUE
  /\ UNCHANGED <<storeVars, procVars, socket, loop, loopVars, timer, cleanup,
                 received, missed>>

\* SOCKET_REFRESH_INTERVAL elapses: supervise drops run_socket_once, and with
\* it a handler that has committed and not yet notified.
DropHandler ==
  /\ up /\ ingest # NoEvent
  /\ ingest' = NoEvent
  /\ missed' = TRUE
  /\ UNCHANGED <<storeVars, procVars, socket, permit, loop, loopVars, timer,
                 cleanup, received>>

\* supervise sees the shutdown; a running handler is dropped too.
StopSocket ==
  /\ up /\ shutdown /\ socket = "running"
  /\ socket' = "stopped"
  /\ ingest' = NoEvent
  /\ missed' = (missed \/ ingest # NoEvent)
  /\ UNCHANGED <<storeVars, procVars, permit, loop, loopVars, timer, cleanup,
                 received>>

-----------------------------------------------------------------------------
(* The delivery loop. *)

LoopAt(here) == up /\ loop = here

Goto(there) ==
  /\ loop' = there
  /\ UNCHANGED <<storeVars, procVars, socket, ingest, cleanup, received>>

\* Mutant: the loop does not look at the shutdown flag.
CheckShutdownNever ==
  /\ LoopAt("check")
  /\ Goto("load")
  /\ UNCHANGED <<permit, loopVars, timer, missed>>

CheckShutdown ==
  /\ LoopAt("check")
  /\ Goto(IF shutdown THEN "stopped" ELSE "load")
  /\ UNCHANGED <<permit, loopVars, timer, missed>>

\* deliver_pending: load one batch.
LoadBatch ==
  /\ LoopAt("load")
  /\ \E n \in 0..BatchLimit : \E s \in Injection(1..n, Due) :
       /\ pending_deliveries(s)
       /\ queue' = s
       /\ snap' = [r \in Rows |-> IF r \in Range(s) THEN attempts[r] ELSE 0]
  /\ Goto("batch")
  /\ UNCHANGED <<permit, phase, left, timer, missed>>

\* The query failed: deliver_pending returns.
LoadFails ==
  /\ LoopAt("load")
  /\ Goto("delay")
  /\ UNCHANGED <<permit, loopVars, timer, missed>>

\* for_each_concurrent polls the next deliver_one: a webhook that is no
\* longer configured fails at once, otherwise the request goes out.
StartDelivery ==
  /\ LoopAt("batch") /\ queue # <<>>
  /\ Cardinality(InFlight) < Concurrency
  /\ LET r == Head(queue) IN
       phase' = [phase EXCEPT ![r] = IF r[2] \in configured THEN "sending" ELSE "fail"]
  /\ left' = [left EXCEPT ![Head(queue)] = DeliveryTimeout]
  /\ queue' = Tail(queue)
  /\ UNCHANGED <<storeVars, procVars, socket, ingest, permit, loop, snap, timer,
                 cleanup, received, missed>>

\* Mutant: deliver_pending does not wait for its attempts.
BatchSpawned ==
  /\ LoopAt("batch") /\ queue = <<>>
  /\ Goto("delay")
  /\ UNCHANGED <<permit, loopVars, timer, missed>>

\* for_each_concurrent ends when the last attempt of the batch has.
BatchDone ==
  /\ LoopAt("batch") /\ queue = <<>> /\ InFlight = {}
  /\ Goto("delay")
  /\ UNCHANGED <<permit, loopVars, timer, missed>>

\* Mutant: the idle interval comes on top of the delay.
NextDelayAndIdle ==
  /\ LoopAt("delay")
  /\ \/ \E d \in next_delivery_delay(late) : sleep' = d + IdleSweep
     \/ Pending = {} /\ sleep' = IdleSweep
  /\ missed' = FALSE
  /\ Goto("arm")
  /\ UNCHANGED <<permit, loopVars, late>>

\* sleep_for, from the "now" taken before the store was asked.
NextDelay ==
  /\ LoopAt("delay")
  /\ \/ sleep' \in next_delivery_delay(late)
     \/ Pending = {} /\ sleep' = IdleSweep
  /\ missed' = FALSE
  /\ Goto("arm")
  /\ UNCHANGED <<permit, loopVars, late>>

\* next_delivery_delay failed: sleep for the idle interval, rows unseen.
NextDelayFails ==
  /\ LoopAt("delay")
  /\ sleep' = IdleSweep
  /\ missed' = TRUE
  /\ Goto("arm")
  /\ UNCHANGED <<permit, loopVars, late>>

\* select! starts to wait on its three branches.
EnterSelect ==
  /\ LoopAt("arm")
  /\ Goto("select")
  /\ UNCHANGED <<permit, loopVars, timer, missed>>

\* A ready branch ends the select; notified() takes the permit.
Wake ==
  /\ LoopAt("select")
  /\ \/ shutdown /\ permit' = permit
     \/ permit /\ permit' = FALSE
     \/ sleep = 0 /\ permit' = permit
  /\ sleep' = 0 /\ late' = 0
  /\ Goto("check")
  /\ UNCHANGED <<loopVars, missed>>

-----------------------------------------------------------------------------
(* One attempt (deliver_one), and the endpoint it talks to. *)

Outside == UNCHANGED <<procVars, socket, ingest, permit, loop, queue, timer,
                       cleanup, missed>>

Attempt(r, here, there) ==
  /\ phase[r] = here
  /\ phase' = [phase EXCEPT ![r] = there]

\* The request reaches the endpoint, which handles it.
EndpointReceives(r) ==
  /\ Attempt(r, "sending", "arrived")
  /\ received' = [received EXCEPT ![r] = TRUE]
  /\ UNCHANGED <<storeVars, snap, left>> /\ Outside

\* Its 2xx answer reaches the gateway.
EndpointAccepts(r) ==
  /\ Attempt(r, "arrived", "ok")
  /\ UNCHANGED <<storeVars, snap, left, received>> /\ Outside

\* The connection fails, the answer is lost, or the status is not 2xx.
RequestFails(r) ==
  /\ Attempt(r, "sending", "fail") \/ Attempt(r, "arrived", "fail")
  /\ UNCHANGED <<storeVars, snap, left, received>> /\ Outside

\* DELIVERY_TIMEOUT elapses before an answer.
RequestTimesOut(r) ==
  /\ left[r] = 0
  /\ Attempt(r, "sending", "fail") \/ Attempt(r, "arrived", "fail")
  /\ UNCHANGED <<storeVars, snap, left, received>> /\ Outside

\* deliver_one returns: its PendingDelivery is dropped.
EndAttempt(r) ==
  /\ phase' = [phase EXCEPT ![r] = "none"]
  /\ snap' = [snap EXCEPT ![r] = 0]
  /\ left' = [left EXCEPT ![r] = 0]
  /\ UNCHANGED received /\ Outside

\* Mutant: any answer counts as a success.
MarkDeliveredAlways(r) ==
  /\ phase[r] \in {"ok", "fail"}
  /\ mark_delivered(r)
  /\ EndAttempt(r)

MarkDelivered(r) ==
  /\ phase[r] = "ok"
  /\ mark_delivered(r)
  /\ EndAttempt(r)

\* Mutant: attempts are counted from the row as it is now, twice.
MarkFailedCountingTwice(r) ==
  LET n == snap[r] + 2 IN
  /\ phase[r] = "fail"
  /\ mark_failed(r, IF n > MaxAttempts THEN MaxAttempts ELSE n, delivery_backoff(n))
  /\ EndAttempt(r)

\* attempts = delivery.attempts + 1, counted up to MaxAttempts.
MarkFailed(r) ==
  LET n == snap[r] + 1 IN
  /\ phase[r] = "fail"
  /\ mark_failed(r, IF n > MaxAttempts THEN MaxAttempts ELSE n, delivery_backoff(n))
  /\ EndAttempt(r)

\* The UPDATE fails; the error is logged and the row stays as it was.
MarkFails(r) ==
  /\ phase[r] \in {"ok", "fail"}
  /\ UNCHANGED storeVars
  /\ EndAttempt(r)

-----------------------------------------------------------------------------
(* Retention, and time. *)

\* The hourly sleep of cleanup_loop (of any length here) or the shutdown ends
\* its select; it looks at the flag before it prunes.
CleanupWakes ==
  /\ up /\ cleanup = "idle"
  /\ cleanup' = IF shutdown THEN "stopped" ELSE "prune"
  /\ UNCHANGED <<storeVars, procVars, socket, ingest, permit, loop, loopVars,
                 timer, received, missed>>

\* prune_once.
PruneOnce ==
  /\ up /\ cleanup = "prune"
  /\ prune_delivered_events
  /\ cleanup' = "idle"
  /\ UNCHANGED <<procVars, socket, ingest, permit, loop, loopVars, timer,
                 received, missed>>

\* Mutant: a failing DELETE ends the loop.
PruneFailsForGood ==
  /\ up /\ cleanup = "prune"
  /\ cleanup' = "stopped"
  /\ UNCHANGED <<storeVars, procVars, socket, ingest, permit, loop, loopVars,
                 timer, received, missed>>

\* The DELETE fails: a warning, and the loop goes on.
PruneFails ==
  /\ up /\ cleanup = "prune"
  /\ cleanup' = "idle"
  /\ UNCHANGED <<storeVars, procVars, socket, ingest, permit, loop, loopVars,
                 timer, received, missed>>

CountDown(n) == IF n = 0 THEN 0 ELSE n - 1

\* Between the "now" of delivery_loop and its select! the store is asked:
\* time that passes there, at most StoreLatency, is not taken off the sleep.
Tick ==
  /\ Elapse
  /\ IF loop \in {"delay", "arm"}
       THEN late < StoreLatency /\ late' = late + 1 /\ UNCHANGED sleep
       ELSE sleep' = CountDown(sleep) /\ UNCHANGED late
  /\ left' = [r \in Rows |-> CountDown(left[r])]
  /\ UNCHANGED <<procVars, socket, ingest, permit, loop, queue, phase, snap,
                 cleanup, received, missed>>

-----------------------------------------------------------------------------
LoopStep == \/ CheckShutdown \/ LoadBatch \/ LoadFails \/ StartDelivery
            \/ BatchDone \/ NextDelay \/ NextDelayFails \/ EnterSelect \/ Wake

CleanupStep == CleanupWakes \/ PruneOnce \/ PruneFails

AttemptStep(r) == \/ EndpointReceives(r) \/ EndpointAccepts(r)
                  \/ RequestFails(r) \/ RequestTimesOut(r)
                  \/ MarkDelivered(r) \/ MarkFailed(r) \/ MarkFails(r)

Next ==
  \/ \E W \in Configs : Start(W)
  \/ Crash \/ RequestShutdown \/ OtherTasksEnd \/ Exit
  \/ \E e \in Events : NewPost(e)
  \/ NotifyDelivery \/ DropHandler \/ StopSocket
  \/ LoopStep
  \/ \E r \in Rows : AttemptStep(r)
  \/ CleanupStep
  \/ Tick

Spec == Init /\ [][Next]_vars
-----------------------------------------------------------------------------
(* Fairness.  The gateway's tasks are scheduled (weakly fair) and the clock  *)
(* goes on; that the tasks modelled elsewhere end is not assumed.  Of the    *)
(* environment: SQLite does not fail every time, and the endpoint of a       *)
(* Responsive webhook answers 2xx in time again and again.                   *)

CodeFairness ==
  /\ WF_vars(Tick)
  /\ WF_vars(LoopStep)
  /\ WF_vars(NotifyDelivery) /\ WF_vars(StopSocket) /\ WF_vars(CleanupStep)
  /\ WF_vars(Exit)
  /\ \A r \in Rows : /\ WF_vars(RequestTimesOut(r))
                     /\ WF_vars(MarkDelivered(r) \/ MarkFailed(r) \/ MarkFails(r))

EnvironmentFairness ==
  /\ SF_vars(LoadBatch) /\ SF_vars(PruneOnce)
  /\ \A r \in Rows : SF_vars(MarkDelivered(r)) /\ SF_vars(MarkFailed(r))
  /\ \A r \in Events \X Responsive : /\ SF_vars(EndpointReceives(r))
                                     /\ SF_vars(EndpointAccepts(r))

FairSpec == Spec /\ CodeFairness
LiveSpec == FairSpec /\ EnvironmentFairness

-----------------------------------------------------------------------------
(* Safety. *)

Loaded == Range(queue) \cup InFlight

(* create_event commits an event with its rows and prune_delivered_events    *)
(* deletes both: neither an event without rows nor a row without its event   *)
(* is ever in the store, whatever crashes.                                   *)
EventIffRows ==
  \A e \in Events : stored[e] <=> \E r \in RowsOf(e) : status[r] # "none"

(* A row is marked delivered only if its endpoint got the event since the    *)
(* row was inserted: no interleaving of timeouts, failing updates, restarts  *)
(* and pruning acknowledges an event that was never sent.                    *)
DeliveredWasReceived ==
  \A r \in Rows : status[r] = "delivered" => received[r]

(* What deliver_pending holds in memory agrees with the store for as long as *)
(* it holds it: a loaded row is still pending and still due, and the attempt *)
(* count that mark_failed will write from is the stored one.                 *)
LoadedRowsCurrent ==
  \A r \in Loaded : status[r] = "pending" /\ wait[r] <= 0 /\ snap[r] = attempts[r]

(* No row is attempted twice at once: a row is at most once in the batch and *)
(* never both waiting and in flight.                                         *)
OneAttemptPerRow ==
  /\ IsInjective(queue)
  /\ Range(queue) \cap InFlight = {}

(* The loop holds rows only inside deliver_pending, which awaits them all.   *)
BatchAwaited == loop # "batch" => Loaded = {}

(* No lost wakeup: when the loop sleeps, no permit waits for it, no handler  *)
(* is about to notify, and no store error or dropped handler has kept a row  *)
(* from it, it wakes no later than the first pending row falls due, but for  *)
(* the time the store took to answer.                                        *)
NoLostWakeup ==
  loop \in {"arm", "select"} /\ ingest = NoEvent /\ ~permit /\ ~missed
    => \A r \in Pending : sleep <= NotBefore(wait[r]) + late

(* Even a row the loop was not told of waits for one sleep only, which is    *)
(* bounded by the idle sweep, the longest backoff or, for a row that came    *)
(* while the store was asked, by that time.                                  *)
SleepBounded ==
  \/ sleep <= IdleSweep \/ sleep <= StoreLatency
  \/ \E n \in 1..MaxAttempts : sleep <= Backoff[n]

(* An answer comes only from an endpoint that got the request.               *)
ArrivedWasReceived ==
  \A r \in Rows : phase[r] \in {"arrived", "ok"} => received[r]

(* The invariants above, strengthened so that every step preserves them.     *)
Inv ==
  /\ TypeOK
  /\ EventIffRows
  /\ LoadedRowsCurrent /\ OneAttemptPerRow /\ BatchAwaited
  /\ ArrivedWasReceived /\ DeliveredWasReceived
  /\ NoLostWakeup

(* docs/operations.md: "one slow endpoint does not block unrelated           *)
(* integrations".  An overdue row is not left waiting for nothing but the    *)
(* answers of endpoints of other webhooks.                                   *)
SlowEndpointDoesNotBlock ==
  \A r \in Due : wait[r] < 0 /\ r \notin Loaded /\ loop = "batch" =>
    \/ queue # <<>> \/ InFlight = {}
    \/ \E q \in InFlight : q[2] = r[2] \/ phase[q] \in {"ok", "fail"}

(* A stored row goes from pending to delivered and then away, never back;    *)
(* failures count up by one; rows vanish only with their whole event, fully  *)
(* delivered and past retention ("never pending deliveries").                *)
RowStep(r) ==
  /\ status[r] = "pending" =>
       /\ status'[r] \in {"pending", "delivered"}
       /\ attempts'[r] \in {attempts[r], attempts[r] + 1}
  /\ status[r] = "delivered" =>
       \/ status'[r] = "delivered" /\ attempts'[r] = attempts[r]
       \/ /\ age[r[1]] > Retention
          /\ \A q \in RowsOf(r[1]) : status[q] # "pending" /\ status'[q] = "none"

RowLifecycle == [][\A r \in Rows : RowStep(r)]_vars

(* The pipeline implements the durable at-least-once outbox.                 *)
Promise == INSTANCE Outbox WITH box <- status, got <- received

ImplementsOutbox == Promise!Spec

-----------------------------------------------------------------------------
(* Liveness. *)

(* A pending row of a configured webhook with a responsive endpoint is       *)
(* delivered, unless the process is stopped: neither a lost notification    *)
(* nor failing updates nor an unresponsive neighbour that fills the batches  *)
(* keeps it waiting forever.                                                 *)
EventuallyDelivered ==
  \A r \in Events \X Responsive :
    status[r] = "pending" /\ up /\ r[2] \in configured
      ~> status[r] = "delivered" \/ ~up \/ shutdown

(* A requested shutdown ends the pipeline's tasks, whatever the endpoints    *)
(* do: run() is left to wait for the session refresh and the HTTP server     *)
(* only, and ends with them.                                                 *)
ShutdownEnds ==
  /\ shutdown ~>
       ~up \/ (socket = "stopped" /\ loop = "stopped" /\ cleanup = "stopped")
  /\ shutdown /\ ~others ~> ~up

(* An event that nothing but responsive, configured webhooks still wait for  *)
(* is delivered and, past its retention, removed: failing statements delay   *)
(* both and stop neither.                                                    *)
EventuallyPruned ==
  \A e \in Events :
    /\ stored[e] /\ up
    /\ \A r \in RowsOf(e) : status[r] = "pending" => r[2] \in Responsive \cap configured
    ~> ~stored[e] \/ ~up \/ shutdown
=============================================================================
