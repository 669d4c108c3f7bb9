# ptchan-gateway: verification project

ptchan-gateway is one tokio process between an imageboard (ptchan, the
*upstream*) and bots (*integrations*). It joins the moderation room of the board
over Socket.IO, stores each new post as an event in SQLite and pushes it to the
configured webhooks; and it offers a signed HTTP API through which integrations
read threads and post replies. This directory holds TLA+ models of its core, the
TLC configurations that check them and TLAPS proofs about them.
`PROJECT.json` is the machine-readable index: runs, mutants, the map from every
definition to the source lines it models, hazards, findings and theorems.

## 1. Inventory

| Component | Source | State | Operations | What makes it correct |
|---|---|---|---|---|
| outbox store | `src/store.rs` | tables `events`, `deliveries` | `create_event`, `pending_deliveries`, `next_delivery_delay`, `mark_delivered`, `mark_failed`, `prune_delivered_events` | events and rows come and go together; text times order as times |
| webhook delivery | `src/webhook.rs` | the loaded batch, open attempts, a sleep | `delivery_loop`, `deliver_pending`, `deliver_one`, `mark_failed` | at-least-once, no lost wakeup, no stale write |
| event intake | `src/socket/ingest.rs` | one running handler | `new_post` | commit before notify; duplicates ignored |
| retention | `src/retention.rs` | a sleep | `cleanup_loop`, `prune_once` | only fully delivered, expired events go; they do go |
| process | `src/main.rs` | shutdown channel, tasks | `run` | shutdown ends every task, restart loses nothing committed |
| upstream session | `src/session.rs` | cookie and its expiry, `auth_healthy` | `refresh_loop`, `refresh_once` | refreshed before it expires |
| upstream socket | `src/socket/mod.rs`, `protocol.rs` | connection, liveness deadline, reconnect delay, `upstream_joined` | `supervise`, `run_socket_once` | the flag never outlives its connection; stale rooms are left; reconnects back off |
| readiness | `src/runtime/status.rs` | three flags | `ready` | ready means a live, joined room where one is needed |
| rate limits | `src/rate_limit.rs` | governor buckets | `RateLimiters::check` | no bucket exceeds burst plus rate in any window |
| integration API | `src/runtime/*.rs` | open requests, draining server | `create_reply`, `read_thread`, drain | quota after authorization, only entitled requests go upstream, drain ends |
| posting client | `src/posting.rs` | none | `reply`, `classify_upstream_error` | a retryable answer never leads to a second post |
| reading client | `src/reading.rs` | none | `fetch_thread` and thread building | the newest posts within the limit, in order, redacted, or a failed read |
| wire contract | `src/contract.rs` | none | `ErrorCode::retryable` | agrees with what the handlers know |
| event building | `src/event.rs`, `upstream.rs` | none | decoding, redaction, `event_id`, `post_refs`, `poster_fingerprint` | nothing private survives at any depth; ids collide for no two posts; fingerprints cannot be matched across integrations |
| origin matching | `src/origin.rs` | table from tripcodes to names | `annotate_post` | an origin is the integration that wrote the post |
| configuration | `src/config*.rs` | none after start | validation, resolving with the environment, `board_allowed` | what runs has usable buckets and no secret serves two purposes; what is refused has a reason |
| metrics, telemetry | `src/metrics.rs`, `runtime/telemetry.rs` | counters | | nothing reads them back |
| Go client | `clients/go` | none | signing, calls, webhook verification, checks of what it gets | does not retry unknown replies; takes everything the gateway sends |

**Interaction.** `main::run` spawns the delivery loop, the retention loop, the
session refresh, the socket supervisor and the HTTP server, which share the store
(one `tokio_rusqlite` connection, so one statement or transaction at a time), a
`Notify` from intake to delivery, three atomics (`runtime::Status`) and the
shutdown `watch` channel. Without webhooks neither the session refresh nor the
supervisor is spawned. Everything else is an `await` on the network.

**What is hard.** Every `await` is a point where another task runs. `select!`
drops a future half way: the supervisor may drop an intake handler between its
commit and its notification. Timeouts race answers, so the gateway may not know
whether an endpoint or ptchan has done what it asked. SQLite may fail, the
process may die anywhere, and the configuration may differ after a restart. What
the board says is JSON of a foreign program: keys nobody expected, replies in any
order, texts that may be glued together so that two of them look alike. The
hazards in `PROJECT.json` list the lines where this bites.

## 2. Modules

| Module | Models | Used by |
|---|---|---|
| `Store` | the two tables and every statement on them | `Delivery` |
| `Outbox` | abstract: a durable at-least-once outbox | refined by `Delivery` |
| `Delivery` | intake, delivery loop, attempts, endpoints, retention, process | `MCDelivery`, `DeliveryProofs` |
| `Upstream` | session refresh, supervisor, connection, packet handlers, status flags | `MCUpstream`, `UpstreamProofs` |
| `Posts` | from upstream JSON to posts, events and threads of the contract, and the Go client's checks of them: operators only | `Board`, `PostsProofs` |
| `Configuration` | loading: validation, resolving with the environment, start | `Board`, `ConfigurationProofs` |
| `Board` | composes the two: a gateway loads a file, then people and integrations post, the room announces, integrations read | `MCBoard`, `BoardProofs` |
| `Buckets` | the rate limiters | `Quota`, `IntegrationApi` |
| `Quota` | concurrent handlers on the buckets, and a measuring window | `MCQuota`, `QuotaProofs` |
| `IntegrationApi` | clients, both handlers, ptchan's part of a reply, the draining server | `MCIntegrationApi`, `IntegrationApiProofs` |
| `Timestamps` | RFC 3339 texts compared by SQLite, and the freshness of signed requests | `TimestampsProofs` |

The operators marked *Mutant* in the modules are not part of any specification;
each is a plausible bug that makes one property fail (`PROJECT.json`, mutants).

### Store and Delivery

A row is a pair of event and webhook. `stored`, `status`, `attempts`, `wait` and
`age` are the columns. Each store operation is one atomic step because it runs on
the connection's own thread; an error of `create_event` changes
nothing and is a stuttering step, errors of the other operations are actions
(`LoadFails`, `NextDelayFails`, `MarkFails`, `PruneFails`).

* *Time* is relative: `wait` is `next_attempt_at - now`, `age` is
  `now - created_at`. Only the order of overdue rows matters
  (`ORDER BY next_attempt_at`), so `Elapse` replaces an overdue row's wait by its
  rank among the overdue ones. The clock therefore needs no bound.
* *Attempts* count up to `MaxAttempts`, beyond which `delivery_backoff` is
  constant (8 in the code); the count has no other use.
* The loop is one action per stretch between two awaits: `CheckShutdown`,
  `LoadBatch`, `StartDelivery`/`BatchDone` (`for_each_concurrent`), `NextDelay`,
  `EnterSelect`, `Wake`. An attempt is `EndpointReceives`, `EndpointAccepts`,
  `RequestFails` or `RequestTimesOut`, then `MarkDelivered`, `MarkFailed` or
  `MarkFails`. The loop takes the time *before* it asks the store how long to
  sleep and arms its timer after the answer, so the sleep is too long by what the
  store took: `late` counts that time, up to the bound `StoreLatency`, and
  `next_delivery_delay(late)` is computed from the earlier clock.
* `DropHandler` and `StopSocket` are `supervise` dropping `run_socket_once`
  while `new_post` runs. A statement that is already queued still runs on the
  connection's thread when the future that awaits it is dropped; the handler has
  nothing left to do then but to notify, so a commit after the drop is the same
  as the commit before the drop that the model has.
* Retention is `CleanupWakes` (the hourly sleep, of any length, or the shutdown),
  then `PruneOnce` or `PruneFails`, after which the loop goes on.
* `Exit` is the end of `run()`, which awaits the session refresh, the supervisor,
  the delivery loop, the cleanup loop and the HTTP server. The first and the last
  are the subject of `Upstream` and `IntegrationApi`; here they are `others`, and
  `OtherTasksEnd` may come late or never. `Crash` and `Exit` keep the store and
  lose everything else; `Start(W)` may come back with another set of webhooks, or
  with none and then without a supervisor.
* `received` and `missed` are history: what endpoints got, and whether the
  sleeping loop was kept from knowing of a row.

### Upstream

`refresh_loop` and `supervise` are two processes with program counters and
countdown timers. The cookie jar is reduced to the time until the session cookie
expires; packets to what they make the connection do: nothing (`NoiseArrives`),
a sign of life, the engine's open packet with its heartbeat, the join, an end.
`RefreshSocket` and `StopSocket` are the other branches of supervise's `select!`
and are possible only where `run_socket_once` awaits; "handle" is the await inside
a packet handler (an intake that waits for the store, an answer being sent), in
which neither packets nor the liveness deadline are looked at. `silence` counts
the ticks since a packet was observed and stops counting at the bound `LongestSilence`, which
is assumed to be no less than any silence a deadline allows. `upstream_required` is fixed at the start: without
webhooks neither task runs and the gateway is ready by itself.

### Posts, Configuration and Board

An upstream post is a record of the members the gateway reads and a set of *paths*
(keys from the root down) for all others, which is what redaction tells apart.
A text is its trimmed core and whether blanks surround it. A fingerprint is the
sequence of what went into the MAC: two are equal when their inputs are, as with
the real HMAC up to collisions, so a missing separator shows. Ids, quotes and
backlinks are numbers, texts or objects, as `post_ref` meets them.

`Configuration` is one action per check or variable read: the runtime section,
each integration, then each integration with its secrets, the fingerprint secret,
the session cookie. The environment is unknown until it is read and constant
afterwards; a name is a sequence of characters because `env_safe_name` maps
different names to one variable. URLs, addresses and texts that must not be empty
are one flag, since nothing else depends on them.

In `Board` the upstream board is external: visitors open threads, visitors and
integrations reply in them. Posts are numbered per board over all its threads, a
thread has the number of its first post, and posts of two boards share numbers,
which is what an event id must survive. Posts are dated
no earlier than what they answer, but two replies written at once may be
numbered in the other order than they are dated. A post quotes posts of its board
by number or text and any post as an object that names board and thread; the
posts of a board that quote a post are its backlinks, as texts. A number or a text
says nothing of a thread, and `post_ref` takes it for one of the quoting thread:
`ReferencesResolve` asks that the board and the number of a reference are always
right, and its thread wherever upstream said it or the two posts share it. For a
number or text that quotes another thread of the board the thread in the
reference is that of the quoting post, which is all the gateway can know.

A thread is shown with its replies in any order and with or without board and
thread in them. A reply with an *explicit* null thread is not produced: null is
how a post says that it opens a thread, and `contract_post` in `src/event.rs` reads
it so in events and in threads alike. `stored` is what `create_event` would insert; what
becomes of it is `Delivery`'s subject.

The order of a sequence is written with ranks, `sort_by_id` (the n-th post is the
one with n posts up to it) and `Nth` (the n-th usable reference), rather
than with `SortSeq` and `SelectSeq`: those are recursive, and the prover knows
nothing of what they return. Posts of one number stay in the order they came in,
as with Rust's stable `sort_by_key`.

### Buckets and Quota

governor is external: a bucket is its debt in ticks, which `Charge` raises by one
period, up to `Burst` periods, and time pays back. `check` asks the
integration's bucket and then the global one, two atomic steps. A request that
its own bucket rejects changes nothing and is a stuttering step. `OpenWindow`,
`CloseWindow` and `passed` are an observer; `Horizon` bounds the length of the
window it looks at, and nothing else.

### IntegrationApi

A *job* is something a client wants done; it may be sent again only after an
answer the contract calls retryable. A request has at most one *flaw*, and the
stages of a handler are the order of its checks: body, authentication and
authorization, the two buckets, JSON and fields, the upstream request. Signature
verification is a yes or no. ptchan handles a reply that was sent whenever it
likes, once, also after the gateway's timeout or the client's hang-up. What is
assumed of it (`Answers`): it sends a postId only with a post it created, and its
own refusals (429 and errors with one of its texts) create none. What stands in
front of it may answer at any time, with a 2xx or a 5xx page of its own, whatever
becomes of the reply. `reply` is the code's reading of such an answer, by status,
body and postId; the body may be lost. One thing is assumed away
(`PagesNameNoLimit`): that a page from in front of ptchan contains "flood" or "wait
before", which `classify_upstream_error` takes for a rate limit whoever says it;
such a page would be retryable although ptchan may have posted the reply.

## 3. Runs

| Run | Checks | Bounds, and why they are enough |
|---|---|---|
| `delivery_rows` | `EventIffRows`, `DeliveredWasReceived`, `RowLifecycle`, `ImplementsOutbox`, `ShutdownEnds` | no endpoint has to answer; one event, two webhooks, of which one may be removed and come back; concurrency 1 for a batch of 2, so the limit is reached and a shutdown comes while one attempt is open and one waits; retention 0, so events are pruned after a tick and seen again; the tasks outside the pipeline may never end |
| `delivery_wakeup` | `LoadedRowsCurrent`, `OneAttemptPerRow`, `NoLostWakeup`, `SleepBounded`, `RowLifecycle` | two events for one webhook: the second arrives at every point of the loop while the first is loaded, in flight or backing off; two attempts with different backoff; the store takes up to a tick to answer, as long as the first backoff |
| `delivery_live` | `EventuallyDelivered`, `EventuallyPruned` | two webhooks, one unresponsive, batches of one row: the worst case for starvation; rows of the unresponsive one keep the event, its absence lets it go |
| `delivery_slow` | `SlowEndpointDoesNotBlock`, violated | two events, two webhooks |
| `upstream` | `JoinedMeansConnected`, `RefreshedBeforeExpiry`, `ResetOnlyAfterJoin`, `SubscriptionRenewed`, `ShutdownStops`, `SessionLossLeavesRoom`, `ReadyAgain` | with and without webhooks; intervals of 1 to 5 ticks in the code's order; delays double twice; a cookie of 5 ticks makes the margin of a fifth non-zero |
| `board` | `RefusedForReason`, `RunningIsSound`, `NoEventSwallowed`, `ReadFailsClosed`, `FingerprintsScoped`, `EventAndReadAgree`, `ThreadWindow`, `OriginIsAuthor`, `ReferencesResolve`, `ClientAccepts` | one or two integrations of 78, among them every mistake validation looks for and names that clash only as variables; three integrations with nested names for the posts; three posts on two boards of five kinds, so a post has a neighbour with its number, quotes stay in a thread, cross threads and cross boards, and a thread exceeds the limit of 2; limits below, at and above the clamp |
| `board_order` | `ServedChronologically`, violated | three posts with two dates on one board |
| `quota` | `WithinQuota` | two integrations, two handlers, bursts of 1 and 2, windows up to 3 ticks, longer than any bucket needs to refill once |
| `api_replies` | `NoDuplicateReply`, `SuccessMeansPosted`, `RetryableIsUnposted`, `ChargedAsDocumented`, `OnlyEntitledReachUpstream` | two replies for a global bucket of one and a third on a foreign board, every flaw, every phrase of an error and two pairs whose order decides, pages without and with a phrase |
| `api_drain` | `DrainEnds`, `OnlyEntitledReachUpstream` | a reply, a read and a read without the capability |
| `api_denied` | `DeniedIsNotUnauthorized`, violated | a reply of an integration without the posting capability |
| `timestamps` | `TextOrderIsTimeOrder`, `FreshWithinSkew` | three groups of fraction digits with three values each: all pairs of shapes; five seconds with a skew of two, so both sides of the limit are reached |

`delivery_live` looks only at states without a requested shutdown (`CONSTRAINT
NoShutdown`): a shutdown fulfils both its properties, nothing forces one, and a
process started after one is in the state of a process started after a crash.

The type invariants of the state machines are proved (section 4) and not checked
again here. Deadlock is checked in every run but `board` and `board_order`: time can always
go on. There, a refused file or the last post ends the behaviour.

### Fairness

* `Delivery!CodeFairness`: weak fairness of each task, of the clock and of the
  request timeout; tokio schedules tasks that are ready. A task makes a step, which
  may be one of its errors: a store that fails every time is allowed, and
  nothing makes the tasks outside the pipeline end (`OtherTasksEnd`).
  `ShutdownEnds` therefore has two parts: intake, delivery and cleanup stop
  whatever happens, and the process ends if session refresh and server do.
  `EnvironmentFairness`, only in `delivery_live`, is strong: SQLite does not fail
  every time, pruning included, and the endpoint of a *responsive* webhook,
  whenever it is asked again and again, answers 2xx again and again.
* `Upstream!CodeFairness`: the clock and the `select!` branches of `supervise`
  are strongly fair, because tokio's cooperative budget makes a task with endless
  input yield and `select!` then polls its other branches; nothing is asked of the
  server, and no handler has to end. `AnsweringSpec` adds that the refresh request ends, an *assumption*:
  the request has no timeout. `ReadyAgain` has a hypothesis of its own, a server
  that accepts and lets the gateway join again and again.
* `IntegrationApi!FairSpec`: handlers are scheduled between two waits, and
  `REPLY_TIMEOUT` ends a reply. Neither the body of a request nor a thread read has
  a timeout, and neither is fair: `DrainEnds` says of which clients and of which
  upstream it speaks, those that keep no body back and leave no read unanswered
  forever. Without this a drain, and with it `run()`, need not end.

### Findings

* `delivery_slow`: docs/operations.md says that one slow endpoint does not block
  unrelated integrations. Within a batch this holds; but `deliver_pending` awaits
  its whole batch, so a row that falls due meanwhile waits for the slow endpoints
  of others. `EventuallyDelivered` shows that the wait ends.
* `api_denied`: the API description reserves 403 for a missing posting capability;
  `find_posting_config` looks only among integrations that have it, so the answer
  is 401. Thread reads answer 403.
* `board_order`: the contract promises a thread's posts "in chronological order"
  (`src/contract.rs:136`), and the Go client rejects a thread that is not;
  `thread_from_value` sorts by id (`src/reading.rs:110`). The two orders differ
  when upstream numbers two replies in the other order than it dates them. Whether
  ptchan ever does is not decided here; `ClientAccepts` holds where it does not.

## 4. Proofs

Every safety invariant and every action property that a passing run checks is
also a theorem, for every value of the constants that satisfies the modules'
`ASSUME`s. These are:

* finite sets of events and webhooks, positive backoffs, limits, periods and
  bursts, which validation and the code's constants guarantee (a bound may be
  larger than any that a run could use);
* `ConfigurationConstants`: the files are what serde can read (types only; every
  mistake validation looks for may be in them), and a flag that says that an
  integration is well formed includes that its public tripcode is not empty, as
  `valid_public_tripcode` asks;
* `PagesNameNoLimit`: pages from in front of ptchan do not use its words for a rate
  limit (section 2, IntegrationApi);
* `BoardConstants`: boards have names, and the members of a post are a tree
  (where a path is, its prefixes are).

**DeliveryProofs.** The inductive invariant is `Delivery!Inv`. None of the
properties is inductive alone: that a delivered row was received needs
`ArrivedWasReceived` (an answer comes from an endpoint that got the request) and
`LoadedRowsCurrent` (a row in flight is still pending, so neither pruning nor a
new insertion resets what was received); that needs `OneAttemptPerRow` (else one
attempt's outcome would make another's stale) and `BatchAwaited` (nothing is
in flight outside the batch); pruning preserves `LoadedRowsCurrent` because a
pending row protects its event. `NoLostWakeup` needs the type of the timers only;
the time the store took (`late`) is part of its bound.
Proved from `Inv`:

* `TypeCorrect`, `NothingAcknowledgedUnsent` (`DeliveredWasReceived`),
  `EventsAndRowsTogether` (`EventIffRows`), `BatchAgreesWithStore`
  (`LoadedRowsCurrent`), `RowsAreAttemptedOnce` (`OneAttemptPerRow`), `WakeupsAreNotLost`
  (`NoLostWakeup`);
* `SleepsAreBounded` (`SleepBounded`): the loop takes its sleep from the rows, so
  the invariant needed beside it is `WaitBounded`, that no row waits longer than
  the longest backoff, reckoned from the time the loop last took, and that this
  time grows old only from the question to the store to the end of the sleep
  (`LateStep`);
* the action property `RowsKeepTheirLifecycle` (`RowLifecycle`), action by action;
* `ImplementsTheOutbox`: the refinement, with `box <- status` and
  `got <- received`; each step is one of the outbox or a stutter.

**UpstreamProofs.** For any intervals, lifetimes and heartbeats: `TypeCorrect`;
`FlagFollowsConnection` (`JoinedMeansConnected`), which is inductive because the
flag is set together with `joined` and every step out of the connection clears it;
`SessionOutlivesSleep` (`RefreshedBeforeExpiry`), from a lemma that the margin
never exceeds the lifetime, and because sleep and lifetime run down together; and
`FailuresBackOff` (the action property `ResetOnlyAfterJoin`), for which the type
invariant must keep the delay within its maximum, so that doubling never shortens
it.

**QuotaProofs.** `QuotaIsKept` (`WithinQuota`) rests on `Quota!Inv`: a bucket's
debt stays within its capacity, and what it let through in the window is still
owed or was paid by the time that passed. The bound alone is not inductive: it
does not see what a bucket already owed when the window opened.

**IntegrationApiProofs.** The first invariant is `TypeOK`, `RetryableIsUnposted`
and `SuccessMeansPosted`. `NoDuplicateReply` is not inductive because a sent reply
may be posted later: `RetryableIsUnposted` adds that a job that may be sent again
has nothing on its way. What `reply` makes of an answer is a lemma of its own
(`ReplyCodes`): "success" only for a postId, a retryable code only for ptchan's own
refusals, the latter from `PagesNameNoLimit` (`PageIsNotRetried`). `RetriesAreSafe`, `AcceptedIsPosted` and
`RetryMeansNothingPosted` follow. The second, `Checked` (`ChecksInOrder`), says of
every stage which checks a request has passed and which buckets it has paid by
then; `OnlyEntitledReachUpstream` looks at the last stage and
`ChargedAsDocumented` at the answer only, and neither sees the stages between.
From it `QuotaChargedAsDocumented` and `UpstreamSeesEntitledOnly`.

**TimestampsProofs.** Arithmetic for any size of a digit group, number of seconds
and skew: lemmas on division (unique quotient and remainder, order digit by
digit), then the shape of a text (no, one, two or three groups of the fraction) and
where two texts first differ. `TextsSortAsTimes` (`TextOrderIsTimeOrder`) compares
them there, and has the shapes differ where one ends with "+" and the other goes
on with a digit; `SkewIsAsDocumented` (`FreshWithinSkew`) bounds what the two
roundings lose.

**ConfigurationProofs.** `LoadInv` is inductive over loading: `Progress` says what
the pass so far has established of the integrations it has behind it (`Validated`,
then `Resolved`: the sets of names and tripcodes are those seen, all that was seen
is proper and apart, the `Config` lists what was resolved), and
`RefusedForReason`. The soundness of what runs (`SoundWhenRunning`) then needs that
environment variables of two purposes differ: `VariablesApart` shows that a safe
name with a suffix is never a safe name with another suffix, nor one of the fixed
variables, whatever the names.

**PostsProofs.** What the operators on posts do, for lists of any length: redaction
removes the paths with an ip key and nothing else, and what is left has a
sensitive key only if the post had one elsewhere (`RedactionIsExact`); sorting by
number puts each post in the place of its rank among the posts of its thread
(`SortRanked`, from `RankFacts` and the ranks of a chain, `ChainRanks`); `split_off` keeps the newest (`NewestKept`); the references
of a list are those of its usable entries (`RefsOfList`); a separator that occurs in
neither part makes the two parts of a MAC readable again (`ScopesSeparated`).

**BoardProofs.** The inductive invariant is `LoadInv` and `BoardInv`. The properties
compare what was stored *earlier* with the posts of *now*, and pick out single
fields of it: alone they are too weak for any step to preserve them. `BoardInv` instead says what was
stored and served, field by field: upstream's posts are `Numbered` and `Written`
(by authors that may, quoting posts that exist), the store holds exactly `EventOf`
of the posts that were told and may pass (`Recorded`), and the last answer is the
window of its thread (`Answered`). The numbers of a thread have gaps, those of the
board's other threads, so a window is described by ranks (`RankIn`) and not by
numbers. That the payloads stay right when more is
posted is `EventsStay`; that the code computes them is `EventBuilt` and
`ThreadServed`, which follow a post through decoding, redaction, contract, origin
and fingerprint; `RefsPlaced` says of a reference by number, text or object which
coordinates it has right. From the invariant: `RunningGatewayIsSound`, `RefusalHasReason`,
`NoEventIsSwallowed`, `ReadsFailClosed`, `OriginsAreAuthors`,
`EventsAndReadsAgree`, `FingerprintsAreScoped`, `ReadsAreWindows`,
`ReferencesAreResolved` and `TheClientAccepts`, one for each property of the run
`board`, with any number of boards, posts, integrations and any limits.

**Only model-checked.** Liveness (`EventuallyDelivered`, `ShutdownEnds`,
`EventuallyPruned`, `SubscriptionRenewed`, `ShutdownStops`,
`SessionLossLeavesRoom`, `ReadyAgain`, `DrainEnds`): fairness and ENABLED are
outside the prover's reach. The three violations are counterexamples of TLC.

## 5. Not modelled

Metrics and telemetry (nothing reads them), the command line, TOML parsing and
defaults, the generated contract documents, HMAC computation and replay of signed
requests within the clock skew, the text of messages and errors, fields of a post
that are only copied (name, subject, capcode, country, files). The Go client keeps
no state between calls: its rule about retries is the client of `IntegrationApi`,
its checks of events and threads are in `Posts`, its checks of a reply's answer and
of sizes are left out.

## 6. Plan

Done: delivery, upstream, rate limits, API, then posts, configuration and the
board that composes them; a theorem for every safety property. Left, in this
order:

1. Composition of `Upstream` and `Delivery` over the shared shutdown channel; today
   each has the other's part of it (`DropHandler`, "handle") as a choice.
2. An abstract specification of the integration API (a reply is posted at most once
   and its answer tells what is known), refined by `IntegrationApi` as `Delivery`
   refines `Outbox`.
3. The Go client's checks of a reply's answer.
