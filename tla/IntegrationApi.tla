--------------------------- MODULE IntegrationApi ---------------------------
(***************************************************************************)
(* The signed HTTP API: thread reads (runtime/threads.rs) and replies      *)
(* (runtime/replies.rs, posting.rs), their authentication (runtime/auth.rs)*)
(* and rate limits (module Buckets), the errors they answer with, and the  *)
(* server that drains them on shutdown (runtime/mod.rs).                   *)
(*                                                                         *)
(* A job is one thing a client wants done.  The client sends it again only *)
(* when the answer says it is retryable.  ptchan, the upstream, handles a  *)
(* reply in its own time, even when nobody waits for its answer any more.  *)
(***************************************************************************)
EXTENDS Buckets

CONSTANTS
  Jobs,           \* what clients want done
  Capability,     \* Capability[j]: "reading" or "posting"
  Name,           \* Name[j]: x-ptchan-integration of its requests
  Board,          \* Board[j]: the board in its path
  Readers,        \* integrations with the reading capability
  Posters,        \* integrations with the posting capability
  AllowedBoards,  \* allowed_boards of each; empty for all boards
  Texts,          \* sets of phrases a refusal of ptchan may contain
  PageTexts       \* sets of phrases a page from in front of it may contain

ASSUME ApiConstants ==
  /\ Capability \in [Jobs -> Capabilities]
  /\ Readers \subseteq Integrations /\ Posters \subseteq Integrations

\* A page of a proxy does not happen to talk like a rate limit of ptchan.
ASSUME PagesNameNoLimit == \A text \in PageTexts : "flood" \notin text

VARIABLES
  server,   \* axum::serve: "running", "draining" or "stopped"
  stage,    \* stage[j]: how far the request of j is, "none" without one
  flaw,     \* flaw[j]: what is wrong with the last request of j
  answer,   \* answer[j]: code of its last answer; "none" before
  charged,  \* history: the buckets its last request was charged to
  wire,     \* wire[j]: what ptchan did with the last reply of j
  posts     \* posts[j]: posts ptchan has created for j, counted up to two

vars == <<debt, server, stage, flaw, answer, charged, wire, posts>>

Flaws == {"none", "too_large", "unreadable", "signature", "json", "fields"}
Stages == {"none", "body", "auth", "quota", "global", "validate", "upstream"}

\* Answers before the quota is asked, and answers after it was granted.
EarlyCodes == {"payload_too_large", "body_unreadable", "unauthorized",
               "capability_not_enabled", "board_not_allowed"}
LateCodes == {"invalid_json", "invalid_fields", "success", "reply_state_unknown",
              "captcha_required", "block_bypass_required", "thread_not_found",
              "thread_locked", "thread_reply_limit", "board_locked", "rejected",
              "upstream_unavailable"}
Codes == EarlyCodes \cup LateCodes \cup {"rate_limited"}

(* Every variable holds a value of its kind.                                 *)
TypeOK ==
  /\ BucketsTypeOK
  /\ server \in {"running", "draining", "stopped"}
  /\ stage \in [Jobs -> Stages]
  /\ flaw \in [Jobs -> Flaws]
  /\ answer \in [Jobs -> Codes \cup {"none", "lost"}]
  /\ charged \in [Jobs -> SUBSET {"integration", "global"}]
  /\ wire \in [Jobs -> {"none", "sent", "refused", "posted"}]
  /\ posts \in [Jobs -> 0..2]

Init ==
  /\ BucketsInit
  /\ server = "running"
  /\ stage = [j \in Jobs |-> "none"]
  /\ flaw = [j \in Jobs |-> "none"]
  /\ answer = [j \in Jobs |-> "none"]
  /\ charged = [j \in Jobs |-> {}]
  /\ wire = [j \in Jobs |-> "none"]
  /\ posts = [j \in Jobs |-> 0]

-----------------------------------------------------------------------------
(* The client. *)

\* Mutant: an unknown reply state is offered for retry like an outage.
RetryableIfUnknown(code) ==
  code \in {"rate_limited", "upstream_unavailable", "reply_state_unknown"}

\* ErrorCode::retryable.
retryable(code) == code \in {"rate_limited", "upstream_unavailable"}

Posting(j) == Capability[j] = "posting"

\* A request with flaw f, or with none, arrives.
Send(j, f) ==
  /\ server = "running" /\ stage[j] = "none"
  /\ answer[j] = "none" \/ retryable(answer[j])
  /\ f \in {"too_large", "unreadable", "json"} => Posting(j)
  /\ stage' = [stage EXCEPT ![j] = IF Posting(j) THEN "body" ELSE "auth"]
  /\ flaw' = [flaw EXCEPT ![j] = f]
  /\ charged' = [charged EXCEPT ![j] = {}]
  /\ UNCHANGED <<debt, server, answer, wire, posts>>

\* The handler answers.
Answer(j, code) ==
  /\ stage' = [stage EXCEPT ![j] = "none"]
  /\ answer' = [answer EXCEPT ![j] = code]

Proceed(j, there) ==
  /\ stage' = [stage EXCEPT ![j] = there]
  /\ UNCHANGED answer

\* The client hangs up while the handler awaits: the handler is dropped.
Disconnect(j) ==
  /\ stage[j] \in {"body", "upstream"}
  /\ Answer(j, "lost")
  /\ UNCHANGED <<debt, server, flaw, charged, wire, posts>>

-----------------------------------------------------------------------------
(* The handlers, up to the upstream request. *)

Local == UNCHANGED <<debt, server, flaw, charged, wire, posts>>

\* Mutant: the JSON is parsed while the body is read.
ReadBodyAsJson(j) ==
  /\ stage[j] = "body"
  /\ \/ flaw[j] = "too_large" /\ Answer(j, "payload_too_large")
     \/ flaw[j] = "unreadable" /\ Answer(j, "body_unreadable")
     \/ flaw[j] = "json" /\ Answer(j, "invalid_json")
     \/ flaw[j] \notin {"too_large", "unreadable", "json"} /\ Proceed(j, "auth")
  /\ Local

\* Bytes::from_request of a reply.
ReadBody(j) ==
  /\ stage[j] = "body"
  /\ \/ flaw[j] = "too_large" /\ Answer(j, "payload_too_large")
     \/ flaw[j] = "unreadable" /\ Answer(j, "body_unreadable")
     \/ flaw[j] \notin {"too_large", "unreadable"} /\ Proceed(j, "auth")
  /\ Local

\* find_reading_config looks among all integrations, find_posting_config
\* only among those with the posting capability; the headers are verified
\* with the secret found.
authenticated(j) ==
  /\ Name[j] \in IF Posting(j) THEN Posters ELSE Integrations
  /\ flaw[j] # "signature"

board_allowed(i, b) == AllowedBoards[i] = {} \/ b \in AllowedBoards[i]

\* Mutant: capability and board are not looked at.
AuthorizeWithoutBoard(j) ==
  /\ stage[j] = "auth"
  /\ \/ ~authenticated(j) /\ Answer(j, "unauthorized")
     \/ authenticated(j) /\ Proceed(j, "quota")
  /\ Local

\* The capability is looked at for reads only: a reply was authenticated as
\* one of a poster.
Authorize(j) ==
  LET capable == Posting(j) \/ Name[j] \in Readers
      allowed == board_allowed(Name[j], Board[j])
  IN
  /\ stage[j] = "auth"
  /\ \/ ~authenticated(j) /\ Answer(j, "unauthorized")
     \/ authenticated(j) /\ ~capable /\ Answer(j, "capability_not_enabled")
     \/ authenticated(j) /\ capable /\ ~allowed /\ Answer(j, "board_not_allowed")
     \/ authenticated(j) /\ capable /\ allowed /\ Proceed(j, "quota")
  /\ Local

\* One bucket of RateLimiters::check: charged, or the request is rejected.
CheckBucket(j, here, owner, as, there) ==
  LET b == <<owner, Capability[j]>> IN
  /\ stage[j] = here
  /\ \/ /\ Charge(b)
        /\ charged' = [charged EXCEPT ![j] = @ \cup {as}]
        /\ Proceed(j, there)
     \/ /\ ~HasRoom(b)
        /\ Answer(j, "rate_limited")
        /\ UNCHANGED <<debt, charged>>
  /\ UNCHANGED <<server, flaw, wire, posts>>

CheckIntegration(j) == CheckBucket(j, "quota", Name[j], "integration", "global")
CheckGlobal(j) == CheckBucket(j, "global", Global, "global", "validate")

\* The JSON, then the fields (board, thread, message or query); then the
\* request to ptchan goes out.
Submit(j) ==
  /\ stage[j] = "validate"
  /\ \/ /\ flaw[j] = "json" /\ Answer(j, "invalid_json")
        /\ UNCHANGED wire
     \/ /\ flaw[j] = "fields" /\ Answer(j, "invalid_fields")
        /\ UNCHANGED wire
     \/ /\ flaw[j] \notin {"json", "fields"} /\ Proceed(j, "upstream")
        /\ wire' = IF Posting(j) THEN [wire EXCEPT ![j] = "sent"] ELSE wire
  /\ UNCHANGED <<debt, server, flaw, charged, posts>>

-----------------------------------------------------------------------------
(* ptchan, which handles a reply when it gets to it (external). *)

UpstreamPosts(j) ==
  /\ wire[j] = "sent"
  /\ wire' = [wire EXCEPT ![j] = "posted"]
  /\ posts' = [posts EXCEPT ![j] = IF @ < 2 THEN @ + 1 ELSE @]
  /\ UNCHANGED <<debt, server, stage, flaw, answer, charged>>

UpstreamRefuses(j) ==
  /\ wire[j] = "sent"
  /\ wire' = [wire EXCEPT ![j] = "refused"]
  /\ UNCHANGED <<debt, server, stage, flaw, answer, charged, posts>>

-----------------------------------------------------------------------------
(* What the handler makes of ptchan's answer. *)

Awaiting(j, capability) == stage[j] = "upstream" /\ Capability[j] = capability

\* Mutant: no timeout is set on the request.
ReplyUnknownWithoutTimeout(j) ==
  /\ Awaiting(j, "posting") /\ wire[j] # "sent"
  /\ Answer(j, "reply_state_unknown")
  /\ Local

\* send() fails: no connection, or REPLY_TIMEOUT elapses before an answer.
ReplyUnknown(j) ==
  /\ Awaiting(j, "posting")
  /\ Answer(j, "reply_state_unknown")
  /\ Local

Statuses == {"too_many_requests", "client_error", "server_error"}

\* Mutant: any server error counts as a rate limit.
ClassifyServerErrorsAsLimits(st, text) ==
  IF st # "client_error" \/ "flood" \in text THEN "rate_limited" ELSE "rejected"

\* What an error body may contain, in the order in which it is looked for,
\* and what it stands for.
Phrases == <<"captcha", "bypass", "flood", "no thread", "thread locked",
             "reply limit", "board locked">>
PhraseCodes == <<"captcha_required", "block_bypass_required", "rate_limited",
                 "thread_not_found", "thread_locked", "thread_reply_limit",
                 "board_locked">>

\* The first phrase decides; status 429 weighs as much as "flood".
classify_upstream_error(st, text) ==
  LET said == IF st = "too_many_requests" THEN text \cup {"flood"} ELSE text
      hits == {n \in 1..7 : Phrases[n] \in said}
  IN  IF hits = {} THEN "rejected"
      ELSE PhraseCodes[CHOOSE n \in hits : \A m \in hits : n <= m]

\* What comes back (external).  Only an answer of ptchan to a post it created
\* carries a postId.  It answers a refusal with an error; what stands in front
\* of it may answer with a page at any time, whatever becomes of the reply.
Answers(j) ==
  {r \in [status : {"success"}, post_id : {TRUE}, text : {{}}] : wire[j] = "posted"}
    \cup {r \in [status : Statuses, post_id : {FALSE}, text : Texts] : wire[j] = "refused"}
    \cup [status : {"success", "server_error"}, post_id : {FALSE}, text : PageTexts]

\* Mutant: any 2xx answer counts as a created post.
ReplyByStatus(response, read) ==
  CASE response.status = "success" /\ read -> "success"
    [] response.status = "success" /\ ~read -> "reply_state_unknown"
    [] response.status # "success" ->
         classify_upstream_error(response.status, IF read THEN response.text ELSE {})

\* PostWriter::reply, once the head of the response is there; its body may
\* be lost.
reply(response, read) ==
  CASE response.status # "success" ->
         classify_upstream_error(response.status, IF read THEN response.text ELSE {})
    [] response.status = "success" /\ read /\ response.post_id -> "success"
    [] response.status = "success" /\ ~(read /\ response.post_id) -> "reply_state_unknown"

ReplyAnswered(j) ==
  /\ Awaiting(j, "posting")
  /\ \E response \in Answers(j), read \in BOOLEAN : Answer(j, reply(response, read))
  /\ Local

\* What a read may come back with: a thread, nothing for status 404, an
\* error for any other status, a lost body or JSON that is no thread.
fetch_thread == {"some", "nothing", "error"}

\* PreparedRead::fetch answers each with a code.
ReadAnswered(j) ==
  /\ Awaiting(j, "reading")
  /\ \E result \in fetch_thread :
       Answer(j, CASE result = "some" -> "success"
                   [] result = "nothing" -> "thread_not_found"
                   [] result = "error" -> "upstream_unavailable")
  /\ Local

-----------------------------------------------------------------------------
(* Shutdown, and time. *)

Drain ==
  /\ server = "running"
  /\ server' = "draining"
  /\ UNCHANGED <<debt, stage, flaw, answer, charged, wire, posts>>

\* with_graceful_shutdown: the last open request has been answered.
Stop ==
  /\ server = "draining" /\ \A j \in Jobs : stage[j] = "none"
  /\ server' = "stopped"
  /\ UNCHANGED <<debt, stage, flaw, answer, charged, wire, posts>>

Tick ==
  /\ Replenish
  /\ UNCHANGED <<server, stage, flaw, answer, charged, wire, posts>>

\* The steps of a handler that wait for nobody.
HandlerStep(j) == Authorize(j) \/ CheckIntegration(j) \/ CheckGlobal(j) \/ Submit(j)

Next ==
  \/ \E j \in Jobs : \/ \E f \in Flaws : Send(j, f)
                     \/ Disconnect(j)
                     \/ ReadBody(j) \/ HandlerStep(j)
                     \/ ReplyAnswered(j) \/ ReplyUnknown(j) \/ ReadAnswered(j)
                     \/ UpstreamPosts(j) \/ UpstreamRefuses(j)
  \/ Drain \/ Stop \/ Tick

Spec == Init /\ [][Next]_vars

\* Handlers are scheduled, and REPLY_TIMEOUT ends a reply.  Neither the body
\* of a request nor a thread read has a timeout: nothing is assumed of them.
FairSpec ==
  /\ Spec
  /\ WF_vars(Stop)
  /\ \A j \in Jobs : WF_vars(HandlerStep(j)) /\ WF_vars(ReplyUnknown(j))

-----------------------------------------------------------------------------
(* "Whether an automatic retry can be safe" (contract.rs:260): a client that *)
(* sends a reply again only after a retryable answer never posts it twice,   *)
(* however late ptchan handles what the gateway has given up on.             *)
NoDuplicateReply == \A j \in Jobs : posts[j] <= 1

(* A reply reported as accepted is on the board: an answer that is not from  *)
(* ptchan, or comes without its postId, is never taken for an acceptance.    *)
SuccessMeansPosted ==
  \A j \in Jobs : Posting(j) /\ answer[j] = "success" => posts[j] = 1

(* docs/contract/README.md:55: quota is consumed once the request is         *)
(* authorized, "even if later query, path, JSON, or message validation       *)
(* fails", and never before; every answer that comes from behind the limits  *)
(* has paid to both buckets.                                                 *)
ChargedAsDocumented ==
  \A j \in Jobs : stage[j] = "none" =>
    /\ answer[j] \in EarlyCodes => charged[j] = {}
    /\ answer[j] \in LateCodes => charged[j] = {"integration", "global"}

\* The integration of j may do what j asks.
Entitled(j) ==
  /\ Name[j] \in IF Posting(j) THEN Posters ELSE Readers
  /\ board_allowed(Name[j], Board[j])

(* Only a sound request of an entitled integration that both buckets let     *)
(* through is ever turned into a request to ptchan.                          *)
OnlyEntitledReachUpstream ==
  \A j \in Jobs :
    /\ wire[j] # "none" => Entitled(j)
    /\ stage[j] = "upstream" => /\ Entitled(j) /\ flaw[j] = "none"
                                /\ charged[j] = {"integration", "global"}

\* A reply that may be sent again has reached no board and will reach none.
RetryableIsUnposted ==
  \A j \in Jobs :
    /\ stage[j] \in Stages \ {"upstream"} /\ (answer[j] = "none" \/ retryable(answer[j])) =>
         posts[j] = 0 /\ wire[j] \in {"none", "refused"}
    /\ stage[j] # "none" => answer[j] = "none" \/ retryable(answer[j])
    /\ wire[j] \in {"none", "sent", "refused"} => posts[j] = 0
    /\ wire[j] = "posted" => posts[j] = 1
    /\ ~Posting(j) => wire[j] = "none"

(* replies.rs:47: 403 is answered when "Posting capability or board access   *)
(* [is] denied".  A correctly signed reply of a configured integration is    *)
(* not answered as if its authentication had failed.                         *)
DeniedIsNotUnauthorized ==
  \A j \in Jobs : answer[j] = "unauthorized" /\ stage[j] = "none" =>
    flaw[j] = "signature" \/ Name[j] \notin Integrations

(* A draining server stops, if no client keeps the body of its request back  *)
(* forever and ptchan leaves no thread read unanswered forever: of the       *)
(* replies nothing has to be assumed, they time out.                         *)
DrainEnds ==
  (\A j \in Jobs : []<>(stage[j] # "body") /\ []<>~Awaiting(j, "reading"))
    => (server = "draining" ~> server = "stopped")
=============================================================================
