----------------------- MODULE IntegrationApiProofs -----------------------
(***************************************************************************)
(* A client that trusts "retryable" never posts a reply twice, for any     *)
(* number of jobs, integrations and boards and whatever ptchan answers.    *)
(***************************************************************************)
EXTENDS IntegrationApi, TLAPS

(* A rejected or failed reply is answered neither with success nor with one  *)
(* of the codes given before the quota is asked.                             *)
LEMMA ClassifyCodes ==
  ASSUME NEW st, NEW text
  PROVE  classify_upstream_error(st, text) \in Codes \ (EarlyCodes \cup {"success"})
<1> DEFINE said == IF st = "too_many_requests" THEN text \cup {"flood"} ELSE text
           hits == {n \in 1..7 : Phrases[n] \in said}
           first == CHOOSE n \in hits : \A m \in hits : n <= m
<1>1. CASE hits = {}
  BY <1>1 DEF classify_upstream_error, Codes, LateCodes, EarlyCodes
<1>2. CASE hits # {}
  <2>1. \E n \in hits : \A m \in hits : n <= m
    <3>1. \A n \in hits : n \in 1..7
      OBVIOUS
    <3>2. PICK n \in hits : TRUE
      BY <1>2
    <3> HIDE DEF hits
    <3>3. \A m \in hits : m = 1 \/ m = 2 \/ m = 3 \/ m = 4 \/ m = 5 \/ m = 6 \/ m = 7
      BY <3>1
    <3> QED
      BY <3>2, <3>3
  <2>2. first \in 1..7
    BY <2>1
  <2>3. \A n \in 1..7 : PhraseCodes[n] \in Codes \ (EarlyCodes \cup {"success"})
    BY DEF PhraseCodes, Codes, LateCodes, EarlyCodes
  <2>4. classify_upstream_error(st, text) = PhraseCodes[first]
    BY <1>2 DEF classify_upstream_error
  <2> QED
    BY <2>2, <2>3, <2>4
<1> QED
  BY <1>1, <1>2

(* A page from in front of ptchan is never answered with a code that invites *)
(* a retry.                                                                  *)
LEMMA PageIsNotRetried ==
  ASSUME NEW text, "flood" \notin text
  PROVE  ~retryable(classify_upstream_error("server_error", text))
<1> DEFINE hits == {n \in 1..7 : Phrases[n] \in text}
           first == CHOOSE n \in hits : \A m \in hits : n <= m
<1>1. CASE hits = {}
  BY <1>1 DEF classify_upstream_error, retryable
<1>2. CASE hits # {}
  <2>1. \A n \in hits : n \in {1, 2, 4, 5, 6, 7}
    <3>1. Phrases[3] = "flood"
      BY DEF Phrases
    <3>2. \A n \in hits : n \in 1..7 /\ n # 3
      BY <3>1
    <3>3. \A n \in 1..7 : n = 3 \/ n \in {1, 2, 4, 5, 6, 7}
      OBVIOUS
    <3> QED
      BY <3>2, <3>3
  <2>2. \E n \in hits : \A m \in hits : n <= m
    <3> HIDE DEF hits
    <3> QED
      BY <1>2, <2>1
  <2>3. first \in {1, 2, 4, 5, 6, 7}
    BY <2>1, <2>2
  <2>4. \A n \in {1, 2, 4, 5, 6, 7} : ~retryable(PhraseCodes[n])
    BY DEF PhraseCodes, retryable
  <2>5. classify_upstream_error("server_error", text) = PhraseCodes[first]
    BY <1>2 DEF classify_upstream_error
  <2> QED
    BY <2>3, <2>4, <2>5
<1> QED
  BY <1>1, <1>2

(* What PostWriter::reply makes of a response: success only of a 2xx with a  *)
(* postId, which only ptchan's answer to a created post has, and a retryable *)
(* code only of a refusal.                                                   *)
LEMMA ReplyCodes ==
  ASSUME NEW j \in Jobs, NEW response \in Answers(j), NEW read \in BOOLEAN
  PROVE  /\ reply(response, read) \in Codes \ EarlyCodes
         /\ reply(response, read) = "success" => wire[j] = "posted"
         /\ retryable(reply(response, read)) => wire[j] = "refused"
<1>1. classify_upstream_error(response.status, response.text) \in Codes \ (EarlyCodes \cup {"success"})
  BY ClassifyCodes
<1>2. classify_upstream_error(response.status, {}) \in Codes \ (EarlyCodes \cup {"success"})
  BY ClassifyCodes
<1>3. CASE response.status = "success"
  <2>1. response.post_id => wire[j] = "posted"
    BY <1>3 DEF Answers, Statuses
  <2>2. {"success", "reply_state_unknown"} \subseteq Codes \ EarlyCodes
    BY DEF Codes, LateCodes, EarlyCodes
  <2>3. reply(response, read) \in {"success", "reply_state_unknown"}
        /\ (reply(response, read) = "success" => response.post_id)
    BY <1>3 DEF reply
  <2> QED
    BY <2>1, <2>2, <2>3 DEF retryable
<1>4. CASE response.status # "success"
  <2>1. \/ wire[j] = "refused"
        \/ response.status = "server_error" /\ response.text \in PageTexts
    BY <1>4 DEF Answers
  <2>2. \/ reply(response, read) = classify_upstream_error(response.status, response.text)
        \/ reply(response, read) = classify_upstream_error(response.status, {})
    BY <1>4 DEF reply
  <2>3. ASSUME response.status = "server_error", response.text \in PageTexts
        PROVE  ~retryable(reply(response, read))
    <3>1. "flood" \notin response.text /\ "flood" \notin {}
      BY <2>3, PagesNameNoLimit
    <3> QED
      BY <2>2, <2>3, <3>1, PageIsNotRetried
  <2> QED
    BY <1>1, <1>2, <2>1, <2>2, <2>3
<1> QED
  BY <1>3, <1>4

\* What the theorems rest on.
Inv == TypeOK /\ RetryableIsUnposted /\ SuccessMeansPosted

(* Nothing is sent or posted at first.                                       *)
LEMMA InvInit == Init => Inv
  BY DEF Init, Inv, TypeOK, BucketsTypeOK, BucketsInit, RetryableIsUnposted,
         SuccessMeansPosted, Stages, Flaws, Codes

(* A handler that answers keeps the invariant when it reports success only   *)
(* for a created post and offers a retry only for a reply that is not and    *)
(* will not be posted.                                                       *)
LEMMA AnswerStep ==
  ASSUME Inv, NEW j \in Jobs, NEW code \in Codes \cup {"lost"}, Answer(j, code),
         stage[j] # "none",
         UNCHANGED <<server, flaw, wire, posts>>,
         BucketsTypeOK', charged' = charged,
         code = "success" /\ Posting(j) => wire[j] = "posted",
         retryable(code) => stage[j] # "upstream" \/ wire[j] \in {"none", "refused"}
  PROVE  Inv'
<1>1. /\ stage \in [Jobs -> Stages] /\ answer \in [Jobs -> Codes \cup {"none", "lost"}]
      /\ stage' = [stage EXCEPT ![j] = "none"] /\ answer' = [answer EXCEPT ![j] = code]
  BY DEF Inv, TypeOK, Answer
<1>2. TypeOK'
  BY <1>1 DEF Inv, TypeOK, Stages
<1>3. RetryableIsUnposted'
  <2> SUFFICES ASSUME NEW k \in Jobs
               PROVE  RetryableIsUnposted!(k)'
    BY DEF RetryableIsUnposted
  <2>0. code # "none"
    BY DEF Codes, EarlyCodes, LateCodes
  <2>1. CASE k = j
    BY <1>1, <2>0, <2>1 DEF Inv, RetryableIsUnposted, retryable, Stages, Posting
  <2>2. CASE k # j
    BY <1>1, <2>2 DEF Inv, RetryableIsUnposted, retryable, Posting
  <2> QED
    BY <2>1, <2>2
<1>4. SuccessMeansPosted'
  BY <1>1 DEF Inv, SuccessMeansPosted, RetryableIsUnposted, Posting
<1> QED
  BY <1>2, <1>3, <1>4 DEF Inv

(* A handler that goes on short of the upstream request keeps it.            *)
LEMMA ProceedStep ==
  ASSUME Inv, NEW j \in Jobs, NEW there \in Stages \ {"none", "upstream"},
         Proceed(j, there), stage[j] \notin {"none", "upstream"},
         UNCHANGED <<server, flaw, wire, posts>>, BucketsTypeOK',
         charged' \in [Jobs -> SUBSET {"integration", "global"}]
  PROVE  Inv'
<1>1. /\ stage \in [Jobs -> Stages] /\ stage' = [stage EXCEPT ![j] = there]
      /\ answer' = answer
  BY DEF Inv, TypeOK, Proceed
<1>2. TypeOK'
  BY <1>1 DEF Inv, TypeOK
<1>3. RetryableIsUnposted'
  BY <1>1 DEF Inv, RetryableIsUnposted, retryable, Posting
<1>4. SuccessMeansPosted'
  BY <1>1 DEF Inv, SuccessMeansPosted, Posting
<1> QED
  BY <1>2, <1>3, <1>4 DEF Inv

(* Charging one bucket, or none, leaves numbers in all of them.              *)
LEMMA ChargeType ==
  ASSUME BucketsTypeOK, NEW b, Charge(b)
  PROVE  BucketsTypeOK'
<1>1. debt \in [Buckets -> Nat] /\ debt' = [debt EXCEPT ![b] = debt[b] + Period[b]]
  BY DEF BucketsTypeOK, Charge
<1>2. debt' = [x \in Buckets |-> IF x = b THEN debt[b] + Period[b] ELSE debt[x]]
  BY <1>1
<1>3. ASSUME NEW x \in Buckets
      PROVE  (IF x = b THEN debt[b] + Period[b] ELSE debt[x]) \in Nat
  <2>1. Period[x] \in Nat /\ debt[x] \in Nat
    BY <1>1, BucketConstants
  <2> QED
    BY <2>1
<1> QED
  BY <1>2, <1>3 DEF BucketsTypeOK

(* One bucket of RateLimiters::check keeps the invariant.                    *)
LEMMA CheckStep ==
  ASSUME Inv, NEW j \in Jobs, NEW here \in {"quota", "global"}, NEW owner,
         NEW as \in {"integration", "global"},
         NEW there \in {"global", "validate"},
         CheckBucket(j, here, owner, as, there)
  PROVE  Inv'
<1> DEFINE b == <<owner, Capability[j]>>
<1>0. BucketsTypeOK
  BY DEF Inv, TypeOK
<1>1. stage[j] = here /\ UNCHANGED <<server, flaw, wire, posts>>
  BY DEF CheckBucket
<1>2. CASE /\ Charge(b)
           /\ charged' = [charged EXCEPT ![j] = @ \cup {as}]
           /\ Proceed(j, there)
  <2>1. BucketsTypeOK'
    BY <1>0, <1>2, ChargeType
  <2>2. charged' \in [Jobs -> SUBSET {"integration", "global"}]
    BY <1>2 DEF Inv, TypeOK
  <2>3. there \in Stages \ {"none", "upstream"}
    BY DEF Stages
  <2> QED
    BY <1>1, <1>2, <2>1, <2>2, <2>3, ProceedStep
<1>3. CASE Answer(j, "rate_limited") /\ UNCHANGED <<debt, charged>>
  <2>1. BucketsTypeOK'
    BY <1>0, <1>3 DEF BucketsTypeOK
  <2>2. "rate_limited" \in Codes \cup {"lost"}
    BY DEF Codes
  <2> QED
    BY <1>1, <1>3, <2>1, <2>2, AnswerStep
<1> QED
  BY <1>2, <1>3 DEF CheckBucket

(* Every step of the clients, handlers and ptchan keeps the invariant.       *)
LEMMA InvStep == Inv /\ [Next]_vars => Inv'
<1> SUFFICES ASSUME Inv, [Next]_vars PROVE Inv'
  OBVIOUS
<1> USE DEF Stages, Codes, EarlyCodes, LateCodes
<1>t. /\ BucketsTypeOK
      /\ stage \in [Jobs -> Stages] /\ flaw \in [Jobs -> Flaws]
      /\ answer \in [Jobs -> Codes \cup {"none", "lost"}]
      /\ charged \in [Jobs -> SUBSET {"integration", "global"}]
      /\ wire \in [Jobs -> {"none", "sent", "refused", "posted"}]
      /\ posts \in [Jobs -> 0..2]
  BY DEF Inv, TypeOK
<1>l. Local => UNCHANGED <<server, flaw, wire, posts>> /\ charged' = charged /\ BucketsTypeOK'
  BY <1>t DEF Local, BucketsTypeOK
<1>1. ASSUME NEW j \in Jobs, NEW f \in Flaws, Send(j, f) PROVE Inv'
  <2>1. TypeOK'
    BY <1>1, <1>t DEF Send, Inv, TypeOK, BucketsTypeOK
  <2>2. RetryableIsUnposted'
    BY <1>1, <1>t DEF Send, Inv, RetryableIsUnposted, retryable, Posting
  <2>3. SuccessMeansPosted'
    BY <1>1 DEF Send, Inv, SuccessMeansPosted, Posting
  <2> QED
    BY <2>1, <2>2, <2>3 DEF Inv
<1>2. ASSUME NEW j \in Jobs, Disconnect(j) PROVE Inv'
  <2>1. stage[j] # "none" /\ Answer(j, "lost") /\ Local
    BY <1>2 DEF Disconnect, Local
  <2>2. ~retryable("lost")
    BY DEF retryable
  <2> QED
    BY <2>1, <2>2, <1>l, AnswerStep
<1>3. ASSUME NEW j \in Jobs, ReadBody(j) PROVE Inv'
  <2>1. stage[j] = "body" /\ Local
    BY <1>3 DEF ReadBody
  <2>2. CASE Answer(j, "payload_too_large") \/ Answer(j, "body_unreadable")
    BY <2>1, <2>2, <1>l, AnswerStep DEF retryable
  <2>3. CASE Proceed(j, "auth")
    BY <2>1, <2>3, <1>l, <1>t, ProceedStep
  <2> QED
    BY <1>3, <2>2, <2>3 DEF ReadBody
<1>4. ASSUME NEW j \in Jobs, Authorize(j) PROVE Inv'
  <2>1. stage[j] = "auth" /\ Local
    BY <1>4 DEF Authorize
  <2>2. CASE \/ Answer(j, "unauthorized") \/ Answer(j, "capability_not_enabled")
             \/ Answer(j, "board_not_allowed")
    BY <2>1, <2>2, <1>l, AnswerStep DEF retryable
  <2>3. CASE Proceed(j, "quota")
    BY <2>1, <2>3, <1>l, <1>t, ProceedStep
  <2> QED
    BY <1>4, <2>2, <2>3 DEF Authorize
<1>5. ASSUME NEW j \in Jobs, CheckIntegration(j) \/ CheckGlobal(j) PROVE Inv'
  BY <1>5, CheckStep DEF CheckIntegration, CheckGlobal
<1>6. ASSUME NEW j \in Jobs, Submit(j) PROVE Inv'
  <2>1. stage[j] = "validate" /\ UNCHANGED <<debt, server, flaw, charged, posts>>
    BY <1>6 DEF Submit
  <2>2. CASE /\ Answer(j, "invalid_json") \/ Answer(j, "invalid_fields")
             /\ UNCHANGED wire
    BY <2>1, <2>2, <1>t, AnswerStep DEF retryable, BucketsTypeOK
  <2>3. CASE /\ Proceed(j, "upstream")
             /\ wire' = IF Posting(j) THEN [wire EXCEPT ![j] = "sent"] ELSE wire
    <3>1. stage' = [stage EXCEPT ![j] = "upstream"] /\ answer' = answer
      BY <2>3 DEF Proceed
    <3>2. TypeOK'
      BY <2>1, <2>3, <3>1, <1>t DEF Inv, TypeOK, BucketsTypeOK
    <3>3. posts[j] = 0
      BY <2>1, <1>t DEF Inv, RetryableIsUnposted
    <3>4. RetryableIsUnposted'
      BY <2>1, <2>3, <3>1, <3>3, <1>t DEF Inv, RetryableIsUnposted, retryable, Posting
    <3>5. SuccessMeansPosted'
      BY <2>1, <3>1 DEF Inv, SuccessMeansPosted, Posting
    <3> QED
      BY <3>2, <3>4, <3>5 DEF Inv
  <2> QED
    BY <1>6, <2>2, <2>3 DEF Submit
<1>7. ASSUME NEW j \in Jobs, ReplyAnswered(j) \/ ReplyUnknown(j) PROVE Inv'
  <2>1. CASE ReplyAnswered(j)
    <3>1. PICK response \in Answers(j), read \in BOOLEAN : Answer(j, reply(response, read))
      BY <2>1 DEF ReplyAnswered
    <3>2. /\ reply(response, read) \in Codes \cup {"lost"}
          /\ reply(response, read) = "success" => wire[j] = "posted"
          /\ retryable(reply(response, read)) => wire[j] = "refused"
      BY ReplyCodes
    <3>3. stage[j] = "upstream" /\ Local
      BY <2>1 DEF ReplyAnswered, Awaiting
    <3> QED
      BY <3>1, <3>2, <3>3, <1>l, AnswerStep
  <2>2. CASE ReplyUnknown(j)
    BY <2>2, <1>l, AnswerStep DEF ReplyUnknown, Awaiting, retryable
  <2> QED
    BY <1>7, <2>1, <2>2
<1>8. ASSUME NEW j \in Jobs, ReadAnswered(j) PROVE Inv'
  <2>1. PICK code \in {"success", "thread_not_found", "upstream_unavailable"} : Answer(j, code)
    BY <1>8 DEF ReadAnswered, fetch_thread
  <2>2. ~Posting(j) /\ wire[j] = "none" /\ stage[j] = "upstream" /\ Local
    BY <1>8 DEF ReadAnswered, Awaiting, Posting, Inv, RetryableIsUnposted
  <2>3. code \in Codes \cup {"lost"}
    OBVIOUS
  <2> QED
    BY <2>1, <2>2, <2>3, <1>l, AnswerStep
<1>9. ASSUME NEW j \in Jobs, UpstreamPosts(j) PROVE Inv'
  <2>1. TypeOK'
    BY <1>9, <1>t DEF UpstreamPosts, Inv, TypeOK, BucketsTypeOK
  <2>2. posts[j] = 0 /\ wire[j] = "sent"
    BY <1>9 DEF UpstreamPosts, Inv, RetryableIsUnposted
  <2>3. RetryableIsUnposted'
    BY <1>9, <2>2, <1>t DEF UpstreamPosts, Inv, RetryableIsUnposted, retryable, Posting
  <2>4. SuccessMeansPosted'
    BY <1>9, <2>2, <1>t DEF UpstreamPosts, Inv, SuccessMeansPosted, Posting
  <2> QED
    BY <2>1, <2>3, <2>4 DEF Inv
<1>10. ASSUME NEW j \in Jobs, UpstreamRefuses(j) PROVE Inv'
  <2>1. TypeOK'
    BY <1>10, <1>t DEF UpstreamRefuses, Inv, TypeOK, BucketsTypeOK
  <2>2. RetryableIsUnposted'
    BY <1>10, <1>t DEF UpstreamRefuses, Inv, RetryableIsUnposted, retryable, Posting
  <2>3. SuccessMeansPosted'
    BY <1>10 DEF UpstreamRefuses, Inv, SuccessMeansPosted, Posting
  <2> QED
    BY <2>1, <2>2, <2>3 DEF Inv
<1>11. ASSUME UNCHANGED <<stage, flaw, answer, charged, wire, posts>>, BucketsTypeOK',
              server' \in {"running", "draining", "stopped"}
       PROVE  Inv'
  <2>1. TypeOK'
    BY <1>11 DEF Inv, TypeOK
  <2> QED
    BY <1>11, <2>1 DEF Inv, RetryableIsUnposted, SuccessMeansPosted, Posting
<1>12. CASE Drain \/ Stop
  BY <1>12, <1>11, <1>t DEF Drain, Stop, BucketsTypeOK
<1>13. CASE Tick
  <2>1. BucketsTypeOK'
    BY <1>13, <1>t DEF Tick, Replenish, BucketsTypeOK
  <2>2. server' \in {"running", "draining", "stopped"}
    BY <1>13 DEF Tick, Inv, TypeOK
  <2> QED
    BY <1>13, <1>11, <2>1, <2>2 DEF Tick
<1>14. CASE UNCHANGED vars
  BY <1>14, <1>11, <1>t DEF vars, BucketsTypeOK, Inv, TypeOK
<1> QED
  BY <1>1, <1>2, <1>3, <1>4, <1>5, <1>6, <1>7, <1>8, <1>9, <1>10, <1>12, <1>13, <1>14
     DEF Next, HandlerStep

(* The invariant holds throughout.                                           *)
THEOREM Invariance == Spec => []Inv
  BY InvInit, InvStep, PTL DEF Spec

(* However ptchan, timeouts and retries interleave, a reply that is sent     *)
(* again only after a retryable answer is posted at most once.               *)
THEOREM RetriesAreSafe == Spec => []NoDuplicateReply
<1>1. Inv => NoDuplicateReply
  BY DEF Inv, TypeOK, RetryableIsUnposted, NoDuplicateReply
<1> QED
  BY <1>1, Invariance, PTL

(* A reply reported as accepted is on the board, whatever pages come from in *)
(* front of ptchan and whatever bodies are lost.                             *)
THEOREM AcceptedIsPosted == Spec => []SuccessMeansPosted
<1>1. Inv => SuccessMeansPosted
  BY DEF Inv
<1> QED
  BY <1>1, Invariance, PTL

(* A reply that may be sent again is on no board and on its way to none.     *)
THEOREM RetryMeansNothingPosted == Spec => []RetryableIsUnposted
<1>1. Inv => RetryableIsUnposted
  BY DEF Inv
<1> QED
  BY <1>1, Invariance, PTL

-----------------------------------------------------------------------------
(* The order of the checks: what a request that is at some stage has passed  *)
(* and paid, and what its answer and its message to ptchan tell of that.     *)
CheckedAt(j) ==
  /\ stage[j] \in {"body", "auth", "quota"} => charged[j] = {}
  /\ stage[j] = "global" => charged[j] = {"integration"}
  /\ stage[j] \in {"validate", "upstream"} => charged[j] = {"integration", "global"}
  /\ stage[j] \notin {"none", "body"} => flaw[j] \notin {"too_large", "unreadable"}
  /\ stage[j] \in {"quota", "global", "validate", "upstream"} =>
       Entitled(j) /\ flaw[j] # "signature"
  /\ stage[j] = "upstream" => flaw[j] = "none"
  /\ wire[j] # "none" => Entitled(j)
  /\ stage[j] = "none" /\ answer[j] \in EarlyCodes => charged[j] = {}
  /\ stage[j] = "none" /\ answer[j] \in LateCodes => charged[j] = {"integration", "global"}

Checked == \A j \in Jobs : CheckedAt(j)

(* Nothing has been asked, answered or charged at first.                     *)
LEMMA CheckedInit == Init => Checked
  BY DEF Init, Checked, CheckedAt, EarlyCodes, LateCodes

(* A step that leaves a request alone leaves what is known of it.            *)
LEMMA OthersKeep ==
  ASSUME NEW k \in Jobs, CheckedAt(k),
         UNCHANGED <<stage[k], flaw[k], answer[k], charged[k], wire[k]>>
  PROVE  CheckedAt(k)'
  BY DEF CheckedAt, Entitled, Posting, board_allowed

(* An answer says no more than what was passed and paid.                     *)
LEMMA AnsweredIsChecked ==
  ASSUME TypeOK, Checked, NEW j \in Jobs, NEW code, Answer(j, code),
         UNCHANGED <<flaw, charged, wire>>,
         code \in EarlyCodes => charged[j] = {},
         code \in LateCodes => charged[j] = {"integration", "global"}
  PROVE  Checked'
<1>1. /\ stage' = [stage EXCEPT ![j] = "none"] /\ answer' = [answer EXCEPT ![j] = code]
      /\ stage \in [Jobs -> Stages] /\ answer \in [Jobs -> Codes \cup {"none", "lost"}]
  BY DEF Answer, TypeOK
<1> SUFFICES ASSUME NEW k \in Jobs
             PROVE  CheckedAt(k)'
  BY DEF Checked
<1>2. CheckedAt(k)
  BY DEF Checked
<1>3. CASE k # j
  BY <1>1, <1>2, <1>3, OthersKeep
<1>4. CASE k = j
  <2>1. stage'[j] = "none" /\ answer'[j] = code
    BY <1>1
  <2> QED
    BY <1>2, <1>4, <2>1 DEF CheckedAt, Entitled, Posting, board_allowed
<1> QED
  BY <1>3, <1>4

(* A request goes on when it has what the next stage asks for.               *)
LEMMA ProceededIsChecked ==
  ASSUME TypeOK, Checked, NEW j \in Jobs, NEW there \in Stages \ {"none"},
         Proceed(j, there), UNCHANGED flaw,
         \A k \in Jobs \ {j} : charged'[k] = charged[k] /\ wire'[k] = wire[k],
         there \in {"auth", "quota"} => charged'[j] = {},
         there = "global" => charged'[j] = {"integration"},
         there \in {"validate", "upstream"} => charged'[j] = {"integration", "global"},
         there # "body", flaw[j] \notin {"too_large", "unreadable"},
         there # "auth" => Entitled(j) /\ flaw[j] # "signature",
         there = "upstream" => flaw[j] = "none",
         there = "auth" => wire'[j] = wire[j]
  PROVE  Checked'
<1>1. /\ stage' = [stage EXCEPT ![j] = there] /\ answer' = answer
      /\ stage \in [Jobs -> Stages]
  BY DEF Proceed, TypeOK
<1> SUFFICES ASSUME NEW k \in Jobs
             PROVE  CheckedAt(k)'
  BY DEF Checked
<1>2. CheckedAt(k)
  BY DEF Checked
<1>3. CASE k # j
  BY <1>1, <1>2, <1>3, OthersKeep
<1>4. CASE k = j
  <2>1. stage'[j] = there
    BY <1>1
  <2> QED
    BY <1>2, <1>4, <2>1 DEF CheckedAt, Entitled, Posting, board_allowed, Stages
<1> QED
  BY <1>3, <1>4

(* A bucket is charged once, on the way from its stage to the next.          *)
LEMMA BucketsAreChecked ==
  ASSUME TypeOK, Checked, NEW j \in Jobs, CheckIntegration(j) \/ CheckGlobal(j)
  PROVE  Checked'
<1>0. CheckedAt(j) /\ charged \in [Jobs -> SUBSET {"integration", "global"}]
  BY DEF Checked, TypeOK
<1>1. UNCHANGED <<flaw, wire>>
  BY DEF CheckIntegration, CheckGlobal, CheckBucket
<1>2. CASE Answer(j, "rate_limited") /\ UNCHANGED charged
  BY <1>1, <1>2, AnsweredIsChecked DEF EarlyCodes, LateCodes
<1>3. CASE /\ stage[j] = "quota" /\ Proceed(j, "global")
           /\ charged' = [charged EXCEPT ![j] = @ \cup {"integration"}]
  <2>1. charged'[j] = {"integration"} /\ \A k \in Jobs \ {j} : charged'[k] = charged[k]
    BY <1>0, <1>3 DEF CheckedAt
  <2> QED
    BY <1>0, <1>1, <1>3, <2>1, ProceededIsChecked DEF CheckedAt, Stages
<1>4. CASE /\ stage[j] = "global" /\ Proceed(j, "validate")
           /\ charged' = [charged EXCEPT ![j] = @ \cup {"global"}]
  <2>1. charged'[j] = {"integration", "global"} /\ \A k \in Jobs \ {j} : charged'[k] = charged[k]
    BY <1>0, <1>4 DEF CheckedAt
  <2> QED
    BY <1>0, <1>1, <1>4, <2>1, ProceededIsChecked DEF CheckedAt, Stages
<1> QED
  BY <1>2, <1>3, <1>4 DEF CheckIntegration, CheckGlobal, CheckBucket

(* Every step keeps the order of the checks.                                 *)
LEMMA CheckedStep == TypeOK /\ Checked /\ [Next]_vars => Checked'
<1> SUFFICES ASSUME TypeOK, Checked, [Next]_vars
             PROVE  Checked'
  OBVIOUS
<1>t. /\ stage \in [Jobs -> Stages] /\ flaw \in [Jobs -> Flaws]
      /\ charged \in [Jobs -> SUBSET {"integration", "global"}]
      /\ wire \in [Jobs -> {"none", "sent", "refused", "posted"}]
  BY DEF TypeOK
<1>c. \A k \in Jobs : CheckedAt(k)
  BY DEF Checked
<1>1. ASSUME NEW j \in Jobs, NEW f \in Flaws, Send(j, f)
      PROVE  Checked'
  <2>1. /\ stage'[j] \in {"body", "auth"} /\ charged'[j] = {} /\ flaw'[j] = f
        /\ stage'[j] = "auth" => f \notin {"too_large", "unreadable"}
        /\ UNCHANGED wire
    BY <1>1, <1>t DEF Send
  <2>2. CheckedAt(j)'
    BY <1>c, <2>1 DEF CheckedAt, Entitled, Posting, board_allowed
  <2>3. ASSUME NEW k \in Jobs \ {j}
        PROVE  CheckedAt(k)'
    BY <1>1, <1>t, <1>c, OthersKeep DEF Send
  <2> QED
    BY <2>2, <2>3 DEF Checked
<1>2. ASSUME NEW j \in Jobs, Disconnect(j)
      PROVE  Checked'
  BY <1>2, AnsweredIsChecked DEF Disconnect, EarlyCodes, LateCodes
<1>3. ASSUME NEW j \in Jobs, ReadBody(j)
      PROVE  Checked'
  <2>1. UNCHANGED <<flaw, charged, wire>> /\ stage[j] = "body" /\ charged[j] = {}
    BY <1>3, <1>c DEF ReadBody, Local, CheckedAt
  <2>2. CASE Answer(j, "payload_too_large") \/ Answer(j, "body_unreadable")
    BY <2>1, <2>2, AnsweredIsChecked DEF EarlyCodes, LateCodes
  <2>3. CASE flaw[j] \notin {"too_large", "unreadable"} /\ Proceed(j, "auth")
    BY <2>1, <2>3, ProceededIsChecked DEF Stages
  <2> QED
    BY <1>3, <2>2, <2>3 DEF ReadBody
<1>4. ASSUME NEW j \in Jobs, Authorize(j)
      PROVE  Checked'
  <2>1. /\ UNCHANGED <<flaw, charged, wire>> /\ charged[j] = {} /\ stage[j] = "auth"
        /\ flaw[j] \notin {"too_large", "unreadable"}
    BY <1>4, <1>c DEF Authorize, Local, CheckedAt
  <2>2. CASE \/ Answer(j, "unauthorized") \/ Answer(j, "capability_not_enabled")
             \/ Answer(j, "board_not_allowed")
    BY <2>1, <2>2, AnsweredIsChecked DEF EarlyCodes, LateCodes
  <2>3. CASE /\ authenticated(j) /\ (Posting(j) \/ Name[j] \in Readers)
             /\ board_allowed(Name[j], Board[j]) /\ Proceed(j, "quota")
    <3>1. Entitled(j) /\ flaw[j] # "signature"
      BY <2>3 DEF Entitled, authenticated
    <3> QED
      BY <2>1, <2>3, <3>1, ProceededIsChecked DEF Stages
  <2> QED
    BY <1>4, <2>2, <2>3 DEF Authorize
<1>5. ASSUME NEW j \in Jobs, CheckIntegration(j) \/ CheckGlobal(j)
      PROVE  Checked'
  BY <1>5, BucketsAreChecked
<1>6. ASSUME NEW j \in Jobs, Submit(j)
      PROVE  Checked'
  <2>1. /\ UNCHANGED <<flaw, charged>> /\ charged[j] = {"integration", "global"}
        /\ stage[j] = "validate" /\ Entitled(j)
        /\ flaw[j] \notin {"too_large", "unreadable", "signature"}
    BY <1>6, <1>c DEF Submit, CheckedAt
  <2>2. CASE (Answer(j, "invalid_json") \/ Answer(j, "invalid_fields")) /\ UNCHANGED wire
    BY <2>1, <2>2, AnsweredIsChecked DEF EarlyCodes, LateCodes
  <2>3. CASE /\ flaw[j] \notin {"json", "fields"} /\ Proceed(j, "upstream")
             /\ wire' = IF Posting(j) THEN [wire EXCEPT ![j] = "sent"] ELSE wire
    <3>1. \A k \in Jobs \ {j} : wire'[k] = wire[k]
      BY <2>3, <1>t
    <3>2. flaw[j] = "none"
      BY <2>1, <2>3, <1>t DEF Flaws
    <3> QED
      BY <2>1, <2>3, <3>1, <3>2, ProceededIsChecked DEF Stages
  <2> QED
    BY <1>6, <2>2, <2>3 DEF Submit
<1>7. ASSUME NEW j \in Jobs, ReplyAnswered(j) \/ ReplyUnknown(j) \/ ReadAnswered(j)
      PROVE  Checked'
  <2>1. UNCHANGED <<flaw, charged, wire>> /\ charged[j] = {"integration", "global"}
    BY <1>7, <1>c DEF ReplyAnswered, ReplyUnknown, ReadAnswered, Local, Awaiting, CheckedAt
  <2>2. \E code \in Codes \ EarlyCodes : Answer(j, code)
    <3>1. /\ {"success", "reply_state_unknown", "thread_not_found", "upstream_unavailable"}
               \subseteq Codes \ EarlyCodes
      BY DEF Codes, EarlyCodes, LateCodes
    <3>2. CASE ReplyAnswered(j)
      BY <3>2, ReplyCodes DEF ReplyAnswered
    <3>3. CASE ReplyUnknown(j)
      BY <3>1, <3>3 DEF ReplyUnknown
    <3>4. CASE ReadAnswered(j)
      BY <3>1, <3>4 DEF ReadAnswered, fetch_thread
    <3> QED
      BY <1>7, <3>2, <3>3, <3>4
  <2> QED
    BY <2>1, <2>2, AnsweredIsChecked
<1>8. ASSUME NEW j \in Jobs, UpstreamPosts(j) \/ UpstreamRefuses(j)
      PROVE  Checked'
  <2>1. UNCHANGED <<stage, flaw, answer, charged>> /\ wire[j] # "none"
    BY <1>8 DEF UpstreamPosts, UpstreamRefuses
  <2>2. \A k \in Jobs \ {j} : wire'[k] = wire[k]
    BY <1>8, <1>t DEF UpstreamPosts, UpstreamRefuses
  <2>3. ASSUME NEW k \in Jobs
        PROVE  CheckedAt(k)'
    <3>1. CASE k = j
      BY <2>1, <3>1, <1>c DEF CheckedAt, Entitled, Posting, board_allowed
    <3>2. CASE k # j
      BY <2>1, <2>2, <3>2, <1>c, OthersKeep
    <3> QED
      BY <3>1, <3>2
  <2> QED
    BY <2>3 DEF Checked
<1>9. CASE Drain \/ Stop \/ Tick \/ UNCHANGED vars
  <2>1. UNCHANGED <<stage, flaw, answer, charged, wire>>
    BY <1>9 DEF Drain, Stop, Tick, vars
  <2> QED
    BY <2>1, <1>c, OthersKeep DEF Checked
<1> QED
  BY <1>1, <1>2, <1>3, <1>4, <1>5, <1>6, <1>7, <1>8, <1>9 DEF Next, HandlerStep

(* The order of the checks is kept throughout.                               *)
THEOREM ChecksInOrder == Spec => []Checked
<1>1. Inv => TypeOK
  BY DEF Inv
<1> QED
  BY <1>1, CheckedInit, CheckedStep, Invariance, PTL DEF Spec

(* An authorized attempt consumes quota even if a later check fails, and no  *)
(* other does (docs/contract/README.md:55), whatever the request, the        *)
(* buckets and ptchan do: answers from behind the limits have paid to both   *)
(* buckets, answers from before them to none.                                *)
THEOREM QuotaChargedAsDocumented == Spec => []ChargedAsDocumented
<1>1. Checked => ChargedAsDocumented
  BY DEF Checked, CheckedAt, ChargedAsDocumented
<1> QED
  BY <1>1, ChecksInOrder, PTL

(* ptchan sees only sound requests of entitled integrations that both        *)
(* buckets let through, for any configuration and any number of requests.    *)
THEOREM UpstreamSeesEntitledOnly == Spec => []OnlyEntitledReachUpstream
<1>1. Checked => OnlyEntitledReachUpstream
  BY DEF Checked, CheckedAt, OnlyEntitledReachUpstream
<1> QED
  BY <1>1, ChecksInOrder, PTL
=============================================================================
