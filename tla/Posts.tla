------------------------------- MODULE Posts -------------------------------
(***************************************************************************)
(* From a post as the upstream board shows it to a post of the contract:   *)
(* redaction and decoding (upstream.rs), the contract's post and event     *)
(* (event.rs), attribution (origin.rs), the thread reader (reading.rs),    *)
(* and the checks the Go client makes on what it is given (clients/go).    *)
(*                                                                         *)
(* An upstream post is a JSON object.  Its members that the gateway reads  *)
(* are fields of a record; `members` holds the paths of its other members, *)
(* a path being the keys from the root down, array positions left out.     *)
(* A text is its trimmed core and whether blanks surround it; an empty     *)
(* core is a blank or missing text, and "" a board that is not there.      *)
(***************************************************************************)
EXTENDS Integers, Sequences, FiniteSets, SequencesExt

CONSTANT MAX_THREAD_LIMIT

ASSUME PostsConstants == MAX_THREAD_LIMIT \in Nat \ {0}

\* The thread of a post that opens one: a null, and no member at all.
Null == 0
Missing == -1

Text(core) == [core |-> core, padded |-> FALSE]

\* clean, str::trim
clean(text) == Text(text.core)

-----------------------------------------------------------------------------
(* upstream.rs *)

Occurs(keys, path) == \E i \in DOMAIN path : path[i] \in keys

\* "/ip/cloak", trimmed; empty when there is none.
poster_identity_source(value) ==
  IF <<"ip", "cloak">> \in value.members THEN clean(value.cloak).core ELSE <<>>

\* Every member "ip" goes, at any depth, with all it contains.
drop_ip_fields(value) ==
  [value EXCEPT !.members = {path \in @ : ~Occurs({"ip"}, path)}]

SensitiveKeys == {"raw", "cloak", "session", "permissions"}

\* Mutant: members of members are not looked at.
RejectOuterFields(value) ==
  \A path \in value.members : Head(path) \notin SensitiveKeys

\* A sensitive key at any depth is an error.
reject_sensitive_fields(value) ==
  \A path \in value.members : ~Occurs(SensitiveKeys, path)

\* The members have the types of upstream::Post; board is one it needs.
post_from_value(value) == value.decodable /\ value.board # ""

\* TryFrom<Value> for DecodedPost
decoded_post(value) ==
  LET dropped == drop_ip_fields(value) IN
  [ok |-> reject_sensitive_fields(dropped) /\ post_from_value(dropped),
   post |-> dropped,
   poster_identity |-> poster_identity_source(value)]

-----------------------------------------------------------------------------
(* event.rs *)

contract_message(nomarkup, message) ==
  IF clean(nomarkup).core # "" THEN clean(nomarkup) ELSE clean(message)

\* A reference is a number, a text, an object or something else; its integers
\* are <<n>>, or <<>> where there is none, and its board may be missing.
Usable(quote) ==
  quote.form \in {"number", "text", "object"} /\ quote.postId # <<>>

\* Mutant: the thread the reference names is not looked at.
PostRefWithoutThread(quote, fallback_board, fallback_thread_id) ==
  [board |-> IF quote.form = "object" /\ quote.board # "" THEN quote.board
                                                          ELSE fallback_board,
   thread_id |-> fallback_thread_id,
   id |-> quote.postId[1]]

post_ref(quote, fallback_board, fallback_thread_id) ==
  [board |-> IF quote.form = "object" /\ quote.board # "" THEN quote.board
                                                          ELSE fallback_board,
   thread_id |-> IF quote.form = "object" /\ quote.thread # <<>>
                 THEN quote.thread[1] ELSE fallback_thread_id,
   id |-> quote.postId[1]]

\* The n-th of a set of positions.
Nth(positions, n) ==
  CHOOSE i \in positions : Cardinality({j \in positions : j <= i}) = n

post_refs(quotes, board, thread_id) ==
  LET usable == {i \in DOMAIN quotes : Usable(quotes[i])} IN
  [n \in 1..Cardinality(usable) |->
     post_ref(quotes[Nth(usable, n)], board, thread_id)]

NoOrigin == <<>>
NoFingerprint == <<>>

contract_post(post) ==
  LET thread_id == IF post.thread \in {Null, Missing} THEN post.postId ELSE post.thread IN
  [board |-> post.board,
   thread_id |-> thread_id,
   id |-> post.postId,
   url |-> <<post.board, thread_id, post.postId>>,
   date |-> post.date,
   message |-> contract_message(post.nomarkup, post.message),
   tripcode |-> clean(post.tripcode),
   poster_fingerprint |-> NoFingerprint,
   origin |-> NoOrigin,
   references |-> post_refs(post.quotes, post.board, thread_id),
   referenced_by |-> post_refs(post.backlinks, post.board, thread_id)]

\* Mutant: the board is left out of the event id.
EventIdWithoutBoard(kind, post) == <<kind, post.postId>>

event_id(kind, post) == <<kind, post.board, post.postId>>

\* encode_event looks for sensitive keys once more, in the payload; the
\* contract has no member of such a name.
gateway_event(decoded) ==
  LET kind == IF decoded.post.thread \in {Null, Missing}
              THEN "thread.created" ELSE "post.created" IN
  [event_id |-> event_id(kind, decoded.post),
   kind |-> kind,
   post |-> contract_post(decoded.post)]

\* Mutant: no separator between the scope and the identity.
FingerprintRunTogether(scope, source) ==
  IF source = <<>> THEN NoFingerprint ELSE scope \o source

\* The HMAC of the three parts under one secret; equal MACs mean equal input.
poster_fingerprint(scope, source) ==
  IF source = <<>> THEN NoFingerprint ELSE scope \o <<"NUL">> \o source

-----------------------------------------------------------------------------
(* origin.rs.  `origins` is the map from public tripcodes to names. *)

annotate_post(origins, post) ==
  [post EXCEPT !.origin = IF post.tripcode.core \in DOMAIN origins
                          THEN origins[post.tripcode.core] ELSE NoOrigin]

annotate_thread(origins, thread) ==
  [thread EXCEPT !.posts =
     [i \in DOMAIN thread.posts |-> annotate_post(origins, thread.posts[i])]]

-----------------------------------------------------------------------------
(* reading.rs *)

ensure_board(value, board) ==
  IF value.board = "" THEN [value EXCEPT !.board = board] ELSE value

\* Mutant: replies are taken as they come.
EnsureNoThread(value, thread_id) == value

ensure_thread(value, thread_id) ==
  IF value.thread = Missing THEN [value EXCEPT !.thread = thread_id] ELSE value

clamp(limit) ==
  IF limit < 1 THEN 1 ELSE IF limit > MAX_THREAD_LIMIT THEN MAX_THREAD_LIMIT ELSE limit

\* Mutant: the posts are kept in the order of the replies.
SortNothing(posts) == posts

\* A stable sort: posts of one id stay in the order they came in.
sort_by_id(posts) ==
  LET Upto(i) == {j \in DOMAIN posts : \/ posts[j].id < posts[i].id
                                       \/ posts[j].id = posts[i].id /\ j <= i}
  IN  [n \in DOMAIN posts |->
         posts[CHOOSE i \in DOMAIN posts : Cardinality(Upto(i)) = n]]

\* Mutant: the oldest posts are kept.
SplitOffEnd(posts, limit) == SubSeq(posts, 1, limit)

split_off(posts, limit) == SubSeq(posts, Len(posts) - limit + 1, Len(posts))

\* fetch_thread on a 200: one post that cannot be decoded fails the read;
\* replies that are no objects have been left out of `replies`.
thread_from_value(board, thread_id, root, replies, limit) ==
  LET values == <<ensure_board(root, board)>> \o
                [i \in DOMAIN replies |->
                   ensure_thread(ensure_board(replies[i], board), thread_id)]
      decoded == [i \in DOMAIN values |-> decoded_post(values[i])]
      posts == sort_by_id([i \in DOMAIN values |-> contract_post(decoded[i].post)])
      truncated == Len(posts) > clamp(limit)
  IN  [ok |-> \A i \in DOMAIN decoded : decoded[i].ok,
       board |-> board,
       id |-> thread_id,
       posts |-> IF truncated THEN split_off(posts, clamp(limit)) ELSE posts,
       truncated |-> truncated]

-----------------------------------------------------------------------------
(* The Go client. *)

validatePost(post) ==
  /\ post.board # "" /\ post.thread_id > 0 /\ post.id > 0
  /\ \A ref \in ToSet(post.references \o post.referenced_by) :
       ref.board # "" /\ ref.thread_id > 0 /\ ref.id > 0

validateThread(thread, board, thread_id) ==
  /\ thread.board = board /\ thread.id = thread_id
  /\ \A i \in DOMAIN thread.posts :
       /\ validatePost(thread.posts[i])
       /\ thread.posts[i].board = board /\ thread.posts[i].thread_id = thread_id
       /\ i > 1 => thread.posts[i].date >= thread.posts[i - 1].date

\* VerifyWebhookBody on an authentic body: the id in the header, which is
\* that of the row, has to be the body's.
decodeWebhookEvent(id, event) == event.event_id = id /\ validatePost(event.post)
=============================================================================
