------------------------------- MODULE Board -------------------------------
(***************************************************************************)
(* What integrations get to see of the board.  A gateway loads one of the  *)
(* configurations; then people and integrations post upstream, the live    *)
(* room tells the gateway of posts (new_post in socket/ingest.rs), which   *)
(* builds one payload per webhook, and integrations read threads           *)
(* (ThreadReader and the handler in runtime/threads.rs).                   *)
(*                                                                         *)
(* The upstream board numbers the posts of a board one after the other,    *)
(* over all its threads; a thread has the number of the post that opens    *)
(* it.                                                                     *)
(***************************************************************************)
EXTENDS Posts, Configuration

CONSTANTS
  Busy,       \* the files whose boards are looked at
  Boards,
  Kinds,      \* posts: [date, cloak, members, decodable, quote]
  Limits,     \* values of the limit parameter
  MaxPosts    \* how many posts are looked at

\* Of the other members of a post, all that lead to one are there too.
PostKind ==
  {k \in [date : Nat, cloak : [core : Seq(STRING), padded : BOOLEAN],
          members : SUBSET (Seq(STRING) \ {<<>>}), decodable : BOOLEAN,
          quote : {"number", "text", "object", "none"}] :
     \A path \in k.members : \A n \in 1..Len(path) : SubSeq(path, 1, n) \in k.members}

ASSUME BoardConstants ==
  /\ Busy \subseteq Files
  /\ Boards \subseteq STRING \ {""}
  /\ \A kind \in Kinds : kind \in PostKind
  /\ Limits \subseteq Nat /\ MaxPosts \in Nat

VARIABLES
  posts,   \* upstream's posts
  seen,    \* the posts new_post was called with
  stored,  \* the events of the store, each with its payload per webhook
  answer   \* the last thread an integration was served, or NoAnswer

boardVars == <<posts, seen, stored, answer>>
vars == <<loadVars, boardVars>>

NoAnswer == [status |-> "none"]

Init ==
  /\ LoadInit
  /\ posts = {} /\ seen = {} /\ stored = {}
  /\ answer = NoAnswer

-----------------------------------------------------------------------------
(* The upstream board.  External. *)

ThreadOf(p) == IF p.thread = Null THEN p.id ELSE p.thread
Coordinates(p) == [board |-> p.board, thread_id |-> ThreadOf(p), id |-> p.id]

\* A visitor, or an integration through the posting client, which can only
\* reply; upstream turns the tripcode secret into the public tripcode.
Visitor == <<>>
Authors(b) ==
  {Visitor} \cup {cfg.postings[i].name : i \in {j \in DOMAIN cfg.postings :
                    board_allowed(cfg.postings[j].allowed_boards, b)}}

PostingOf(postings, author) == CHOOSE p \in ToSet(postings) : p.name = author

TripcodeOf(author) ==
  IF author = Visitor THEN "" ELSE PostingOf(cfg.postings, author).public_tripcode

\* A post quotes one of its board by number or as text, and any post as an
\* object.  It is dated no earlier than what it quotes or replies to; two
\* replies written at once may be numbered in the other order.
QuoteOf(form, target) ==
  [form |-> form, postId |-> <<target.id>>,
   board |-> IF form = "object" THEN target.board ELSE "",
   thread |-> IF form = "object" THEN <<ThreadOf(target)>> ELSE <<>>]

Quotable(kind, b) ==
  {q \in posts : /\ q.kind.date <= kind.date
                 /\ \/ kind.quote = "object"
                    \/ kind.quote \in {"number", "text"} /\ q.board = b}

\* Something in the list that refers to nothing.
NoQuote == [form |-> "other", postId |-> <<>>, board |-> "", thread |-> <<>>]

Openings == {p \in posts : p.thread = Null}

\* A post opens a thread (thread is Null) or replies in one of the board's.
Publish(b, thread, author, kind) ==
  /\ step = "running" /\ file \in Busy
  /\ Cardinality(posts) < MaxPosts
  /\ IF thread = Null
     THEN author = Visitor
     ELSE \E root \in Openings : /\ root.board = b /\ root.id = thread
                                 /\ root.kind.date <= kind.date
  /\ \E quoted \in IF Quotable(kind, b) = {} THEN {{}} ELSE {{q} : q \in Quotable(kind, b)} :
       posts' = posts \cup
         {[board |-> b, id |-> Cardinality({p \in posts : p.board = b}) + 1, thread |-> thread,
           author |-> author, tripcode |-> TripcodeOf(author),
           kind |-> kind, quoted |-> {Coordinates(q) : q \in quoted},
           quotes |-> <<NoQuote>> \o SetToSeq({QuoteOf(kind.quote, q) : q \in quoted})]}
  /\ answer' = NoAnswer
  /\ UNCHANGED <<loadVars, seen, stored>>

\* The object upstream shows for p, in the room and in a thread.
Value(p) ==
  [postId |-> p.id, board |-> p.board, thread |-> p.thread, date |-> p.kind.date,
   tripcode |-> [core |-> p.tripcode, padded |-> TRUE],
   nomarkup |-> Text(""), message |-> Text("text"),
   cloak |-> p.kind.cloak, members |-> p.kind.members, decodable |-> p.kind.decodable,
   quotes |-> p.quotes, backlinks |-> <<>>]

\* The posts of its board that quote p.
QuotedBy(p) == {q \in posts : q.board = p.board /\ Coordinates(p) \in q.quoted}

\* In a thread, the posts of the board that quote p are known, as texts; board
\* and thread may be left to the context.  A reply that has a thread has its
\* own: a null is how a post says that it opens one.
ThreadValue(p, bare) ==
  [Value(p) EXCEPT
     !.board = IF bare THEN "" ELSE @,
     !.thread = IF bare THEN Missing ELSE @,
     !.backlinks = SetToSeq({QuoteOf("text", q) : q \in QuotedBy(p)})]

-----------------------------------------------------------------------------
(* The gateway. *)

\* OriginMatcher::new: the last of two entries for a tripcode stays.
origins ==
  LET Of(trip) == {i \in DOMAIN cfg.postings : cfg.postings[i].public_tripcode = trip}
  IN  [trip \in {p.public_tripcode : p \in ToSet(cfg.postings)} |->
         cfg.postings[Max(Of(trip))].name]

Taking(b) == {w \in ToSet(cfg.webhooks) : board_allowed(w.allowed_boards, b)}

\* The webhooks that take the board, each with its payload.
event_deliveries(event, identity) ==
  LET allowed == Taking(event.post.board)
      optedIn == {w.name : w \in {x \in allowed : x.include_poster_fingerprint}}
  IN  [w \in {x.name : x \in allowed} |->
         [event EXCEPT !.post.poster_fingerprint =
            IF w \in optedIn THEN poster_fingerprint(w, identity) ELSE @]]

\* new_post, with create_event: an event id that is known is a duplicate.
NewPost(p) ==
  LET decoded == decoded_post(Value(p))
      built == gateway_event(decoded)
      event == [built EXCEPT !.post = annotate_post(origins, @)]
      deliveries == event_deliveries(event, decoded.poster_identity)
  IN
  /\ step = "running" /\ cfg.webhooks # <<>>
  /\ p \in posts \ seen
  /\ seen' = seen \cup {p}
  /\ stored' = IF \/ ~decoded.ok
                  \/ ~cfg.fingerprint_secret
                     /\ \E w \in Taking(p.board) : w.include_poster_fingerprint
                  \/ DOMAIN deliveries = {}
                  \/ \E e \in stored : e.event_id = event.event_id
               THEN stored
               ELSE stored \cup {[event_id |-> event.event_id, deliveries |-> deliveries]}
  /\ answer' = NoAnswer
  /\ UNCHANGED <<loadVars, posts>>

\* The thread that root opened.
Thread(root) == {p \in posts : p.board = root.board /\ ThreadOf(p) = root.id}

\* PreparedRead::fetch; replies come in any order.
Read(root, limit, bare) ==
  /\ step = "running" /\ answer = NoAnswer
  /\ \E order \in SetToSeqs(Thread(root) \ {root}) :
       LET read == thread_from_value(root.board, root.id, ThreadValue(root, bare),
                     [i \in DOMAIN order |-> ThreadValue(order[i], bare)], limit)
       IN  answer' = [status |-> IF read.ok THEN "served" ELSE "failed",
                      limit |-> limit,
                      thread |-> annotate_thread(origins, read)]
  /\ UNCHANGED <<loadVars, posts, seen, stored>>

-----------------------------------------------------------------------------
Next ==
  \/ Load /\ UNCHANGED boardVars
  \/ \E b \in Boards, kind \in Kinds, thread \in {Null} \cup {p.id : p \in Openings} :
       \E author \in Authors(b) : Publish(b, thread, author, kind)
  \/ \E p \in posts : NewPost(p)
  \/ \E root \in Openings, limit \in Limits, bare \in BOOLEAN : Read(root, limit, bare)

Spec == Init /\ [][Next]_vars

-----------------------------------------------------------------------------
(* A post may pass on if it decodes and shows sensitive keys only inside an  *)
(* "ip" envelope.                                                            *)
Passable(p) ==
  /\ p.kind.decodable
  /\ \A path \in p.kind.members : \A i \in DOMAIN path :
       path[i] \in SensitiveKeys => \E j \in 1..(i - 1) : path[j] = "ip"

IsAbout(post, p) == Coordinates(p) = [board |-> post.board, thread_id |-> post.thread_id, id |-> post.id]

(* Every post the room told the gateway of is an event for exactly the       *)
(* webhooks that take its board, unless it shows something private, and then *)
(* for none: no other post's event id swallows it, no envelope at any depth  *)
(* stops it, nothing sensitive at any depth gets through.                    *)
NoEventSwallowed ==
  \A p \in seen :
    {w \in {x.name : x \in Range(cfg.webhooks)} :
       \E e \in stored : w \in DOMAIN e.deliveries /\ IsAbout(e.deliveries[w].post, p)}
    = IF Passable(p) THEN {w.name : w \in Taking(p.board)} ELSE {}

\* The posts of the thread that was read.
Asked == {p \in posts : p.board = answer.thread.board /\ ThreadOf(p) = answer.thread.id}

(* A thread is served unless one of its posts must not pass; posts of the    *)
(* board's other threads do not matter.                                      *)
ReadFailsClosed ==
  answer # NoAnswer => (answer.status = "served" <=> \A p \in Asked : Passable(p))

Served == IF answer.status = "served" THEN Range(answer.thread.posts) ELSE {}

Deliveries == {d \in (UNION {DOMAIN e.deliveries : e \in stored}) \X stored :
                 d[1] \in DOMAIN d[2].deliveries}
Delivered(d) == d[2].deliveries[d[1]].post

\* The post a contract post is about.
Subject(post) == CHOOSE p \in posts : IsAbout(post, p)

(* "scoped to that integration ... must not be correlated across             *)
(* integrations" (docs/contract): two fingerprints are equal exactly when    *)
(* they are one poster's, told to one webhook; only webhooks that opted in   *)
(* get any, and reads show none.                                             *)
FingerprintsScoped ==
  LET Identity(d) == Subject(Delivered(d)).kind.cloak.core
      Known(d) == <<"ip", "cloak">> \in Subject(Delivered(d)).kind.members /\ Identity(d) # <<>>
      OptedIn(w) == \E x \in Range(cfg.webhooks) : x.name = w /\ x.include_poster_fingerprint
      Fingerprint(d) == Delivered(d).poster_fingerprint
  IN  /\ \A d \in Deliveries : Fingerprint(d) # NoFingerprint <=> OptedIn(d[1]) /\ Known(d)
      /\ \A c, d \in Deliveries : Fingerprint(c) # NoFingerprint /\ Fingerprint(d) # NoFingerprint =>
           (Fingerprint(c) = Fingerprint(d) <=> c[1] = d[1] /\ Identity(c) = Identity(d))
      /\ \A post \in Served : post.poster_fingerprint = NoFingerprint

(* An event and a later read show the same post, but for the fingerprint and *)
(* the replies it has got since, whether or not the thread's JSON repeats    *)
(* board and thread in every post.                                           *)
EventAndReadAgree ==
  \A d \in Deliveries, post \in Served :
    Delivered(d).board = post.board /\ Delivered(d).id = post.id =>
      [Delivered(d) EXCEPT !.poster_fingerprint = NoFingerprint, !.referenced_by = <<>>]
      = [post EXCEPT !.referenced_by = <<>>]

(* A read returns the newest posts of the thread, as many as the clamped     *)
(* limit allows, in the order of their numbers, whatever order upstream has  *)
(* them in, and says whether there were more.                                *)
ThreadWindow ==
  answer.status = "served" =>
    LET Newer(p) == Cardinality({q \in Asked : q.id > p.id})
        shown == answer.thread.posts
    IN  /\ {post.id : post \in Range(shown)} = {p.id : p \in {q \in Asked : Newer(q) < clamp(answer.limit)}}
        /\ \A i, j \in DOMAIN shown : i < j => shown[i].id < shown[j].id
        /\ answer.thread.truncated <=> Len(shown) < Cardinality(Asked)

(* The origin of a post, in events and in reads, is the integration that     *)
(* wrote it through the gateway, and nothing for anybody else.               *)
OriginIsAuthor ==
  \A post \in {Delivered(d) : d \in Deliveries} \cup Served :
    post.origin = Subject(post).author

Place(ref) == [board |-> ref.board, id |-> ref.id]
Places(refs) == {Place(ref) : ref \in refs}

(* Every reference names the post that was quoted, whatever the form and the *)
(* thread; if upstream said the thread, or the quoted post is of the quoting *)
(* one's, the reference has the thread right as well.  A post of a thread    *)
(* that was read names the posts of its board that quote it, those of its    *)
(* thread with all coordinates.                                              *)
ReferencesResolve ==
  /\ \A post \in {Delivered(d) : d \in Deliveries} \cup Served :
       LET p == Subject(post) IN
       /\ Places(Range(post.references)) = Places(p.quoted)
       /\ p.kind.quote = "object" \/ (\A c \in p.quoted : c.thread_id = ThreadOf(p))
            => Range(post.references) = p.quoted
  /\ \A post \in Served :
       LET p == Subject(post)
           quoting == {Coordinates(q) : q \in QuotedBy(p)}
       IN  /\ Places(Range(post.referenced_by)) = Places(quoting)
           /\ {c \in quoting : c.thread_id = ThreadOf(p)} \subseteq Range(post.referenced_by)

(* The Go client takes every event the gateway stores, and every thread it   *)
(* serves whose posts upstream dated in the order of their numbers.          *)
ClientAccepts ==
  /\ \A d \in Deliveries : decodeWebhookEvent(d[2].event_id, d[2].deliveries[d[1]])
  /\ answer.status = "served"
     /\ (\A p, q \in Asked : p.id < q.id => p.kind.date <= q.kind.date)
       => validateThread(answer.thread, answer.thread.board, answer.thread.id)

(* contract.rs:136: "Selected posts in chronological order."                 *)
ServedChronologically ==
  answer.status = "served" =>
    \A i, j \in DOMAIN answer.thread.posts :
      i < j => answer.thread.posts[i].date <= answer.thread.posts[j].date
=============================================================================
