---------------------------- MODULE BoardProofs ----------------------------
(***************************************************************************)
(* What integrations see of the board, proved for any configuration files, *)
(* boards, posts and limits.                                               *)
(*                                                                         *)
(* The inductive invariant says what the posts upstream are like (Numbered *)
(* and Written), that the store holds exactly the events of the posts the  *)
(* gateway was told of that may pass on (Recorded), and that the thread    *)
(* last served is the window of its posts (Answered).  The properties of   *)
(* Board follow from it and from what loading established (LoadInv).       *)
(***************************************************************************)
EXTENDS Board, ConfigurationProofs, PostsProofs

OnBoard(b) == {p \in posts : p.board = b}

\* The posts of a board are numbered from one, each number once.
Numbered ==
  /\ IsFiniteSet(posts)
  /\ \A b : \A p \in OnBoard(b) : p.id \in 1..Cardinality(OnBoard(b))
  /\ \A p, q \in posts : p.board = q.board /\ p.id = q.id => p = q

\* What p quotes, and in what form.
Quotes(p, quoted) ==
  /\ p.quoted = {Coordinates(q) : q \in quoted}
  /\ p.quotes = <<NoQuote>> \o SetToSeq({QuoteOf(p.kind.quote, q) : q \in quoted})
  /\ IsFiniteSet(quoted)
  /\ \A q \in quoted : \/ p.kind.quote = "object"
                       \/ p.kind.quote \in {"number", "text"} /\ q.board = p.board

\* p opens a thread of its board or is in one that another post opened.
Placed(p) ==
  p.thread = Null \/ \E root \in Openings : root.board = p.board /\ root.id = p.thread

Written ==
  \A p \in posts :
    /\ p.board \in Boards /\ p.kind \in Kinds
    /\ Placed(p)
    /\ p.author \in Authors(p.board) /\ p.tripcode = TripcodeOf(p.author)
    /\ \E quoted \in SUBSET posts : Quotes(p, quoted)

\* p as the contract shows it; all that depends on who looks is the
\* fingerprint and what has been said about the post since.
Shown(p, fingerprint, backlinks) ==
  [board |-> p.board, thread_id |-> ThreadOf(p), id |-> p.id,
   url |-> <<p.board, ThreadOf(p), p.id>>,
   date |-> p.kind.date, message |-> Text("text"), tripcode |-> Text(p.tripcode),
   poster_fingerprint |-> fingerprint, origin |-> p.author,
   references |-> post_refs(p.quotes, p.board, ThreadOf(p)),
   referenced_by |-> post_refs(backlinks, p.board, ThreadOf(p))]

Identity(p) == IF <<"ip", "cloak">> \in p.kind.members THEN p.kind.cloak.core ELSE <<>>

FingerprintFor(w, p) ==
  IF \E x \in Taking(p.board) : x.name = w /\ x.include_poster_fingerprint
  THEN poster_fingerprint(w, Identity(p)) ELSE NoFingerprint

EventKind(p) == IF p.thread = Null THEN "thread.created" ELSE "post.created"

EventOf(p) ==
  [event_id |-> <<EventKind(p), p.board, p.id>>,
   deliveries |->
     [w \in {x.name : x \in Taking(p.board)} |->
        [event_id |-> <<EventKind(p), p.board, p.id>>, kind |-> EventKind(p),
         post |-> Shown(p, FingerprintFor(w, p), <<>>)]]]

\* The store has the events of the posts it was told of that may pass on and
\* that somebody takes, and nothing else.
Recorded ==
  /\ seen \subseteq posts
  /\ stored = {EventOf(p) : p \in {q \in seen : Passable(q) /\ Taking(q.board) # {}}}

Backlinks(p) == SetToSeq({QuoteOf("text", q) : q \in QuotedBy(p)})

\* The answer is the last k posts of the thread in order, k being as many as
\* there are and the limit allows.
AnswerFor(root, limit) ==
  LET total == Cardinality(Thread(root))
      k == IF total > clamp(limit) THEN clamp(limit) ELSE total
      shown == answer.thread.posts
  IN  /\ answer.limit = limit
      /\ answer.status = IF \A p \in Thread(root) : Passable(p) THEN "served" ELSE "failed"
      /\ answer.thread.board = root.board /\ answer.thread.id = root.id
      /\ DOMAIN shown = 1..k
      /\ \A n \in 1..k : \E p \in Thread(root) :
           /\ RankIn(Thread(root), p) = total - k + n
           /\ shown[n] = Shown(p, NoFingerprint, Backlinks(p))
      /\ answer.thread.truncated = (total > clamp(limit))

Answered ==
  answer # NoAnswer => \E root \in Openings, limit \in Limits : AnswerFor(root, limit)

\* Until the gateway runs nothing is posted, told or asked.
Idle == step # "running" => posts = {} /\ seen = {} /\ stored = {} /\ answer = NoAnswer

BoardInv == Idle /\ Numbered /\ Written /\ Recorded /\ Answered

Inv == LoadInv /\ BoardInv

-----------------------------------------------------------------------------
(* Loading.  Only Load changes what it knows.                                *)
LEMMA LoadKept == LoadInv /\ [Next]_vars => LoadInv'
<1> SUFFICES ASSUME LoadInv, [Next]_vars PROVE LoadInv'
  OBVIOUS
<1>1. CASE Load /\ UNCHANGED boardVars
  BY <1>1, LoadInvStep
<1>2. CASE \E b \in Boards, kind \in Kinds, thread \in {Null} \cup {p.id : p \in Openings} :
             \E author \in Authors(b) : Publish(b, thread, author, kind)
  <2>1. UNCHANGED loadVars
    BY <1>2 DEF Publish, loadVars
  <2> QED
    BY <2>1, LoadInvStep
<1>3. CASE \E p \in posts : NewPost(p)
  <2>1. UNCHANGED loadVars
    BY <1>3 DEF NewPost, loadVars
  <2> QED
    BY <2>1, LoadInvStep
<1>4. CASE \E root \in Openings, limit \in Limits, bare \in BOOLEAN : Read(root, limit, bare)
  <2>1. UNCHANGED loadVars
    BY <1>4 DEF Read, loadVars
  <2> QED
    BY <2>1, LoadInvStep
<1>5. CASE UNCHANGED vars
  <2>1. UNCHANGED loadVars
    BY <1>5 DEF vars
  <2> QED
    BY <2>1, LoadInvStep
<1> QED
  BY <1>1, <1>2, <1>3, <1>4, <1>5 DEF Next

(* What loading has established holds at all times.                          *)
LEMMA LoadInvariance == Spec => []LoadInv
<1>1. Init => LoadInv
  BY LoadInvInit DEF Init
<1> QED
  BY <1>1, LoadKept, PTL DEF Spec

(* Whatever the file and the environment, validate and resolve leave a       *)
(* gateway that runs with usable buckets, form names that fit, the secrets   *)
(* it needs, names and tripcodes that tell integrations apart, and no two    *)
(* secrets from one variable.                                                *)
THEOREM RunningGatewayIsSound == Spec => []RunningIsSound
<1>1. LoadInv => RunningIsSound
  BY SoundWhenRunning
<1> QED
  BY <1>1, LoadInvariance, PTL

(* Loading refuses no file, and no environment, that has nothing wrong.      *)
THEOREM RefusalHasReason == Spec => []RefusedForReason
<1>1. LoadInv => RefusedForReason
  BY DEF LoadInv
<1> QED
  BY <1>1, LoadInvariance, PTL

-----------------------------------------------------------------------------
(* What a gateway that runs knows of its integrations.                       *)
LEMMA WebhookFacts ==
  ASSUME LoadInv, step = "running"
  PROVE  \A x, y \in Range(cfg.webhooks) : x.name = y.name => x = y
<1> DEFINE N == Len(Integrations)
<1>1. LoadTypeOK /\ Valid(N) /\ Resolved(N) /\ N \in Nat
  BY RunningConfig, FileTypes DEF LoadTypeOK
<1> SUFFICES ASSUME NEW x \in Range(cfg.webhooks), NEW y \in Range(cfg.webhooks),
                    x.name = y.name
             PROVE  x = y
  OBVIOUS
<1>2. PICK i \in 1..N : x = WebhookConfig(Integrations[i])
  BY <1>1 DEF Resolved
<1>3. PICK j \in 1..N : y = WebhookConfig(Integrations[j])
  BY <1>1 DEF Resolved
<1>4. x.name = Integrations[i].name /\ y.name = Integrations[j].name
  BY <1>2, <1>3 DEF WebhookConfig
<1>5. i = j
  BY <1>1, <1>4, ValidNames
<1> QED
  BY <1>2, <1>3, <1>5

(* A gateway that runs has a public tripcode for each posting integration,   *)
(* and no two of them share one.                                             *)
LEMMA PostingFacts ==
  ASSUME LoadInv, step = "running"
  PROVE  /\ \E n \in Nat : DOMAIN cfg.postings = 1..n
         /\ \A i \in DOMAIN cfg.postings : cfg.postings[i].public_tripcode # ""
         /\ \A i, j \in DOMAIN cfg.postings :
              cfg.postings[i].public_tripcode = cfg.postings[j].public_tripcode => i = j
<1> DEFINE N == Len(Integrations)
<1>1. LoadTypeOK /\ Valid(N) /\ Resolved(N) /\ N \in Nat /\ DOMAIN Integrations = 1..N
  BY RunningConfig, FileTypes DEF LoadTypeOK
<1>2. \E n \in Nat : DOMAIN cfg.postings = 1..n
  <2> DEFINE P == {PostingConfig(x) : x \in FileIntegration}
  <2>1. cfg.postings \in Seq(P)
    BY <1>1 DEF LoadTypeOK, ConfigUnderConstruction
  <2> HIDE DEF P
  <2> QED
    BY <2>1, LenProperties
<1>3. ASSUME NEW i \in DOMAIN cfg.postings PROVE cfg.postings[i].public_tripcode # ""
  <2>1. cfg.postings[i] \in Range(cfg.postings)
    BY DEF Range
  <2>2. PICK k \in 1..N : Integrations[k].posting /\ cfg.postings[i] = PostingConfig(Integrations[k])
    BY <1>1, <2>1 DEF Resolved
  <2>3. Integrations[k].well_formed
    BY <1>1, <2>2 DEF Valid, Proper
  <2>4. Integrations[k] \in Range(file.integrations) /\ file \in Files
    BY <1>1, <2>2 DEF Range, Integrations, LoadTypeOK
  <2>5. \A f \in Files : \A x \in Range(f.integrations) :
          x.posting /\ x.well_formed => x.public_tripcode # ""
    BY ConfigurationConstants, Zenon
  <2>6. Integrations[k].public_tripcode # ""
    BY <2>2, <2>3, <2>4, <2>5
  <2>7. PostingConfig(Integrations[k]).public_tripcode = Integrations[k].public_tripcode
    BY DEF PostingConfig
  <2> QED
    BY <2>2, <2>6, <2>7
<1>4. \A i, j \in DOMAIN cfg.postings : i # j =>
        cfg.postings[i].public_tripcode # cfg.postings[j].public_tripcode
  BY <1>1 DEF Resolved
<1> QED
  BY <1>2, <1>3, <1>4

(* The tripcode of an author leads the OriginMatcher back to the author.     *)
LEMMA OriginOfAuthor ==
  ASSUME LoadInv, step = "running", NEW b, NEW author \in Authors(b)
  PROVE  LET trip == TripcodeOf(author)
         IN  (IF trip \in DOMAIN origins THEN origins[trip] ELSE NoOrigin) = author
<1> DEFINE P == cfg.postings
           trips == {p.public_tripcode : p \in ToSet(P)}
           Of(trip) == {i \in DOMAIN P : P[i].public_tripcode = trip}
<1>1. /\ \A i \in DOMAIN P : P[i].public_tripcode # ""
      /\ \A i, j \in DOMAIN P : P[i].public_tripcode = P[j].public_tripcode => i = j
      /\ DOMAIN P \in SUBSET Nat
  <2>1. PICK n \in Nat : DOMAIN P = 1..n
    BY PostingFacts
  <2>2. DOMAIN P \in SUBSET Nat
    BY <2>1
  <2> QED
    BY <2>2, PostingFacts
<1>2. DOMAIN origins = trips /\ \A trip \in trips : origins[trip] = P[Max(Of(trip))].name
  BY DEF origins
<1>3. ToSet(P) = {P[i] : i \in DOMAIN P}
  BY DEF ToSet
<1> HIDE DEF P, Of
<1>4. CASE author = Visitor
  <2>1. TripcodeOf(author) = ""
    BY <1>4 DEF TripcodeOf
  <2>2. ASSUME "" \in DOMAIN origins PROVE FALSE
    <3>1. PICK p \in ToSet(P) : "" = p.public_tripcode
      BY <1>2, <2>2
    <3> QED
      BY <1>1, <1>3, <3>1
  <2> QED
    BY <1>4, <2>1, <2>2 DEF NoOrigin, Visitor
<1>5. CASE author # Visitor
  <2>1. PICK i \in DOMAIN P : P[i].name = author
    BY <1>5 DEF Authors, P
  <2> DEFINE q == CHOOSE p \in ToSet(P) : p.name = author
             trip == TripcodeOf(author)
  <2>2. q \in ToSet(P) /\ q.name = author
    BY <1>3, <2>1
  <2>3. trip = q.public_tripcode
    BY <1>5 DEF TripcodeOf, PostingOf, P
  <2> HIDE DEF q
  <2>4. PICK k \in DOMAIN P : q = P[k]
    BY <1>3, <2>2
  <2>5. Of(trip) = {k}
    BY <1>1, <2>3, <2>4 DEF Of
  <2>6. Max(Of(trip)) = k
    <3>1. k \in Nat
      BY <1>1, <2>4
    <3>2. Max({k}) \in {k} 
      BY <3>1 DEF Max
    <3> QED
      BY <2>5, <3>2
  <2>7. trip \in trips
    BY <1>3, <2>2, <2>3
  <2>8. origins[trip] = author
    BY <1>2, <2>2, <2>4, <2>6, <2>7
  <2>9. trip \in DOMAIN origins
    BY <1>2, <2>7
  <2> QED
    BY <2>8, <2>9
<1> QED
  BY <1>4, <1>5

-----------------------------------------------------------------------------
(* From upstream's object to the contract's post.                            *)
LEMMA KindFacts ==
  ASSUME NEW k \in Kinds
  PROVE  /\ k.date \in Nat /\ k.decodable \in BOOLEAN
         /\ k.cloak.core \in Seq(STRING)
         /\ k.quote \in {"number", "text", "object", "none"}
         /\ k.members \in SUBSET Seq(STRING)
         /\ \A path \in k.members : \A n \in 1..Len(path) : SubSeq(path, 1, n) \in k.members
<1>1. k \in PostKind
  BY BoardConstants
<1> QED
  BY <1>1 DEF PostKind

\* Upstream's object for p, wherever it is shown.
Entry(p, board, thread, members, backlinks) ==
  [postId |-> p.id, board |-> board, thread |-> thread, date |-> p.kind.date,
   tripcode |-> [core |-> p.tripcode, padded |-> TRUE],
   nomarkup |-> Text(""), message |-> Text("text"),
   cloak |-> p.kind.cloak, members |-> members, decodable |-> p.kind.decodable,
   quotes |-> p.quotes, backlinks |-> backlinks]

(* The room announces a post by itself, the thread lists it with what has    *)
(* quoted it since, perhaps without its board and thread.                    *)
LEMMA EntriesOf ==
  ASSUME NEW p, NEW bare, NEW members, members = p.kind.members
  PROVE  /\ Value(p) = Entry(p, p.board, p.thread, members, <<>>)
         /\ ThreadValue(p, bare) =
              Entry(p, IF bare THEN "" ELSE p.board, IF bare THEN Missing ELSE p.thread,
                    members, Backlinks(p))
<1>1. Value(p) = Entry(p, p.board, p.thread, members, <<>>)
  BY DEF Value, Entry
<1> DEFINE links == SetToSeq({QuoteOf("text", q) : q \in
                      QuotedBy(p)})
           board == IF bare THEN "" ELSE p.board
           thread == IF bare THEN Missing ELSE p.thread
<1>2. links = Backlinks(p)
  BY DEF Backlinks
<1>3. ThreadValue(p, bare) =
        [Value(p) EXCEPT !.board = IF bare THEN "" ELSE Value(p).board,
                         !.thread = IF bare THEN Missing ELSE Value(p).thread,
                         !.backlinks = links]
  BY DEF ThreadValue
<1>4. Value(p).board = p.board /\ Value(p).thread = p.thread
  BY DEF Value
<1>5. ThreadValue(p, bare) = [Value(p) EXCEPT !.board = board, !.thread = thread, !.backlinks = links]
  BY <1>3, <1>4
<1> HIDE DEF links, board, thread
<1>6. ThreadValue(p, bare) = Entry(p, board, thread, members, links)
  BY <1>5 DEF Value, Entry
<1> QED
  BY <1>1, <1>2, <1>6 DEF board, thread

\* The members that redaction keeps.
Kept(members) == {path \in members : ~Occurs({"ip"}, path)}

Filled(board, b) == IF board = "" THEN b ELSE board
Completing(thread, t) == IF thread = Missing THEN t ELSE thread

(* ensure_board gives a post without a board the board that was asked for.   *)
LEMMA EntryFilled ==
  ASSUME NEW p, NEW b, NEW board, NEW thread, NEW members, NEW backlinks
  PROVE  ensure_board(Entry(p, board, thread, members, backlinks), b) =
           Entry(p, Filled(board, b), thread, members, backlinks)
BY DEF ensure_board, Entry, Filled

(* ensure_thread gives a post without a thread the thread that was asked     *)
(* for.                                                                      *)
LEMMA EntryPlaced ==
  ASSUME NEW p, NEW board, NEW thread, NEW t, NEW members, NEW backlinks
  PROVE  ensure_thread(Entry(p, board, thread, members, backlinks), t) =
           Entry(p, board, Completing(thread, t), members, backlinks)
BY DEF ensure_thread, Entry, Completing

(* drop_ip_fields takes everything below an ip key away, and nothing else.   *)
LEMMA EntryRedacted ==
  ASSUME NEW p, NEW board, NEW thread, NEW members, NEW backlinks
  PROVE  drop_ip_fields(Entry(p, board, thread, members, backlinks)) =
           Entry(p, board, thread, Kept(members), backlinks)
<1> DEFINE r == Entry(p, board, thread, members, backlinks)
           k == Kept(members)
<1>1. r.members = members
  BY DEF Entry
<1>2. drop_ip_fields(r) = [r EXCEPT !.members = Kept(r.members)]
  BY DEF drop_ip_fields, Kept
<1>3. drop_ip_fields(r) = [r EXCEPT !.members = k]
  BY <1>1, <1>2
<1> HIDE DEF k
<1>4. drop_ip_fields(r) = Entry(p, board, thread, k, backlinks)
  BY <1>3 DEF Entry
<1> QED
  BY <1>4 DEF k

(* A post decodes just in case it may pass on.                               *)
LEMMA EntryDecoded ==
  ASSUME NEW p, p.kind \in Kinds, NEW board \in Boards, NEW thread, NEW backlinks,
         NEW members, members = p.kind.members
  PROVE  LET decoded == decoded_post(Entry(p, board, thread, members, backlinks))
         IN  /\ decoded.ok = Passable(p)
             /\ decoded.post = Entry(p, board, thread, Kept(members), backlinks)
             /\ decoded.poster_identity = Identity(p)
<1> DEFINE kept == Kept(members)
           value == Entry(p, board, thread, members, backlinks)
           dropped == Entry(p, board, thread, kept, backlinks)
           decoded == decoded_post(value)
<1>1. drop_ip_fields(value) = dropped
  BY EntryRedacted
<1>2. /\ dropped.members = kept /\ dropped.decodable = p.kind.decodable
      /\ dropped.board = board /\ value.members = members
      /\ value.cloak = p.kind.cloak
  BY DEF Entry
<1> HIDE DEF value, dropped, kept
<1>3. /\ decoded.ok = (reject_sensitive_fields(dropped) /\ post_from_value(dropped))
      /\ decoded.post = dropped
      /\ decoded.poster_identity = poster_identity_source(value)
  BY <1>1 DEF decoded_post
<1>4. (\A path \in kept : ~Occurs(SensitiveKeys, path))
      <=> \A path \in members : \A i \in DOMAIN path :
            path[i] \in SensitiveKeys => \E j \in 1..(i - 1) : path[j] = "ip"
  BY KindFacts, RedactionIsExact DEF kept, Kept
<1>5. reject_sensitive_fields(dropped) <=> \A path \in kept : ~Occurs(SensitiveKeys, path)
  BY <1>2 DEF reject_sensitive_fields
<1>6. post_from_value(dropped) <=> p.kind.decodable
  <2>1. board # ""
    BY BoardConstants
  <2> QED
    BY <1>2, <2>1 DEF post_from_value
<1>7. Passable(p) <=> reject_sensitive_fields(dropped) /\ post_from_value(dropped)
  BY <1>4, <1>5, <1>6 DEF Passable
<1>8. poster_identity_source(value) = Identity(p)
  BY <1>2 DEF poster_identity_source, Identity, clean, Text
<1>9. decoded.ok = Passable(p)
  <2>1. Passable(p) \in BOOLEAN
    BY DEF Passable
  <2>2. (reject_sensitive_fields(dropped) /\ post_from_value(dropped)) \in BOOLEAN
    OBVIOUS
  <2> QED
    BY <1>3, <1>7, <2>1, <2>2
<1> QED
  BY <1>3, <1>8, <1>9 DEF value, dropped, kept

(* The contract's post for an entry, before its origin is looked up.         *)
Anonymous(p, backlinks) ==
  [board |-> p.board, thread_id |-> ThreadOf(p), id |-> p.id,
   url |-> <<p.board, ThreadOf(p), p.id>>,
   date |-> p.kind.date, message |-> Text("text"), tripcode |-> Text(p.tripcode),
   poster_fingerprint |-> NoFingerprint, origin |-> NoOrigin,
   references |-> post_refs(p.quotes, p.board, ThreadOf(p)),
   referenced_by |-> post_refs(backlinks, p.board, ThreadOf(p))]

(* contract_post makes the post of the contract from an entry, as yet        *)
(* without origin and fingerprint.                                           *)
LEMMA EntryContracted ==
  ASSUME NEW p, NEW thread, NEW members, NEW backlinks,
         (IF thread \in {Null, Missing} THEN p.id ELSE thread) = ThreadOf(p)
  PROVE  contract_post(Entry(p, p.board, thread, members, backlinks)) = Anonymous(p, backlinks)
<1> DEFINE v == Entry(p, p.board, thread, members, backlinks)
<1>1. /\ v.board = p.board /\ v.thread = thread /\ v.postId = p.id /\ v.date = p.kind.date
      /\ v.nomarkup = Text("") /\ v.message = Text("text")
      /\ v.tripcode.core = p.tripcode /\ v.quotes = p.quotes /\ v.backlinks = backlinks
  BY DEF Entry
<1> HIDE DEF v
<1>2. contract_message(v.nomarkup, v.message) = Text("text")
  <2>1. clean(Text("")) = Text("") /\ Text("").core = "" /\ clean(Text("text")) = Text("text")
    BY DEF clean, Text
  <2> QED
    BY <1>1, <2>1 DEF contract_message
<1>3. clean(v.tripcode) = Text(p.tripcode)
  BY <1>1 DEF clean
<1>4. (IF v.thread \in {Null, Missing} THEN v.postId ELSE v.thread) = ThreadOf(p)
  BY <1>1
<1>5. contract_post(v) = Anonymous(p, backlinks)
  <2>1. PICK t : t = ThreadOf(p)
    OBVIOUS
  <2>2. (IF v.thread \in {Null, Missing} THEN v.postId ELSE v.thread) = t
    BY <1>4, <2>1
  <2>3. contract_post(v) =
          [board |-> p.board, thread_id |-> t, id |-> p.id, url |-> <<p.board, t, p.id>>,
           date |-> p.kind.date, message |-> Text("text"), tripcode |-> Text(p.tripcode),
           poster_fingerprint |-> NoFingerprint, origin |-> NoOrigin,
           references |-> post_refs(p.quotes, p.board, t),
           referenced_by |-> post_refs(backlinks, p.board, t)]
    BY <1>1, <1>2, <1>3, <2>2 DEF contract_post
  <2> QED
    BY <2>1, <2>3 DEF Anonymous
<1> QED
  BY <1>5 DEF v

(* Decoding lets a post pass exactly when it may, keeps its identity aside   *)
(* and leaves its coordinates alone.                                         *)
LEMMA EntrySeen ==
  ASSUME NEW p, p.kind \in Kinds, p.board \in Boards, NEW board, board = p.board,
         NEW thread, NEW backlinks,
         (IF thread \in {Null, Missing} THEN p.id ELSE thread) = ThreadOf(p),
         NEW members, members = p.kind.members,
         NEW decoded, decoded = decoded_post(Entry(p, board, thread, members, backlinks))
  PROVE  /\ decoded.ok = Passable(p)
         /\ decoded.poster_identity = Identity(p)
         /\ decoded.post.thread = thread /\ decoded.post.board = board
         /\ decoded.post.postId = p.id
         /\ contract_post(decoded.post) = Anonymous(p, backlinks)
<1> DEFINE kept == Kept(members)
<1>1. /\ decoded.ok = Passable(p) /\ decoded.poster_identity = Identity(p)
      /\ decoded.post = Entry(p, board, thread, kept, backlinks)
  BY EntryDecoded
<1> HIDE DEF kept
<1> DEFINE v == Entry(p, board, thread, kept, backlinks)
<1>2. v.thread = thread /\ v.board = board /\ v.postId = p.id
  BY DEF Entry
<1>3. contract_post(v) = Anonymous(p, backlinks)
  BY EntryContracted
<1> HIDE DEF v
<1>4. decoded.post = v
  BY <1>1 DEF v
<1> QED
  BY <1>1, <1>2, <1>3, <1>4

(* annotate_post adds the author, where the table has the author's tripcode. *)
LEMMA Attributed ==
  ASSUME NEW p, NEW backlinks, NEW known,
         (IF p.tripcode \in DOMAIN known THEN known[p.tripcode] ELSE NoOrigin) = p.author
  PROVE  annotate_post(known, Anonymous(p, backlinks)) = Shown(p, NoFingerprint, backlinks)
<1>1. Anonymous(p, backlinks).tripcode.core = p.tripcode
  BY DEF Anonymous, Text
<1>2. annotate_post(known, Anonymous(p, backlinks)) = [Anonymous(p, backlinks) EXCEPT !.origin = p.author]
  BY <1>1 DEF annotate_post
<1> QED
  BY <1>2 DEF Anonymous, Shown

-----------------------------------------------------------------------------
(* Upstream: a new post takes the next number.                               *)
LEMMA BoardsFinite ==
  ASSUME Numbered, NEW b
  PROVE  IsFiniteSet(OnBoard(b)) /\ Cardinality(OnBoard(b)) \in Nat
<1>1. OnBoard(b) \in SUBSET posts
  BY DEF OnBoard
<1>2. IsFiniteSet(OnBoard(b))
  BY <1>1, FS_Subset DEF Numbered
<1> QED
  BY <1>2, FS_CardinalityType

(* A new post takes the next number of its board.                            *)
LEMMA NumberedStep ==
  ASSUME Numbered, NEW b, NEW new, new.board = b,
         new.id = Cardinality(OnBoard(b)) + 1, posts' = posts \cup {new}
  PROVE  Numbered'
<1> DEFINE n == Cardinality(OnBoard(b))
<1>1. IsFiniteSet(OnBoard(b)) /\ n \in Nat
  BY BoardsFinite
<1>2. \A p \in posts : p.board = b => p.id \in 1..n
  BY DEF Numbered, OnBoard
<1>3. new \notin posts
  BY <1>1, <1>2
<1>4. OnBoard(b)' = OnBoard(b) \cup {new} /\ new \notin OnBoard(b)
  BY <1>3 DEF OnBoard
<1>5. Cardinality(OnBoard(b)') = n + 1
  BY <1>1, <1>4, FS_AddElement
<1>6. ASSUME NEW c, NEW p \in OnBoard(c)'
      PROVE  p.id \in 1..Cardinality(OnBoard(c)')
  <2>1. CASE c = b
    BY <1>1, <1>2, <1>5, <1>6, <2>1 DEF OnBoard
  <2>2. CASE c # b
    <3>1. OnBoard(c)' = OnBoard(c)
      BY <2>2 DEF OnBoard
    <3> QED
      BY <1>6, <3>1 DEF Numbered
  <2> QED
    BY <2>1, <2>2
<1>7. ASSUME NEW p \in posts', NEW q \in posts', p.board = q.board, p.id = q.id
      PROVE  p = q
  <2>1. \A r \in posts : r.board = b => r.id # n + 1
    BY <1>1, <1>2
  <2> QED
    BY <1>7, <2>1 DEF Numbered
<1>8. IsFiniteSet(posts')
  BY FS_AddElement DEF Numbered
<1> QED
  BY <1>6, <1>7, <1>8 DEF Numbered

(* Nobody's tripcode changes while the configuration does not.               *)
LEMMA TripcodesStay ==
  ASSUME cfg' = cfg, NEW a
  PROVE  TripcodeOf(a)' = TripcodeOf(a)
BY DEF TripcodeOf

(* A new post is written by one who may, and quotes what is there.           *)
LEMMA WrittenStep ==
  ASSUME Written, cfg' = cfg, NEW b \in Boards, NEW kind \in Kinds, NEW author \in Authors(b),
         NEW new, posts' = posts \cup {new}, new.board = b, new.kind = kind,
         \/ new.thread = Null
         \/ \E root \in Openings : root.board = b /\ root.id = new.thread,
         new.author = author, new.tripcode = TripcodeOf(author),
         NEW quoted \in SUBSET posts, Quotes(new, quoted)
  PROVE  Written'
<1>0. Openings \subseteq Openings'
  BY DEF Openings
<1>1. \A c : Authors(c)' = Authors(c)
  BY DEF Authors
<1>2. \A a : TripcodeOf(a)' = TripcodeOf(a)
  BY TripcodesStay
<1>3. ASSUME NEW p \in posts
      PROVE  /\ p.board \in Boards /\ p.kind \in Kinds
             /\ Placed(p)'
             /\ p.author \in Authors(p.board)' /\ p.tripcode = TripcodeOf(p.author)'
             /\ \E q \in SUBSET posts' : Quotes(p, q)
  <2>1. PICK q \in SUBSET posts : Quotes(p, q)
    BY DEF Written
  <2>2. q \in SUBSET posts'
    OBVIOUS
  <2>3. /\ p.board \in Boards /\ p.kind \in Kinds
        /\ Placed(p)
        /\ p.author \in Authors(p.board) /\ p.tripcode = TripcodeOf(p.author)
    BY DEF Written
  <2>4. Placed(p)'
    BY <1>0, <2>3 DEF Placed
  <2> QED
    BY <1>1, <1>2, <2>1, <2>2, <2>3, <2>4
<1>4. \E q \in SUBSET posts' : Quotes(new, q)
  OBVIOUS
<1>5. /\ new.board \in Boards /\ new.kind \in Kinds
      /\ Placed(new)'
      /\ new.author \in Authors(new.board)' /\ new.tripcode = TripcodeOf(new.author)'
  BY <1>0, <1>1, <1>2 DEF Placed
<1> QED
  BY <1>3, <1>4, <1>5 DEF Written

(* What a post is as an event depends on the configuration only.             *)
LEMMA EventsStay ==
  ASSUME cfg' = cfg
  PROVE  /\ \A b : Taking(b)' = Taking(b)
         /\ \A p : EventOf(p)' = EventOf(p)
<1>1. \A b : Taking(b)' = Taking(b)
  BY DEF Taking
<1>2. \A w, p : FingerprintFor(w, p)' = FingerprintFor(w, p)
  BY <1>1 DEF FingerprintFor
<1>3. ASSUME NEW p PROVE EventOf(p)' = EventOf(p)
  BY <1>1, <1>2 DEF EventOf
<1> QED
  BY <1>1, <1>3

(* Publish preserves the invariant: it adds a post and leaves the events of  *)
(* the others as they are.                                                   *)
LEMMA PublishStep ==
  ASSUME BoardInv, NEW b \in Boards, NEW kind \in Kinds, NEW author \in Authors(b),
         NEW thread, Publish(b, thread, author, kind)
  PROVE  BoardInv'
<1> DEFINE id == Cardinality(OnBoard(b)) + 1
<1>1. /\ Idle /\ Numbered /\ Written /\ Recorded
  BY DEF BoardInv
<1>2. /\ step = "running" /\ step' = step /\ cfg' = cfg /\ seen' = seen /\ stored' = stored
      /\ answer' = NoAnswer
  BY DEF Publish, loadVars
<1>3. id = Cardinality({p \in posts : p.board = b}) + 1
  BY DEF OnBoard
<1>4. PICK quoted \in IF Quotable(kind, b) = {} THEN {{}} ELSE {{q} : q \in Quotable(kind, b)} :
        posts' = posts \cup
          {[board |-> b, id |-> id, thread |-> thread,
            author |-> author, tripcode |-> TripcodeOf(author),
            kind |-> kind, quoted |-> {Coordinates(q) : q \in quoted},
            quotes |-> <<NoQuote>> \o SetToSeq({QuoteOf(kind.quote, q) : q \in quoted})]}
  BY <1>3 DEF Publish
<1> DEFINE coordinates == {Coordinates(q) : q \in quoted}
           list == <<NoQuote>> \o SetToSeq({QuoteOf(kind.quote, q) : q \in quoted})
           trip == TripcodeOf(author)
           new == [board |-> b, id |-> id, thread |-> thread, author |-> author,
                   tripcode |-> trip, kind |-> kind, quoted |-> coordinates, quotes |-> list]
<1>5. posts' = posts \cup {new}
  BY <1>4
<1> HIDE DEF coordinates, list, trip, id
<1>6. /\ new.board = b /\ new.id = id /\ new.thread = thread /\ new.author = author
      /\ new.tripcode = trip /\ new.kind = kind /\ new.quoted = coordinates
      /\ new.quotes = list
  OBVIOUS
<1> HIDE DEF new
<1>7. quoted \in SUBSET Quotable(kind, b) /\ IsFiniteSet(quoted)
  <2>1. CASE quoted = {}
    BY <2>1, FS_EmptySet
  <2>2. CASE \E q \in Quotable(kind, b) : quoted = {q}
    BY <2>2, FS_Singleton
  <2> QED
    BY <1>4, <2>1, <2>2
<1>8. quoted \in SUBSET posts
  BY <1>7 DEF Quotable
<1>9. Quotes(new, quoted)
  <2>1. \A q \in quoted : \/ kind.quote = "object"
                          \/ kind.quote \in {"number", "text"} /\ q.board = b
    BY <1>7 DEF Quotable
  <2>2. new.quotes = <<NoQuote>> \o SetToSeq({QuoteOf(new.kind.quote, q) : q \in quoted})
    BY <1>6 DEF list
  <2>3. new.quoted = {Coordinates(q) : q \in quoted}
    BY <1>6 DEF coordinates
  <2> QED
    BY <1>6, <1>7, <2>1, <2>2, <2>3 DEF Quotes
<1>10. Numbered'
  BY <1>1, <1>5, <1>6, NumberedStep DEF id
<1>11. Written'
  <2>1. \/ new.thread = Null
        \/ \E root \in Openings : root.board = b /\ root.id = new.thread
    BY <1>6 DEF Publish
  <2>2. new.tripcode = TripcodeOf(author)
    BY <1>6 DEF trip
  <2> QED
    BY <1>1, <1>2, <1>5, <1>6, <1>8, <1>9, <2>1, <2>2, WrittenStep
<1>12. Recorded'
  BY <1>1, <1>2, <1>5, EventsStay DEF Recorded
<1>13. Idle' /\ Answered'
  BY <1>2 DEF Idle, Answered
<1> QED
  BY <1>10, <1>11, <1>12, <1>13 DEF BoardInv

(* What is known of upstream's posts stays true while they do not change.    *)
LEMMA PostsStay ==
  ASSUME posts' = posts, cfg' = cfg, Numbered, Written
  PROVE  /\ Numbered' /\ Written'
         /\ Openings' = Openings /\ \A root : Thread(root)' = Thread(root)
<1>0. Openings' = Openings /\ \A root : Thread(root)' = Thread(root)
  BY DEF Openings, Thread
<1>1. \A b : OnBoard(b)' = OnBoard(b)
  BY DEF OnBoard
<1>2. Numbered'
  BY <1>1 DEF Numbered
<1>3. \A c : Authors(c)' = Authors(c)
  BY DEF Authors
<1>4. \A a : TripcodeOf(a)' = TripcodeOf(a)
  BY TripcodesStay
<1>5. Written'
  BY <1>0, <1>3, <1>4 DEF Written, Placed
<1> QED
  BY <1>0, <1>2, <1>5

(* Posts have positive numbers, and so have their threads.                   *)
LEMMA ThreadNumbers ==
  ASSUME Numbered, Written, NEW p \in posts
  PROVE  /\ p.id \in Nat \ {0} /\ ThreadOf(p) \in Nat \ {0}
         /\ p.thread # Missing
         /\ ThreadOf(p) = IF p.thread = Null THEN p.id ELSE p.thread
<1>1. ASSUME NEW q \in posts PROVE q.id \in Nat \ {0}
  <2>1. q \in OnBoard(q.board)
    BY DEF OnBoard
  <2>2. q.id \in 1..Cardinality(OnBoard(q.board)) /\ Cardinality(OnBoard(q.board)) \in Nat
    BY <2>1, BoardsFinite DEF Numbered
  <2> QED
    BY <2>2
<1>2. p.thread = Null \/ p.thread \in Nat \ {0}
  BY <1>1 DEF Written, Placed, Openings
<1>3. p.thread # Missing
  BY <1>2 DEF Null, Missing
<1>4. ThreadOf(p) = IF p.thread = Null THEN p.id ELSE p.thread
  BY DEF ThreadOf
<1> QED
  BY <1>1, <1>2, <1>3, <1>4

-----------------------------------------------------------------------------
(* The room tells the gateway of a post.                                     *)

(* The fingerprint is the only thing that adding it changes.                 *)
LEMMA Fingerprinted ==
  ASSUME NEW p, NEW f, NEW g, NEW backlinks
  PROVE  [Shown(p, g, backlinks) EXCEPT !.poster_fingerprint = f] = Shown(p, f, backlinks)
BY DEF Shown

(* event_deliveries builds the payloads of EventOf: one for each webhook     *)
(* that takes the board, with a fingerprint where it asked for one.          *)
LEMMA Delivery ==
  ASSUME NEW p, NEW event,
         event = [event_id |-> <<EventKind(p), p.board, p.id>>, kind |-> EventKind(p),
                  post |-> Shown(p, NoFingerprint, <<>>)]
  PROVE  event_deliveries(event, Identity(p)) = EventOf(p).deliveries
<1> DEFINE allowed == Taking(p.board)
           optedIn == {w.name : w \in {x \in allowed : x.include_poster_fingerprint}}
           ident == Identity(p)
           Payload(w) == [event EXCEPT !.post.poster_fingerprint =
                            IF w \in optedIn THEN poster_fingerprint(w, ident)
                            ELSE event.post.poster_fingerprint]
           id == <<EventKind(p), p.board, p.id>>
           kind == EventKind(p)
<1>1. event.post.board = p.board /\ event.post.poster_fingerprint = NoFingerprint
  BY DEF Shown
<1>2. event_deliveries(event, ident) = [w \in {x.name : x \in allowed} |-> Payload(w)]
  BY <1>1 DEF event_deliveries
<1>3. \A w : w \in optedIn <=> \E x \in Taking(p.board) : x.name = w /\ x.include_poster_fingerprint
  OBVIOUS
<1>4. ASSUME NEW w
      PROVE  Payload(w) = [event_id |-> id, kind |-> kind, post |-> Shown(p, FingerprintFor(w, p), <<>>)]
  <2> DEFINE f == FingerprintFor(w, p)
  <2>1. f = IF w \in optedIn THEN poster_fingerprint(w, ident) ELSE event.post.poster_fingerprint
    BY <1>1, <1>3 DEF FingerprintFor
  <2>2. Payload(w) = [event EXCEPT !.post.poster_fingerprint = f]
    BY <2>1
  <2>3. event = [event_id |-> id, kind |-> kind, post |-> Shown(p, NoFingerprint, <<>>)]
    OBVIOUS
  <2> HIDE DEF f, id, kind, Payload
  <2>4. Payload(w) = [event_id |-> id, kind |-> kind,
                      post |-> [Shown(p, NoFingerprint, <<>>) EXCEPT !.poster_fingerprint = f]]
    BY <2>2, <2>3
  <2>5. [Shown(p, NoFingerprint, <<>>) EXCEPT !.poster_fingerprint = f] = Shown(p, f, <<>>)
    BY Fingerprinted
  <2>6. Payload(w) = [event_id |-> id, kind |-> kind, post |-> Shown(p, f, <<>>)]
    BY <2>4, <2>5
  <2> QED
    BY <2>6 DEF f
<1> HIDE DEF Payload
<1>5. event_deliveries(event, ident) =
        [w \in {x.name : x \in allowed} |->
           [event_id |-> id, kind |-> kind, post |-> Shown(p, FingerprintFor(w, p), <<>>)]]
  BY <1>2, <1>4
<1> QED
  BY <1>5 DEF EventOf

(* The steps of new_post, from upstream's JSON to the payloads, come to      *)
(* EventOf, and fail on exactly the posts that must not pass.                *)
LEMMA EventBuilt ==
  ASSUME LoadInv, step = "running", Numbered, Written, NEW p \in posts
  PROVE  LET decoded == decoded_post(Value(p))
             built == gateway_event(decoded)
             event == [built EXCEPT !.post = annotate_post(origins, @)]
         IN  /\ decoded.ok = Passable(p)
             /\ event.event_id = <<EventKind(p), p.board, p.id>>
             /\ event_deliveries(event, decoded.poster_identity) = EventOf(p).deliveries
<1> DEFINE decoded == decoded_post(Value(p))
           built == gateway_event(decoded)
           event == [built EXCEPT !.post = annotate_post(origins, @)]
           id == <<EventKind(p), p.board, p.id>>
           kind == EventKind(p)
<1>1. PICK members : members = p.kind.members
  OBVIOUS
<1>2. PICK none : none = <<>>
  OBVIOUS
<1>3. /\ p.kind \in Kinds /\ p.board \in Boards
      /\ p.author \in Authors(p.board) /\ p.tripcode = TripcodeOf(p.author)
  BY DEF Written
<1>4. PICK thread, board : thread = p.thread /\ board = p.board
  OBVIOUS
<1>5. Value(p) = Entry(p, board, thread, members, none)
  BY <1>1, <1>2, <1>4, EntriesOf
<1>6. (IF thread \in {Null, Missing} THEN p.id ELSE thread) = ThreadOf(p)
      /\ kind = IF thread \in {Null, Missing} THEN "thread.created" ELSE "post.created"
  BY <1>4, ThreadNumbers DEF EventKind
<1> HIDE DEF kind
<1>7. /\ decoded.ok = Passable(p)
      /\ decoded.poster_identity = Identity(p)
      /\ decoded.post.thread = thread /\ decoded.post.board = board
      /\ decoded.post.postId = p.id
      /\ contract_post(decoded.post) = Anonymous(p, none)
  BY <1>1, <1>3, <1>4, <1>5, <1>6, EntrySeen
<1> HIDE DEF decoded, kind
<1>8. built = [event_id |-> <<kind, board, p.id>>, kind |-> kind, post |-> Anonymous(p, none)]
  BY <1>6, <1>7 DEF gateway_event, event_id
<1>9. annotate_post(origins, Anonymous(p, none)) = Shown(p, NoFingerprint, none)
  <2>1. (IF p.tripcode \in DOMAIN origins THEN origins[p.tripcode] ELSE NoOrigin) = p.author
    BY <1>3, OriginOfAuthor
  <2> QED
    BY <2>1, Attributed
<1> HIDE DEF built
<1>10. event = [event_id |-> <<kind, board, p.id>>, kind |-> kind, post |-> Shown(p, NoFingerprint, none)]
  BY <1>8, <1>9
<1> HIDE DEF event
<1>11. event_deliveries(event, Identity(p)) = EventOf(p).deliveries
  BY <1>2, <1>4, <1>10, Delivery DEF kind
<1>12. event.event_id = <<kind, p.board, p.id>>
  BY <1>4, <1>10
<1> QED
  BY <1>7, <1>11, <1>12 DEF decoded, built, event, kind

(* NewPost preserves the invariant: the event of the post joins the others,  *)
(* or is already there.                                                      *)
LEMMA NewPostStep ==
  ASSUME LoadInv, BoardInv, NEW p \in posts, NewPost(p)
  PROVE  BoardInv'
<1> DEFINE decoded == decoded_post(Value(p))
           built == gateway_event(decoded)
           event == [built EXCEPT !.post = annotate_post(origins, @)]
           deliveries == event_deliveries(event, decoded.poster_identity)
           Unready == ~cfg.fingerprint_secret
                       /\ \E w \in Taking(p.board) : w.include_poster_fingerprint
           Known == \E e \in stored : e.event_id = event.event_id
           Wanted(q) == Passable(q) /\ Taking(q.board) # {}
<1>1. Numbered /\ Written /\ Recorded
  BY DEF BoardInv
<1>2. /\ step = "running" /\ p \notin seen /\ seen' = seen \cup {p}
      /\ stored' = IF ~decoded.ok \/ Unready \/ DOMAIN deliveries = {} \/ Known
                   THEN stored
                   ELSE stored \cup {[event_id |-> event.event_id, deliveries |-> deliveries]}
      /\ answer' = NoAnswer
  BY DEF NewPost
<1>3. posts' = posts /\ step' = step /\ cfg' = cfg
  BY DEF NewPost, loadVars
<1>4. /\ decoded.ok = Passable(p)
      /\ event.event_id = <<EventKind(p), p.board, p.id>>
      /\ deliveries = EventOf(p).deliveries
  BY <1>1, <1>2, EventBuilt
<1> HIDE DEF decoded, built, event, deliveries
<1>5. ~Unready
  <2>1. AnyFingerprint => cfg.fingerprint_secret
    BY <1>2, RunningConfig
  <2>2. (\E w \in Taking(p.board) : w.include_poster_fingerprint) => AnyFingerprint
    BY DEF Taking, ToSet, AnyFingerprint
  <2> QED
    BY <2>1, <2>2
<1>6. DOMAIN deliveries = {} <=> Taking(p.board) = {}
  <2>1. DOMAIN deliveries = {x.name : x \in Taking(p.board)}
    BY <1>4 DEF EventOf
  <2> QED
    BY <2>1
<1>7. ~Known
  <2> SUFFICES ASSUME NEW e \in stored, e.event_id = event.event_id PROVE FALSE
    OBVIOUS
  <2>1. PICK q \in seen : e = EventOf(q)
    BY <1>1 DEF Recorded
  <2>2. EventOf(q).event_id = <<EventKind(q), q.board, q.id>>
    BY DEF EventOf
  <2>3. q.board = p.board /\ q.id = p.id
    BY <1>4, <2>1, <2>2
  <2>4. q = p
    BY <1>1, <2>3 DEF Numbered, Recorded
  <2> QED
    BY <1>2, <2>1, <2>4
<1>8. [event_id |-> event.event_id, deliveries |-> deliveries] = EventOf(p)
  <2>1. EventOf(p) = [event_id |-> EventOf(p).event_id, deliveries |-> EventOf(p).deliveries]
        /\ EventOf(p).event_id = <<EventKind(p), p.board, p.id>>
    BY DEF EventOf
  <2> QED
    BY <1>4, <2>1
<1>9. stored' = IF Wanted(p) THEN stored \cup {EventOf(p)} ELSE stored
  BY <1>2, <1>4, <1>5, <1>6, <1>7, <1>8
<1>10. stored = {EventOf(q) : q \in {r \in seen : Wanted(r)}}
  BY <1>1 DEF Recorded
<1>11. stored' = {EventOf(q) : q \in {r \in seen' : Wanted(r)}}
  <2> HIDE DEF Wanted
  <2>1. CASE Wanted(p)
    BY <1>2, <1>9, <1>10, <2>1
  <2>2. CASE ~Wanted(p)
    BY <1>2, <1>9, <1>10, <2>2
  <2> QED
    BY <2>1, <2>2
<1>12. Recorded'
  <2>1. /\ \A b : Taking(b)' = Taking(b)
        /\ \A q : EventOf(q)' = EventOf(q)
    BY <1>3, EventsStay
  <2>2. seen' \subseteq posts'
    BY <1>1, <1>2, <1>3 DEF Recorded
  <2> QED
    BY <1>11, <2>1, <2>2 DEF Recorded
<1>13. Numbered' /\ Written'
  BY <1>1, <1>3, PostsStay
<1>14. Idle' /\ Answered'
  BY <1>2, <1>3 DEF Idle, Answered
<1> QED
  BY <1>12, <1>13, <1>14 DEF BoardInv

-----------------------------------------------------------------------------
(* An integration reads a thread.                                            *)

(* A thread has finitely many posts, each with a number of its own, among    *)
(* them the one that opened it; the others say which thread they are in.     *)
LEMMA ThreadFacts ==
  ASSUME Numbered, Written, NEW root \in Openings, NEW S, S = Thread(root)
  PROVE  /\ S \in SUBSET posts /\ IsFiniteSet(S) /\ root \in S
         /\ \A p \in S : p.board = root.board /\ ThreadOf(p) = root.id /\ p.id \in Int
         /\ \A p, q \in S : p.id = q.id => p = q
         /\ \A p \in S : p # root => p.thread = root.id
         /\ root.thread = Null /\ root.board \in Boards /\ root.id \in Nat \ {0}
<1>1. root \in posts /\ root.thread = Null
  BY DEF Openings
<1>2. S \in SUBSET posts /\ \A p \in S : p.board = root.board /\ ThreadOf(p) = root.id
  BY DEF Thread
<1>3. IsFiniteSet(S)
  BY <1>2, FS_Subset DEF Numbered
<1>4. \A p \in posts : p.id \in Nat \ {0} /\ ThreadOf(p) = IF p.thread = Null THEN p.id ELSE p.thread
  BY ThreadNumbers
<1>5. root \in S
  BY <1>1, <1>4 DEF Thread
<1>6. \A p, q \in S : p.id = q.id => p = q
  BY <1>2 DEF Numbered
<1>7. ASSUME NEW p \in S, p # root PROVE p.thread = root.id
  BY <1>2, <1>4, <1>5, <1>6, <1>7
<1>8. root.board \in Boards
  BY <1>1 DEF Written
<1>9. \A p \in S : p.id \in Int
  BY <1>2, <1>4
<1> QED
  BY <1>1, <1>2, <1>3, <1>4, <1>5, <1>6, <1>7, <1>8, <1>9

\* An object of the thread that stands for p.
StandsFor(value, p, b) ==
  \E members, thread :
    /\ members = p.kind.members
    /\ (IF thread \in {Null, Missing} THEN p.id ELSE thread) = ThreadOf(p)
    /\ value = Entry(p, b, thread, members, Backlinks(p))

(* Whether or not board and thread are left to the context, the objects      *)
(* stand for the posts.                                                      *)
LEMMA RootStands ==
  ASSUME NEW p, NEW b, b = p.board, p.thread = Null, NEW bare \in BOOLEAN
  PROVE  StandsFor(ensure_board(ThreadValue(p, bare), b), p, b)
<1>1. PICK members, links : members = p.kind.members /\ links = Backlinks(p)
  OBVIOUS
<1>2. PICK board, thread : /\ board = IF bare THEN "" ELSE b
                           /\ thread = IF bare THEN Missing ELSE Null
  OBVIOUS
<1>3. ThreadValue(p, bare) = Entry(p, board, thread, members, links)
  BY <1>1, <1>2, EntriesOf
<1>4. Filled(board, b) = b
  BY <1>2 DEF Filled
<1>5. ensure_board(Entry(p, board, thread, members, links), b) =
        Entry(p, Filled(board, b), thread, members, links)
  BY EntryFilled
<1>6. (IF thread \in {Null, Missing} THEN p.id ELSE thread) = ThreadOf(p)
  BY <1>2 DEF ThreadOf
<1>7. ensure_board(ThreadValue(p, bare), b) = Entry(p, b, thread, members, links)
  BY <1>3, <1>4, <1>5
<1> QED
  BY <1>1, <1>6, <1>7 DEF StandsFor

(* A completed reply of the thread's JSON stands for its post.               *)
LEMMA ReplyStands ==
  ASSUME NEW p, NEW b, b = p.board, NEW t \in Nat \ {0}, p.thread = t, NEW bare \in BOOLEAN
  PROVE  StandsFor(ensure_thread(ensure_board(ThreadValue(p, bare), b), t), p, b)
<1>1. PICK members, links : members = p.kind.members /\ links = Backlinks(p)
  OBVIOUS
<1>2. PICK board, thread : /\ board = IF bare THEN "" ELSE b
                           /\ thread = IF bare THEN Missing ELSE t
  OBVIOUS
<1>3. ThreadValue(p, bare) = Entry(p, board, thread, members, links)
  BY <1>1, <1>2, EntriesOf
<1>4. Filled(board, b) = b
  BY <1>2 DEF Filled
<1>5. ensure_board(Entry(p, board, thread, members, links), b) =
        Entry(p, Filled(board, b), thread, members, links)
  BY EntryFilled
<1>6. ensure_board(ThreadValue(p, bare), b) = Entry(p, b, thread, members, links)
  BY <1>3, <1>4, <1>5
<1>7. PICK own : own = Completing(thread, t)
  OBVIOUS
<1>8. ensure_thread(Entry(p, b, thread, members, links), t) = Entry(p, b, own, members, links)
  BY <1>7, EntryPlaced
<1>9. (IF own \in {Null, Missing} THEN p.id ELSE own) = ThreadOf(p)
  <2>1. t # Null /\ t # Missing
    BY DEF Null, Missing
  <2>2. Completing(thread, t) = t
    BY <1>2, <2>1 DEF Completing
  <2>3. own = t /\ ThreadOf(p) = t
    BY <1>7, <2>1, <2>2 DEF ThreadOf
  <2> QED
    BY <2>1, <2>3
<1>10. ensure_thread(ensure_board(ThreadValue(p, bare), b), t) = Entry(p, b, own, members, links)
  BY <1>6, <1>8
<1> QED
  BY <1>1, <1>9, <1>10 DEF StandsFor

(* What stands for a post is decoded and contracted to that post.            *)
LEMMA StandingSeen ==
  ASSUME NEW p \in posts, NEW b, b = p.board, Written, NEW value, StandsFor(value, p, b)
  PROVE  /\ decoded_post(value).ok = Passable(p)
         /\ contract_post(decoded_post(value).post) = Anonymous(p, Backlinks(p))
<1>1. PICK members, thread :
        /\ members = p.kind.members
        /\ (IF thread \in {Null, Missing} THEN p.id ELSE thread) = ThreadOf(p)
        /\ value = Entry(p, b, thread, members, Backlinks(p))
  BY DEF StandsFor
<1>2. p.board \in Boards /\ p.kind \in Kinds
  BY DEF Written
<1>3. PICK links : links = Backlinks(p)
  OBVIOUS
<1>4. PICK decoded : decoded = decoded_post(Entry(p, b, thread, members, links))
  OBVIOUS
<1>5. decoded.ok = Passable(p) /\ contract_post(decoded.post) = Anonymous(p, links)
  BY <1>1, <1>2, <1>4, EntrySeen
<1> QED
  BY <1>1, <1>3, <1>4, <1>5

\* The replies in the order they came in, completed from the context.
Completed(order, bare, root) ==
  [i \in DOMAIN order |->
     ensure_thread(ensure_board(ThreadValue(order[i], bare), root.board), root.id)]

\* The i-th value stands for the post place[i].
Placing(values, place, root, N) ==
  /\ place \in [1..N -> Thread(root)]
  /\ DOMAIN values = 1..N
  /\ \A i \in 1..N : StandsFor(values[i], place[i], root.board)
  /\ \A i, j \in 1..N : place[i] = place[j] => i = j
  /\ \A p \in Thread(root) : \E i \in 1..N : place[i] = p

(* The objects of a thread stand for its posts, each for one.                *)
LEMMA ThreadObjects ==
  ASSUME Numbered, Written, NEW root \in Openings, NEW bare \in BOOLEAN,
         NEW order \in SetToSeqs(Thread(root) \ {root}),
         NEW first, first = ensure_board(ThreadValue(root, bare), root.board),
         NEW rest, rest = Completed(order, bare, root)
  PROVE  \E place : Placing(<<first>> \o rest, place, root, Cardinality(Thread(root)))
<1> DEFINE B == Thread(root)
           N == Cardinality(B)
           R == B \ {root}
           M == Cardinality(R)
           b == root.board
           t == root.id
           values == <<first>> \o rest
           place == [i \in 1..N |-> IF i = 1 THEN root ELSE order[i - 1]]
<1>0. /\ IsFiniteSet(B) /\ root \in B /\ root.thread = Null /\ t \in Nat \ {0}
      /\ \A p \in B : p.board = b
      /\ \A p \in B : p # root => p.thread = t
  BY ThreadFacts
<1>1. IsFiniteSet(R) /\ N \in Nat \ {0} /\ M = N - 1
  <2>1. N \in Nat /\ N # 0
    BY <1>0, FS_CardinalityType, FS_EmptySet
  <2> HIDE DEF B
  <2>2. IsFiniteSet(R) /\ M = N - 1
    BY <1>0, FS_RemoveElement
  <2> QED
    BY <2>1, <2>2
<1>2. /\ M \in Nat /\ order \in [1..M -> R]
      /\ \A i, j \in 1..M : order[i] = order[j] => i = j
      /\ \A p \in R : \E i \in 1..M : order[i] = p
  <2>1. order \in SetToSeqs(R)
    OBVIOUS
  <2> HIDE DEF R
  <2> QED
    BY <1>1, <2>1, SequencesOfSet
<1> HIDE DEF B, R
<1>4. rest \in [1..M -> {rest[i] : i \in 1..M}]
      /\ \A i \in 1..M : rest[i] = ensure_thread(ensure_board(ThreadValue(order[i], bare), b), t)
  BY <1>2 DEF Completed
<1>5. /\ DOMAIN values = 1..N /\ values[1] = first
      /\ \A i \in 2..N : values[i] = rest[i - 1]
  <2>1. PICK T : rest \in [1..M -> T]
    BY <1>4
  <2>2. /\ DOMAIN (<<first>> \o rest) = 1..(M + 1)
        /\ (<<first>> \o rest)[1] = first
        /\ \A i \in 2..(M + 1) : (<<first>> \o rest)[i] = rest[i - 1]
    BY <1>2, <2>1, Prepended
  <2>3. M + 1 = N
    BY <1>1
  <2> QED
    BY <2>2, <2>3
<1> HIDE DEF values
<1>6. \A i \in 2..N : i - 1 \in 1..M /\ order[i - 1] \in R /\ order[i - 1] \in B
  <2>1. \A i \in 1..M : order[i] \in R
    BY <1>2
  <2>2. \A i \in 2..N : i - 1 \in 1..M
    BY <1>1
  <2>3. R \subseteq B
    BY DEF R
  <2> QED
    BY <2>1, <2>2, <2>3
<1>7. place \in [1..N -> B] /\ place[1] = root /\ \A i \in 2..N : place[i] = order[i - 1]
  <2>1. ASSUME NEW i \in 1..N PROVE (IF i = 1 THEN root ELSE order[i - 1]) \in B
    <3>1. CASE i = 1
      BY <1>0, <3>1
    <3>2. CASE i # 1
      <4>1. i \in 2..N
        BY <1>1, <3>2
      <4> QED
        BY <1>6, <3>2, <4>1
    <3> QED
      BY <3>1, <3>2
  <2>2. place \in [1..N -> B]
    BY <2>1
  <2>3. 1 \in 1..N /\ \A i \in 2..N : i \in 1..N /\ i # 1
    BY <1>1
  <2> QED
    BY <2>2, <2>3
<1> HIDE DEF place
<1>8. ASSUME NEW i \in 1..N PROVE StandsFor(values[i], place[i], b)
  <2>1. CASE i = 1
    <3>1. StandsFor(ensure_board(ThreadValue(root, bare), b), root, b)
      BY <1>0, RootStands
    <3> QED
      BY <1>5, <1>7, <2>1, <3>1
  <2>2. CASE i # 1
    <3>1. i \in 2..N
      BY <1>1, <2>2
    <3>2. PICK q : q = order[i - 1]
      OBVIOUS
    <3>3. q \in B /\ q # root
      BY <1>6, <3>1, <3>2 DEF R
    <3>4. q.board = b /\ q.thread = t
      BY <1>0, <3>3
    <3>5. StandsFor(ensure_thread(ensure_board(ThreadValue(q, bare), b), t), q, b)
      BY <1>0, <3>4, ReplyStands
    <3>6. values[i] = ensure_thread(ensure_board(ThreadValue(q, bare), b), t) /\ place[i] = q
      BY <1>4, <1>5, <1>6, <1>7, <3>1, <3>2
    <3> QED
      BY <3>5, <3>6
  <2> QED
    BY <2>1, <2>2
<1>9. ASSUME NEW i \in 1..N, NEW j \in 1..N, place[i] = place[j] PROVE i = j
  <2>1. \A k \in 2..N : place[k] # root
    BY <1>6, <1>7 DEF R
  <2>2. (i = 1 \/ i \in 2..N) /\ (j = 1 \/ j \in 2..N)
    BY <1>1
  <2>3. CASE i \in 2..N /\ j \in 2..N
    <3>1. order[i - 1] = order[j - 1] /\ i - 1 \in 1..M /\ j - 1 \in 1..M
      BY <1>6, <1>7, <1>9, <2>3
    <3>2. i - 1 = j - 1
      BY <1>2, <3>1
    <3> QED
      BY <1>1, <3>2
  <2> QED
    BY <1>7, <1>9, <2>1, <2>2, <2>3
<1>10. ASSUME NEW p \in B PROVE \E i \in 1..N : place[i] = p
  <2>1. CASE p = root
    <3>1. 1 \in 1..N
      BY <1>1
    <3> QED
      BY <1>7, <2>1, <3>1
  <2>2. CASE p # root
    <3>1. PICK k \in 1..M : order[k] = p
      BY <1>2, <2>2 DEF R
    <3>2. k + 1 \in 2..N /\ k + 1 \in 1..N /\ (k + 1) - 1 = k
      BY <1>1, <3>1
    <3>3. place[k + 1] = p
      BY <1>7, <3>1, <3>2
    <3> QED
      BY <3>2, <3>3
  <2> QED
    BY <2>1, <2>2
<1>11. Placing(values, place, root, N)
  BY <1>5, <1>7, <1>8, <1>9, <1>10 DEF Placing, B
<1> QED
  BY <1>11 DEF values, B

(* The clamped limit is never zero.                                          *)
LEMMA ClampFacts ==
  ASSUME NEW limit \in Nat
  PROVE  clamp(limit) \in Nat \ {0}
BY PostsConstants DEF clamp

ReplyValues(order, bare) == [i \in DOMAIN order |-> ThreadValue(order[i], bare)]

\* The thread of root as a read has it before the origins are looked up: the
\* newest posts, in the order of their numbers.
Window(read, root, limit) ==
  LET N == Cardinality(Thread(root))
      k == Fewer(N, clamp(limit))
  IN  /\ read = [ok |-> read.ok, board |-> root.board, id |-> root.id, posts |-> read.posts,
                 truncated |-> read.truncated]
      /\ read.ok = \A p \in Thread(root) : Passable(p)
      /\ read.truncated = (N > clamp(limit))
      /\ DOMAIN read.posts = 1..k
      /\ \A n \in 1..k : \E p \in Thread(root) :
           /\ RankIn(Thread(root), p) = N - k + n
           /\ read.posts[n] = Anonymous(p, Backlinks(p))

Decoded(values) == [i \in DOMAIN values |-> decoded_post(values[i])]
Contracts(values) == [i \in DOMAIN values |-> contract_post(Decoded(values)[i].post)]

(* The completed objects of a thread, in whatever order, are read as its     *)
(* posts in the order of their numbers.                                      *)
LEMMA ValuesRead ==
  ASSUME Numbered, Written, NEW root \in Openings,
         NEW N, N = Cardinality(Thread(root)), N \in Nat,
         NEW values, NEW place, Placing(values, place, root, N),
         NEW decoded, decoded = Decoded(values), NEW contracts, contracts = Contracts(values)
  PROVE  /\ (\A i \in DOMAIN decoded : decoded[i].ok) = \A p \in Thread(root) : Passable(p)
         /\ sort_by_id(contracts) \in [1..N -> Range(contracts)]
         /\ \A n \in 1..N : \E p \in Thread(root) :
              /\ RankIn(Thread(root), p) = n
              /\ sort_by_id(contracts)[n] = Anonymous(p, Backlinks(p))
<1>0. PICK B : B = Thread(root)
  OBVIOUS
<1>1. /\ place \in [1..N -> B]
      /\ DOMAIN values = 1..N
      /\ \A i \in 1..N : StandsFor(values[i], place[i], root.board)
      /\ \A i, j \in 1..N : place[i] = place[j] => i = j
      /\ \A p \in B : \E i \in 1..N : place[i] = p
  BY <1>0 DEF Placing
<1>2. /\ B \in SUBSET posts /\ IsFiniteSet(B)
      /\ \A p \in B : p.board = root.board /\ p.id \in Int
      /\ \A p, q \in B : p.id = q.id => p = q
  BY <1>0, ThreadFacts
<1>3. ASSUME NEW i \in 1..N
      PROVE  /\ decoded[i].ok = Passable(place[i])
             /\ contracts[i] = Anonymous(place[i], Backlinks(place[i]))
  <2>1. PICK v, p, b : v = values[i] /\ p = place[i] /\ b = root.board
    OBVIOUS
  <2>2. StandsFor(v, p, b) /\ p \in posts /\ b = p.board
    BY <1>1, <1>2, <2>1
  <2>3. /\ decoded_post(v).ok = Passable(p)
        /\ contract_post(decoded_post(v).post) = Anonymous(p, Backlinks(p))
    BY <2>2, StandingSeen
  <2>4. decoded[i] = decoded_post(v) /\ contracts[i] = contract_post(decoded[i].post)
    BY <1>1, <2>1 DEF Decoded, Contracts
  <2> QED
    BY <2>1, <2>3, <2>4
<1>4. DOMAIN decoded = 1..N /\ DOMAIN contracts = 1..N
  BY <1>1 DEF Decoded, Contracts
<1>5. \A p : Anonymous(p, Backlinks(p)).id = p.id
  BY DEF Anonymous
<1>6. \A i \in 1..N : contracts[i].id = place[i].id
  BY <1>3, <1>5
<1>7. N \in Nat /\ N = Cardinality(B)
  BY <1>0
<1>8. /\ sort_by_id(contracts) \in [1..N -> Range(contracts)]
      /\ \A n \in 1..N : \E i \in 1..N :
           RankIn(B, place[i]) = n /\ sort_by_id(contracts)[n] = contracts[i]
  <2>1. /\ place \in [1..N -> B] /\ DOMAIN contracts = 1..N
        /\ \A i, j \in 1..N : place[i] = place[j] => i = j
        /\ \A p \in B : \E i \in 1..N : place[i] = p
    BY <1>1, <1>4
  <2>2. /\ IsFiniteSet(B) /\ \A p \in B : p.id \in Int
        /\ \A p, q \in B : p.id = q.id => p = q
    BY <1>2
  <2>3. EachOnce(contracts, place, B, N)
    BY ONLY <1>6, <1>7, <2>1, <2>2 DEF EachOnce
  <2>4. Sorts(sort_by_id(contracts), contracts, place, B, N)
    BY ONLY <2>3, SortRanked
  <2> QED
    BY ONLY <2>4 DEF Sorts
<1>9. ASSUME NEW n \in 1..N
      PROVE  \E p \in B : /\ RankIn(B, p) = n
                          /\ sort_by_id(contracts)[n] = Anonymous(p, Backlinks(p))
  <2>1. PICK i \in 1..N : RankIn(B, place[i]) = n /\ sort_by_id(contracts)[n] = contracts[i]
    BY <1>8
  <2>2. PICK p : p = place[i]
    OBVIOUS
  <2>3. p \in B /\ RankIn(B, p) = n
    BY <1>1, <2>1, <2>2
  <2>4. contracts[i] = Anonymous(p, Backlinks(p))
    BY <1>3, <2>2
  <2> QED
    BY <2>1, <2>3, <2>4
<1>10. (\A i \in DOMAIN decoded : decoded[i].ok) = \A p \in B : Passable(p)
  <2>1. \A i \in 1..N : decoded[i].ok <=> Passable(place[i])
    BY <1>3
  <2>2. (\A i \in 1..N : decoded[i].ok) <=> \A p \in B : Passable(p)
    BY <1>1, <2>1
  <2> QED
    BY <1>4, <2>2
<1> QED
  BY <1>0, <1>8, <1>9, <1>10

(* thread_from_value returns the window of the thread, whatever order        *)
(* upstream lists the replies in and whether or not they repeat their board. *)
LEMMA ThreadServed ==
  ASSUME Numbered, Written, NEW root \in Openings, NEW bare \in BOOLEAN, NEW limit \in Nat,
         NEW order \in SetToSeqs(Thread(root) \ {root}),
         NEW replies, replies = ReplyValues(order, bare),
         NEW read, read = thread_from_value(root.board, root.id, ThreadValue(root, bare), replies, limit)
  PROVE  Window(read, root, limit)
<1> DEFINE B == Thread(root)
           b == root.board
           t == root.id
           N == Cardinality(B)
           c == clamp(limit)
           k == Fewer(N, c)
           rest == [i \in DOMAIN replies |->
                      ensure_thread(ensure_board(replies[i], b), t)]
           first == ensure_board(ThreadValue(root, bare), b)
           values == <<first>> \o rest
           decoded == [i \in DOMAIN values |-> decoded_post(values[i])]
           contracts == [i \in DOMAIN values |-> contract_post(decoded[i].post)]
           sorted == sort_by_id(contracts)
           out == Newest(sorted, c)
<1>1. read = [ok |-> \A i \in DOMAIN decoded : decoded[i].ok, board |-> b, id |-> t,
              posts |-> out, truncated |-> Len(sorted) > c]
  BY DEF thread_from_value, Newest
<1>2. rest = Completed(order, bare, root)
  BY DEF ReplyValues, Completed
<1>3. N \in Nat /\ c \in Nat \ {0}
  BY ThreadFacts, FS_CardinalityType, ClampFacts
<1>4. PICK head, tail : head = first /\ tail = rest
  OBVIOUS
<1>5. PICK place : Placing(<<head>> \o tail, place, root, N)
  <2>1. head = ensure_board(ThreadValue(root, bare), b) /\ tail = Completed(order, bare, root)
    BY <1>2, <1>4
  <2> HIDE DEF first, rest
  <2> QED
    BY <2>1, ThreadObjects
<1>6. PICK vs : vs = values
  OBVIOUS
<1>7. Placing(vs, place, root, N)
  BY <1>4, <1>5, <1>6
<1>8. PICK ds, cs : ds = Decoded(vs) /\ cs = Contracts(vs)
  OBVIOUS
<1>9. ds = decoded /\ cs = contracts
  BY <1>6, <1>8 DEF Decoded, Contracts
<1> HIDE DEF decoded, contracts, values
<1>10. /\ (\A i \in DOMAIN ds : ds[i].ok) = \A p \in B : Passable(p)
       /\ sort_by_id(cs) \in [1..N -> Range(cs)]
       /\ \A n \in 1..N : \E p \in B : RankIn(B, p) = n /\ sort_by_id(cs)[n] = Anonymous(p, Backlinks(p))
  <2>1. Numbered /\ Written /\ root \in Openings
    OBVIOUS
  <2> QED
    BY ONLY <1>3, <1>7, <1>8, <2>1, ValuesRead
<1> HIDE DEF c, N, B, b, t
<1>12. /\ Len(sorted) = N /\ DOMAIN out = 1..k
       /\ \A n \in 1..k : N - k + n \in 1..N /\ out[n] = sorted[N - k + n]
  <2>1. PICK T, list : list = sorted /\ list \in [1..N -> T]
    BY <1>9, <1>10
  <2>2. /\ Len(list) = N /\ DOMAIN Newest(list, c) = 1..k
        /\ \A n \in 1..k : N - k + n \in 1..N /\ Newest(list, c)[n] = list[N - k + n]
    <3>1. list \in [1..N -> T] /\ N \in Nat /\ c \in Nat \ {0}
      BY <1>3, <2>1
    <3>2. KeepsNewest(list, N, c)
      BY <3>1, NewestKept
    <3> QED
      BY <3>2 DEF KeepsNewest
  <2> QED
    BY <2>1, <2>2
<1>13. /\ \A n \in 1..N : \E p \in B : RankIn(B, p) = n /\ sorted[n] = Anonymous(p, Backlinks(p))
       /\ (\A i \in DOMAIN decoded : decoded[i].ok) = \A p \in B : Passable(p)
  BY <1>9, <1>10
<1> HIDE DEF sorted, out
<1>14. ASSUME NEW n \in 1..k
       PROVE  \E p \in B : RankIn(B, p) = N - k + n /\ out[n] = Anonymous(p, Backlinks(p))
  <2>1. PICK m \in 1..N : m = N - k + n /\ out[n] = sorted[m]
    BY <1>12
  <2> QED
    BY <1>13, <2>1
<1>15. /\ read.ok = (\A i \in DOMAIN decoded : decoded[i].ok)
       /\ read.posts = out /\ read.truncated = (Len(sorted) > c)
       /\ read = [ok |-> read.ok, board |-> b, id |-> t, posts |-> read.posts,
                  truncated |-> read.truncated]
  <2>1. PICK passed, longer : /\ passed = (\A i \in DOMAIN decoded : decoded[i].ok)
                              /\ longer = (Len(sorted) > c)
    OBVIOUS
  <2>2. read = [ok |-> passed, board |-> b, id |-> t, posts |-> out, truncated |-> longer]
    BY <1>1, <2>1
  <2>3. /\ read.ok = passed /\ read.posts = out /\ read.truncated = longer
        /\ read = [ok |-> read.ok, board |-> b, id |-> t, posts |-> read.posts,
                   truncated |-> read.truncated]
    BY <2>2
  <2> QED
    BY <2>1, <2>3
<1> QED
  BY <1>12, <1>13, <1>14, <1>15 DEF Window, B, N, c, b, t

(* annotate_thread leaves the window as it is and adds the authors.          *)
LEMMA ThreadAttributed ==
  ASSUME LoadInv, step = "running", Written, NEW root \in Openings, NEW limit \in Nat,
         NEW read, Window(read, root, limit),
         NEW thread, thread = annotate_thread(origins, read),
         NEW N, N = Cardinality(Thread(root)), NEW k, k = Fewer(N, clamp(limit))
  PROVE  /\ thread.board = root.board /\ thread.id = root.id
         /\ thread.truncated = (N > clamp(limit))
         /\ DOMAIN thread.posts = 1..k
         /\ \A n \in 1..k : \E p \in Thread(root) :
              RankIn(Thread(root), p) = N - k + n /\ thread.posts[n] = Shown(p, NoFingerprint, Backlinks(p))
<1>1. PICK ok, list, longer :
        read = [ok |-> ok, board |-> root.board, id |-> root.id, posts |-> list, truncated |-> longer]
  BY DEF Window
<1>2. read.posts = list /\ read.truncated = longer
  BY <1>1
<1>3. /\ longer = (N > clamp(limit))
      /\ DOMAIN list = 1..k
      /\ \A n \in 1..k : \E p \in Thread(root) :
           RankIn(Thread(root), p) = N - k + n /\ list[n] = Anonymous(p, Backlinks(p))
  BY <1>2 DEF Window
<1> DEFINE shown == [i \in DOMAIN list |-> annotate_post(origins, list[i])]
<1>4. thread = [read EXCEPT !.posts = shown]
  BY <1>2 DEF annotate_thread
<1>5. DOMAIN shown = 1..k /\ \A n \in 1..k : shown[n] = annotate_post(origins, list[n])
  BY <1>3
<1> HIDE DEF shown
<1>6. /\ thread.board = root.board /\ thread.id = root.id /\ thread.truncated = longer
      /\ thread.posts = shown
  BY <1>1, <1>4
<1>7. ASSUME NEW n \in 1..k
      PROVE  \E p \in Thread(root) :
               RankIn(Thread(root), p) = N - k + n /\ shown[n] = Shown(p, NoFingerprint, Backlinks(p))
  <2>1. PICK p \in Thread(root) : RankIn(Thread(root), p) = N - k + n /\ list[n] = Anonymous(p, Backlinks(p))
    BY <1>3
  <2>2. PICK links, known : links = Backlinks(p) /\ known = origins
    OBVIOUS
  <2>3. p.author \in Authors(p.board) /\ p.tripcode = TripcodeOf(p.author)
    BY DEF Written, Thread
  <2>4. (IF p.tripcode \in DOMAIN known THEN known[p.tripcode] ELSE NoOrigin) = p.author
    BY <2>2, <2>3, OriginOfAuthor
  <2>5. annotate_post(known, Anonymous(p, links)) = Shown(p, NoFingerprint, links)
    BY <2>4, Attributed
  <2> QED
    BY <1>5, <2>1, <2>2, <2>5
<1> QED
  BY <1>3, <1>5, <1>6, <1>7

(* Read preserves the invariant: what it answers is the window.              *)
LEMMA ReadStep ==
  ASSUME LoadInv, BoardInv, NEW root \in Openings, NEW limit \in Limits,
         NEW bare \in BOOLEAN, Read(root, limit, bare)
  PROVE  BoardInv'
<1>1. Numbered /\ Written /\ Recorded
  BY DEF BoardInv
<1>2. /\ step = "running" /\ step' = step /\ cfg' = cfg /\ posts' = posts /\ seen' = seen
      /\ stored' = stored
  BY DEF Read, loadVars
<1>3. limit \in Nat
  BY BoardConstants
<1>5. PICK order \in SetToSeqs(Thread(root) \ {root}) :
        LET read == thread_from_value(root.board, root.id, ThreadValue(root, bare),
                      ReplyValues(order, bare), limit)
        IN  answer' = [status |-> IF read.ok THEN "served" ELSE "failed",
                       limit |-> limit, thread |-> annotate_thread(origins, read)]
  BY DEF Read, ReplyValues
<1>6. PICK replies : replies = ReplyValues(order, bare)
  OBVIOUS
<1>7. PICK read : read = thread_from_value(root.board, root.id, ThreadValue(root, bare), replies, limit)
  OBVIOUS
<1>8. PICK thread : thread = annotate_thread(origins, read)
  OBVIOUS
<1>9. answer' = [status |-> IF read.ok THEN "served" ELSE "failed",
                 limit |-> limit, thread |-> thread]
  BY <1>5, <1>6, <1>7, <1>8
<1>10. Window(read, root, limit)
  BY <1>1, <1>3, <1>6, <1>7, ThreadServed
<1>11. PICK N, k : N = Cardinality(Thread(root)) /\ k = Fewer(N, clamp(limit))
  OBVIOUS
<1>12. /\ thread.board = root.board /\ thread.id = root.id
       /\ thread.truncated = (N > clamp(limit))
       /\ DOMAIN thread.posts = 1..k
       /\ \A n \in 1..k : \E p \in Thread(root) :
            RankIn(Thread(root), p) = N - k + n /\ thread.posts[n] = Shown(p, NoFingerprint, Backlinks(p))
  BY <1>1, <1>2, <1>3, <1>8, <1>10, <1>11, ThreadAttributed
<1>13. answer'.thread = thread /\ answer'.limit = limit
       /\ answer'.status = IF \A p \in Thread(root) : Passable(p) THEN "served" ELSE "failed"
  <2>1. read.ok = \A p \in Thread(root) : Passable(p)
    BY <1>10 DEF Window
  <2> QED
    BY <1>9, <2>1
<1>14. /\ Thread(root)' = Thread(root) /\ Openings' = Openings
       /\ \A p : Backlinks(p)' = Backlinks(p)
  BY <1>2 DEF Thread, Openings, Backlinks, QuotedBy
<1>15. k = IF N > clamp(limit) THEN clamp(limit) ELSE N
  BY <1>11 DEF Fewer
<1>16. AnswerFor(root, limit)'
  BY <1>11, <1>12, <1>13, <1>14, <1>15 DEF AnswerFor
<1>17. Answered'
  BY <1>14, <1>16 DEF Answered
<1>18. Numbered' /\ Written'
  BY <1>1, <1>2, PostsStay
<1>19. Recorded'
  BY <1>1, <1>2, EventsStay DEF Recorded
<1>20. Idle'
  BY <1>2 DEF Idle
<1> QED
  BY <1>17, <1>18, <1>19, <1>20 DEF BoardInv

-----------------------------------------------------------------------------
(* While the gateway loads there is nothing yet.                             *)
Nothing == posts = {} /\ seen = {} /\ stored = {} /\ answer = NoAnswer

(* With nothing posted, told or asked the invariant holds.                   *)
LEMMA NothingYet == Nothing => BoardInv
<1> SUFFICES ASSUME Nothing PROVE BoardInv
  OBVIOUS
<1> USE DEF Nothing
<1>1. \A b : OnBoard(b) = {}
  BY DEF OnBoard
<1>2. Numbered
  BY <1>1, FS_EmptySet DEF Numbered
<1>3. Recorded
  BY DEF Recorded
<1> QED
  BY <1>2, <1>3 DEF BoardInv, Idle, Written, Answered

(* A step that changes neither the board nor the configuration preserves the *)
(* invariant.                                                                *)
LEMMA BoardUnchanged ==
  ASSUME BoardInv, step' = step, cfg' = cfg, UNCHANGED boardVars
  PROVE  BoardInv'
<1>1. posts' = posts /\ seen' = seen /\ stored' = stored /\ answer' = answer
  BY DEF boardVars
<1>2. Numbered /\ Written /\ Recorded /\ Answered /\ Idle
  BY DEF BoardInv
<1>3. /\ Numbered' /\ Written'
      /\ Openings' = Openings /\ \A root : Thread(root)' = Thread(root)
  BY <1>1, <1>2, PostsStay
<1>4. Recorded'
  BY <1>1, <1>2, EventsStay DEF Recorded
<1>5. Idle'
  BY <1>1, <1>2 DEF Idle
<1>6. \A p : Backlinks(p)' = Backlinks(p)
  BY <1>1 DEF Backlinks, QuotedBy
<1>7. \A root, limit : AnswerFor(root, limit) => AnswerFor(root, limit)'
  BY <1>1, <1>3, <1>6 DEF AnswerFor
<1>8. Answered'
  BY <1>1, <1>2, <1>3, <1>7 DEF Answered
<1> QED
  BY <1>3, <1>4, <1>5, <1>8 DEF BoardInv

(* A step of loading preserves the invariant, since nothing has been posted  *)
(* yet.                                                                      *)
LEMMA LoadStep ==
  ASSUME BoardInv, Load, UNCHANGED boardVars
  PROVE  BoardInv'
<1>1. step # "running"
  BY DEF Load, ValidateRuntime, ValidateIntegration, ResolveIntegration, ResolveFingerprint, LoadCookie
<1>2. posts = {} /\ seen = {} /\ stored = {} /\ answer = NoAnswer
  BY <1>1 DEF BoardInv, Idle
<1>3. Nothing'
  BY <1>2 DEF boardVars, Nothing
<1> QED
  BY <1>3, NothingYet, PTL

(* Every step of the specification preserves the invariant.                  *)
LEMMA InvStep == Inv /\ [Next]_vars => Inv'
<1> SUFFICES ASSUME Inv, [Next]_vars PROVE BoardInv'
  BY LoadKept DEF Inv
<1>0. LoadInv /\ BoardInv
  BY DEF Inv
<1>1. CASE Load /\ UNCHANGED boardVars
  BY <1>0, <1>1, LoadStep
<1>2. CASE \E b \in Boards, kind \in Kinds, thread \in {Null} \cup {p.id : p \in Openings} :
             \E author \in Authors(b) : Publish(b, thread, author, kind)
  BY <1>0, <1>2, PublishStep
<1>3. CASE \E p \in posts : NewPost(p)
  BY <1>0, <1>3, NewPostStep
<1>4. CASE \E root \in Openings, limit \in Limits, bare \in BOOLEAN : Read(root, limit, bare)
  BY <1>0, <1>4, ReadStep
<1>5. CASE UNCHANGED vars
  <2>1. step' = step /\ cfg' = cfg /\ UNCHANGED boardVars
    BY <1>5 DEF vars, loadVars
  <2> QED
    BY <1>0, <2>1, BoardUnchanged
<1> QED
  BY <1>1, <1>2, <1>3, <1>4, <1>5 DEF Next

(* The invariant holds at all times.                                         *)
LEMMA Invariance == Spec => []Inv
<1>1. Init => Inv
  BY LoadInvInit, NothingYet DEF Init, Inv, Nothing
<1> QED
  BY <1>1, InvStep, PTL DEF Spec

-----------------------------------------------------------------------------
(* What is shown is about the post it was made from, and about no other: the *)
(* fields of a post as the contract shows it.                                *)
LEMMA ShownFields ==
  ASSUME NEW p, NEW f, NEW links, NEW post, post = Shown(p, f, links)
  PROVE  /\ post.board = p.board /\ post.thread_id = ThreadOf(p) /\ post.id = p.id
         /\ post.date = p.kind.date
         /\ post.poster_fingerprint = f /\ post.origin = p.author
         /\ post.references = post_refs(p.quotes, p.board, ThreadOf(p))
         /\ post.referenced_by = post_refs(links, p.board, ThreadOf(p))
BY DEF Shown

(* Coordinates tell posts apart: a contract post is about one of them.       *)
LEMMA AboutOne ==
  ASSUME Numbered, NEW p \in posts, NEW post,
         post.board = p.board, post.thread_id = ThreadOf(p), post.id = p.id
  PROVE  /\ \A q \in posts : IsAbout(post, q) <=> q = p
         /\ Subject(post) = p
<1>1. ASSUME NEW q \in posts PROVE IsAbout(post, q) <=> q = p
  <2>1. IsAbout(post, q) <=> /\ q.board = p.board /\ ThreadOf(q) = ThreadOf(p)
                             /\ q.id = p.id
    BY DEF IsAbout, Coordinates
  <2> QED
    BY <2>1 DEF Numbered
<1>2. Subject(post) = p
  BY <1>1 DEF Subject
<1> QED
  BY <1>1, <1>2

(* The parts of a post's event.                                              *)
LEMMA EventFacts ==
  ASSUME NEW q
  PROVE  /\ EventOf(q).event_id = <<EventKind(q), q.board, q.id>>
         /\ DOMAIN EventOf(q).deliveries = {x.name : x \in Taking(q.board)}
         /\ \A w \in {x.name : x \in Taking(q.board)} :
              /\ EventOf(q).deliveries[w].event_id = <<EventKind(q), q.board, q.id>>
              /\ EventOf(q).deliveries[w].post = Shown(q, FingerprintFor(w, q), <<>>)
<1> DEFINE W == {x.name : x \in Taking(q.board)}
           id == <<EventKind(q), q.board, q.id>>
           kind == EventKind(q)
           Post(w) == Shown(q, FingerprintFor(w, q), <<>>)
           D == [w \in W |-> [event_id |-> id, kind |-> kind, post |-> Post(w)]]
<1>1. EventOf(q) = [event_id |-> id, deliveries |-> D]
  BY DEF EventOf
<1> HIDE DEF W, id, kind, Post
<1>2. DOMAIN D = W /\ \A w \in W : D[w].event_id = id /\ D[w].post = Post(w)
  OBVIOUS
<1> HIDE DEF D
<1>3. EventOf(q).event_id = id /\ EventOf(q).deliveries = D
  BY <1>1
<1> QED
  BY <1>2, <1>3 DEF W, id, Post

\* The event of q, told to webhook d[1].
Tells(d, q) ==
  /\ q \in posts /\ d[2] = EventOf(q)
  /\ d[1] \in {x.name : x \in Taking(q.board)}
  /\ d[2].event_id = d[2].deliveries[d[1]].event_id
  /\ Delivered(d) = Shown(q, FingerprintFor(d[1], q), <<>>)
  /\ Subject(Delivered(d)) = q

(* Every payload in the store tells of a post.                               *)
LEMMA Told ==
  ASSUME Inv, NEW d \in Deliveries
  PROVE  \E q \in posts : Tells(d, q)
<1>1. Numbered /\ Written /\ Recorded
  BY DEF Inv, BoardInv
<1>2. PICK w, e : w = d[1] /\ e = d[2]
  OBVIOUS
<1>3. e \in stored /\ w \in DOMAIN e.deliveries
  BY <1>2 DEF Deliveries
<1>4. PICK q \in posts : e = EventOf(q)
  BY <1>1, <1>3 DEF Recorded
<1>5. w \in {x.name : x \in Taking(q.board)}
  BY <1>3, <1>4, EventFacts
<1>6. PICK f, none : f = FingerprintFor(w, q) /\ none = <<>>
  OBVIOUS
<1>7. e.deliveries[w].post = Shown(q, f, none) /\ e.event_id = e.deliveries[w].event_id
  BY <1>4, <1>5, <1>6, EventFacts
<1>8. PICK post : post = Delivered(d)
  OBVIOUS
<1>9. post = Shown(q, f, none)
  BY <1>2, <1>7, <1>8 DEF Delivered
<1>10. Subject(post) = q
  BY <1>1, <1>9, ShownFields, AboutOne
<1>11. Tells(d, q)
  BY <1>2, <1>4, <1>5, <1>6, <1>7, <1>8, <1>9, <1>10 DEF Tells
<1> QED
  BY <1>11

(* A thread that was served is the window of one of upstream's.              *)
LEMMA AnswerServed ==
  ASSUME Inv, answer.status = "served"
  PROVE  \E root \in Openings, limit \in Limits : AnswerFor(root, limit)
<1>1. NoAnswer.status = "none"
  BY DEF NoAnswer
<1>2. answer # NoAnswer
  BY <1>1
<1> QED
  BY <1>2 DEF Inv, BoardInv, Answered

\* The post of a thread that was read.
Presents(post, p) ==
  /\ p \in posts
  /\ post = Shown(p, NoFingerprint, Backlinks(p))
  /\ Subject(post) = p

(* Every post of a served thread presents one of upstream's.                 *)
LEMMA Presented ==
  ASSUME Inv, NEW post \in Served
  PROVE  \E p \in posts : Presents(post, p)
<1>1. Numbered /\ Written
  BY DEF Inv, BoardInv
<1>2. answer.status = "served" /\ post \in Range(answer.thread.posts)
  BY DEF Served
<1>3. PICK root \in Openings, limit \in Limits : AnswerFor(root, limit)
  BY <1>2, AnswerServed
<1>4. PICK n \in DOMAIN answer.thread.posts : post = answer.thread.posts[n]
  BY <1>2 DEF Range
<1>5. PICK p \in Thread(root) : post = Shown(p, NoFingerprint, Backlinks(p))
  BY <1>3, <1>4 DEF AnswerFor
<1>6. p \in posts
  BY <1>5 DEF Thread
<1>7. PICK f, links : f = NoFingerprint /\ links = Backlinks(p)
  OBVIOUS
<1>8. post = Shown(p, f, links)
  BY <1>5, <1>7
<1>9. Subject(post) = p
  BY <1>1, <1>6, <1>8, ShownFields, AboutOne
<1> QED
  BY <1>5, <1>6, <1>9 DEF Presents

(* Every post the gateway was told of is an event for exactly the webhooks   *)
(* that take its board if it may pass on, and for none if not: event ids do  *)
(* not collide, envelopes stop nothing, nothing sensitive gets through.      *)
THEOREM NoEventIsSwallowed == Spec => []NoEventSwallowed
<1>1. Inv => NoEventSwallowed
  <2> SUFFICES ASSUME Inv, NEW p \in seen
               PROVE  {w \in {x.name : x \in Range(cfg.webhooks)} :
                         \E e \in stored : w \in DOMAIN e.deliveries
                                           /\ IsAbout(e.deliveries[w].post, p)}
                      = IF Passable(p) THEN {w.name : w \in Taking(p.board)} ELSE {}
    BY DEF NoEventSwallowed
  <2>1. Numbered /\ Written /\ Recorded /\ p \in posts
    BY DEF Inv, BoardInv, Recorded
  <2> DEFINE Names(b) == {x.name : x \in Taking(b)}
             Gets(w) == \E e \in stored : w \in DOMAIN e.deliveries
                                          /\ IsAbout(e.deliveries[w].post, p)
  <2>2. Names(p.board) \subseteq {x.name : x \in Range(cfg.webhooks)}
    BY DEF Taking, ToSet, Range
  <2>3. ASSUME NEW w, NEW e \in stored, w \in DOMAIN e.deliveries, IsAbout(e.deliveries[w].post, p)
        PROVE  Passable(p) /\ w \in Names(p.board)
    <3>1. PICK q \in seen : Passable(q) /\ e = EventOf(q)
      BY <2>1, <2>3 DEF Recorded
    <3>2. w \in Names(q.board)
      BY <2>3, <3>1, EventFacts
    <3>3. PICK f, none, post : f = FingerprintFor(w, q) /\ none = <<>> /\ post = Shown(q, f, none)
      OBVIOUS
    <3>4. post = e.deliveries[w].post
      BY <3>1, <3>2, <3>3, EventFacts
    <3>5. q = p
      <4>1. q \in posts
        BY <2>1 DEF Recorded
      <4> QED
        BY <2>1, <2>3, <3>3, <3>4, <4>1, ShownFields, AboutOne
    <3> QED
      BY <3>1, <3>2, <3>5
  <2>4. ASSUME NEW w \in Names(p.board), Passable(p) PROVE Gets(w)
    <3>1. Taking(p.board) # {}
      BY <2>4
    <3>2. PICK e : e = EventOf(p)
      OBVIOUS
    <3>3. e \in stored
      BY <2>1, <2>4, <3>1, <3>2 DEF Recorded
    <3>4. PICK f, none, post : f = FingerprintFor(w, p) /\ none = <<>> /\ post = Shown(p, f, none)
      OBVIOUS
    <3>5. post = e.deliveries[w].post /\ w \in DOMAIN e.deliveries
      BY <2>4, <3>2, <3>4, EventFacts
    <3>6. IsAbout(post, p)
      BY <2>1, <3>4, ShownFields, AboutOne
    <3> QED
      BY <3>3, <3>5, <3>6
  <2> QED
    BY <2>2, <2>3, <2>4
<1> QED
  BY <1>1, Invariance, PTL

(* A thread is served unless one of its posts must not pass; posts of the    *)
(* board's other threads do not matter.                                      *)
THEOREM ReadsFailClosed == Spec => []ReadFailsClosed
<1>1. Inv => ReadFailsClosed
  <2> SUFFICES ASSUME Inv, answer # NoAnswer
               PROVE  answer.status = "served" <=>
                        \A p \in Asked : Passable(p)
    BY DEF ReadFailsClosed
  <2>1. PICK root \in Openings, limit \in Limits : AnswerFor(root, limit)
    BY DEF Inv, BoardInv, Answered
  <2>2. answer.status = (IF \A p \in Thread(root) : Passable(p) THEN "served" ELSE "failed")
        /\ answer.thread.board = root.board /\ answer.thread.id = root.id
    BY <2>1 DEF AnswerFor
  <2>3. Asked = Thread(root)
    BY <2>2 DEF Asked, Thread
  <2> QED
    BY <2>2, <2>3
<1> QED
  BY <1>1, Invariance, PTL

(* The origin of a post, in events and in reads, is the integration that     *)
(* wrote it through the gateway, and nothing for anybody else.               *)
THEOREM OriginsAreAuthors == Spec => []OriginIsAuthor
<1>1. Inv => OriginIsAuthor
  <2> SUFFICES ASSUME Inv, NEW post, post \in {Delivered(d) : d \in Deliveries} \cup Served
               PROVE  post.origin = Subject(post).author
    BY DEF OriginIsAuthor
  <2>1. ASSUME NEW d \in Deliveries, post = Delivered(d)
        PROVE  post.origin = Subject(post).author
    <3>1. PICK q \in posts : Tells(d, q)
      BY Told
    <3>2. PICK f, none : f = FingerprintFor(d[1], q) /\ none = <<>>
      OBVIOUS
    <3>3. post = Shown(q, f, none) /\ Subject(post) = q
      BY <2>1, <3>1, <3>2 DEF Tells
    <3> QED
      BY <3>3, ShownFields
  <2>2. ASSUME post \in Served PROVE post.origin = Subject(post).author
    <3>1. PICK p \in posts : Presents(post, p)
      BY <2>2, Presented
    <3>2. PICK f, links : f = NoFingerprint /\ links = Backlinks(p)
      OBVIOUS
    <3>3. post = Shown(p, f, links) /\ Subject(post) = p
      BY <3>1, <3>2 DEF Presents
    <3> QED
      BY <3>3, ShownFields
  <2> QED
    BY <2>1, <2>2
<1> QED
  BY <1>1, Invariance, PTL

Strip(post, f, links) == [post EXCEPT !.poster_fingerprint = f, !.referenced_by = links]
Cut(post, links) == [post EXCEPT !.referenced_by = links]

(* But for the fingerprint and the backlinks a post is shown the same.       *)
LEMMA Stripped ==
  ASSUME NEW p, NEW f, NEW g, NEW links, NEW none, NEW more
  PROVE  Strip(Shown(p, f, links), g, none) = Cut(Shown(p, g, more), none)
<1> DEFINE t == ThreadOf(p)
           url == <<p.board, t, p.id>>
           text == Text("text")
           trip == Text(p.tripcode)
           refs == post_refs(p.quotes, p.board, t)
           back(l) == post_refs(l, p.board, t)
           Post(fp, l) == [board |-> p.board, thread_id |-> t, id |-> p.id, url |-> url,
              date |-> p.kind.date, message |-> text, tripcode |-> trip,
              poster_fingerprint |-> fp, origin |-> p.author,
              references |-> refs, referenced_by |-> l]
<1>1. Shown(p, f, links) = Post(f, back(links)) /\ Shown(p, g, more) = Post(g, back(more))
  BY DEF Shown
<1> HIDE DEF t, url, text, trip, refs, back
<1>2. [Post(f, back(links)) EXCEPT !.poster_fingerprint = g, !.referenced_by = none] = Post(g, none)
  <2>1. PICK r : r = Post(f, back(links))
    OBVIOUS
  <2>2. PICK m : m = [r EXCEPT !.poster_fingerprint = g]
    OBVIOUS
  <2>3. m = Post(g, back(links))
    BY <2>1, <2>2
  <2>4. [m EXCEPT !.referenced_by = none] = Post(g, none)
    BY <2>3
  <2> HIDE DEF Post
  <2>5. [r EXCEPT !.poster_fingerprint = g, !.referenced_by = none] = [m EXCEPT !.referenced_by = none]
    BY ONLY <2>2
  <2> QED
    BY <2>1, <2>4, <2>5
<1>3. [Post(g, back(more)) EXCEPT !.referenced_by = none] = Post(g, none)
  OBVIOUS
<1> HIDE DEF Post
<1> QED
  BY <1>1, <1>2, <1>3 DEF Strip, Cut

(* An event and a later read show the same post, but for the fingerprint and *)
(* the replies it has got since, in whichever form upstream gives a thread.  *)
THEOREM EventsAndReadsAgree == Spec => []EventAndReadAgree
<1>1. Inv => EventAndReadAgree
  <2> SUFFICES ASSUME Inv, NEW d \in Deliveries, NEW post \in Served,
                      Delivered(d).board = post.board, Delivered(d).id = post.id
               PROVE  [Delivered(d) EXCEPT !.poster_fingerprint = NoFingerprint, !.referenced_by = <<>>]
                      = [post EXCEPT !.referenced_by = <<>>]
    BY DEF EventAndReadAgree
  <2>1. PICK q \in posts : Tells(d, q)
    BY Told
  <2>2. PICK p \in posts : Presents(post, p)
    BY Presented
  <2>3. PICK f, none, g, links : /\ f = FingerprintFor(d[1], q) /\ none = <<>>
                                 /\ g = NoFingerprint /\ links = Backlinks(p)
    OBVIOUS
  <2>4. PICK told : told = Delivered(d)
    OBVIOUS
  <2>5. told = Shown(q, f, none) /\ post = Shown(p, g, links)
    BY <2>1, <2>2, <2>3, <2>4 DEF Tells, Presents
  <2>6. q.board = p.board /\ q.id = p.id
    BY <2>4, <2>5, ShownFields
  <2>7. q = p
    BY <2>6 DEF Inv, BoardInv, Numbered
  <2>8. Strip(told, g, none) = Cut(post, none)
    BY <2>5, <2>7, Stripped
  <2> QED
    BY <2>3, <2>4, <2>8 DEF Strip, Cut
<1> QED
  BY <1>1, Invariance, PTL

-----------------------------------------------------------------------------
(* The names of webhooks do not contain the separator of a fingerprint.      *)
LEMMA ScopeNames ==
  ASSUME LoadInv, step = "running", NEW x \in Range(cfg.webhooks)
  PROVE  x.name \in Seq(STRING) /\ \A i \in 1..Len(x.name) : x.name[i] # "NUL"
<1> DEFINE N == Len(Integrations)
<1>1. LoadTypeOK /\ Valid(N) /\ Resolved(N) /\ N \in Nat /\ DOMAIN Integrations = 1..N
  BY RunningConfig, FileTypes DEF LoadTypeOK
<1>2. PICK i \in 1..N : x = WebhookConfig(Integrations[i])
  BY <1>1 DEF Resolved
<1>3. x.name = Integrations[i].name
  BY <1>2 DEF WebhookConfig
<1>4. Range(x.name) \subseteq NameChars
  BY <1>1, <1>3 DEF Valid, Proper
<1>5. x.name \in Seq(STRING)
  BY <1>1, <1>3, FileTypes DEF FileIntegration, LoadTypeOK
<1>6. \A k \in 1..Len(x.name) : x.name[k] \in NameChars
  <2>1. DOMAIN x.name = 1..Len(x.name)
    BY <1>5, LenProperties
  <2> QED
    BY <1>4, <2>1 DEF Range
<1> QED
  BY <1>5, <1>6 DEF NameChars

(* There are events only once the gateway runs.                              *)
LEMMA EventsWhenRunning ==
  ASSUME Inv, NEW d \in Deliveries
  PROVE  LoadInv /\ step = "running"
<1>1. stored # {}
  BY DEF Deliveries
<1> QED
  BY <1>1 DEF Inv, BoardInv, Idle

(* The fingerprint in a payload is name, separator and identity if the       *)
(* webhook opted in and the poster is known, and absent otherwise; no name   *)
(* contains the separator.                                                   *)
LEMMA FingerprintTold ==
  ASSUME Inv, NEW d \in Deliveries, NEW q \in posts, Tells(d, q), NEW w, w = d[1],
         NEW core, core = q.kind.cloak.core
  PROVE  LET OptedIn == \E x \in Range(cfg.webhooks) : x.name = w /\ x.include_poster_fingerprint
             Known == <<"ip", "cloak">> \in q.kind.members /\ core # <<>>
         IN  /\ w \in Seq(STRING) /\ core \in Seq(STRING)
             /\ \A i \in 1..Len(w) : w[i] # "NUL"
             /\ Delivered(d).poster_fingerprint =
                  IF OptedIn /\ Known THEN w \o <<"NUL">> \o core ELSE NoFingerprint
<1> DEFINE OptedIn == \E x \in Range(cfg.webhooks) : x.name = w /\ x.include_poster_fingerprint
           Known == <<"ip", "cloak">> \in q.kind.members /\ core # <<>>
<1>1. LoadInv /\ step = "running"
  BY EventsWhenRunning
<1>2. PICK y \in Taking(q.board) : y.name = w
  BY DEF Tells
<1>3. y \in Range(cfg.webhooks) /\ Taking(q.board) \subseteq Range(cfg.webhooks)
  BY <1>2 DEF Taking, ToSet, Range
<1>4. w \in Seq(STRING) /\ \A i \in 1..Len(w) : w[i] # "NUL"
  BY <1>1, <1>2, <1>3, ScopeNames
<1>5. core \in Seq(STRING)
  <2>1. q.kind \in Kinds
    BY DEF Inv, BoardInv, Written
  <2> QED
    BY <2>1, KindFacts
<1>6. OptedIn <=> \E x \in Taking(q.board) : x.name = w /\ x.include_poster_fingerprint
  BY <1>1, <1>2, <1>3, WebhookFacts
<1>7. PICK f, none : f = FingerprintFor(w, q) /\ none = <<>>
  OBVIOUS
<1>8. Delivered(d) = Shown(q, f, none)
  BY <1>7 DEF Tells
<1>9. Delivered(d).poster_fingerprint = f
  BY <1>8, ShownFields
<1>10. f = IF OptedIn THEN poster_fingerprint(w, Identity(q)) ELSE NoFingerprint
  BY <1>6, <1>7 DEF FingerprintFor
<1>11. Identity(q) = IF <<"ip", "cloak">> \in q.kind.members THEN core ELSE <<>>
  BY DEF Identity
<1>12. poster_fingerprint(w, Identity(q)) = IF Known THEN w \o <<"NUL">> \o core ELSE NoFingerprint
  BY <1>11 DEF poster_fingerprint
<1> QED
  BY <1>4, <1>5, <1>9, <1>10, <1>12

(* Two fingerprints are equal exactly when they are one poster's, told to    *)
(* one webhook; only webhooks that opted in get any, and reads show none.    *)
THEOREM FingerprintsAreScoped == Spec => []FingerprintsScoped
<1> DEFINE Core(d) == Subject(Delivered(d)).kind.cloak.core
           Known(d) == <<"ip", "cloak">> \in Subject(Delivered(d)).kind.members /\ Core(d) # <<>>
           OptedIn(w) == \E x \in Range(cfg.webhooks) : x.name = w /\ x.include_poster_fingerprint
           Fingerprint(d) == Delivered(d).poster_fingerprint
<1>1. ASSUME Inv, NEW d \in Deliveries
      PROVE  /\ d[1] \in Seq(STRING) /\ Core(d) \in Seq(STRING)
             /\ \A i \in 1..Len(d[1]) : d[1][i] # "NUL"
             /\ Fingerprint(d) = IF OptedIn(d[1]) /\ Known(d)
                                 THEN d[1] \o <<"NUL">> \o Core(d) ELSE NoFingerprint
  <2>1. PICK q \in posts : Tells(d, q)
    BY <1>1, Told
  <2>2. Subject(Delivered(d)) = q
    BY <2>1 DEF Tells
  <2>3. PICK w, core : w = d[1] /\ core = q.kind.cloak.core
    OBVIOUS
  <2>4. /\ w \in Seq(STRING) /\ core \in Seq(STRING)
        /\ \A i \in 1..Len(w) : w[i] # "NUL"
        /\ Delivered(d).poster_fingerprint =
             IF /\ \E x \in Range(cfg.webhooks) : x.name = w /\ x.include_poster_fingerprint
                /\ <<"ip", "cloak">> \in q.kind.members /\ core # <<>>
             THEN w \o <<"NUL">> \o core ELSE NoFingerprint
    BY <1>1, <2>1, <2>3, FingerprintTold
  <2> QED
    BY <2>2, <2>3, <2>4
<1>2. \A w, c \in Seq(STRING) : w \o <<"NUL">> \o c # NoFingerprint
  <2>1. ASSUME NEW w \in Seq(STRING), NEW c \in Seq(STRING) PROVE w \o <<"NUL">> \o c # <<>>
    <3>1. PICK z : z = "NUL"
      OBVIOUS
    <3>2. PICK u : u = w \o <<z>> \o c
      OBVIOUS
    <3>3. Len(u) = Len(w) + 1 + Len(c)
      BY <3>2, AroundSeparator
    <3>4. Len(u) # 0
      BY <3>3
    <3> QED
      BY <3>1, <3>2, <3>4
  <2> QED
    BY <2>1 DEF NoFingerprint
<1> HIDE DEF Core, Known, OptedIn, Fingerprint
<1>3. ASSUME Inv, NEW d \in Deliveries
      PROVE  Fingerprint(d) # NoFingerprint <=> OptedIn(d[1]) /\ Known(d)
  BY <1>1, <1>2, <1>3
<1>4. ASSUME Inv, NEW c \in Deliveries, NEW d \in Deliveries,
             Fingerprint(c) # NoFingerprint, Fingerprint(d) # NoFingerprint
      PROVE  Fingerprint(c) = Fingerprint(d) <=> c[1] = d[1] /\ Core(c) = Core(d)
  <2>1. PICK v, w, x, y : v = c[1] /\ w = d[1] /\ x = Core(c) /\ y = Core(d)
    OBVIOUS
  <2>2. /\ v \in Seq(STRING) /\ x \in Seq(STRING) /\ \A i \in 1..Len(v) : v[i] # "NUL"
        /\ Fingerprint(c) = v \o <<"NUL">> \o x
    BY <1>1, <1>4, <2>1
  <2>3. /\ w \in Seq(STRING) /\ y \in Seq(STRING) /\ \A i \in 1..Len(w) : w[i] # "NUL"
        /\ Fingerprint(d) = w \o <<"NUL">> \o y
    BY <1>1, <1>4, <2>1
  <2>4. v \o <<"NUL">> \o x = w \o <<"NUL">> \o y => v = w /\ x = y
    <3>1. PICK z : z = "NUL"
      OBVIOUS
    <3>2. (\A i \in 1..Len(v) : v[i] # z) /\ (\A i \in 1..Len(w) : w[i] # z)
      BY <2>2, <2>3, <3>1
    <3>3. v \in Seq(STRING) /\ w \in Seq(STRING) /\ x \in Seq(STRING) /\ y \in Seq(STRING)
      BY <2>2, <2>3
    <3>4. Joined(v, z, x) = Joined(w, z, y) => v = w /\ x = y
      BY ONLY <3>2, <3>3, ScopesSeparated
    <3> QED
      BY <3>1, <3>4 DEF Joined
  <2> QED
    BY <2>1, <2>2, <2>3, <2>4
<1>5. ASSUME Inv, NEW post \in Served PROVE post.poster_fingerprint = NoFingerprint
  <2>1. PICK p \in posts : Presents(post, p)
    BY <1>5, Presented
  <2>2. PICK f, links : f = NoFingerprint /\ links = Backlinks(p)
    OBVIOUS
  <2>3. post = Shown(p, f, links)
    BY <2>1, <2>2 DEF Presents
  <2> QED
    BY <2>2, <2>3, ShownFields
<1>6. Inv => FingerprintsScoped
  BY <1>3, <1>4, <1>5 DEF FingerprintsScoped, Core, Known, OptedIn, Fingerprint
<1> QED
  BY <1>6, Invariance, PTL

-----------------------------------------------------------------------------
NewestOf(S, shown, c) ==
  {post.id : post \in Range(shown)}
  = {p.id : p \in {q \in S : Cardinality({r \in S : r.id > q.id}) < c}}

(* The window has the newest posts in ascending order, and is shorter than   *)
(* the thread exactly when it says so.                                       *)
LEMMA WindowOf ==
  ASSUME Numbered, Written, NEW root \in Openings, NEW limit \in Nat, AnswerFor(root, limit),
         NEW shown, shown = answer.thread.posts,
         NEW c, c = clamp(limit), NEW S, S = Thread(root), NEW N, N = Cardinality(S)
  PROVE  /\ NewestOf(S, shown, c)
         /\ \A i, j \in DOMAIN shown : i < j => shown[i].id < shown[j].id
         /\ answer.thread.truncated <=> Len(shown) < N
<1> DEFINE k == IF N > c THEN c ELSE N
<1>0. IsFiniteSet(S) /\ (\A p \in S : p.id \in Int) /\ \A p, q \in S : p.id = q.id => p = q
  BY ThreadFacts
<1>1. N \in Nat /\ c \in Nat \ {0}
  BY <1>0, FS_CardinalityType, ClampFacts
<1>2. k \in Nat /\ k <= N /\ k <= c /\ (k = N \/ k = c) /\ (N > c <=> k < N)
  BY <1>1
<1>3. /\ DOMAIN shown = 1..k /\ answer.thread.truncated = (N > c)
      /\ \A n \in 1..k : \E p \in S :
           RankIn(S, p) = N - k + n /\ shown[n] = Shown(p, NoFingerprint, Backlinks(p))
  BY DEF AnswerFor
<1> HIDE DEF k
<1>r. /\ \A p \in S : RankIn(S, p) \in 1..N
      /\ \A p, q \in S : RankIn(S, p) < RankIn(S, q) <=> p.id < q.id
      /\ \A p, q \in S : RankIn(S, p) = RankIn(S, q) => p = q
      /\ \A p \in S : Cardinality({q \in S : q.id > p.id}) = N - RankIn(S, p)
  BY ONLY <1>0, RankFacts, N = Cardinality(S)
<1>4. ASSUME NEW n \in 1..k
      PROVE  \E p \in S : RankIn(S, p) = N - k + n /\ shown[n].id = p.id
  <2>1. PICK p \in S : RankIn(S, p) = N - k + n /\ shown[n] = Shown(p, NoFingerprint, Backlinks(p))
    BY <1>3
  <2>2. PICK f, links, post : f = NoFingerprint /\ links = Backlinks(p) /\ post = shown[n]
    OBVIOUS
  <2>3. post = Shown(p, f, links)
    BY <2>1, <2>2
  <2>4. post.id = p.id
    BY <2>3, ShownFields
  <2> QED
    BY <2>1, <2>2, <2>4
<1>5. \A i, j \in DOMAIN shown : i < j => shown[i].id < shown[j].id
  <2> SUFFICES ASSUME NEW i \in 1..k, NEW j \in 1..k, i < j PROVE shown[i].id < shown[j].id
    BY <1>3
  <2>1. PICK p \in S : RankIn(S, p) = N - k + i /\ shown[i].id = p.id
    BY <1>4
  <2>2. PICK q \in S : RankIn(S, q) = N - k + j /\ shown[j].id = q.id
    BY <1>4
  <2>3. RankIn(S, p) < RankIn(S, q)
    BY <1>1, <1>2, <2>1, <2>2
  <2>4. p.id < q.id
    BY <1>r, <2>3
  <2> QED
    BY <2>1, <2>2, <2>4
<1>6. answer.thread.truncated <=> Len(shown) < N
  <2>1. Len(shown) = k
    BY <1>2, <1>3
  <2> QED
    BY <1>2, <1>3, <2>1
<1>8. ASSUME NEW q \in S
      PROVE  Cardinality({r \in S : r.id > q.id}) < c <=> RankIn(S, q) > N - k
  <2>1. PICK rank : rank = RankIn(S, q)
    OBVIOUS
  <2>2. rank \in 1..N /\ Cardinality({r \in S : r.id > q.id}) = N - rank
    BY <1>r, <2>1
  <2>3. N - rank < c <=> rank > N - k
    BY <1>1, <1>2, <2>2
  <2> QED
    BY <2>1, <2>2, <2>3
<1> DEFINE ids == {post.id : post \in Range(shown)}
           near == {q \in S : Cardinality({r \in S : r.id > q.id}) < c}
<1>9. ASSUME NEW x \in ids PROVE x \in {p.id : p \in near}
  <2>1. PICK n \in 1..k : x = shown[n].id
    BY <1>3, <1>9 DEF Range
  <2>2. PICK p \in S : RankIn(S, p) = N - k + n /\ shown[n].id = p.id
    BY <1>4
  <2>3. x = p.id
    BY <2>1, <2>2
  <2>4. RankIn(S, p) > N - k
    BY <1>1, <1>2, <2>2
  <2>5. p \in near
    BY <1>8, <2>4
  <2> QED
    BY <2>3, <2>5
<1>10. ASSUME NEW p \in near PROVE p.id \in ids
  <2>1. p \in S /\ RankIn(S, p) > N - k /\ RankIn(S, p) \in 1..N
    BY <1>8, <1>r
  <2>2. PICK n : n = RankIn(S, p) - (N - k)
    OBVIOUS
  <2>3. n \in 1..k /\ N - k + n = RankIn(S, p)
    BY <1>1, <1>2, <2>1, <2>2
  <2>4. PICK q \in S : RankIn(S, q) = N - k + n /\ shown[n].id = q.id
    BY <1>4, <2>3
  <2>5. q = p
    BY <1>r, <2>1, <2>3, <2>4
  <2>6. shown[n] \in Range(shown)
    BY <1>3, <2>3 DEF Range
  <2> QED
    BY <2>4, <2>5, <2>6
<1>11. ids = {p.id : p \in near}
  <2> HIDE DEF ids, near
  <2> QED
    BY <1>9, <1>10
<1>12. NewestOf(S, shown, c)
  BY <1>11 DEF NewestOf
<1> QED
  BY <1>5, <1>6, <1>12

(* A read returns the newest posts of the thread, as many as the clamped     *)
(* limit allows, in the order of their numbers, whatever order upstream has  *)
(* them in, and says whether there were more.                                *)
THEOREM ReadsAreWindows == Spec => []ThreadWindow
<1>1. Inv => ThreadWindow
  <2> SUFFICES ASSUME Inv, answer.status = "served"
               PROVE  LET Newer(p) == Cardinality({q \in Asked : q.id > p.id})
                          shown == answer.thread.posts
                      IN  /\ {post.id : post \in Range(shown)}
                             = {p.id : p \in {q \in Asked : Newer(q) < clamp(answer.limit)}}
                          /\ \A i, j \in DOMAIN shown : i < j => shown[i].id < shown[j].id
                          /\ answer.thread.truncated <=> Len(shown) < Cardinality(Asked)
    BY DEF ThreadWindow
  <2>1. PICK root \in Openings, limit \in Limits : AnswerFor(root, limit)
    BY AnswerServed
  <2>2. answer.thread.board = root.board /\ answer.thread.id = root.id /\ answer.limit = limit
    BY <2>1 DEF AnswerFor
  <2>3. Asked = Thread(root)
    BY <2>2 DEF Asked, Thread
  <2>4. limit \in Nat /\ Numbered /\ Written
    BY BoardConstants DEF Inv, BoardInv
  <2>5. PICK shown, c, S, N : /\ shown = answer.thread.posts /\ c = clamp(limit)
                              /\ S = Thread(root) /\ N = Cardinality(S)
    OBVIOUS
  <2>6. /\ NewestOf(S, shown, c)
        /\ \A i, j \in DOMAIN shown : i < j => shown[i].id < shown[j].id
        /\ answer.thread.truncated <=> Len(shown) < N
    BY <2>1, <2>4, <2>5, WindowOf
  <2> QED
    BY <2>2, <2>3, <2>5, <2>6 DEF NewestOf
<1> QED
  BY <1>1, Invariance, PTL

-----------------------------------------------------------------------------
(* References.  In the context of board b and thread t a quote leads to the  *)
(* post it is of; an object says in which thread that is, the others leave   *)
(* it to the context.                                                        *)
QuotesOf(form, quoted) == {QuoteOf(form, q) : q \in quoted}

RefTo(q, form, t) ==
  [board |-> q.board, thread_id |-> IF form = "object" THEN ThreadOf(q) ELSE t, id |-> q.id]
RefsTo(quoted, form, t) == {RefTo(q, form, t) : q \in quoted}

InContext(form, quoted, b) ==
  \A q \in quoted : form = "object" \/ (form \in {"number", "text"} /\ q.board = b)

(* post_ref finds the board and the number of the quoted post, if a number   *)
(* or a text quotes within its own board, and its thread if it is told.      *)
LEMMA QuoteResolved ==
  ASSUME Written, NEW q \in posts, NEW form, NEW b, NEW t, NEW quote,
         quote = QuoteOf(form, q), form = "object" \/ (form \in {"number", "text"} /\ q.board = b)
  PROVE  Usable(quote) /\ post_ref(quote, b, t) = RefTo(q, form, t)
<1>1. q.board # ""
  BY BoardConstants DEF Written
<1>2. PICK u, n : u = ThreadOf(q) /\ n = q.id
  OBVIOUS
<1>3. /\ quote.form = form /\ quote.postId = <<n>>
      /\ quote.board = (IF form = "object" THEN q.board ELSE "")
      /\ quote.thread = (IF form = "object" THEN <<u>> ELSE <<>>)
  BY <1>2 DEF QuoteOf
<1>4. <<n>> # <<>> /\ <<n>>[1] = n /\ <<u>> # <<>> /\ <<u>>[1] = u
  OBVIOUS
<1>5. Usable(quote)
  BY <1>3, <1>4 DEF Usable
<1>6. (IF quote.form = "object" /\ quote.board # "" THEN quote.board ELSE b) = q.board
  BY <1>1, <1>3
<1>7. (IF quote.form = "object" /\ quote.thread # <<>> THEN quote.thread[1] ELSE t)
      = IF form = "object" THEN u ELSE t
  BY <1>3, <1>4
<1>8. quote.postId[1] = n
  BY <1>3, <1>4
<1>9. post_ref(quote, b, t) =
        [board |-> q.board, thread_id |-> IF form = "object" THEN u ELSE t, id |-> n]
  BY <1>6, <1>7, <1>8 DEF post_ref
<1> QED
  BY <1>2, <1>5, <1>9 DEF RefTo

(* Finitely many posts have finitely many quotes.                            *)
LEMMA QuotesFinite ==
  ASSUME NEW quoted, IsFiniteSet(quoted), NEW form
  PROVE  IsFiniteSet(QuotesOf(form, quoted))
<1> DEFINE f == [q \in quoted |-> QuoteOf(form, q)]
<1>1. f \in Surjection(quoted, QuotesOf(form, quoted))
  BY DEF Surjection, QuotesOf
<1> HIDE DEF f
<1> QED
  BY <1>1, FS_Surjection

\* The list holds the quotes, and otherwise nothing that refers to anything.
Lists(list, form, quoted) ==
  \E m \in Nat :
    /\ DOMAIN list = 1..m
    /\ \A i \in 1..m : Usable(list[i]) => list[i] \in QuotesOf(form, quoted)
    /\ \A quote \in QuotesOf(form, quoted) : \E i \in 1..m : list[i] = quote

(* post_refs turns a list of quotes into references to the posts quoted, and *)
(* leaves out what quotes none.                                              *)
LEMMA ListResolved ==
  ASSUME Written, NEW quoted \in SUBSET posts, NEW form, NEW b, NEW t,
         InContext(form, quoted, b), NEW list, Lists(list, form, quoted)
  PROVE  /\ post_refs(list, b, t) \in Seq(RefsTo(quoted, form, t))
         /\ Range(post_refs(list, b, t)) = RefsTo(quoted, form, t)
<1>1. PICK m \in Nat : /\ DOMAIN list = 1..m
                       /\ \A i \in 1..m : Usable(list[i]) => list[i] \in QuotesOf(form, quoted)
                       /\ \A quote \in QuotesOf(form, quoted) : \E i \in 1..m : list[i] = quote
  BY DEF Lists
<1> DEFINE refs == RefsOf(list, m, b, t)
<1>2. post_refs(list, b, t) \in Seq(refs) /\ Range(post_refs(list, b, t)) = refs
  BY <1>1, RefsOfList
<1>0. refs = {post_ref(list[i], b, t) : i \in {k \in 1..m : Usable(list[k])}}
  BY DEF RefsOf
<1> HIDE DEF refs
<1>3. ASSUME NEW x \in refs PROVE x \in RefsTo(quoted, form, t)
  <2>1. PICK i \in 1..m : Usable(list[i]) /\ x = post_ref(list[i], b, t)
    BY <1>0
  <2>2. PICK q \in quoted : list[i] = QuoteOf(form, q)
    BY <1>1, <2>1 DEF QuotesOf
  <2>3. PICK quote : quote = list[i]
    OBVIOUS
  <2>4. post_ref(quote, b, t) = RefTo(q, form, t)
    BY <2>2, <2>3, QuoteResolved DEF InContext
  <2> QED
    BY <2>1, <2>3, <2>4 DEF RefsTo
<1>4. ASSUME NEW x \in RefsTo(quoted, form, t) PROVE x \in refs
  <2>1. PICK q \in quoted : x = RefTo(q, form, t)
    BY DEF RefsTo
  <2>2. PICK quote : quote = QuoteOf(form, q)
    OBVIOUS
  <2>3. Usable(quote) /\ post_ref(quote, b, t) = RefTo(q, form, t)
    BY <2>2, QuoteResolved DEF InContext
  <2>4. PICK i \in 1..m : list[i] = quote
    BY <1>1, <2>2 DEF QuotesOf
  <2> QED
    BY <1>0, <2>1, <2>3, <2>4
<1>5. refs = RefsTo(quoted, form, t)
  BY <1>3, <1>4
<1> QED
  BY <1>2, <1>5

(* What a post refers to, as a contract post has it.                         *)
LEMMA ReferencesOf ==
  ASSUME Numbered, Written, NEW p \in posts
  PROVE  \E quoted \in SUBSET posts :
           LET refs == RefsTo(quoted, p.kind.quote, ThreadOf(p))
           IN  /\ p.quoted = {Coordinates(q) : q \in quoted}
               /\ post_refs(p.quotes, p.board, ThreadOf(p)) \in Seq(refs)
               /\ Range(post_refs(p.quotes, p.board, ThreadOf(p))) = refs
<1>1. PICK quoted \in SUBSET posts : Quotes(p, quoted)
  BY DEF Written
<1>2. PICK form, list, b, t : /\ form = p.kind.quote /\ list = p.quotes /\ b = p.board
                              /\ t = ThreadOf(p)
  OBVIOUS
<1>3. PICK Q : Q = QuotesOf(form, quoted)
  OBVIOUS
<1>4. /\ p.quoted = {Coordinates(q) : q \in quoted}
      /\ list = <<NoQuote>> \o SetToSeq(Q)
      /\ IsFiniteSet(quoted) /\ InContext(form, quoted, b)
  <2>1. /\ p.quoted = {Coordinates(q) : q \in quoted}
        /\ p.quotes = <<NoQuote>> \o SetToSeq(QuotesOf(p.kind.quote, quoted))
        /\ IsFiniteSet(quoted)
        /\ \A q \in quoted : \/ p.kind.quote = "object"
                             \/ p.kind.quote \in {"number", "text"} /\ q.board = p.board
    BY <1>1 DEF Quotes, QuotesOf
  <2>3. PICK k, no : k = p.kind.quote /\ no = NoQuote
    OBVIOUS
  <2>4. list = <<NoQuote>> \o SetToSeq(Q)
    <3>1. p.quotes = <<no>> \o SetToSeq(QuotesOf(k, quoted))
      BY <2>1, <2>3
    <3>2. list = <<no>> \o SetToSeq(Q)
      BY ONLY <1>2, <1>3, <2>3, <3>1
    <3> QED
      BY <2>3, <3>2
  <2>5. InContext(form, quoted, b)
    BY <1>2, <2>1 DEF InContext
  <2> QED
    BY <2>1, <2>4, <2>5
<1>5. IsFiniteSet(Q)
  BY <1>3, <1>4, QuotesFinite
<1>6. PICK M, s, no : M = Cardinality(Q) /\ s = SetToSeq(Q) /\ no = NoQuote
  OBVIOUS
<1>7. M \in Nat /\ s \in [1..M -> Q] /\ \A x \in Q : \E i \in 1..M : s[i] = x
  BY <1>5, <1>6, SequenceOfSet
<1>8. list = <<no>> \o s
  BY <1>4, <1>6
<1>9. /\ DOMAIN list = 1..(M + 1) /\ list[1] = no
      /\ \A i \in 2..(M + 1) : list[i] = s[i - 1]
  BY <1>7, <1>8, Prepended
<1>10. ~Usable(no)
  BY <1>6 DEF Usable, NoQuote
<1>11. Lists(list, form, quoted)
  <2>1. M + 1 \in Nat
    BY <1>7
  <2>2. ASSUME NEW i \in 1..(M + 1), Usable(list[i]) PROVE list[i] \in Q
    <3>1. i \in 2..(M + 1) /\ i - 1 \in 1..M
      BY <1>7, <1>9, <1>10, <2>2
    <3> QED
      BY <1>7, <1>9, <3>1
  <2>3. ASSUME NEW x \in Q PROVE \E i \in 1..(M + 1) : list[i] = x
    <3>1. PICK i \in 1..M : s[i] = x
      BY <1>7
    <3>2. i + 1 \in 2..(M + 1) /\ i + 1 \in 1..(M + 1) /\ (i + 1) - 1 = i
      BY <1>7
    <3>3. list[i + 1] = x
      BY <1>9, <3>1, <3>2
    <3> QED
      BY <3>2, <3>3
  <2> QED
    BY <1>3, <1>9, <2>1, <2>2, <2>3 DEF Lists
<1>12. /\ post_refs(list, b, t) \in Seq(RefsTo(quoted, form, t))
       /\ Range(post_refs(list, b, t)) = RefsTo(quoted, form, t)
  BY <1>4, <1>11, ListResolved
<1> QED
  BY <1>2, <1>4, <1>12

(* Who refers to a post, as the thread has it.                               *)
LEMMA BacklinksOf ==
  ASSUME Numbered, Written, NEW p \in posts
  PROVE  LET refs == RefsTo(QuotedBy(p), "text", ThreadOf(p))
         IN  /\ post_refs(Backlinks(p), p.board, ThreadOf(p)) \in Seq(refs)
             /\ Range(post_refs(Backlinks(p), p.board, ThreadOf(p))) = refs
<1>1. PICK quoted, b, form, t : /\ quoted = QuotedBy(p) /\ b = p.board /\ form = "text"
                                /\ t = ThreadOf(p)
  OBVIOUS
<1>2. quoted \in SUBSET posts /\ InContext(form, quoted, b)
  BY <1>1 DEF QuotedBy, InContext
<1>3. IsFiniteSet(quoted)
  BY <1>2, FS_Subset DEF Numbered
<1>4. PICK Q : Q = QuotesOf(form, quoted)
  OBVIOUS
<1>5. IsFiniteSet(Q)
  BY <1>3, <1>4, QuotesFinite
<1>6. PICK M, list : M = Cardinality(Q) /\ list = SetToSeq(Q)
  OBVIOUS
<1>7. M \in Nat /\ list \in [1..M -> Q] /\ \A x \in Q : \E i \in 1..M : list[i] = x
  BY <1>5, <1>6, SequenceOfSet
<1>8. list = Backlinks(p)
  BY <1>1, <1>4, <1>6 DEF Backlinks, QuotesOf
<1>9. Lists(list, form, quoted)
  BY <1>4, <1>7 DEF Lists
<1>10. /\ post_refs(list, b, t) \in Seq(RefsTo(quoted, form, t))
       /\ Range(post_refs(list, b, t)) = RefsTo(quoted, form, t)
  BY <1>2, <1>9, ListResolved
<1> QED
  BY <1>1, <1>8, <1>10

(* A reference has the place of the post it is to, and all its coordinates   *)
(* if it says the thread or shares it.                                       *)
LEMMA RefsPlaced ==
  ASSUME NEW quoted, NEW form, NEW t, NEW refs, refs = RefsTo(quoted, form, t),
         NEW all, all = {Coordinates(q) : q \in quoted}
  PROVE  /\ Places(refs) = Places(all)
         /\ form = "object" \/ (\A c \in all : c.thread_id = t) => refs = all
         /\ {c \in all : c.thread_id = t} \subseteq refs
<1>1. \A q : /\ Coordinates(q).board = q.board /\ Coordinates(q).id = q.id
             /\ Coordinates(q).thread_id = ThreadOf(q)
             /\ RefTo(q, form, t).board = q.board /\ RefTo(q, form, t).id = q.id
  BY DEF Coordinates, RefTo
<1>2. \A q : Place(RefTo(q, form, t)) = Place(Coordinates(q))
  BY <1>1 DEF Place
<1>3. \A q : form = "object" \/ ThreadOf(q) = t => RefTo(q, form, t) = Coordinates(q)
  BY DEF Coordinates, RefTo
<1>4. Places(refs) = Places(all)
  <2>1. Places(refs) = {Place(RefTo(q, form, t)) : q \in quoted}
    BY DEF Places, RefsTo
  <2>2. Places(all) = {Place(Coordinates(q)) : q \in quoted}
    BY DEF Places
  <2> QED
    BY <1>2, <2>1, <2>2
<1>5. ASSUME form = "object" \/ \A c \in all : c.thread_id = t PROVE refs = all
  <2>1. \A q \in quoted : RefTo(q, form, t) = Coordinates(q)
    BY <1>1, <1>3, <1>5
  <2> QED
    BY <2>1 DEF RefsTo
<1>6. ASSUME NEW c \in all, c.thread_id = t PROVE c \in refs
  <2>1. PICK q \in quoted : c = Coordinates(q)
    OBVIOUS
  <2>2. RefTo(q, form, t) = c
    BY <1>1, <1>3, <1>6, <2>1
  <2> QED
    BY <2>2 DEF RefsTo
<1> QED
  BY <1>4, <1>5, <1>6

(* What ReferencesResolve says of the references of a post.                  *)
RightReferences(post, p) ==
  /\ Places(Range(post.references)) = Places(p.quoted)
  /\ p.kind.quote = "object" \/ (\A c \in p.quoted : c.thread_id = ThreadOf(p))
       => Range(post.references) = p.quoted

(* However it is shown, a post refers to what it quotes.                     *)
LEMMA ShownReferences ==
  ASSUME Numbered, Written, NEW p \in posts, NEW f, NEW links,
         NEW post, post = Shown(p, f, links)
  PROVE  RightReferences(post, p)
<1>1. post.references = post_refs(p.quotes, p.board, ThreadOf(p))
  BY ShownFields
<1>2. PICK quoted \in SUBSET posts :
        /\ p.quoted = {Coordinates(q) : q \in quoted}
        /\ Range(post_refs(p.quotes, p.board, ThreadOf(p)))
           = RefsTo(quoted, p.kind.quote, ThreadOf(p))
  BY ReferencesOf
<1>3. PICK form, t, refs, all : /\ form = p.kind.quote /\ t = ThreadOf(p)
                                /\ refs = Range(post.references) /\ all = p.quoted
  OBVIOUS
<1>4. refs = RefsTo(quoted, form, t) /\ all = {Coordinates(q) : q \in quoted}
  BY <1>1, <1>2, <1>3
<1>5. /\ Places(refs) = Places(all)
      /\ form = "object" \/ (\A c \in all : c.thread_id = t) => refs = all
  BY <1>4, RefsPlaced
<1> QED
  BY <1>3, <1>5 DEF RightReferences

(* Every reference names the post that was quoted, whatever the form and the *)
(* thread; if upstream said the thread, or the quoted post is of the quoting *)
(* one's, the reference has the thread right as well.  A post of a thread    *)
(* that was read names the posts of its board that quote it, those of its    *)
(* thread with all coordinates.                                              *)
THEOREM ReferencesAreResolved == Spec => []ReferencesResolve
<1>1. ASSUME Inv, NEW d \in Deliveries, NEW post, post = Delivered(d)
      PROVE  RightReferences(post, Subject(post))
  <2>1. PICK q \in posts : Tells(d, q)
    BY <1>1, Told
  <2>2. PICK f, none : f = FingerprintFor(d[1], q) /\ none = <<>>
    OBVIOUS
  <2>3. post = Shown(q, f, none) /\ Subject(post) = q
    BY <1>1, <2>1, <2>2 DEF Tells
  <2> QED
    BY <1>1, <2>3, ShownReferences DEF Inv, BoardInv
<1>2. ASSUME Inv, NEW post \in Served
      PROVE  LET p == Subject(post)
                 quoting == {Coordinates(q) : q \in QuotedBy(p)}
             IN  /\ RightReferences(post, p)
                 /\ Places(Range(post.referenced_by)) = Places(quoting)
                 /\ {c \in quoting : c.thread_id = ThreadOf(p)} \subseteq Range(post.referenced_by)
  <2>1. PICK p \in posts : Presents(post, p)
    BY <1>2, Presented
  <2>2. PICK f, links : f = NoFingerprint /\ links = Backlinks(p)
    OBVIOUS
  <2>3. post = Shown(p, f, links) /\ Subject(post) = p
    BY <2>1, <2>2 DEF Presents
  <2>4. post.referenced_by = post_refs(links, p.board, ThreadOf(p))
    BY <2>3, ShownFields
  <2>5. Numbered /\ Written
    BY <1>2 DEF Inv, BoardInv
  <2>6. RightReferences(post, p)
    BY <2>3, <2>5, ShownReferences
  <2>7. PICK form, t, quoted, refs, all :
          /\ form = "text" /\ t = ThreadOf(p) /\ quoted = QuotedBy(p)
          /\ refs = Range(post.referenced_by) /\ all = {Coordinates(q) : q \in QuotedBy(p)}
    OBVIOUS
  <2>8. refs = RefsTo(quoted, form, t) /\ all = {Coordinates(q) : q \in quoted}
    BY <2>2, <2>4, <2>5, <2>7, BacklinksOf
  <2>9. Places(refs) = Places(all) /\ {c \in all : c.thread_id = t} \subseteq refs
    BY <2>8, RefsPlaced
  <2> QED
    BY <2>3, <2>6, <2>7, <2>9
<1>3. Inv => ReferencesResolve
  BY <1>1, <1>2 DEF ReferencesResolve, RightReferences
<1> QED
  BY <1>3, Invariance, PTL

-----------------------------------------------------------------------------
(* The Go client.  It takes references with a board and positive numbers,    *)
(* and all references are like that.                                         *)
GoodRefs == {x \in [board : STRING, thread_id : Nat, id : Nat] :
               x.board # "" /\ x.thread_id > 0 /\ x.id > 0}

LEMMA Positive ==
  ASSUME NEW n \in Nat \ {0}
  PROVE  n > 0
  OBVIOUS

LEMMA GoodRef ==
  ASSUME NEW b \in STRING, b # "", NEW u \in Nat \ {0}, NEW n \in Nat \ {0}
  PROVE  [board |-> b, thread_id |-> u, id |-> n] \in GoodRefs
<1>1. u > 0 /\ n > 0
  BY Positive
<1> QED
  BY <1>1 DEF GoodRefs

LEMMA RefsGood ==
  ASSUME Numbered, Written, NEW quoted \in SUBSET posts, NEW form, NEW t \in Nat \ {0}
  PROVE  RefsTo(quoted, form, t) \in SUBSET GoodRefs
<1> SUFFICES ASSUME NEW q \in quoted PROVE RefTo(q, form, t) \in GoodRefs
  BY DEF RefsTo
<1>1. q \in posts /\ q.id \in Nat \ {0} /\ ThreadOf(q) \in Nat \ {0}
  BY ThreadNumbers
<1>2. q.board \in STRING /\ q.board # ""
  BY <1>1, BoardConstants DEF Written
<1>3. PICK u, b, n : u = (IF form = "object" THEN ThreadOf(q) ELSE t) /\ b = q.board /\ n = q.id
  OBVIOUS
<1>4. u \in Nat \ {0} /\ b \in STRING /\ b # "" /\ n \in Nat \ {0}
  BY <1>1, <1>2, <1>3
<1>5. [board |-> b, thread_id |-> u, id |-> n] \in GoodRefs
  BY <1>4, GoodRef
<1> QED
  BY <1>3, <1>5 DEF RefTo

(* The Go client's validatePost takes a post as the contract shows it.       *)
LEMMA ShownValid ==
  ASSUME Numbered, Written, NEW p \in posts, NEW f, NEW links,
         post_refs(links, p.board, ThreadOf(p)) \in Seq(GoodRefs),
         NEW post, post = Shown(p, f, links)
  PROVE  validatePost(post)
<1>1. /\ post.board = p.board /\ post.thread_id = ThreadOf(p) /\ post.id = p.id
      /\ post.references = post_refs(p.quotes, p.board, ThreadOf(p))
      /\ post.referenced_by = post_refs(links, p.board, ThreadOf(p))
  BY ShownFields
<1>2. p.id \in Nat \ {0} /\ ThreadOf(p) \in Nat \ {0}
  BY ThreadNumbers
<1>3. PICK r, s, t : r = post.references /\ s = post.referenced_by /\ t = r \o s
  OBVIOUS
<1>4. r \in Seq(GoodRefs)
  <2>1. PICK quoted \in SUBSET posts :
          r \in Seq(RefsTo(quoted, p.kind.quote, ThreadOf(p)))
    BY <1>1, <1>3, ReferencesOf
  <2>2. PICK Q : Q = RefsTo(quoted, p.kind.quote, ThreadOf(p))
    OBVIOUS
  <2>3. Q \in SUBSET GoodRefs
    BY <1>2, <2>2, RefsGood
  <2>4. r \in Seq(Q)
    BY <2>1, <2>2
  <2> QED
    BY <2>3, <2>4
<1>5. s \in Seq(GoodRefs)
  BY <1>1, <1>3
<1>6. post.board # ""
  BY <1>1, BoardConstants DEF Written
<1>7. post.thread_id > 0 /\ post.id > 0
  BY <1>1, <1>2
<1>8. t \in Seq(GoodRefs)
  BY <1>3, <1>4, <1>5, ConcatProperties
<1>9. \A i \in DOMAIN t : t[i] \in GoodRefs
  BY <1>8
<1>10. \A x \in GoodRefs : x.board # "" /\ x.thread_id > 0 /\ x.id > 0
  BY DEF GoodRefs
<1>11. \A ref \in ToSet(t) : ref.board # "" /\ ref.thread_id > 0 /\ ref.id > 0
  BY <1>9, <1>10 DEF ToSet
<1> QED
  BY <1>3, <1>6, <1>7, <1>11 DEF validatePost

(* An empty list has no references.                                          *)
LEMMA NoReferences ==
  ASSUME NEW b, NEW t, NEW S
  PROVE  post_refs(<<>>, b, t) \in Seq(S)
<1>1. PICK none, m : none = <<>> /\ m = 0
  OBVIOUS
<1>2. DOMAIN none = 1..m /\ m \in Nat
  BY <1>1
<1>3. post_refs(none, b, t) \in Seq(RefsOf(none, m, b, t))
  BY <1>2, RefsOfList
<1>4. RefsOf(none, m, b, t) = {}
  BY <1>1 DEF RefsOf
<1>5. PICK Q : Q = RefsOf(none, m, b, t)
  OBVIOUS
<1>6. Q \in SUBSET S /\ post_refs(none, b, t) \in Seq(Q)
  BY <1>3, <1>4, <1>5
<1>7. post_refs(none, b, t) \in Seq(S)
  BY <1>6
<1> QED
  BY <1>1, <1>7

(* The Go client takes every event the gateway stores, and every thread it   *)
(* serves whose posts upstream dated in the order of their numbers.          *)
THEOREM TheClientAccepts == Spec => []ClientAccepts
<1>1. ASSUME Inv, NEW d \in Deliveries
      PROVE  decodeWebhookEvent(d[2].event_id, d[2].deliveries[d[1]])
  <2>1. PICK q \in posts : Tells(d, q)
    BY <1>1, Told
  <2>2. PICK f, none, post : /\ f = FingerprintFor(d[1], q) /\ none = <<>>
                             /\ post = d[2].deliveries[d[1]].post
    OBVIOUS
  <2>3. post = Shown(q, f, none) /\ d[2].deliveries[d[1]].event_id = d[2].event_id
    BY <2>1, <2>2 DEF Tells, Delivered
  <2>4. post_refs(none, q.board, ThreadOf(q)) \in Seq(GoodRefs)
    BY <2>2, NoReferences
  <2>5. validatePost(post)
    BY <1>1, <2>3, <2>4, ShownValid DEF Inv, BoardInv
  <2> QED
    BY <2>2, <2>3, <2>5 DEF decodeWebhookEvent
<1>2. ASSUME Inv, answer.status = "served",
             \A p, q \in Asked : p.id < q.id => p.kind.date <= q.kind.date
      PROVE  validateThread(answer.thread, answer.thread.board, answer.thread.id)
  <2>1. PICK root \in Openings, limit \in Limits : AnswerFor(root, limit)
    BY <1>2, AnswerServed
  <2>2. Numbered /\ Written
    BY <1>2 DEF Inv, BoardInv
  <2>3. PICK S, N, k, shown : /\ S = Thread(root) /\ N = Cardinality(S)
                              /\ shown = answer.thread.posts
                              /\ k = IF N > clamp(limit) THEN clamp(limit) ELSE N
    OBVIOUS
  <2>4. /\ answer.thread.board = root.board /\ answer.thread.id = root.id /\ DOMAIN shown = 1..k
        /\ \A n \in 1..k : \E p \in S :
             RankIn(S, p) = N - k + n /\ shown[n] = Shown(p, NoFingerprint, Backlinks(p))
    BY <2>1, <2>3 DEF AnswerFor
  <2>s. /\ S \in SUBSET posts /\ IsFiniteSet(S) /\ \A p, q \in S : p.id = q.id => p = q
        /\ \A p \in S : p.board = root.board /\ ThreadOf(p) = root.id /\ p.id \in Int
    BY <2>2, <2>3, ThreadFacts
  <2>5. N \in Nat /\ k \in Nat
    <3>1. limit \in Nat
      BY BoardConstants
    <3>2. N \in Nat
      BY <2>3, <2>s, FS_CardinalityType
    <3> QED
      BY <2>3, <3>1, <3>2, ClampFacts
  <2>a. Asked = S
    BY <2>3, <2>4 DEF Asked, Thread
  <2>6. ASSUME NEW n \in 1..k
        PROVE  \E p \in S :
                 /\ RankIn(S, p) = N - k + n /\ validatePost(shown[n])
                 /\ shown[n].board = root.board /\ shown[n].thread_id = root.id
                 /\ shown[n].date = p.kind.date
    <3>1. PICK p \in S : RankIn(S, p) = N - k + n /\ shown[n] = Shown(p, NoFingerprint, Backlinks(p))
      BY <2>4
    <3>2. PICK f, links, post : f = NoFingerprint /\ links = Backlinks(p) /\ post = shown[n]
      OBVIOUS
    <3>3. post = Shown(p, f, links) /\ p \in posts /\ p.board = root.board /\ ThreadOf(p) = root.id
      BY <2>s, <3>1, <3>2
    <3>4. post_refs(links, p.board, ThreadOf(p)) \in Seq(GoodRefs)
      <4>1. PICK Q, l, quoted, form : /\ Q = RefsTo(quoted, form, ThreadOf(p))
                                      /\ quoted = QuotedBy(p) /\ form = "text"
                                      /\ l = post_refs(links, p.board, ThreadOf(p))
        OBVIOUS
      <4>2. l \in Seq(Q)
        BY <2>2, <3>2, <3>3, <4>1, BacklinksOf
      <4>3. quoted \in SUBSET posts /\ ThreadOf(p) \in Nat \ {0}
        BY <2>2, <3>3, <4>1, ThreadNumbers DEF QuotedBy
      <4>4. Q \in SUBSET GoodRefs
        BY <2>2, <4>1, <4>3, RefsGood
      <4> QED
        BY <4>1, <4>2, <4>4
    <3>5. validatePost(post)
      BY <2>2, <3>3, <3>4, ShownValid
    <3>6. post.board = p.board /\ post.thread_id = ThreadOf(p) /\ post.date = p.kind.date
      BY <3>3, ShownFields
    <3> QED
      BY <3>1, <3>2, <3>3, <3>5, <3>6
  <2>7. ASSUME NEW i \in 1..k, i > 1 PROVE shown[i].date >= shown[i - 1].date
    <3>1. i - 1 \in 1..k
      BY <2>5, <2>7
    <3>2. PICK p \in S : RankIn(S, p) = N - k + i /\ shown[i].date = p.kind.date
      BY <2>6
    <3>3. PICK q \in S : RankIn(S, q) = N - k + (i - 1) /\ shown[i - 1].date = q.kind.date
      BY <2>6, <3>1
    <3>4. RankIn(S, q) < RankIn(S, p)
      BY <2>5, <3>2, <3>3
    <3>5. q.id < p.id
      BY ONLY <2>s, <3>4, p \in S, q \in S, RankFacts
    <3>6. q.kind.date <= p.kind.date
      BY <1>2, <2>a, <3>5
    <3>7. q.kind.date \in Nat /\ p.kind.date \in Nat
      BY <2>2, <2>s, KindFacts DEF Written
    <3> QED
      BY <3>2, <3>3, <3>6, <3>7
  <2>8. \A i \in DOMAIN shown :
          /\ validatePost(shown[i])
          /\ shown[i].board = root.board /\ shown[i].thread_id = root.id
          /\ i > 1 => shown[i].date >= shown[i - 1].date
    BY <2>4, <2>6, <2>7
  <2> QED
    BY <2>3, <2>4, <2>8 DEF validateThread
<1>3. Inv => ClientAccepts
  BY <1>1, <1>2 DEF ClientAccepts
<1> QED
  BY <1>3, Invariance, PTL
=============================================================================
