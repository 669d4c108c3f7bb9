------------------------------ MODULE MCBoard ------------------------------
(***************************************************************************)
(* Small instances of Board: files of one or two integrations with each    *)
(* mistake validation looks for, and a few files whose boards are used.    *)
(***************************************************************************)
EXTENDS Board

Bucket(requests, window, burst) ==
  [requests |-> requests, window |-> window, burst |-> burst]
Usual == Bucket(2, 4, 2)
Both == [reading |-> Usual, posting |-> Usual]

Integration(name, capabilities, tripcode) ==
  [name |-> name, allowed_boards |-> {}, well_formed |-> TRUE,
   reading |-> "r" \in capabilities,
   webhook |-> "w" \in capabilities, fingerprint |-> "f" \in capabilities,
   posting |-> "p" \in capabilities, public_tripcode |-> tripcode,
   display_length |-> Len(name), rate_limit |-> Both]

\* "a", "A", "a-", "a_", an empty name, one that is too long and one with a
\* character no name has.
SomeNames == {<<"a">>, <<"A">>, <<"a", "-">>, <<"a", "_">>, <<>>,
              <<"a", "b", "a">>, <<"NUL">>}

Plain == {Integration(name, c, t) : name \in SomeNames,
            c \in {{"r"}, {"w", "f"}, {"w", "p"}, {"p"}, {}}, t \in {"t1", "t2"}}

\* A window shared by too many requests, a burst out of bounds, no requests,
\* no window, something malformed, a long display name.
base == Integration(<<"b">>, {"w", "p"}, "t1")
Odd == {[base EXCEPT !.rate_limit.posting = limit] : limit \in
          {Bucket(4, 2, 1), Bucket(2, 4, 0), Bucket(2, 4, 3), Bucket(0, 4, 0), Bucket(2, 0, 1)}}
       \cup {[base EXCEPT !.well_formed = FALSE], [base EXCEPT !.display_length = 4],
             [base EXCEPT !.allowed_boards = {"b1"}]}

File(integrations) ==
  [well_formed |-> TRUE, event_retention |-> 1, rate_limit |-> Both,
   integrations |-> integrations]

\* Two webhooks, of which one gets fingerprints and posts, and a third
\* integration whose name continues the first one's.
TwoHooks == File(<<Integration(<<"a">>, {"r", "w", "f", "p"}, "t1"),
                   [Integration(<<"B">>, {"w"}, "t2") EXCEPT !.allowed_boards = {"b1"}],
                   Integration(<<"a", "-">>, {"w", "f", "p"}, "t2")>>)

\* Two integrations that would share a tripcode or a variable.
Clashing == {File(<<Integration(<<"a">>, {"w", "f", "p"}, "t1"),
                    Integration(name, {"w", "f", "p"}, "t1")>>) : name \in {<<"A">>, <<"b">>}}

MCBusy == {TwoHooks} \cup Clashing

MCFiles ==
  MCBusy
  \cup {File(<<>>), [File(<<>>) EXCEPT !.well_formed = FALSE],
        [File(<<>>) EXCEPT !.event_retention = 0], [File(<<>>) EXCEPT !.rate_limit.posting = Bucket(4, 2, 1)]}
  \cup {File(<<x>>) : x \in Plain \cup Odd}
  \cup {File(<<x, y>>) : x \in Plain, y \in Plain \cup Odd}

\* Posters "x" and "-x", who would be told apart by nothing but the
\* separator; envelopes and private members at several depths.
Envelope == {<<"ip">>, <<"ip", "raw">>, <<"ip", "cloak">>}
QuotedEnvelope == {<<"quotes">>, <<"quotes", "ip">>, <<"quotes", "ip", "raw">>}
Kind(date, cloak, padded, members, decodable, quote) ==
  [date |-> date, cloak |-> [core |-> cloak, padded |-> padded], members |-> members,
   decodable |-> decodable, quote |-> quote]

MCKinds ==
  {Kind(1, <<"x">>, TRUE, Envelope, TRUE, "number"),
   Kind(2, <<"-", "x">>, FALSE, Envelope, TRUE, "object"),
   Kind(1, <<>>, TRUE, Envelope \cup QuotedEnvelope, TRUE, "text"),
   Kind(2, <<"x">>, FALSE, {<<"files">>, <<"files", "session">>}, TRUE, "none"),
   Kind(1, <<"x">>, FALSE, Envelope, FALSE, "none")}

TwoDates == {Kind(date, <<"x">>, FALSE, Envelope, TRUE, "none") : date \in 1..2}
OneFile == {File(<<Integration(<<"a">>, {"r"}, "t1")>>)}
=============================================================================
