----------------------------- MODULE Timestamps -----------------------------
(***************************************************************************)
(* The store keeps times as the text DateTime::to_rfc3339 makes of them    *)
(* and lets SQLite compare the texts, in WHERE next_attempt_at <= now,     *)
(* ORDER BY next_attempt_at and WHERE created_at < cutoff.  The text shows *)
(* as many groups of fraction digits as it takes, none, milli-, micro- or  *)
(* nanoseconds, so texts of different shape are compared.                  *)
(*                                                                         *)
(* A time is a number of smallest units.  One symbol stands for a group of *)
(* three digits, and one for all that precedes the fraction, which has a   *)
(* fixed width; 0 and 1 are "+" and "." as ASCII orders them and the       *)
(* offset, always +00:00, is its "+".                                      *)
(*                                                                         *)
(* The gateway also compares its clock with the timestamp of a signed      *)
(* request (verify_request_headers in runtime/auth.rs), which the Go       *)
(* client writes in whole seconds.                                         *)
(***************************************************************************)
EXTENDS Integers, Sequences

CONSTANTS
  Group,   \* values of a group of digits (1000)
  Seconds, \* how many seconds are looked at
  MaxSkew  \* REQUEST_MAX_SKEW_SECONDS

ASSUME TimestampConstants ==
  Group \in Nat \ {0, 1} /\ Seconds \in Nat \ {0} /\ MaxSkew \in Nat

VARIABLES
  stamp,  \* the time in a row, or the client's when it signs a request
  now     \* the time it is compared with

vars == <<stamp, now>>

Second == Group * Group * Group
Times == 0..(Seconds * Second - 1)

Plus == 0
Point == 1
Digits(n) == n + 2

\* Mutant: "Z" for the offset, which follows the digits in ASCII.
WithZ(whole, fraction) == whole \o fraction \o <<Group + 2>>

\* The whole seconds, the fraction if any, the offset.
Rfc3339(whole, fraction) == whole \o fraction \o <<Plus>>

\* SecondsFormat::AutoSi: the fewest groups that lose nothing.
Fraction(n) ==
  LET milli == Digits(n \div (Group * Group))
      micro == Digits((n \div Group) % Group)
      nano == Digits(n % Group)
  IN  CASE n = 0 -> <<>>
        [] n # 0 /\ n % (Group * Group) = 0 -> <<Point, milli>>
        [] n % (Group * Group) # 0 /\ n % Group = 0 -> <<Point, milli, micro>>
        [] n % Group # 0 -> <<Point, milli, micro, nano>>

to_rfc3339(t) == Rfc3339(<<Digits(t \div Second)>>, Fraction(t % Second))

\* SQLite's comparison of TEXT (BINARY collation).
TextLess(s, t) ==
  \/ \E k \in DOMAIN s \cap DOMAIN t : /\ \A i \in 1..(k - 1) : s[i] = t[i]
                                       /\ s[k] < t[k]
  \/ Len(s) < Len(t) /\ \A i \in DOMAIN s : s[i] = t[i]

\* time.RFC3339 as the Go client formats it: no fraction.
Signed(t) == Second * (t \div Second)

\* Duration::num_seconds drops the fraction, towards zero.
num_seconds(d) == IF d < 0 THEN -((-d) \div Second) ELSE d \div Second

\* Mutant: the difference is compared as it is.
WithinSkewExactly(timestamp) ==
  LET d == now - timestamp IN d <= MaxSkew * Second /\ -d <= MaxSkew * Second

\* The timestamp is not outside the allowed skew.
within_skew(timestamp) ==
  LET skew == num_seconds(now - timestamp) IN skew <= MaxSkew /\ -skew <= MaxSkew

Init == stamp \in Times /\ now = 0

\* The clock goes on, up to the last second looked at.
Tick ==
  /\ now' = IF now + 1 \in Times THEN now + 1 ELSE now
  /\ UNCHANGED stamp

Spec == Init /\ [][Tick]_vars

(* Comparing the texts is comparing the times, whatever fractions they have: *)
(* no row is loaded early or sorted out of turn because its time falls on a  *)
(* whole second or millisecond.                                              *)
TextOrderIsTimeOrder ==
  LET row == to_rfc3339(stamp)
      clock == to_rfc3339(now)
  IN  /\ TextLess(row, clock) <=> stamp < now
      /\ row = clock <=> stamp = now

(* docs/contract/README.md:53: the timestamp must be "within five minutes of *)
(* gateway time".  The seconds the client cuts off and those the gateway     *)
(* cuts off make up for each other: a client whose clock is within that when *)
(* its request arrives is never turned away, and none that is two seconds    *)
(* off it gets through.                                                      *)
FreshWithinSkew ==
  LET off == IF stamp < now THEN now - stamp ELSE stamp - now
  IN  /\ off <= MaxSkew * Second => within_skew(Signed(stamp))
      /\ within_skew(Signed(stamp)) => off < (MaxSkew + 2) * Second
=============================================================================
