-------------------------- MODULE MCIntegrationApi --------------------------
(***************************************************************************)
(* Small instances of IntegrationApi.  "ana" may post, on one board; "rui" *)
(* may read, everywhere.                                                   *)
(***************************************************************************)
EXTENDS IntegrationApi

CONSTANTS p1, p2, p3, p4, p5, r1, r2, ana, rui, nobody, open, other

\* p: replies.  p1 and p2 are alike, p3 is on a board ana has no access to,
\* p4 is of an integration without the posting capability, p5 of one nobody
\* configured.  r: reads, r2 of an integration that may not read.
MCCapability == [j \in Jobs |-> IF j \in {r1, r2} THEN "reading" ELSE "posting"]
MCName == [j \in Jobs |-> CASE j \in {p4, r1} -> rui
                            [] j = p5 -> nobody
                            [] OTHER -> ana]
MCBoard == [j \in Jobs |-> IF j = p3 THEN other ELSE open]
MCAllowedBoards == [i \in Integrations |-> IF i = ana THEN {open} ELSE {}]

MCPeriod == [b \in Buckets |-> 1]
MCBurst == [b \in Buckets |-> IF b[1] = Global THEN 1 ELSE 2]

\* Every phrase alone, none, and two pairs whose order decides.
MCTexts == {{}, {"captcha"}, {"bypass"}, {"flood"}, {"no thread"}, {"thread locked"},
            {"reply limit"}, {"board locked"}, {"captcha", "flood"}, {"bypass", "flood"}}

\* A plain error page, and the challenge of a proxy.
MCPageTexts == {{}, {"captcha"}}
=============================================================================
