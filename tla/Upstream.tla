------------------------------ MODULE Upstream ------------------------------
(***************************************************************************)
(* The link to the upstream board: the session refresh task (session.rs),  *)
(* the socket supervisor with its connection (socket/mod.rs), the flags    *)
(* they share through runtime::Status, and /readyz, which reads them.      *)
(*                                                                         *)
(* Every timer is a countdown in ticks.  The server is the environment: it *)
(* answers, refuses, closes or keeps silent as it likes.                   *)
(***************************************************************************)
EXTENDS Integers

CONSTANTS
  Lifetimes,        \* lifetimes a Set-Cookie of the server may give, in ticks
  RetryInterval,    \* SESSION_REFRESH_RETRY_INTERVAL
  MaxMargin,        \* SESSION_REFRESH_MAX_SAFETY_MARGIN
  ReconnectMin, ReconnectMax,
  OpenTimeout,      \* ENGINE_OPEN_TIMEOUT
  Heartbeats,       \* <<pingInterval, pingTimeout>> the server may announce
  Grace,            \* LIVENESS_GRACE
  RefreshInterval,  \* SOCKET_REFRESH_INTERVAL
  LongestSilence    \* bound: past it silence() is not counted

\* No deadline allows more silence than is counted.
ASSUME UpstreamConstants ==
  /\ Lifetimes \subseteq Nat
  /\ RetryInterval \in Nat /\ MaxMargin \in Nat
  /\ ReconnectMin \in Nat \ {0} /\ ReconnectMax \in Nat /\ ReconnectMin <= ReconnectMax
  /\ OpenTimeout \in Nat /\ Grace \in Nat /\ RefreshInterval \in Nat
  /\ Heartbeats \subseteq (Nat \ {0}) \X (Nat \ {0})
  /\ LongestSilence \in Nat /\ OpenTimeout <= LongestSilence
  /\ \A h \in Heartbeats : 2 * h[1] + h[2] + Grace <= LongestSilence

\* The cookie jar knows no expiry: none was ever set, or the cookie expired
\* and the jar no longer matches it.
NoExpiry == -1

VARIABLES
  auth_healthy, upstream_joined, upstream_required,  \* runtime::Status
  shutdown,      \* the watch channel holds true
  expires,       \* ticks until the session cookie expires, or NoExpiry
  refresh,       \* program counter of refresh_loop
  refreshSleep,  \* its sleep_for
  sup,           \* program counter of supervise and run_socket_once
  supSleep,      \* the sleep supervise is in
  delay,         \* supervise's reconnect delay
  life,          \* ticks until SOCKET_REFRESH_INTERVAL of this attempt is over
  joined,        \* run_socket_once's joined
  allowed,       \* allowed_silence() of the connection
  silence        \* silence(): ticks since a packet was observed

statusVars == <<auth_healthy, upstream_joined, upstream_required>>
refreshVars == <<expires, refresh, refreshSleep>>
connVars == <<life, joined, allowed, silence>>
supVars == <<sup, supSleep, delay, connVars>>
vars == <<statusVars, shutdown, refreshVars, supVars>>

Connected == {"test", "recv", "handle", "close"}

\* Where run_socket_once awaits, so that supervise's select! can drop it.
Awaiting == {"connect", "recv", "handle", "close"}

(* Every variable holds a value of its kind.                                 *)
TypeOK ==
  /\ auth_healthy \in BOOLEAN /\ upstream_joined \in BOOLEAN
  /\ upstream_required \in BOOLEAN /\ shutdown \in BOOLEAN
  /\ expires \in Nat \cup {NoExpiry}
  /\ refresh \in {"check", "request", "sleep", "stopped"} /\ refreshSleep \in Nat
  /\ sup \in {"check", "await_auth", "connect", "pause", "stopped"} \cup Connected
  /\ supSleep \in Nat /\ delay \in ReconnectMin..ReconnectMax
  /\ life \in Nat /\ joined \in BOOLEAN /\ allowed \in Nat /\ silence \in Nat

\* Without webhooks, main::run spawns neither task.
Init ==
  /\ auth_healthy = FALSE /\ upstream_joined = FALSE
  /\ upstream_required \in BOOLEAN
  /\ shutdown = FALSE
  /\ expires = NoExpiry
  /\ refresh = (IF upstream_required THEN "check" ELSE "stopped")
  /\ refreshSleep = 0
  /\ sup = (IF upstream_required THEN "check" ELSE "stopped")
  /\ supSleep = 0
  /\ delay = ReconnectMin
  /\ life = 0 /\ joined = FALSE /\ allowed = 0 /\ silence = 0

LesserOf(a, b) == IF a < b THEN a ELSE b

\* Status::ready
ready == ~upstream_required \/ (auth_healthy /\ upstream_joined)

-----------------------------------------------------------------------------
(* refresh_loop *)

\* Mutant: the loop does not look at the shutdown flag.
RefreshCheckIgnoringShutdown ==
  /\ refresh = "check"
  /\ refresh' = "request"
  /\ UNCHANGED <<statusVars, shutdown, expires, refreshSleep, supVars>>

RefreshCheck ==
  /\ refresh = "check"
  /\ refresh' = IF shutdown THEN "stopped" ELSE "request"
  /\ UNCHANGED <<statusVars, shutdown, expires, refreshSleep, supVars>>

\* Mutant: the margin is added instead of subtracted.
RefreshDelayPastExpiry(remaining) ==
  remaining + LesserOf(remaining \div 5, MaxMargin)

next_refresh_delay(remaining) ==
  remaining - LesserOf(remaining \div 5, MaxMargin)

\* refresh_once got management JSON; a Set-Cookie replaced the cookie, with
\* or without an expiry, or there was none.  Without a known expiry the
\* refresh has failed, although the merged cookie stays.
RefreshAnswered(e) ==
  /\ refresh = "request"
  /\ e \in Lifetimes \cup {NoExpiry, expires}
  /\ expires' = e
  /\ auth_healthy' = (e # NoExpiry)
  /\ refreshSleep' = IF e = NoExpiry THEN RetryInterval ELSE next_refresh_delay(e)
  /\ refresh' = "sleep"
  /\ UNCHANGED <<upstream_joined, upstream_required, shutdown, supVars>>

\* The request failed, or the answer was no management JSON; or merge stopped
\* at a Set-Cookie it cannot parse, and the cookies before that one stay.
RefreshFails(e) ==
  /\ refresh = "request"
  /\ e \in Lifetimes \cup {NoExpiry, expires}
  /\ expires' = e
  /\ auth_healthy' = FALSE
  /\ refreshSleep' = RetryInterval
  /\ refresh' = "sleep"
  /\ UNCHANGED <<upstream_joined, upstream_required, shutdown, supVars>>

RefreshWakes ==
  /\ refresh = "sleep"
  /\ shutdown \/ refreshSleep = 0
  /\ refresh' = "check"
  /\ refreshSleep' = 0
  /\ UNCHANGED <<statusVars, shutdown, expires, supVars>>

-----------------------------------------------------------------------------
(* supervise *)

Elsewhere == UNCHANGED <<auth_healthy, upstream_required, shutdown, refreshVars>>

\* Mutant: the supervisor connects with whatever session there is.
SuperviseCheckWithoutAuth ==
  /\ sup = "check"
  /\ sup' = IF shutdown THEN "stopped" ELSE "connect"
  /\ life' = IF shutdown THEN life ELSE RefreshInterval
  /\ UNCHANGED <<upstream_joined, supSleep, delay, joined, allowed, silence>> /\ Elsewhere

\* The top of the loop: stop, wait for a session, or try to connect.
SuperviseCheck ==
  /\ sup = "check"
  /\ \/ /\ shutdown
        /\ sup' = "stopped" /\ upstream_joined' = FALSE
        /\ UNCHANGED <<supSleep, life>>
     \/ /\ ~shutdown /\ ~auth_healthy
        /\ sup' = "await_auth" /\ upstream_joined' = FALSE
        /\ supSleep' = ReconnectMin
        /\ UNCHANGED life
     \/ /\ ~shutdown /\ auth_healthy
        /\ sup' = "connect" /\ life' = RefreshInterval
        /\ UNCHANGED <<upstream_joined, supSleep>>
  /\ UNCHANGED <<delay, joined, allowed, silence>> /\ Elsewhere

AuthWaitEnds ==
  /\ sup = "await_auth"
  /\ shutdown \/ supSleep = 0
  /\ sup' = "check" /\ supSleep' = 0
  /\ UNCHANGED <<upstream_joined, delay, connVars>> /\ Elsewhere

ForgetConnection == life' = 0 /\ joined' = FALSE /\ allowed' = 0 /\ silence' = 0

\* Mutant: the flag is left as the connection left it.
EndOfConnectionKeepingFlag(reset) ==
  /\ sup' = "pause"
  /\ delay' = IF reset THEN ReconnectMin ELSE delay
  /\ supSleep' = delay'
  /\ ForgetConnection
  /\ UNCHANGED upstream_joined /\ Elsewhere

\* run_socket_once is over: clear the flag, reset the delay after a join,
\* pause for it.
EndOfConnection(reset) ==
  /\ upstream_joined' = FALSE
  /\ sup' = "pause"
  /\ delay' = IF reset THEN ReconnectMin ELSE delay
  /\ supSleep' = delay'
  /\ ForgetConnection
  /\ Elsewhere

\* Mutant: a supervisor that gives up when the delay is used up.
PauseEndsOnce ==
  /\ sup = "pause"
  /\ shutdown \/ supSleep = 0
  /\ delay < ReconnectMax
  /\ sup' = "check" /\ supSleep' = 0
  /\ delay' = LesserOf(2 * delay, ReconnectMax)
  /\ UNCHANGED <<upstream_joined, connVars>> /\ Elsewhere

PauseEnds ==
  /\ sup = "pause"
  /\ shutdown \/ supSleep = 0
  /\ sup' = "check" /\ supSleep' = 0
  /\ delay' = LesserOf(2 * delay, ReconnectMax)
  /\ UNCHANGED <<upstream_joined, connVars>> /\ Elsewhere

\* Mutant: the connection is never refreshed.
RefreshSocketNever ==
  /\ sup = "connect" /\ life = 0
  /\ EndOfConnection(TRUE)

\* SOCKET_REFRESH_INTERVAL is over: the attempt or connection is dropped,
\* with Ok(true) whether it had joined or not.
RefreshSocket ==
  /\ sup \in Awaiting
  /\ life = 0
  /\ EndOfConnection(TRUE)

\* shutdown.changed() while connecting or connected.
StopSocket ==
  /\ sup \in Awaiting
  /\ shutdown
  /\ sup' = "stopped" /\ upstream_joined' = FALSE
  /\ ForgetConnection
  /\ UNCHANGED <<supSleep, delay>> /\ Elsewhere

-----------------------------------------------------------------------------
(* run_socket_once *)

ConnectFails == sup = "connect" /\ EndOfConnection(FALSE)

ConnectSucceeds ==
  /\ sup = "connect"
  /\ sup' = "test"
  /\ joined' = FALSE
  /\ allowed' = OpenTimeout /\ silence' = 0
  /\ UNCHANGED <<upstream_joined, supSleep, delay, life>> /\ Elsewhere

\* while auth_healthy() { ... }
TestAuth ==
  /\ sup = "test"
  /\ sup' = IF auth_healthy THEN "recv" ELSE "close"
  /\ UNCHANGED <<upstream_joined, supSleep, delay, connVars>> /\ Elsewhere

\* A message that is not a decodable packet: no sign of life.
NoiseArrives ==
  /\ sup = "recv"
  /\ sup' = "test"
  /\ UNCHANGED <<upstream_joined, supSleep, delay, connVars>> /\ Elsewhere

\* A packet is observed that nothing is awaited for.
PacketArrives ==
  /\ sup = "recv"
  /\ sup' = "test"
  /\ silence' = 0
  /\ UNCHANGED <<upstream_joined, supSleep, delay, life, joined, allowed>> /\ Elsewhere

\* The "joined" message.
RoomJoined ==
  /\ sup = "recv"
  /\ sup' = "test"
  /\ joined' = TRUE /\ upstream_joined' = TRUE
  /\ silence' = 0
  /\ UNCHANGED <<supSleep, delay, life, allowed>> /\ Elsewhere

\* A packet is observed whose handler awaits: the store takes a new post, or
\* an answer is sent.  The clock of silence() runs on meanwhile.
HandlerStarts ==
  /\ sup = "recv"
  /\ sup' = "handle"
  /\ silence' = 0
  /\ UNCHANGED <<upstream_joined, supSleep, delay, life, joined, allowed>> /\ Elsewhere

HandlerEnds ==
  /\ sup = "handle"
  /\ sup' = "test"
  /\ UNCHANGED <<upstream_joined, supSleep, delay, connVars>> /\ Elsewhere

allowed_silence(h) == 2 * h[1] + h[2] + Grace

\* The engine's open packet is answered, and its heartbeat is taken over.
EngineOpened(h) ==
  /\ sup = "handle"
  /\ sup' = "test"
  /\ allowed' = allowed_silence(h)
  /\ UNCHANGED <<upstream_joined, supSleep, delay, life, joined, silence>> /\ Elsewhere

\* The server closes the stream, the engine or the namespace.
ServerCloses ==
  /\ sup = "recv"
  /\ sup' = "close"
  /\ UNCHANGED <<upstream_joined, supSleep, delay, connVars>> /\ Elsewhere

SilenceExceeded ==
  /\ sup = "recv" /\ silence >= allowed
  /\ upstream_joined' = FALSE
  /\ sup' = "close"
  /\ UNCHANGED <<supSleep, delay, connVars>> /\ Elsewhere

\* Mutant: any ended connection resets the reconnect delay.
SocketErrorResetting == sup \in {"recv", "handle"} /\ EndOfConnection(TRUE)

\* Reading, or sending an answer, failed: joined is not reported.
SocketError == sup \in {"recv", "handle"} /\ EndOfConnection(FALSE)

\* socket.close() has returned.
Closed == sup = "close" /\ EndOfConnection(joined)

-----------------------------------------------------------------------------
RequestShutdown ==
  /\ ~shutdown
  /\ shutdown' = TRUE
  /\ UNCHANGED <<statusVars, refreshVars, supVars>>

CountDown(n) == IF n = 0 THEN 0 ELSE n - 1

\* Nothing is awaited before a test of auth_healthy(), so no time passes
\* there; everywhere else it may.
Tick ==
  /\ sup # "test"
  /\ expires' = IF expires = NoExpiry THEN NoExpiry ELSE expires - 1
  /\ refreshSleep' = CountDown(refreshSleep)
  /\ supSleep' = CountDown(supSleep)
  /\ life' = CountDown(life)
  /\ silence' = IF sup \in Connected THEN LesserOf(silence + 1, LongestSilence) ELSE silence
  /\ UNCHANGED <<statusVars, shutdown, refresh, sup, delay, joined, allowed>>

RefreshStep == RefreshCheck \/ RefreshWakes

RefreshResponse == \E e \in Lifetimes \cup {NoExpiry, expires} :
                     RefreshAnswered(e) \/ RefreshFails(e)

SuperviseStep == SuperviseCheck \/ AuthWaitEnds \/ PauseEnds

ServerStep == \/ NoiseArrives \/ PacketArrives \/ RoomJoined \/ HandlerStarts
              \/ HandlerEnds \/ \E h \in Heartbeats : EngineOpened(h)
              \/ ServerCloses \/ SocketError

Next ==
  \/ RefreshStep \/ RefreshResponse
  \/ SuperviseStep \/ RefreshSocket \/ StopSocket
  \/ ConnectFails \/ ConnectSucceeds \/ TestAuth \/ SilenceExceeded \/ Closed
  \/ ServerStep
  \/ RequestShutdown \/ Tick

Spec == Init /\ [][Next]_vars

-----------------------------------------------------------------------------
(* Fairness.  The tasks are scheduled and the clock goes on, however busy    *)
(* the server keeps the connection: tokio's budget makes a task that always  *)
(* has input yield, and supervise's select! then polls its other branches.   *)
(* Nothing is asked of the server, nor of a handler: a send waits until the  *)
(* server reads.                                                             *)
CodeFairness ==
  /\ SF_vars(Tick)
  /\ WF_vars(RefreshStep) /\ WF_vars(SuperviseStep) /\ WF_vars(TestAuth)
  /\ SF_vars(RefreshSocket) /\ SF_vars(StopSocket) /\ WF_vars(SilenceExceeded)

FairSpec == Spec /\ CodeFairness

\* refresh_once has no timeout: that its request comes to an end at all is
\* an assumption on the server and the network.
AnsweringSpec == FairSpec /\ WF_vars(RefreshResponse)

-----------------------------------------------------------------------------
(* The flag behind /readyz and ptchan_socket_joined is up only while this    *)
(* very connection is open and has itself received "joined": no dropped,     *)
(* refreshed, failed or timed-out connection leaves it behind.               *)
JoinedMeansConnected == upstream_joined => sup \in Connected /\ joined

(* While the refresh task sleeps on a healthy session, the cookie it will    *)
(* refresh with outlives the sleep.                                          *)
RefreshedBeforeExpiry ==
  refresh = "sleep" /\ auth_healthy /\ refreshSleep > 0
    => expires # NoExpiry /\ refreshSleep <= expires

(* The reconnect delay goes back to its minimum only after a room join or a  *)
(* scheduled refresh; failing connections are always paced further apart.    *)
ResetOnlyAfterJoin ==
  [][delay' < delay => joined \/ life = 0]_vars

(* "a stale subscription cannot persist indefinitely" (socket/mod.rs:45):    *)
(* whatever the server sends, a joined room is left and joined anew.         *)
SubscriptionRenewed == upstream_joined ~> ~upstream_joined

(* A requested shutdown ends both tasks from wherever they are, given that   *)
(* the refresh request, which has no timeout, comes to an end.               *)
ShutdownStops == shutdown ~> refresh = "stopped" /\ sup = "stopped"

(* A connection is of no use without a session: when the session is lost for *)
(* good, the gateway leaves the room and stays out, whatever the server      *)
(* sends and whatever handler is waiting.                                    *)
SessionLossLeavesRoom ==
  <>[]~auth_healthy => <>[](sup \notin Awaiting)

\* A server that is well again and again: it accepts connections and lets
\* the gateway join.
WellServer == SF_vars(ConnectSucceeds) /\ SF_vars(RoomJoined)

(* When the session stays healthy and the server is well, the gateway        *)
(* becomes ready again after every loss of the room, unless it is stopped.   *)
ReadyAgain ==
  WellServer /\ <>[]auth_healthy => (TRUE ~> ready \/ shutdown)
=============================================================================
