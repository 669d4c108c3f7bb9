--------------------------- MODULE UpstreamProofs ---------------------------
(***************************************************************************)
(* The safety properties of Upstream for every choice of intervals,        *)
(* lifetimes and heartbeats: types, the joined flag, the refresh before    *)
(* expiry and the growing reconnect delay.                                 *)
(***************************************************************************)
EXTENDS Upstream, TLAPS

(* What is subtracted from the lifetime is not more than the lifetime.       *)
LEMMA RefreshDelayBounded ==
  ASSUME NEW remaining \in Nat
  PROVE  /\ next_refresh_delay(remaining) \in Nat
         /\ next_refresh_delay(remaining) <= remaining
<1>1. remaining \div 5 \in Nat /\ remaining \div 5 <= remaining
  OBVIOUS
<1>2. MaxMargin \in Nat
  BY UpstreamConstants
<1> QED
  BY <1>1, <1>2 DEF next_refresh_delay, LesserOf

(* Doubling within the maximum never shortens the delay.                     *)
LEMMA BackoffGrows ==
  ASSUME NEW d \in ReconnectMin..ReconnectMax
  PROVE  /\ LesserOf(2 * d, ReconnectMax) \in ReconnectMin..ReconnectMax
         /\ d <= LesserOf(2 * d, ReconnectMax)
  BY UpstreamConstants DEF LesserOf

(* The end of a connection leaves a paused supervisor without one.           *)
LEMMA EndTypes ==
  ASSUME TypeOK, NEW reset \in BOOLEAN, EndOfConnection(reset)
  PROVE  TypeOK'
<1>1. delay' \in ReconnectMin..ReconnectMax /\ supSleep' \in Nat
  BY UpstreamConstants DEF TypeOK, EndOfConnection
<1> QED
  BY <1>1 DEF TypeOK, EndOfConnection, ForgetConnection, Elsewhere, refreshVars

(* Timers start at zero, the reconnect delay at its minimum.                 *)
LEMMA TypeOKInit == Init => TypeOK
<1> SUFFICES ASSUME Init
             PROVE  TypeOK
  OBVIOUS
<1>1. refresh \in {"check", "stopped"} /\ sup \in {"check", "stopped"}
  BY DEF Init
<1>2. delay \in ReconnectMin..ReconnectMax /\ 0 \in Nat
  BY UpstreamConstants DEF Init
<1> QED
  BY <1>1, <1>2 DEF Init, TypeOK

(* Every step keeps the types.                                               *)
LEMMA TypeOKStep == TypeOK /\ [Next]_vars => TypeOK'
<1> SUFFICES ASSUME TypeOK, [Next]_vars
             PROVE  TypeOK'
  OBVIOUS
<1> USE DEF statusVars, refreshVars, connVars, supVars, Elsewhere, Connected, Awaiting
<1>1. CASE RefreshStep
  BY <1>1 DEF RefreshStep, RefreshCheck, RefreshWakes, TypeOK
<1>2. ASSUME NEW e \in Lifetimes \cup {NoExpiry, expires}, RefreshAnswered(e)
      PROVE  TypeOK'
  <2>1. e \in Nat \cup {NoExpiry}
    BY <1>2, UpstreamConstants DEF TypeOK
  <2>2. refreshSleep' \in Nat
    BY <1>2, <2>1, RefreshDelayBounded, UpstreamConstants DEF RefreshAnswered
  <2> QED
    BY <1>2, <2>1, <2>2 DEF RefreshAnswered, TypeOK
<1>3. ASSUME NEW e \in Lifetimes \cup {NoExpiry, expires}, RefreshFails(e)
      PROVE  TypeOK'
  <2>1. e \in Nat \cup {NoExpiry}
    BY <1>3, UpstreamConstants DEF TypeOK
  <2> QED
    BY <1>3, <2>1, UpstreamConstants DEF RefreshFails, TypeOK
<1>4. CASE SuperviseCheck
  BY <1>4, UpstreamConstants DEF SuperviseCheck, TypeOK
<1>5. CASE AuthWaitEnds
  BY <1>5 DEF AuthWaitEnds, TypeOK
<1>6. CASE PauseEnds
  <2>1. delay' \in ReconnectMin..ReconnectMax
    BY <1>6, BackoffGrows DEF PauseEnds, TypeOK
  <2> QED
    BY <1>6, <2>1 DEF PauseEnds, TypeOK
<1>7. CASE RefreshSocket \/ ConnectFails \/ SocketError \/ Closed
  BY <1>7, EndTypes DEF RefreshSocket, ConnectFails, SocketError, Closed, TypeOK
<1>8. CASE StopSocket
  BY <1>8 DEF StopSocket, ForgetConnection, TypeOK
<1>9. CASE ConnectSucceeds
  BY <1>9, UpstreamConstants DEF ConnectSucceeds, TypeOK
<1>10. CASE TestAuth \/ NoiseArrives \/ HandlerEnds \/ ServerCloses \/ SilenceExceeded
  <2>1. CASE TestAuth
    BY <2>1 DEF TestAuth, TypeOK
  <2>2. CASE NoiseArrives \/ HandlerEnds \/ ServerCloses
    BY <2>2 DEF NoiseArrives, HandlerEnds, ServerCloses, TypeOK
  <2>3. CASE SilenceExceeded
    BY <2>3 DEF SilenceExceeded, TypeOK
  <2> QED
    BY <1>10, <2>1, <2>2, <2>3
<1>11. CASE PacketArrives \/ RoomJoined \/ HandlerStarts
  <2>1. CASE PacketArrives
    BY <2>1 DEF PacketArrives, TypeOK
  <2>2. CASE RoomJoined
    BY <2>2 DEF RoomJoined, TypeOK
  <2>3. CASE HandlerStarts
    BY <2>3 DEF HandlerStarts, TypeOK
  <2> QED
    BY <1>11, <2>1, <2>2, <2>3
<1>12. ASSUME NEW h \in Heartbeats, EngineOpened(h)
       PROVE  TypeOK'
  <2>1. allowed_silence(h) \in Nat
    BY UpstreamConstants DEF allowed_silence
  <2> QED
    BY <1>12, <2>1 DEF EngineOpened, TypeOK
<1>13. CASE RequestShutdown
  BY <1>13 DEF RequestShutdown, TypeOK
<1>14. CASE Tick
  <2>1. expires' \in Nat \cup {NoExpiry}
    BY <1>14 DEF Tick, TypeOK, NoExpiry
  <2>2. refreshSleep' \in Nat /\ supSleep' \in Nat /\ life' \in Nat
    BY <1>14 DEF Tick, TypeOK, CountDown
  <2>3. silence' \in Nat
    BY <1>14, UpstreamConstants DEF Tick, TypeOK, LesserOf
  <2> QED
    BY <1>14, <2>1, <2>2, <2>3 DEF Tick, TypeOK
<1>15. CASE UNCHANGED vars
  BY <1>15 DEF vars, TypeOK
<1> QED
  BY <1>1, <1>2, <1>3, <1>4, <1>5, <1>6, <1>7, <1>8, <1>9, <1>10, <1>11, <1>12,
     <1>13, <1>14, <1>15 DEF Next, RefreshResponse, SuperviseStep, ServerStep

(* Every variable of the session, the supervisor and the connection keeps    *)
(* its type; the reconnect delay stays within its bounds.                    *)
THEOREM TypeCorrect == Spec => []TypeOK
  BY TypeOKInit, TypeOKStep, PTL DEF Spec

-----------------------------------------------------------------------------
(* Only an open connection that was told so has the flag up: it is set with  *)
(* `joined`, and every step that leaves the connection clears it.            *)
LEMMA JoinedStep ==
  TypeOK /\ JoinedMeansConnected /\ [Next]_vars => JoinedMeansConnected'
<1> SUFFICES ASSUME TypeOK, JoinedMeansConnected, [Next]_vars
             PROVE  JoinedMeansConnected'
  OBVIOUS
<1> USE DEF statusVars, connVars, supVars, Elsewhere, Connected, JoinedMeansConnected
<1>1. CASE RefreshStep \/ RefreshResponse \/ RequestShutdown \/ Tick \/ UNCHANGED vars
  <2>1. UNCHANGED <<upstream_joined, sup, joined>>
    BY <1>1 DEF RefreshStep, RefreshCheck, RefreshWakes, RefreshResponse,
                RefreshAnswered, RefreshFails, RequestShutdown, Tick, vars
  <2> QED
    BY <2>1
<1>2. CASE SuperviseCheck \/ AuthWaitEnds \/ PauseEnds \/ ConnectSucceeds
  <2>1. ~upstream_joined
    BY <1>2 DEF SuperviseCheck, AuthWaitEnds, PauseEnds, ConnectSucceeds
  <2>2. upstream_joined' \in {upstream_joined, FALSE}
    BY <1>2 DEF SuperviseCheck, AuthWaitEnds, PauseEnds, ConnectSucceeds
  <2> QED
    BY <2>1, <2>2
<1>3. CASE RefreshSocket \/ StopSocket \/ ConnectFails \/ SocketError \/ Closed \/ SilenceExceeded
  <2>1. ~upstream_joined'
    BY <1>3 DEF RefreshSocket, StopSocket, ConnectFails, SocketError, Closed,
                SilenceExceeded, EndOfConnection
  <2> QED
    BY <2>1
<1>4. CASE RoomJoined
  BY <1>4 DEF RoomJoined
<1>5. ASSUME \/ TestAuth \/ NoiseArrives \/ PacketArrives \/ HandlerStarts \/ HandlerEnds
             \/ ServerCloses \/ \E h \in Heartbeats : EngineOpened(h)
      PROVE  JoinedMeansConnected'
  <2>1. UNCHANGED <<upstream_joined, joined>> /\ sup' \in Connected
    BY <1>5 DEF TestAuth, NoiseArrives, PacketArrives, HandlerStarts, HandlerEnds,
                ServerCloses, EngineOpened
  <2> QED
    BY <2>1
<1> QED
  BY <1>1, <1>2, <1>3, <1>4, <1>5 DEF Next, SuperviseStep, ServerStep

(* The flag behind /readyz never outlives its connection: on none of the     *)
(* ways run_socket_once ends or is dropped, for any intervals.               *)
THEOREM FlagFollowsConnection == Spec => []JoinedMeansConnected
<1>1. Init => JoinedMeansConnected
  BY DEF Init, JoinedMeansConnected
<1> QED
  BY <1>1, JoinedStep, TypeCorrect, PTL DEF Spec

-----------------------------------------------------------------------------
(* The sleep is computed from the expiry, and both run down together.        *)
LEMMA ExpiryStep ==
  TypeOK /\ RefreshedBeforeExpiry /\ [Next]_vars => RefreshedBeforeExpiry'
<1> SUFFICES ASSUME TypeOK, RefreshedBeforeExpiry, [Next]_vars
             PROVE  RefreshedBeforeExpiry'
  OBVIOUS
<1> USE DEF statusVars, refreshVars
<1>1. CASE RefreshStep
  <2>1. refresh' # "sleep"
    BY <1>1 DEF RefreshStep, RefreshCheck, RefreshWakes
  <2> QED
    BY <2>1 DEF RefreshedBeforeExpiry
<1>2. ASSUME NEW e \in Lifetimes \cup {NoExpiry, expires},
             RefreshAnswered(e) \/ RefreshFails(e)
      PROVE  RefreshedBeforeExpiry'
  <2>1. CASE e = NoExpiry \/ RefreshFails(e)
    <3>1. auth_healthy' = FALSE
      BY <1>2, <2>1 DEF RefreshAnswered, RefreshFails
    <3> QED
      BY <3>1 DEF RefreshedBeforeExpiry
  <2>2. CASE e # NoExpiry /\ RefreshAnswered(e)
    <3>1. e \in Nat
      BY <2>2, UpstreamConstants DEF TypeOK
    <3>2. expires' = e /\ refreshSleep' = next_refresh_delay(e)
      BY <2>2 DEF RefreshAnswered
    <3> QED
      BY <2>2, <3>1, <3>2, RefreshDelayBounded DEF RefreshedBeforeExpiry
  <2> QED
    BY <1>2, <2>1, <2>2
<1>3. CASE Tick
  <2> SUFFICES ASSUME refresh = "sleep", auth_healthy, refreshSleep' > 0
               PROVE  expires' # NoExpiry /\ refreshSleep' <= expires'
    BY <1>3 DEF Tick, RefreshedBeforeExpiry
  <2>1. refreshSleep > 0 /\ refreshSleep' = refreshSleep - 1
    BY <1>3 DEF Tick, CountDown, TypeOK
  <2>2. expires # NoExpiry /\ refreshSleep <= expires /\ expires' = expires - 1
    BY <1>3, <2>1 DEF Tick, RefreshedBeforeExpiry
  <2> QED
    BY <2>1, <2>2 DEF TypeOK, NoExpiry
<1>4. ASSUME \/ SuperviseStep \/ RefreshSocket \/ StopSocket
             \/ ConnectFails \/ ConnectSucceeds \/ TestAuth \/ SilenceExceeded \/ Closed
             \/ ServerStep \/ RequestShutdown \/ UNCHANGED vars
      PROVE  RefreshedBeforeExpiry'
  <2>1. UNCHANGED <<refresh, auth_healthy, refreshSleep, expires>>
    BY <1>4 DEF SuperviseStep, SuperviseCheck, AuthWaitEnds, PauseEnds, RefreshSocket,
                StopSocket, ConnectFails, ConnectSucceeds, TestAuth, SilenceExceeded,
                Closed, ServerStep, NoiseArrives, PacketArrives, RoomJoined,
                HandlerStarts, HandlerEnds, EngineOpened, ServerCloses, SocketError,
                EndOfConnection, Elsewhere, RequestShutdown, vars
  <2> QED
    BY <2>1 DEF RefreshedBeforeExpiry
<1> QED
  BY <1>1, <1>2, <1>3, <1>4 DEF Next, RefreshResponse

(* refresh_loop never sleeps past the expiry of a healthy session, whatever  *)
(* lifetimes the server gives and however the margin is rounded.             *)
THEOREM SessionOutlivesSleep == Spec => []RefreshedBeforeExpiry
<1>1. Init => RefreshedBeforeExpiry
  <2> SUFFICES ASSUME Init
               PROVE  refreshSleep = 0
    BY DEF RefreshedBeforeExpiry
  <2> QED
    BY DEF Init
<1> QED
  BY <1>1, ExpiryStep, TypeCorrect, PTL DEF Spec

-----------------------------------------------------------------------------
(* A step that shortens the delay is the end of a connection that joined or  *)
(* was due for its scheduled refresh.                                        *)
LEMMA DelayStep ==
  TypeOK /\ [Next]_vars => [delay' < delay => joined \/ life = 0]_vars
<1> SUFFICES ASSUME TypeOK, [Next]_vars
             PROVE  delay' < delay => joined \/ life = 0
  OBVIOUS
<1>0. delay \in Int
  BY UpstreamConstants DEF TypeOK
<1>1. CASE RefreshSocket
  BY <1>1 DEF RefreshSocket
<1>2. CASE Closed
  <2>1. joined \/ delay' = delay
    BY <1>2 DEF Closed, EndOfConnection
  <2> QED
    BY <1>0, <2>1
<1>3. CASE PauseEnds
  <2>1. delay <= delay' /\ delay' \in Int
    BY <1>3, BackoffGrows, UpstreamConstants DEF PauseEnds, TypeOK
  <2> QED
    BY <1>0, <2>1
<1>4. ASSUME \/ RefreshStep \/ RefreshResponse \/ SuperviseCheck \/ AuthWaitEnds \/ StopSocket
             \/ ConnectFails \/ ConnectSucceeds \/ TestAuth \/ SilenceExceeded
             \/ ServerStep \/ RequestShutdown \/ Tick \/ UNCHANGED vars
      PROVE  delay' < delay => joined \/ life = 0
  <2>1. delay' = delay
    BY <1>4 DEF RefreshStep, RefreshCheck, RefreshWakes, RefreshResponse,
                RefreshAnswered, RefreshFails, SuperviseCheck, AuthWaitEnds,
                StopSocket, ConnectFails, ConnectSucceeds, TestAuth, SilenceExceeded,
                ServerStep, NoiseArrives, PacketArrives, RoomJoined, HandlerStarts,
                HandlerEnds, EngineOpened, ServerCloses, SocketError, EndOfConnection,
                RequestShutdown, Tick, vars, supVars
  <2> QED
    BY <1>0, <2>1
<1> QED
  BY <1>1, <1>2, <1>3, <1>4 DEF Next, SuperviseStep

(* supervise paces failing connections further and further apart: the delay  *)
(* falls only after a join or a scheduled refresh, for any bounds of it.     *)
THEOREM FailuresBackOff == Spec => ResetOnlyAfterJoin
<1>1. Spec => []TypeOK
  BY TypeCorrect
<1> QED
  BY <1>1, DelayStep, PTL DEF Spec, ResetOnlyAfterJoin
=============================================================================
