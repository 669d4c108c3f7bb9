--------------------------- MODULE DeliveryProofs ---------------------------
(***************************************************************************)
(* TLAPS proofs about Delivery, for all events, webhooks, limits and       *)
(* intervals that satisfy StoreConstants and DeliveryConstants.            *)
(***************************************************************************)
EXTENDS Delivery, FiniteSetTheorems, SequenceTheorems, TLAPS

(* The store never holds more rows than there are pairs of an event and a    *)
(* webhook: every set of rows is finite and has a size.                      *)
LEMMA RowsFinite ==
  \A S \in SUBSET Rows : IsFiniteSet(S) /\ Cardinality(S) \in Nat
<1>1. IsFiniteSet(Rows)
  BY StoreConstants, FS_Product DEF Rows
<1> QED
  BY <1>1, FS_Subset, FS_CardinalityType

(* delivery_backoff is positive for every number of attempts.                *)
LEMMA BackoffPositive ==
  ASSUME NEW n \in Int
  PROVE  delivery_backoff(n) \in Nat /\ delivery_backoff(n) > 0
BY StoreConstants DEF delivery_backoff

(* A result of pending_deliveries is a sequence of due rows, none twice.     *)
LEMMA BatchIsSeq ==
  ASSUME NEW n \in Nat, NEW s \in Injection(1..n, Due)
  PROVE  /\ s \in Seq(Rows)
         /\ DOMAIN s = 1..n
         /\ IsInjective(s)
         /\ Range(s) \subseteq Due
<1>1. s \in [1..n -> Due] /\ IsInjective(s)
  BY DEF Injection
<1>2. s \in [1..n -> Rows]
  BY <1>1 DEF Due, Pending
<1>3. s \in Seq(Rows)
  BY <1>2, SeqDef
<1> QED
  BY <1>1, <1>2, <1>3 DEF Range

(* What a non-empty batch becomes when its head is started.                  *)
LEMMA StartOfBatch ==
  ASSUME NEW q \in Seq(Rows), q # <<>>
  PROVE  /\ Head(q) \in Range(q)
         /\ Head(q) \in Rows
         /\ Tail(q) \in Seq(Rows)
         /\ Range(Tail(q)) \subseteq Range(q)
         /\ IsInjective(q) => IsInjective(Tail(q)) /\ Head(q) \notin Range(Tail(q))
<1>1. /\ Len(q) \in Nat \ {0}
      /\ DOMAIN q = 1..Len(q)
      /\ Head(q) = q[1]
      /\ Tail(q) \in Seq(Rows)
      /\ Len(Tail(q)) = Len(q) - 1
      /\ \A i \in 1..Len(Tail(q)) : Tail(q)[i] = q[i + 1]
  BY HeadTailProperties, EmptySeq, LenProperties
<1>2. DOMAIN Tail(q) = 1..(Len(q) - 1)
  BY <1>1, LenProperties
<1> QED
  BY <1>1, <1>2, ElementOfSeq DEF Range, IsInjective

-----------------------------------------------------------------------------
(* Type correctness. *)

(* A tick keeps every timer of the store in its domain.                      *)
LEMMA ElapseTypes ==
  ASSUME StoreTypeOK, Elapse
  PROVE  StoreTypeOK'
<1>1. \A r \in Rows : Cardinality(NotEarlier(r)) \in Nat
  BY RowsFinite DEF NotEarlier, Due, Pending
<1>2. wait' \in [Rows -> Int]
  BY <1>1 DEF Elapse, StoreTypeOK, Due, Pending
<1>3. age' \in [Events -> 0..(Retention + 1)]
  BY StoreConstants DEF Elapse, StoreTypeOK
<1> QED
  BY <1>2, <1>3 DEF Elapse, StoreTypeOK

(* Every statement that writes keeps the columns in their domains.           *)
LEMMA StoreTypes ==
  ASSUME StoreTypeOK
  PROVE  /\ UNCHANGED storeVars => StoreTypeOK'
         /\ \A e \in Events, W \in SUBSET Webhooks : create_event(e, W) => StoreTypeOK'
         /\ \A r \in Rows : mark_delivered(r) => StoreTypeOK'
         /\ \A r \in Rows, n \in 0..MaxAttempts, d \in Nat : mark_failed(r, n, d) => StoreTypeOK'
         /\ prune_delivered_events => StoreTypeOK'
<1>1. UNCHANGED storeVars => StoreTypeOK'
  BY DEF storeVars, StoreTypeOK
<1>2. ASSUME NEW e \in Events, NEW W \in SUBSET Webhooks, create_event(e, W)
      PROVE  StoreTypeOK'
  <2>1. CASE stored[e]
    BY <1>1, <1>2, <2>1 DEF create_event
  <2>2. CASE ~stored[e]
    <3>1. InsertRows(e, W)
      BY <1>2, <2>2 DEF create_event
    <3>2. 0 \in 0..MaxAttempts /\ 0 \in 0..(Retention + 1)
      BY StoreConstants
    <3> QED
      BY <3>1, <3>2 DEF InsertRows, StoreTypeOK
  <2> QED
    BY <2>1, <2>2
<1>3. ASSUME NEW r \in Rows, mark_delivered(r)
      PROVE  StoreTypeOK'
  BY <1>3 DEF mark_delivered, StoreTypeOK
<1>4. ASSUME NEW r \in Rows, NEW n \in 0..MaxAttempts, NEW d \in Nat, mark_failed(r, n, d)
      PROVE  StoreTypeOK'
  BY <1>4 DEF mark_failed, StoreTypeOK
<1>5. ASSUME prune_delivered_events
      PROVE  StoreTypeOK'
  BY <1>5, StoreConstants DEF prune_delivered_events, StoreTypeOK
<1> QED
  BY <1>1, <1>2, <1>3, <1>4, <1>5

(* The attempt count that mark_failed writes is capped, and its delay is a   *)
(* positive number of ticks.                                                 *)
LEMMA FailureWrite ==
  ASSUME NEW m \in 0..MaxAttempts
  PROVE  /\ (IF m + 1 > MaxAttempts THEN MaxAttempts ELSE m + 1) \in 0..MaxAttempts
         /\ delivery_backoff(m + 1) \in Nat
         /\ delivery_backoff(m + 1) > 0
<1>1. m \in Int /\ m + 1 \in Int /\ MaxAttempts \in Nat \ {0}
  BY StoreConstants
<1>2. (IF m + 1 > MaxAttempts THEN MaxAttempts ELSE m + 1) \in 0..MaxAttempts
  BY <1>1
<1> QED
  BY <1>1, <1>2, BackoffPositive

(* What next_delivery_delay gives is the delay of a pending row that no      *)
(* other comes before, and the time since "now" was taken on top.            *)
LEMMA DelayFacts ==
  ASSUME StoreTypeOK, NEW old \in Nat, NEW d \in next_delivery_delay(old)
  PROVE  /\ d \in Nat
         /\ \E r \in Pending :
              /\ wait[r] \in Int
              /\ \A q \in Pending : wait[r] <= wait[q]
              /\ wait[r] > 0 => d = wait[r] + old
              /\ wait[r] <= 0 => d <= old
<1>1. PICK r \in FirstPending : d \in (IF wait[r] > 0 THEN {wait[r] + old} ELSE 0..old)
  BY DEF next_delivery_delay
<1>2. r \in Pending /\ wait[r] \in Int /\ \A q \in Pending : wait[r] <= wait[q]
  BY DEF FirstPending, Pending, StoreTypeOK
<1> QED
  BY <1>1, <1>2

(* A fresh store and an idle process have their types.                       *)
LEMMA TypeOKInit == Init => TypeOK
<1> SUFFICES ASSUME Init PROVE TypeOK
  OBVIOUS
<1>1. StoreTypeOK
  BY StoreConstants DEF Init, StoreInit, StoreTypeOK
<1>2. queue \in Seq(Rows)
  BY EmptySeq DEF Init
<1>3. 0 \in 0..MaxAttempts /\ 0 \in 0..DeliveryTimeout /\ 0 \in 0..StoreLatency
  BY StoreConstants, DeliveryConstants
<1>4. /\ phase \in [Rows -> Phases]
      /\ snap \in [Rows -> 0..MaxAttempts]
      /\ left \in [Rows -> 0..DeliveryTimeout]
      /\ received \in [Rows -> BOOLEAN]
  BY <1>3 DEF Init, Phases
<1> QED
  BY <1>1, <1>2, <1>3, <1>4 DEF Init, TypeOK, LoopStates, CleanupStates

(* Each step of each task keeps the types.                                   *)
LEMMA TypeOKStep == TypeOK /\ [Next]_vars => TypeOK'
<1> SUFFICES ASSUME TypeOK, [Next]_vars PROVE TypeOK'
  OBVIOUS
<1> USE DeliveryConstants DEF TypeOK, LoopStates, CleanupStates, Phases
<1>1. StoreTypeOK /\ StoreConstants
  BY StoreConstants
<1>2. UNCHANGED storeVars => StoreTypeOK'
  BY <1>1, StoreTypes
<1>3. CASE UNCHANGED vars
  BY <1>2, <1>3 DEF vars, procVars, loopVars, timer
<1>4. ASSUME NEW W \in Configs, Start(W) PROVE TypeOK'
  BY <1>2, <1>4 DEF Start, loopVars, timer
<1>5. CASE Crash \/ Exit
  <2>1. LoseMemory
    BY <1>5 DEF Crash, Exit
  <2>2. <<>> \in Seq(Rows) /\ 0 \in 0..MaxAttempts /\ 0 \in 0..DeliveryTimeout /\ 0 \in 0..StoreLatency
    BY EmptySeq, StoreConstants
  <2> QED
    BY <1>2, <2>1, <2>2 DEF LoseMemory
<1>6. CASE RequestShutdown \/ OtherTasksEnd
  BY <1>2, <1>6 DEF RequestShutdown, OtherTasksEnd, loopVars, timer
<1>7. ASSUME NEW e \in Events, NewPost(e) PROVE TypeOK'
  <2>1. event_deliveries(e) \in SUBSET Webhooks
    BY DEF event_deliveries
  <2>2. StoreTypeOK'
    BY <1>1, <1>7, <2>1, StoreTypes DEF NewPost
  <2> QED
    BY <1>7, <2>2 DEF NewPost, procVars, loopVars, timer
<1>8. CASE NotifyDelivery
  BY <1>2, <1>8 DEF NotifyDelivery, procVars, loopVars, timer
<1>9. CASE DropHandler
  BY <1>2, <1>9 DEF DropHandler, procVars, loopVars, timer
<1>10. CASE StopSocket
  BY <1>2, <1>10 DEF StopSocket, procVars, loopVars, timer
<1>11. CASE LoopStep
  <2>1. CASE CheckShutdown
    BY <1>2, <2>1 DEF CheckShutdown, Goto, procVars, loopVars, timer
  <2>2. CASE LoadBatch
    <3>1. PICK n \in 0..BatchLimit : \E s \in Injection(1..n, Due) :
            /\ queue' = s
            /\ snap' = [r \in Rows |-> IF r \in Range(s) THEN attempts[r] ELSE 0]
      BY <2>2 DEF LoadBatch
    <3>2. PICK s \in Injection(1..n, Due) :
            /\ queue' = s
            /\ snap' = [r \in Rows |-> IF r \in Range(s) THEN attempts[r] ELSE 0]
      BY <3>1
    <3>3. s \in Seq(Rows)
      BY BatchIsSeq, StoreConstants
    <3>4. snap' \in [Rows -> 0..MaxAttempts]
      BY <1>1, <3>2 DEF StoreTypeOK
    <3> QED
      BY <1>2, <2>2, <3>2, <3>3, <3>4 DEF LoadBatch, Goto, procVars, timer
  <2>3. CASE LoadFails
    BY <1>2, <2>3 DEF LoadFails, Goto, procVars, loopVars, timer
  <2>4. CASE StartDelivery
    BY <1>2, <2>4, StartOfBatch DEF StartDelivery, procVars, timer
  <2>5. CASE BatchDone
    BY <1>2, <2>5 DEF BatchDone, Goto, procVars, loopVars, timer
  <2>6. CASE NextDelay
    <3>1. sleep' \in Nat
      BY <1>1, <2>6, DelayFacts DEF NextDelay
    <3> QED
      BY <1>2, <2>6, <3>1 DEF NextDelay, Goto, procVars, loopVars
  <2>7. CASE NextDelayFails
    BY <1>2, <2>7 DEF NextDelayFails, Goto, procVars, loopVars
  <2>8. CASE EnterSelect
    BY <1>2, <2>8 DEF EnterSelect, Goto, procVars, loopVars, timer
  <2>9. CASE Wake
    <3>1. sleep' \in Nat /\ late' \in 0..StoreLatency
      BY <2>9 DEF Wake
    <3>2. permit' \in BOOLEAN
      BY <2>9 DEF Wake
    <3> QED
      BY <1>2, <2>9, <3>1, <3>2 DEF Wake, Goto, procVars, loopVars
  <2> QED
    BY <1>11, <2>1, <2>2, <2>3, <2>4, <2>5, <2>6, <2>7, <2>8, <2>9 DEF LoopStep
<1>12. ASSUME NEW r \in Rows, AttemptStep(r) PROVE TypeOK'
  <2>1. CASE EndpointReceives(r)
    BY <1>2, <2>1 DEF EndpointReceives, Attempt, Outside, procVars, timer
  <2>2. CASE EndpointAccepts(r) \/ RequestFails(r) \/ RequestTimesOut(r)
    <3>1. phase' \in [Rows -> Phases]
      BY <2>2 DEF EndpointAccepts, RequestFails, RequestTimesOut, Attempt
    <3>2. UNCHANGED <<storeVars, snap, left, received>> /\ Outside
      BY <2>2 DEF EndpointAccepts, RequestFails, RequestTimesOut
    <3> QED
      BY <1>2, <3>1, <3>2 DEF Outside, procVars, timer
  <2>3. CASE MarkDelivered(r) \/ MarkFailed(r) \/ MarkFails(r)
    <3>1. StoreTypeOK'
      <4>1. CASE MarkDelivered(r)
        BY <1>1, <4>1, StoreTypes DEF MarkDelivered
      <4>2. CASE MarkFailed(r)
        BY <1>1, <4>2, StoreTypes, FailureWrite DEF MarkFailed
      <4> QED
        BY <1>2, <2>3, <4>1, <4>2 DEF MarkFails
    <3>2. EndAttempt(r)
      BY <2>3 DEF MarkDelivered, MarkFailed, MarkFails
    <3> QED
      BY <3>1, <3>2, StoreConstants DEF EndAttempt, Outside, procVars, timer
  <2> QED
    BY <1>12, <2>1, <2>2, <2>3 DEF AttemptStep
<1>13. CASE PruneOnce
  <2>1. StoreTypeOK'
    BY <1>1, <1>13, StoreTypes DEF PruneOnce
  <2> QED
    BY <1>13, <2>1 DEF PruneOnce, procVars, loopVars, timer
<1>14. CASE CleanupWakes \/ PruneFails
  BY <1>2, <1>14 DEF CleanupWakes, PruneFails, procVars, loopVars, timer
<1>15. CASE Tick
  <2>1. StoreTypeOK'
    BY <1>1, <1>15, ElapseTypes DEF Tick
  <2>2. /\ sleep' \in Nat /\ late' \in 0..StoreLatency
        /\ left' \in [Rows -> 0..DeliveryTimeout]
    BY <1>15 DEF Tick, CountDown
  <2> QED
    BY <1>15, <2>1, <2>2 DEF Tick, procVars
<1> QED
  BY <1>3, <1>4, <1>5, <1>6, <1>7, <1>8, <1>9, <1>10, <1>11, <1>12, <1>13,
     <1>14, <1>15 DEF Next, CleanupStep

(* Type correctness of the webhook pipeline, for every configuration.        *)
THEOREM TypeCorrect == Spec => []TypeOK
BY TypeOKInit, TypeOKStep, PTL DEF Spec

-----------------------------------------------------------------------------
(* The inductive invariant. *)

\* A step that touches neither the store nor the batch nor an attempt.
Quiet ==
  /\ UNCHANGED <<storeVars, queue, phase, snap, received>>
  /\ loop' = loop \/ (loop # "batch" /\ loop' # "batch")

\* The steps of the tasks that are quiet.
QuietStep ==
  \/ UNCHANGED vars
  \/ \E W \in Configs : Start(W)
  \/ RequestShutdown \/ OtherTasksEnd \/ NotifyDelivery \/ DropHandler \/ StopSocket
  \/ CleanupWakes \/ PruneFails
  \/ CheckShutdown \/ LoadFails \/ NextDelay \/ NextDelayFails \/ EnterSelect \/ Wake

(* The steps that load, sleep, wake or fail without a write leave the rows   *)
(* and the attempts alone.                                                   *)
LEMMA QuietSteps == QuietStep => Quiet
<1>1. UNCHANGED vars => Quiet
  BY DEF Quiet, vars, storeVars, loopVars
<1>2. (\E W \in Configs : Start(W)) => Quiet
  BY DEF Quiet, Start, loopVars
<1>3. /\ RequestShutdown \/ OtherTasksEnd \/ NotifyDelivery \/ DropHandler => Quiet
      /\ StopSocket \/ CleanupWakes \/ PruneFails => Quiet
  BY DEF Quiet, RequestShutdown, OtherTasksEnd, NotifyDelivery, DropHandler,
         StopSocket, CleanupWakes, PruneFails, loopVars
<1>4. CheckShutdown \/ LoadFails => Quiet
  BY DEF Quiet, CheckShutdown, LoadFails, LoopAt, Goto, loopVars
<1>5. NextDelay \/ NextDelayFails \/ EnterSelect \/ Wake => Quiet
  BY DEF Quiet, NextDelay, NextDelayFails, EnterSelect, Wake, LoopAt, Goto, loopVars
<1> QED
  BY <1>1, <1>2, <1>3, <1>4, <1>5 DEF QuietStep

\* Every step is quiet, or one of these.
BusyStep ==
  \/ Crash \/ Exit
  \/ \E e \in Events : NewPost(e)
  \/ LoadBatch \/ StartDelivery \/ BatchDone
  \/ \E r \in Rows : AttemptStep(r)
  \/ PruneOnce
  \/ Tick

(* Every step is a quiet one or one that touches rows or attempts.           *)
LEMMA StepKinds == [Next]_vars => QuietStep \/ BusyStep
BY DEF Next, LoopStep, CleanupStep, QuietStep, BusyStep

(* The rows of different events are different rows.                          *)
LEMMA RowFacts ==
  /\ \A e \in Events : \A r \in RowsOf(e) : r \in Rows /\ r[1] = e
  /\ \A r \in Rows : r[1] \in Events /\ r \in RowsOf(r[1])
  /\ \A e \in Events, W \in SUBSET Webhooks : ({e} \X W) \subseteq RowsOf(e)
BY DEF Rows, RowsOf

(* An event and its rows come and go together.                               *)
LEMMA LedgerStep == TypeOK /\ EventIffRows /\ [Next]_vars => EventIffRows'
<1> SUFFICES ASSUME TypeOK, EventIffRows, [Next]_vars PROVE EventIffRows'
  OBVIOUS
<1> USE RowFacts
<1>1. StoreTypeOK
  BY DEF TypeOK
<1>2. ASSUME UNCHANGED <<stored, status>> PROVE EventIffRows'
  BY <1>2 DEF EventIffRows
<1>3. CASE QuietStep
  BY <1>2, <1>3, QuietSteps DEF Quiet, storeVars
<1>4. CASE Crash \/ Exit \/ LoadBatch \/ StartDelivery \/ BatchDone
  BY <1>2, <1>4 DEF Crash, Exit, LoseMemory, LoadBatch, StartDelivery, BatchDone, Goto, storeVars
<1>5. ASSUME NEW e \in Events, NewPost(e) PROVE EventIffRows'
  <2>1. CASE stored[e]
    BY <1>2, <1>5, <2>1 DEF NewPost, create_event, storeVars
  <2>2. CASE ~stored[e]
    <3>1. InsertRows(e, event_deliveries(e)) /\ event_deliveries(e) # {}
      BY <1>5, <2>2 DEF NewPost, create_event
    <3>2. event_deliveries(e) \in SUBSET Webhooks
      BY DeliveryConstants DEF event_deliveries
    <3>3. stored'[e] /\ \E r \in RowsOf(e) : status'[r] # "none"
      <4>1. PICK w \in event_deliveries(e) : TRUE
        BY <3>1
      <4>2. <<e, w>> \in RowsOf(e) /\ <<e, w>> \in Rows /\ <<e, w>> \in {e} \X event_deliveries(e)
        BY <3>2, <4>1 DEF RowsOf, Rows
      <4> QED
        BY <1>1, <3>1, <4>2 DEF InsertRows, StoreTypeOK
    <3>4. ASSUME NEW f \in Events, f # e
          PROVE  stored'[f] <=> \E r \in RowsOf(f) : status'[r] # "none"
      <4>1. \A r \in RowsOf(f) : r \notin {e} \X event_deliveries(e)
        BY <3>2, <3>4
      <4>2. stored'[f] = stored[f] /\ \A r \in RowsOf(f) : status'[r] = status[r]
        BY <1>1, <3>1, <3>4, <4>1 DEF InsertRows, StoreTypeOK
      <4> QED
        BY <4>2 DEF EventIffRows
    <3> QED
      BY <3>3, <3>4 DEF EventIffRows
  <2> QED
    BY <2>1, <2>2
<1>6. ASSUME NEW r \in Rows, AttemptStep(r) PROVE EventIffRows'
  <2>1. CASE UNCHANGED storeVars
    BY <1>2, <2>1 DEF storeVars
  <2>2. CASE MarkDelivered(r)
    <3>1. stored' = stored /\ \A q \in Rows : status'[q] = "none" <=> status[q] = "none"
      BY <1>1, <2>2 DEF MarkDelivered, mark_delivered, StoreTypeOK
    <3>2. ASSUME NEW e \in Events
          PROVE  stored'[e] <=> \E q \in RowsOf(e) : status'[q] # "none"
      <4>1. \A q \in RowsOf(e) : status'[q] = "none" <=> status[q] = "none"
        BY <3>1
      <4>2. stored[e] <=> \E q \in RowsOf(e) : status[q] # "none"
        BY DEF EventIffRows
      <4> QED
        BY <3>1, <4>1, <4>2
    <3> QED
      BY <3>2 DEF EventIffRows
  <2>3. CASE MarkFailed(r)
    BY <1>2, <2>3 DEF MarkFailed, mark_failed
  <2>4. UNCHANGED storeVars \/ MarkDelivered(r) \/ MarkFailed(r)
    BY <1>6 DEF AttemptStep, EndpointReceives, EndpointAccepts, RequestFails,
                RequestTimesOut, MarkFails
  <2> QED
    BY <2>1, <2>2, <2>3, <2>4
<1>7. CASE PruneOnce
  <2>1. prune_delivered_events
    BY <1>7 DEF PruneOnce
  <2>2. ASSUME NEW e \in Events
        PROVE  stored'[e] <=> \E r \in RowsOf(e) : status'[r] # "none"
    <3>1. stored'[e] <=> stored[e] /\ e \notin Prunable
      BY <2>1 DEF prune_delivered_events
    <3>2. \A r \in RowsOf(e) : status'[r] = IF e \in Prunable THEN "none" ELSE status[r]
      BY <2>1 DEF prune_delivered_events
    <3> QED
      BY <3>1, <3>2 DEF EventIffRows
  <2> QED
    BY <2>2 DEF EventIffRows
<1>8. CASE Tick
  BY <1>2, <1>8 DEF Tick, Elapse
<1> QED
  BY <1>3, <1>4, <1>5, <1>6, <1>7, <1>8, StepKinds DEF BusyStep

\* What the batch in memory owes to the store.
BatchInv == LoadedRowsCurrent /\ OneAttemptPerRow /\ BatchAwaited

(* The empty batch has no rows and repeats none.                             *)
LEMMA EmptyBatch == Range(<<>>) = {} /\ IsInjective(<<>>)
BY DEF Range, IsInjective

(* With nothing loaded there is nothing to be stale.                         *)
LEMMA NothingLoaded ==
  ASSUME TypeOK', queue' = <<>>, InFlight' = {}
  PROVE  BatchInv'
<1>1. Loaded' = {}
  BY EmptyBatch DEF Loaded
<1> QED
  BY <1>1, EmptyBatch DEF BatchInv, LoadedRowsCurrent, OneAttemptPerRow, BatchAwaited

(* The loaded rows stay current through a step that leaves their columns     *)
(* alone, starts no attempt and stays in the batch.                          *)
LEMMA BatchShrinks ==
  ASSUME TypeOK, BatchInv,
         queue' = queue,
         InFlight' \subseteq InFlight,
         loop' = loop,
         \A r \in Loaded' : /\ status'[r] = status[r] /\ attempts'[r] = attempts[r]
                            /\ snap'[r] = snap[r] /\ wait'[r] <= 0
  PROVE  BatchInv'
<1>1. Loaded' \subseteq Loaded
  BY DEF Loaded
<1>2. LoadedRowsCurrent'
  BY <1>1 DEF BatchInv, LoadedRowsCurrent
<1>3. OneAttemptPerRow'
  BY DEF BatchInv, OneAttemptPerRow
<1>4. loop' # "batch" => Loaded' = {}
  BY <1>1 DEF BatchInv, BatchAwaited
<1> QED
  BY <1>2, <1>3, <1>4 DEF BatchInv, BatchAwaited

(* The loaded rows stay pending, due and counted as they were when loaded.   *)
LEMMA BatchStep ==
  TypeOK /\ TypeOK' /\ EventIffRows /\ BatchInv /\ [Next]_vars => BatchInv'
<1> SUFFICES ASSUME TypeOK, TypeOK', EventIffRows, BatchInv, [Next]_vars
             PROVE  BatchInv'
  OBVIOUS
<1>1. StoreTypeOK /\ phase \in [Rows -> Phases] /\ queue \in Seq(Rows)
  BY DEF TypeOK
<1>2. Loaded \subseteq Rows /\ InFlight \subseteq Rows
  <2>1. Range(queue) \subseteq Rows
    BY <1>1, LenProperties DEF Range
  <2> QED
    BY <2>1 DEF Loaded, InFlight
<1>3. \A r \in Loaded : /\ status[r] = "pending" /\ wait[r] <= 0 /\ snap[r] = attempts[r]
                        /\ r[1] \in Events /\ stored[r[1]]
  <2>1. ASSUME NEW r \in Loaded
        PROVE  r[1] \in Events /\ r \in RowsOf(r[1]) /\ status[r] = "pending"
    BY <1>2, <2>1, RowFacts DEF BatchInv, LoadedRowsCurrent
  <2>2. ASSUME NEW r \in Loaded PROVE stored[r[1]]
    BY <2>1 DEF EventIffRows
  <2> QED
    BY <2>1, <2>2 DEF BatchInv, LoadedRowsCurrent
<1>4. CASE QuietStep
  <2>1. UNCHANGED <<stored, status, attempts, wait, queue, phase, snap>>
        /\ (loop' = loop \/ loop # "batch")
    BY <1>4, QuietSteps DEF Quiet, storeVars
  <2>2. InFlight' = InFlight /\ Loaded' = Loaded
    BY <2>1 DEF InFlight, Loaded
  <2> QED
    BY <2>1, <2>2 DEF BatchInv, LoadedRowsCurrent, OneAttemptPerRow, BatchAwaited
<1>5. CASE Crash \/ Exit
  <2>1. queue' = <<>> /\ InFlight' = {}
    BY <1>5 DEF Crash, Exit, LoseMemory, InFlight
  <2> QED
    BY <2>1, NothingLoaded
<1>6. ASSUME NEW e \in Events, NewPost(e) PROVE BatchInv'
  <2>1. queue' = queue /\ phase' = phase /\ snap' = snap /\ loop' = loop
    BY <1>6 DEF NewPost, loopVars
  <2>2. InFlight' = InFlight /\ Loaded' = Loaded
    BY <2>1 DEF InFlight, Loaded
  <2>3. ASSUME NEW r \in Loaded
        PROVE  status'[r] = status[r] /\ attempts'[r] = attempts[r] /\ wait'[r] = wait[r]
    <3>1. CASE stored[e]
      BY <1>6, <3>1 DEF NewPost, create_event, storeVars
    <3>2. CASE ~stored[e]
      <4>1. r \in Rows /\ r \notin {e} \X event_deliveries(e)
        BY <1>2, <1>3, <3>2
      <4> QED
        BY <1>6, <3>2, <4>1 DEF NewPost, create_event, InsertRows
    <3> QED
      BY <3>1, <3>2
  <2> QED
    BY <1>3, <2>1, <2>2, <2>3, BatchShrinks
<1>7. CASE LoadBatch
  <2>1. InFlight = {} /\ loop' = "batch" /\ UNCHANGED <<status, attempts, wait, phase>>
    BY <1>7 DEF LoadBatch, LoopAt, Goto, storeVars, BatchInv, BatchAwaited, Loaded
  <2>2. PICK n \in 0..BatchLimit : \E s \in Injection(1..n, Due) :
          /\ queue' = s
          /\ snap' = [r \in Rows |-> IF r \in Range(s) THEN attempts[r] ELSE 0]
    BY <1>7 DEF LoadBatch
  <2>3. PICK s \in Injection(1..n, Due) :
          /\ queue' = s
          /\ snap' = [r \in Rows |-> IF r \in Range(s) THEN attempts[r] ELSE 0]
    BY <2>2
  <2>4. IsInjective(s) /\ Range(s) \subseteq Due
    BY BatchIsSeq, StoreConstants
  <2>5. InFlight' = {} /\ Loaded' = Range(s)
    BY <2>1, <2>3 DEF InFlight, Loaded
  <2>6. LoadedRowsCurrent'
    BY <2>1, <2>3, <2>4, <2>5 DEF LoadedRowsCurrent, Due, Pending
  <2> QED
    BY <2>1, <2>3, <2>4, <2>5, <2>6 DEF BatchInv, OneAttemptPerRow, BatchAwaited
<1>8. CASE StartDelivery
  <2> DEFINE h == Head(queue)
  <2>1. /\ queue # <<>> /\ queue' = Tail(queue)
        /\ loop = "batch" /\ loop' = loop
        /\ UNCHANGED <<status, attempts, wait, snap>>
    BY <1>8 DEF StartDelivery, LoopAt, storeVars
  <2>2. /\ h \in Rows /\ h \in Range(queue)
        /\ Range(queue') \subseteq Range(queue)
        /\ IsInjective(queue') /\ h \notin Range(queue')
    BY <1>1, <2>1, StartOfBatch DEF BatchInv, OneAttemptPerRow
  <2>3. InFlight' = InFlight \cup {h}
    <3>1. \E p \in {"sending", "fail"} : phase' = [phase EXCEPT ![h] = p]
      BY <1>8 DEF StartDelivery
    <3> QED
      BY <1>1, <2>2, <3>1 DEF InFlight
  <2>4. Loaded' \subseteq Loaded
    BY <2>2, <2>3 DEF Loaded
  <2>5. Range(queue') \cap InFlight' = {}
    BY <2>2, <2>3 DEF BatchInv, OneAttemptPerRow
  <2>6. LoadedRowsCurrent'
    BY <2>1, <2>4 DEF BatchInv, LoadedRowsCurrent
  <2> QED
    BY <2>1, <2>2, <2>5, <2>6 DEF BatchInv, OneAttemptPerRow, BatchAwaited
<1>9. CASE BatchDone
  <2>1. queue' = <<>> /\ InFlight' = {}
    BY <1>9 DEF BatchDone, loopVars, InFlight
  <2> QED
    BY <2>1, NothingLoaded
<1>10. ASSUME NEW r \in Rows, AttemptStep(r) PROVE BatchInv'
  <2>1. phase[r] # "none" /\ queue' = queue /\ loop' = loop
    BY <1>10 DEF AttemptStep, EndpointReceives, EndpointAccepts, RequestFails,
                 RequestTimesOut, MarkDelivered, MarkFailed, MarkFails, EndAttempt,
                 Attempt, Outside
  <2>2. r \in InFlight /\ r \in Loaded /\ r \notin Range(queue)
    BY <2>1 DEF InFlight, Loaded, BatchInv, OneAttemptPerRow
  <2>3. CASE EndpointReceives(r) \/ EndpointAccepts(r) \/ RequestFails(r) \/ RequestTimesOut(r)
    <3>1. /\ UNCHANGED <<status, attempts, wait, snap>>
          /\ \E p \in Phases : phase' = [phase EXCEPT ![r] = p]
      BY <2>3 DEF EndpointReceives, EndpointAccepts, RequestFails, RequestTimesOut,
                  Attempt, Phases, storeVars
    <3>2. InFlight' \subseteq InFlight
      BY <1>1, <2>2, <3>1 DEF InFlight
    <3>3. Loaded' \subseteq Loaded
      BY <2>1, <3>2 DEF Loaded
    <3> QED
      BY <1>3, <2>1, <3>1, <3>2, <3>3, BatchShrinks
  <2>4. CASE MarkDelivered(r) \/ MarkFailed(r) \/ MarkFails(r)
    <3>1. EndAttempt(r)
      BY <2>4 DEF MarkDelivered, MarkFailed, MarkFails
    <3>2. InFlight' = InFlight \ {r}
      BY <1>1, <3>1 DEF EndAttempt, InFlight
    <3>3. Loaded' \subseteq Loaded \ {r}
      BY <2>1, <2>2, <3>2 DEF Loaded
    <3>4. ASSUME NEW q \in Rows, q # r
          PROVE  /\ status'[q] = status[q] /\ attempts'[q] = attempts[q]
                 /\ wait'[q] = wait[q] /\ snap'[q] = snap[q]
      <4>1. snap'[q] = snap[q]
        BY <3>1, <3>4 DEF EndAttempt, TypeOK
      <4> QED
        BY <1>1, <2>4, <3>4, <4>1
        DEF MarkDelivered, MarkFailed, MarkFails, mark_delivered, mark_failed,
            storeVars, StoreTypeOK
    <3>5. \A q \in Loaded' : /\ status'[q] = status[q] /\ attempts'[q] = attempts[q]
                             /\ snap'[q] = snap[q] /\ wait'[q] <= 0
      BY <1>2, <1>3, <3>3, <3>4
    <3> QED
      BY <2>1, <3>2, <3>5, BatchShrinks
  <2> QED
    BY <1>10, <2>3, <2>4 DEF AttemptStep
<1>11. CASE PruneOnce
  <2>1. queue' = queue /\ phase' = phase /\ snap' = snap /\ loop' = loop
    BY <1>11 DEF PruneOnce, loopVars
  <2>2. InFlight' = InFlight /\ Loaded' = Loaded
    BY <2>1 DEF InFlight, Loaded
  <2>3. ASSUME NEW r \in Loaded
        PROVE  status'[r] = status[r] /\ attempts'[r] = attempts[r] /\ wait'[r] = wait[r]
    <3>1. r \in Rows /\ r[1] \notin Prunable
      BY <1>2, <1>3, RowFacts DEF Prunable
    <3> QED
      BY <1>11, <3>1 DEF PruneOnce, prune_delivered_events
  <2> QED
    BY <1>3, <2>1, <2>2, <2>3, BatchShrinks
<1>12. CASE Tick
  <2>1. /\ UNCHANGED <<status, attempts, queue, phase, snap, loop>>
        /\ Elapse
    BY <1>12 DEF Tick, Elapse
  <2>2. InFlight' = InFlight /\ Loaded' = Loaded
    BY <2>1 DEF InFlight, Loaded
  <2>3. ASSUME NEW r \in Loaded PROVE wait'[r] <= 0
    <3>1. r \in Due
      BY <1>2, <1>3 DEF Due, Pending
    <3>2. Cardinality(NotEarlier(r)) \in Nat
      BY RowsFinite DEF NotEarlier, Due, Pending
    <3>3. wait'[r] = -Cardinality(NotEarlier(r))
      BY <1>2, <2>1, <3>1 DEF Elapse
    <3> QED
      BY <3>2, <3>3
  <2> QED
    BY <2>1, <2>2, <2>3, BatchShrinks
<1> QED
  BY <1>4, <1>5, <1>6, <1>7, <1>8, <1>9, <1>10, <1>11, <1>12, StepKinds DEF BusyStep

\* Nothing is acknowledged that was not received.
ReceiptInv == ArrivedWasReceived /\ DeliveredWasReceived

(* An answer is a success, and a row delivered, only after the endpoint has  *)
(* the event.                                                                *)
LEMMA ReceiptStep ==
  TypeOK /\ EventIffRows /\ BatchInv /\ ReceiptInv /\ [Next]_vars => ReceiptInv'
<1> SUFFICES ASSUME TypeOK, EventIffRows, BatchInv, ReceiptInv, [Next]_vars
             PROVE  ReceiptInv'
  OBVIOUS
<1> USE DEF ReceiptInv, ArrivedWasReceived, DeliveredWasReceived
<1>1. /\ status \in [Rows -> {"none", "pending", "delivered"}]
      /\ phase \in [Rows -> Phases] /\ received \in [Rows -> BOOLEAN]
  BY DEF TypeOK, StoreTypeOK
<1>2. CASE QuietStep
  BY <1>2, QuietSteps DEF Quiet, storeVars
<1>3. CASE Crash \/ Exit
  BY <1>3 DEF Crash, Exit, LoseMemory, storeVars
<1>4. ASSUME NEW e \in Events, NewPost(e) PROVE ReceiptInv'
  <2>1. CASE stored[e]
    BY <1>1, <1>4, <2>1 DEF NewPost, create_event, storeVars, loopVars
  <2>2. CASE ~stored[e]
    <3>1. /\ phase' = phase
          /\ \A r \in Rows : received'[r] <=> received[r] /\ r \notin RowsOf(e)
          /\ InsertRows(e, event_deliveries(e))
      BY <1>4, <2>2 DEF NewPost, create_event, loopVars
    <3>2. \A r \in RowsOf(e) : status[r] = "none"
      BY <2>2 DEF EventIffRows
    <3>3. \A r \in RowsOf(e) : phase[r] = "none"
      BY <3>2, RowFacts DEF BatchInv, LoadedRowsCurrent, Loaded, InFlight
    <3>4. \A r \in Rows : status'[r] = "delivered" => status[r] = "delivered"
      BY <3>1 DEF InsertRows
    <3> QED
      BY <3>1, <3>2, <3>3, <3>4
  <2> QED
    BY <2>1, <2>2
<1>5. CASE LoadBatch \/ BatchDone
  BY <1>5 DEF LoadBatch, BatchDone, Goto, storeVars, loopVars
<1>6. CASE StartDelivery
  <2>1. /\ UNCHANGED <<status, received>>
        /\ \E p \in {"sending", "fail"} : phase' = [phase EXCEPT ![Head(queue)] = p]
    BY <1>6 DEF StartDelivery, storeVars
  <2> QED
    BY <1>1, <2>1
<1>7. ASSUME NEW r \in Rows, AttemptStep(r) PROVE ReceiptInv'
  <2>1. CASE EndpointReceives(r)
    BY <1>1, <2>1 DEF EndpointReceives, Attempt, storeVars
  <2>2. CASE EndpointAccepts(r)
    BY <1>1, <2>2 DEF EndpointAccepts, Attempt, storeVars
  <2>3. CASE RequestFails(r) \/ RequestTimesOut(r)
    BY <1>1, <2>3 DEF RequestFails, RequestTimesOut, Attempt, storeVars
  <2>4. CASE MarkDelivered(r)
    BY <1>1, <2>4 DEF MarkDelivered, mark_delivered, EndAttempt
  <2>5. CASE MarkFailed(r) \/ MarkFails(r)
    BY <1>1, <2>5 DEF MarkFailed, MarkFails, mark_failed, EndAttempt, storeVars
  <2> QED
    BY <1>7, <2>1, <2>2, <2>3, <2>4, <2>5 DEF AttemptStep
<1>8. CASE PruneOnce
  <2>1. /\ UNCHANGED <<phase, received>>
        /\ \A r \in Rows : status'[r] = "delivered" => status[r] = "delivered"
    BY <1>8 DEF PruneOnce, prune_delivered_events, loopVars
  <2> QED
    BY <2>1
<1>9. CASE Tick
  BY <1>9 DEF Tick, Elapse
<1> QED
  BY <1>2, <1>3, <1>4, <1>5, <1>6, <1>7, <1>8, <1>9, StepKinds DEF BusyStep

(* The loop never sleeps past a row it could know of.                        *)
LEMMA WakeupStep ==
  TypeOK /\ TypeOK' /\ BatchInv /\ NoLostWakeup /\ [Next]_vars => NoLostWakeup'
<1> SUFFICES ASSUME TypeOK, TypeOK', BatchInv, NoLostWakeup, [Next]_vars,
                    loop' \in {"arm", "select"}, ingest' = NoEvent, ~permit', ~missed',
                    NEW r \in Rows, status'[r] = "pending"
             PROVE  sleep' <= NotBefore(wait'[r]) + late'
  BY DEF NoLostWakeup, Pending
<1>1. StoreTypeOK /\ sleep \in Nat /\ late \in Nat /\ wait \in [Rows -> Int] /\ wait' \in [Rows -> Int]
  BY DeliveryConstants DEF TypeOK, StoreTypeOK
<1>2. ASSUME loop \in {"arm", "select"}, ingest = NoEvent, ~permit, ~missed,
             status[r] = "pending"
      PROVE  sleep <= NotBefore(wait[r]) + late
  BY <1>2 DEF NoLostWakeup, Pending
<1>3. ASSUME UNCHANGED <<loop, ingest, permit, missed, timer>>,
             status[r] = "pending", wait'[r] = wait[r]
      PROVE  sleep' <= NotBefore(wait'[r]) + late'
  BY <1>2, <1>3 DEF timer
<1>4. CASE UNCHANGED vars \/ (\E W \in Configs : Start(W)) \/ RequestShutdown
           \/ OtherTasksEnd \/ CleanupWakes \/ PruneFails
  BY <1>3, <1>4 DEF vars, Start, RequestShutdown, OtherTasksEnd, CleanupWakes, PruneFails, storeVars
<1>5. CASE Crash \/ Exit \/ NotifyDelivery \/ DropHandler
  BY <1>5 DEF Crash, Exit, LoseMemory, NotifyDelivery, DropHandler
<1>6. CASE StopSocket
  <2>1. ingest = NoEvent /\ ~missed /\ UNCHANGED <<loop, permit, sleep, late, status, wait>>
    BY <1>6 DEF StopSocket, storeVars, timer
  <2> QED
    BY <1>2, <2>1
<1>7. ASSUME NEW e \in Events, NewPost(e) PROVE sleep' <= NotBefore(wait'[r]) + late'
  <2>1. CASE stored[e]
    BY <1>3, <1>7, <2>1 DEF NewPost, create_event, storeVars
  <2>2. CASE ~stored[e]
    BY <1>7, <2>2, DeliveryConstants DEF NewPost
  <2> QED
    BY <2>1, <2>2
<1>8. CASE LoopStep
  <2>1. CASE CheckShutdown \/ LoadBatch \/ LoadFails \/ BatchDone \/ Wake
    BY <2>1 DEF CheckShutdown, LoadBatch, LoadFails, BatchDone, Wake, Goto
  <2>2. CASE StartDelivery
    BY <2>2 DEF StartDelivery, LoopAt
  <2>3. CASE NextDelay
    <3>1. UNCHANGED <<status, wait, late>>
      BY <2>3 DEF NextDelay, Goto, storeVars
    <3>2. r \in Pending
      BY <3>1 DEF Pending
    <3>3. sleep' \in next_delivery_delay(late)
      BY <2>3, <3>2 DEF NextDelay
    <3>4. PICK q \in Pending : /\ wait[q] \in Int /\ wait[q] <= wait[r]
                               /\ wait[q] > 0 => sleep' = wait[q] + late
                               /\ wait[q] <= 0 => sleep' <= late
      BY <1>1, <3>2, <3>3, DelayFacts
    <3>5. wait[r] \in Int /\ sleep' \in Nat
      BY <1>1, <3>3, DelayFacts
    <3> QED
      BY <1>1, <3>1, <3>4, <3>5 DEF NotBefore
  <2>4. CASE NextDelayFails
    BY <2>4 DEF NextDelayFails
  <2>5. CASE EnterSelect
    <3>1. loop = "arm" /\ UNCHANGED <<ingest, permit, missed, sleep, late, status, wait>>
      BY <2>5 DEF EnterSelect, LoopAt, Goto, storeVars, timer
    <3> QED
      BY <1>2, <3>1
  <2> QED
    BY <1>8, <2>1, <2>2, <2>3, <2>4, <2>5 DEF LoopStep
<1>9. ASSUME NEW q \in Rows, AttemptStep(q) PROVE sleep' <= NotBefore(wait'[r]) + late'
  <2>1. phase[q] # "none" /\ loop' = loop
    BY <1>9 DEF AttemptStep, EndpointReceives, EndpointAccepts, RequestFails,
                RequestTimesOut, MarkDelivered, MarkFailed, MarkFails, EndAttempt,
                Attempt, Outside
  <2>2. loop = "batch"
    BY <2>1 DEF BatchInv, BatchAwaited, Loaded, InFlight
  <2> QED
    BY <2>1, <2>2
<1>10. CASE PruneOnce
  <2>1. r[1] \notin Prunable
    BY <1>10 DEF PruneOnce, prune_delivered_events
  <2>2. status[r] = "pending" /\ wait'[r] = wait[r]
    BY <1>10, <2>1 DEF PruneOnce, prune_delivered_events
  <2> QED
    BY <1>3, <1>10, <2>2 DEF PruneOnce
<1>11. CASE Tick
  <2>1. /\ UNCHANGED <<loop, ingest, permit, missed, status>> /\ Elapse
        /\ \/ sleep' = sleep /\ late' = late + 1
           \/ sleep' = CountDown(sleep) /\ late' = late
    BY <1>11 DEF Tick, Elapse
  <2>2. sleep <= NotBefore(wait[r]) + late
    BY <1>2, <2>1
  <2>3. r \in Pending /\ wait[r] \in Int /\ wait'[r] \in Int
    BY <1>1, <2>1 DEF Pending
  <2>4. wait'[r] = wait[r] - 1 \/ wait[r] <= 0
    BY <2>1, <2>3 DEF Elapse, Due
  <2> QED
    BY <1>1, <2>1, <2>2, <2>3, <2>4 DEF NotBefore, CountDown
<1> QED
  BY <1>4, <1>5, <1>6, <1>7, <1>8, <1>9, <1>10, <1>11 DEF Next, CleanupStep

(* The inductive invariant holds before anything has run.                    *)
LEMMA InvInit == Init => Inv
<1> SUFFICES ASSUME Init PROVE Inv
  OBVIOUS
<1>1. TypeOK
  BY TypeOKInit
<1>2. InFlight = {} /\ Loaded = {}
  BY EmptyBatch DEF Init, InFlight, Loaded
<1>4. EventIffRows
  BY RowFacts DEF Init, StoreInit, EventIffRows
<1>5. OneAttemptPerRow /\ LoadedRowsCurrent
  BY <1>2, EmptyBatch DEF Init, OneAttemptPerRow, LoadedRowsCurrent
<1>6. ArrivedWasReceived /\ DeliveredWasReceived /\ NoLostWakeup
  BY DEF Init, StoreInit, ArrivedWasReceived, DeliveredWasReceived, NoLostWakeup
<1> QED
  BY <1>1, <1>2, <1>4, <1>5, <1>6 DEF Inv, BatchAwaited

(* Every step of every task keeps the inductive invariant.                   *)
LEMMA InvStep == Inv /\ [Next]_vars => Inv'
<1> SUFFICES ASSUME Inv, [Next]_vars PROVE Inv'
  OBVIOUS
<1>1. TypeOK /\ EventIffRows /\ BatchInv /\ ReceiptInv /\ NoLostWakeup
  BY DEF Inv, BatchInv, ReceiptInv
<1>2. TypeOK'
  BY <1>1, TypeOKStep
<1>3. EventIffRows'
  BY <1>1, LedgerStep
<1>4. BatchInv'
  BY <1>1, <1>2, BatchStep
<1>5. ReceiptInv'
  BY <1>1, ReceiptStep
<1>6. NoLostWakeup'
  BY <1>1, <1>2, WakeupStep
<1> QED
  BY <1>2, <1>3, <1>4, <1>5, <1>6 DEF Inv, BatchInv, ReceiptInv

(* The inductive invariant holds in every reachable state.                   *)
THEOREM Invariance == Spec => []Inv
BY InvInit, InvStep, PTL DEF Spec

(* A row is marked delivered only after its endpoint received the event,     *)
(* for any number of events, webhooks, crashes and store errors.             *)
THEOREM NothingAcknowledgedUnsent == Spec => []DeliveredWasReceived
<1>1. Inv => DeliveredWasReceived
  BY DEF Inv
<1> QED
  BY <1>1, Invariance, PTL

(* The store never holds an event without rows or rows without their event.  *)
THEOREM EventsAndRowsTogether == Spec => []EventIffRows
<1>1. Inv => EventIffRows
  BY DEF Inv
<1> QED
  BY <1>1, Invariance, PTL

(* The rows deliver_pending holds agree with the store until it is done with *)
(* them.                                                                     *)
THEOREM BatchAgreesWithStore == Spec => []LoadedRowsCurrent
<1>1. Inv => LoadedRowsCurrent
  BY DEF Inv
<1> QED
  BY <1>1, Invariance, PTL

(* The delivery loop sleeps past no row it could know of.                    *)
THEOREM WakeupsAreNotLost == Spec => []NoLostWakeup
<1>1. Inv => NoLostWakeup
  BY DEF Inv
<1> QED
  BY <1>1, Invariance, PTL

(* No row of the outbox is ever attempted twice at the same time.            *)
THEOREM RowsAreAttemptedOnce == Spec => []OneAttemptPerRow
<1>1. Inv => OneAttemptPerRow
  BY DEF Inv
<1> QED
  BY <1>1, Invariance, PTL

-----------------------------------------------------------------------------
(* How long the loop may sleep. *)

\* A delay that is over, or that was, old ticks ago, no longer than one the
\* backoff table has.
OnSchedule(d, old) == d <= 0 \/ \E n \in 1..MaxAttempts : d + old <= Backoff[n]

\* No row of the store was due later than the longest backoff when the loop
\* took its "now"; only between that and the end of its sleep is "now" old.
WaitBounded ==
  /\ late > 0 => loop \in {"delay", "arm", "select"}
  /\ \A r \in Rows : OnSchedule(wait[r], late)

(* A delay on the schedule stays on it as time passes, and every delay that  *)
(* delivery_backoff gives is on it.                                          *)
LEMMA ScheduleFacts ==
  /\ \A d, c \in Int, k, l \in Nat :
       OnSchedule(d, k) /\ c <= d /\ c + l <= d + k => OnSchedule(c, l)
  /\ \A n \in Int : OnSchedule(delivery_backoff(n), 0)
<1>1. /\ MaxAttempts \in Nat \ {0}
      /\ \A n \in 1..MaxAttempts : Backoff[n] \in Nat
  BY StoreConstants
<1>2. ASSUME NEW d \in Int, NEW c \in Int, NEW k \in Nat, NEW l \in Nat,
             OnSchedule(d, k), c <= d, c + l <= d + k
      PROVE  OnSchedule(c, l)
  <2>1. CASE d <= 0
    BY <1>2, <2>1 DEF OnSchedule
  <2>2. CASE \E n \in 1..MaxAttempts : d + k <= Backoff[n]
    BY <1>1, <1>2, <2>2 DEF OnSchedule
  <2> QED
    BY <1>2, <2>1, <2>2 DEF OnSchedule
<1>3. ASSUME NEW n \in Int
      PROVE  OnSchedule(delivery_backoff(n), 0)
  <2>1. PICK m \in 1..MaxAttempts : delivery_backoff(n) = Backoff[m]
    BY <1>1 DEF delivery_backoff
  <2> QED
    BY <1>1, <2>1 DEF OnSchedule
<1> QED
  BY <1>2, <1>3

(* "Now" grows old only from the question to the store to the end of sleep.  *)
LEMMA LateStep ==
  TypeOK /\ WaitBounded /\ [Next]_vars
    => (late' > 0 => loop' \in {"delay", "arm", "select"})
<1> SUFFICES ASSUME TypeOK, WaitBounded, [Next]_vars, late' > 0
             PROVE  loop' \in {"delay", "arm", "select"}
  OBVIOUS
<1>1. CASE late' = late /\ loop' = loop
  BY <1>1 DEF WaitBounded
<1>2. CASE UNCHANGED vars \/ RequestShutdown \/ OtherTasksEnd \/ NotifyDelivery
           \/ DropHandler \/ StopSocket \/ CleanupStep \/ \E W \in Configs : Start(W)
  BY <1>1, <1>2 DEF vars, RequestShutdown, OtherTasksEnd, NotifyDelivery, DropHandler,
       StopSocket, CleanupStep, CleanupWakes, PruneOnce, PruneFails, Start, timer
<1>3. CASE \E e \in Events : NewPost(e)
  BY <1>1, <1>3 DEF NewPost, timer
<1>4. CASE Crash \/ Exit
  BY <1>4 DEF Crash, Exit, LoseMemory
<1>5. CASE CheckShutdown \/ LoadBatch \/ LoadFails \/ BatchDone \/ EnterSelect
  BY <1>5 DEF CheckShutdown, LoadBatch, LoadFails, BatchDone, EnterSelect, LoopAt,
              Goto, WaitBounded, timer
<1>6. CASE StartDelivery
  BY <1>1, <1>6 DEF StartDelivery, timer
<1>7. CASE NextDelay \/ NextDelayFails \/ Wake
  BY <1>7 DEF NextDelay, NextDelayFails, Wake, Goto
<1>8. ASSUME NEW r \in Rows, AttemptStep(r) PROVE loop' \in {"delay", "arm", "select"}
  BY <1>1, <1>8 DEF AttemptStep, EndpointReceives, EndpointAccepts, RequestFails,
       RequestTimesOut, MarkDelivered, MarkFailed, MarkFails, EndAttempt, Outside, timer
<1>9. CASE Tick
  BY <1>1, <1>9 DEF Tick
<1> QED
  BY <1>2, <1>3, <1>4, <1>5, <1>6, <1>7, <1>8, <1>9 DEF Next, LoopStep

(* Inserting, failing, pruning and the clock keep every row on the schedule. *)
LEMMA WaitBoundedStep == Inv /\ Inv' /\ WaitBounded /\ [Next]_vars => WaitBounded'
<1> SUFFICES ASSUME Inv, Inv', WaitBounded, [Next]_vars, NEW r \in Rows
             PROVE  OnSchedule(wait'[r], late')
  BY LateStep DEF WaitBounded, OnSchedule, Inv
<1>1. /\ StoreTypeOK /\ snap \in [Rows -> 0..MaxAttempts] /\ wait[r] \in Int
      /\ late \in Nat /\ late' \in Nat
  <2>1. TypeOK /\ TypeOK'
    BY DEF Inv
  <2>2. late \in 0..StoreLatency /\ late' \in 0..StoreLatency
    BY <2>1 DEF TypeOK
  <2>3. StoreTypeOK /\ snap \in [Rows -> 0..MaxAttempts] /\ wait[r] \in Int
    BY <2>1 DEF TypeOK, StoreTypeOK
  <2> QED
    BY <2>2, <2>3, DeliveryConstants
<1>2. OnSchedule(wait[r], late) /\ OnSchedule(0, late) /\ OnSchedule(0, late')
  BY DEF WaitBounded, OnSchedule
<1>3. ASSUME wait'[r] \in {0, wait[r]}, late' \in {0, late}
      PROVE  OnSchedule(wait'[r], late')
  <2>1. CASE wait'[r] = 0
    BY <1>2, <2>1
  <2>2. CASE wait'[r] = wait[r]
    <3>1. wait[r] <= wait[r] /\ wait[r] + late' <= wait[r] + late
      BY <1>1, <1>3
    <3> QED
      BY <1>1, <1>2, <2>2, <3>1, ScheduleFacts
  <2> QED
    BY <1>3, <2>1, <2>2
<1>4. CASE QuietStep
  <2>1. wait' = wait
    BY <1>4, QuietSteps DEF Quiet, storeVars
  <2>2. late' \in {0, late}
    BY <1>4 DEF QuietStep, vars, RequestShutdown, OtherTasksEnd, NotifyDelivery,
         DropHandler, StopSocket, CleanupWakes, PruneFails, Start, CheckShutdown,
         LoadFails, NextDelay, NextDelayFails, EnterSelect, Wake, timer
  <2> QED
    BY <1>3, <2>1, <2>2
<1>5. CASE Crash \/ Exit \/ LoadBatch \/ StartDelivery \/ BatchDone
  BY <1>3, <1>5 DEF Crash, Exit, LoseMemory, LoadBatch, StartDelivery, BatchDone, Goto,
                    storeVars, timer
<1>6. ASSUME NEW e \in Events, NewPost(e) PROVE OnSchedule(wait'[r], late')
  <2>1. wait'[r] \in {0, wait[r]} /\ late' = late
    BY <1>6 DEF NewPost, create_event, InsertRows, storeVars, timer
  <2> QED
    BY <1>3, <2>1
<1>7. ASSUME NEW q \in Rows, AttemptStep(q) PROVE OnSchedule(wait'[r], late')
  <2>1. late' = late /\ (UNCHANGED wait \/ MarkFailed(q))
    BY <1>7 DEF AttemptStep, EndpointReceives, EndpointAccepts, RequestFails,
                RequestTimesOut, MarkDelivered, mark_delivered, MarkFailed, MarkFails,
                EndAttempt, Outside, storeVars, timer
  <2>2. CASE MarkFailed(q)
    <3>1. wait'[r] \in {wait[r], delivery_backoff(snap[q] + 1)}
      BY <1>1, <2>2 DEF MarkFailed, mark_failed, StoreTypeOK
    <3>2. snap[q] + 1 \in Int
      BY <1>1
    <3>3. loop = "batch"
      BY <2>2 DEF MarkFailed, Inv, BatchAwaited, Loaded, InFlight
    <3>4. late = 0
      BY <1>1, <3>3 DEF WaitBounded
    <3> QED
      BY <1>2, <2>1, <3>1, <3>2, <3>4, ScheduleFacts
  <2> QED
    BY <1>3, <2>1, <2>2
<1>8. CASE PruneOnce
  <2>1. wait'[r] \in {0, wait[r]} /\ late' = late
    BY <1>8 DEF PruneOnce, prune_delivered_events, timer
  <2> QED
    BY <1>3, <2>1
<1>9. CASE Tick
  <2>1. Cardinality(NotEarlier(r)) \in Nat
    BY RowsFinite DEF NotEarlier, Due, Pending
  <2>2. late' \in {late, late + 1}
    BY <1>9 DEF Tick
  <2>3. CASE r \in Pending \ Due
    <3>1. wait'[r] = wait[r] - 1
      BY <1>9, <2>3 DEF Tick, Elapse
    <3> QED
      BY <1>1, <1>2, <2>2, <3>1, ScheduleFacts
  <2>4. CASE r \notin Pending \ Due
    <3>1. wait'[r] \in {-Cardinality(NotEarlier(r)), 0}
      BY <1>9, <2>4 DEF Tick, Elapse
    <3> QED
      BY <1>2, <2>1, <3>1 DEF OnSchedule
  <2> QED
    BY <2>3, <2>4
<1> QED
  BY <1>4, <1>5, <1>6, <1>7, <1>8, <1>9, StepKinds DEF BusyStep

(* A sleep is set from a row on the schedule or to the idle interval, and    *)
(* only shrinks afterwards.                                                  *)
LEMMA SleepBoundedStep ==
  TypeOK /\ WaitBounded /\ SleepBounded /\ [Next]_vars => SleepBounded'
<1> SUFFICES ASSUME TypeOK, WaitBounded, SleepBounded, [Next]_vars PROVE SleepBounded'
  OBVIOUS
<1>1. /\ StoreTypeOK /\ sleep \in Nat /\ IdleSweep \in Nat /\ StoreLatency \in Nat
      /\ late \in 0..StoreLatency /\ late \in Nat
      /\ \A n \in 1..MaxAttempts : Backoff[n] \in Nat
  BY StoreConstants, DeliveryConstants DEF TypeOK
<1>2. CASE sleep' = sleep
  BY <1>2 DEF SleepBounded
<1>3. CASE sleep' = 0 \/ sleep' = IdleSweep
  BY <1>1, <1>3 DEF SleepBounded
<1>4. CASE NextDelay
  <2>1. CASE Pending = {} /\ sleep' = IdleSweep
    BY <1>3, <2>1
  <2>2. CASE sleep' \in next_delivery_delay(late)
    <3>1. PICK r \in Pending : /\ wait[r] \in Int
                               /\ wait[r] > 0 => sleep' = wait[r] + late
                               /\ wait[r] <= 0 => sleep' <= late
      BY <1>1, <2>2, DelayFacts
    <3>2. sleep' \in Nat
      BY <1>1, <2>2, DelayFacts
    <3>3. OnSchedule(wait[r], late)
      BY DEF WaitBounded, Pending
    <3> QED
      BY <1>1, <3>1, <3>2, <3>3 DEF SleepBounded, OnSchedule
  <2> QED
    BY <1>4, <2>1, <2>2 DEF NextDelay
<1>5. CASE Tick
  <2>1. sleep' \in Nat /\ sleep' <= sleep
    BY <1>1, <1>5 DEF Tick, CountDown
  <2> QED
    BY <1>1, <2>1 DEF SleepBounded
<1>6. CASE Crash \/ Exit \/ Wake \/ NextDelayFails
  BY <1>3, <1>6 DEF Crash, Exit, LoseMemory, Wake, NextDelayFails
<1>7. CASE UNCHANGED vars \/ RequestShutdown \/ OtherTasksEnd \/ NotifyDelivery
           \/ DropHandler \/ StopSocket \/ CleanupStep \/ \E W \in Configs : Start(W)
  BY <1>2, <1>7 DEF vars, RequestShutdown, OtherTasksEnd, NotifyDelivery, DropHandler,
       StopSocket, CleanupStep, CleanupWakes, PruneOnce, PruneFails, Start, timer
<1>8. CASE CheckShutdown \/ LoadBatch \/ LoadFails \/ StartDelivery \/ BatchDone \/ EnterSelect
  BY <1>2, <1>8 DEF CheckShutdown, LoadBatch, LoadFails, StartDelivery, BatchDone,
                    EnterSelect, timer
<1>9. CASE \E e \in Events : NewPost(e)
  BY <1>2, <1>9 DEF NewPost, timer
<1>10. ASSUME NEW r \in Rows, AttemptStep(r) PROVE SleepBounded'
  BY <1>2, <1>10 DEF AttemptStep, EndpointReceives, EndpointAccepts, RequestFails,
       RequestTimesOut, MarkDelivered, MarkFailed, MarkFails, EndAttempt, Outside, timer
<1> QED
  BY <1>4, <1>5, <1>6, <1>7, <1>8, <1>9, <1>10 DEF Next, LoopStep

(* The delivery loop never sleeps longer than the idle interval, the longest *)
(* backoff or the store's latency, whatever it was not told of: a row whose  *)
(* notification was dropped waits for no more than that.                     *)
THEOREM SleepsAreBounded == Spec => []SleepBounded
<1>1. Init => WaitBounded /\ SleepBounded
  BY DeliveryConstants DEF Init, StoreInit, WaitBounded, OnSchedule, SleepBounded
<1>2. Inv /\ Inv' /\ WaitBounded /\ SleepBounded /\ [Next]_vars
        => WaitBounded' /\ SleepBounded'
  BY WaitBoundedStep, SleepBoundedStep DEF Inv
<1> QED
  BY <1>1, <1>2, Invariance, PTL DEF Spec

-----------------------------------------------------------------------------
(* What a step may do to a row. *)

(* A step moves a row only along its lifecycle.                              *)
LEMMA RowSteps == Inv /\ [Next]_vars => \A r \in Rows : RowStep(r)
<1> SUFFICES ASSUME Inv, [Next]_vars, NEW r \in Rows PROVE RowStep(r)
  OBVIOUS
<1>1. /\ StoreTypeOK /\ snap \in [Rows -> 0..MaxAttempts] /\ r[1] \in Events
      /\ attempts[r] \in 0..MaxAttempts /\ r \in RowsOf(r[1])
  BY RowFacts DEF Inv, TypeOK, StoreTypeOK
<1>2. ASSUME status'[r] = status[r], attempts'[r] = attempts[r]
      PROVE  RowStep(r)
  BY <1>1, <1>2 DEF RowStep, StoreTypeOK
<1>3. CASE QuietStep
  BY <1>2, <1>3, QuietSteps DEF Quiet, storeVars
<1>4. CASE Crash \/ Exit \/ LoadBatch \/ StartDelivery \/ BatchDone
  BY <1>2, <1>4 DEF Crash, Exit, LoseMemory, LoadBatch, StartDelivery, BatchDone, Goto, storeVars
<1>5. ASSUME NEW e \in Events, NewPost(e) PROVE RowStep(r)
  <2>1. CASE stored[e]
    BY <1>2, <1>5, <2>1 DEF NewPost, create_event, storeVars
  <2>2. CASE ~stored[e] /\ r[1] = e
    <3>1. status[r] = "none"
      BY <1>1, <2>2 DEF Inv, EventIffRows
    <3> QED
      BY <3>1 DEF RowStep
  <2>3. CASE ~stored[e] /\ r[1] # e
    <3>1. r \notin {e} \X event_deliveries(e)
      BY <2>3
    <3> QED
      BY <1>2, <1>5, <2>3, <3>1 DEF NewPost, create_event, InsertRows
  <2> QED
    BY <2>1, <2>2, <2>3
<1>6. ASSUME NEW q \in Rows, AttemptStep(q) PROVE RowStep(r)
  <2>1. UNCHANGED storeVars \/ MarkDelivered(q) \/ MarkFailed(q)
    BY <1>6 DEF AttemptStep, EndpointReceives, EndpointAccepts, RequestFails,
                RequestTimesOut, MarkFails
  <2>2. CASE UNCHANGED storeVars
    BY <1>2, <2>2 DEF storeVars
  <2>3. CASE MarkDelivered(q)
    <3>1. status' = [status EXCEPT ![q] = IF @ = "none" THEN @ ELSE "delivered"]
          /\ attempts' = attempts
      BY <2>3 DEF MarkDelivered, mark_delivered
    <3> QED
      BY <1>1, <3>1 DEF RowStep, StoreTypeOK
  <2>4. CASE MarkFailed(q)
    <3>1. status' = status /\ \A p \in Rows : p # q => attempts'[p] = attempts[p]
      BY <1>1, <2>4 DEF MarkFailed, mark_failed, StoreTypeOK
    <3>2. q \in Loaded
      BY <2>4 DEF MarkFailed, Loaded, InFlight
    <3>3. status[q] = "pending" /\ snap[q] = attempts[q]
      BY <3>2 DEF Inv, LoadedRowsCurrent
    <3>4. attempts'[q] = IF attempts[q] + 1 > MaxAttempts THEN MaxAttempts ELSE attempts[q] + 1
      BY <1>1, <2>4, <3>3 DEF MarkFailed, mark_failed, StoreTypeOK
    <3>5. attempts'[q] \in {attempts[q], attempts[q] + 1}
      BY <1>1, <3>4, StoreConstants DEF StoreTypeOK
    <3> QED
      BY <1>2, <3>1, <3>3, <3>5 DEF RowStep
  <2> QED
    BY <2>1, <2>2, <2>3, <2>4
<1>7. CASE PruneOnce
  <2>1. prune_delivered_events
    BY <1>7 DEF PruneOnce
  <2>2. CASE r[1] \notin Prunable
    BY <1>2, <2>1, <2>2 DEF prune_delivered_events
  <2>3. CASE r[1] \in Prunable
    <3>1. age[r[1]] > Retention /\ \A q \in RowsOf(r[1]) : status[q] # "pending"
      BY <2>3 DEF Prunable
    <3>2. \A q \in RowsOf(r[1]) : status'[q] = "none"
      BY <1>1, <2>1, <2>3, RowFacts DEF prune_delivered_events
    <3> QED
      BY <1>1, <3>1, <3>2 DEF RowStep
  <2> QED
    BY <2>2, <2>3
<1>8. CASE Tick
  BY <1>2, <1>8 DEF Tick, Elapse
<1> QED
  BY <1>3, <1>4, <1>5, <1>6, <1>7, <1>8, StepKinds DEF BusyStep

(* A pending row is never lost, a delivered one never goes back, and rows    *)
(* vanish only with their whole, fully delivered and expired event.          *)
THEOREM RowsKeepTheirLifecycle == Spec => RowLifecycle
<1>1. Inv /\ [Next]_vars => [\A r \in Rows : RowStep(r)]_vars
  BY RowSteps
<1> QED
  BY <1>1, Invariance, PTL DEF Spec, RowLifecycle

-----------------------------------------------------------------------------
(* The pipeline implements the outbox. *)

(* Every step of the pipeline is a step of the outbox, or none.              *)
LEMMA OutboxStep == Inv /\ [Next]_vars => [Promise!Next]_<<status, received>>
<1> SUFFICES ASSUME Inv, [Next]_vars, ~ UNCHANGED <<status, received>>
             PROVE  Promise!Next
  OBVIOUS
<1> USE DEF Promise!Entries, Promise!EntriesOf, Rows, RowsOf
<1>1. /\ status \in [Rows -> {"none", "pending", "delivered"}]
      /\ received \in [Rows -> BOOLEAN]
  BY DEF Inv, TypeOK, StoreTypeOK
<1>2. CASE QuietStep
  BY <1>2, QuietSteps DEF Quiet, storeVars
<1>3. CASE Crash \/ Exit \/ LoadBatch \/ StartDelivery \/ BatchDone \/ Tick
  BY <1>3 DEF Crash, Exit, LoseMemory, LoadBatch, StartDelivery, BatchDone, Goto,
              Tick, Elapse, storeVars
<1>4. ASSUME NEW e \in Events, NewPost(e) PROVE Promise!Next
  <2>1. CASE stored[e]
    <3>1. status' = status /\ received' = [r \in Rows |-> received[r]]
      BY <1>1, <1>4, <2>1 DEF NewPost, create_event, storeVars
    <3> QED
      BY <1>1, <3>1
  <2>2. CASE ~stored[e]
    <3>1. \A r \in RowsOf(e) : status[r] = "none"
      BY <2>2 DEF Inv, EventIffRows
    <3>2. event_deliveries(e) \in SUBSET Webhooks
      BY DeliveryConstants DEF event_deliveries
    <3>3. /\ status' = [r \in Rows |-> IF r \in {e} \X event_deliveries(e)
                                       THEN "pending" ELSE status[r]]
          /\ received' = [r \in Rows |-> received[r] /\ r \notin RowsOf(e)]
      BY <1>1, <1>4, <2>2 DEF NewPost, create_event, InsertRows
    <3>4. Promise!Enqueue(e, event_deliveries(e))
      BY <3>1, <3>3 DEF Promise!Enqueue
    <3> QED
      BY <3>2, <3>4 DEF Promise!Next
  <2> QED
    BY <2>1, <2>2
<1>5. ASSUME NEW r \in Rows, AttemptStep(r) PROVE Promise!Next
  <2>1. phase[r] # "none"
    BY <1>5 DEF AttemptStep, EndpointReceives, EndpointAccepts, RequestFails,
                RequestTimesOut, MarkDelivered, MarkFailed, MarkFails, Attempt
  <2>2. status[r] = "pending"
    BY <2>1 DEF Inv, LoadedRowsCurrent, Loaded, InFlight
  <2>3. CASE EndpointReceives(r)
    <3>1. Promise!Receive(r)
      BY <2>2, <2>3 DEF EndpointReceives, Promise!Receive, storeVars
    <3> QED
      BY <3>1 DEF Promise!Next
  <2>4. CASE MarkDelivered(r)
    <3>1. received[r]
      BY <2>4 DEF MarkDelivered, Inv, ArrivedWasReceived
    <3>2. Promise!Acknowledge(r)
      BY <1>1, <2>2, <2>4, <3>1
      DEF MarkDelivered, mark_delivered, EndAttempt, Promise!Acknowledge
    <3> QED
      BY <3>2 DEF Promise!Next
  <2>5. CASE EndpointAccepts(r) \/ RequestFails(r) \/ RequestTimesOut(r) \/ MarkFailed(r) \/ MarkFails(r)
    BY <2>5 DEF EndpointAccepts, RequestFails, RequestTimesOut, MarkFailed, MarkFails,
                mark_failed, EndAttempt, storeVars
  <2> QED
    BY <1>5, <2>3, <2>4, <2>5 DEF AttemptStep
<1>6. CASE PruneOnce
  <2>1. /\ status' = [r \in Rows |-> IF r[1] \in Prunable THEN "none" ELSE status[r]]
        /\ received' = received
    BY <1>6 DEF PruneOnce, prune_delivered_events
  <2>2. Prunable \in SUBSET Events
        /\ \A e \in Prunable : \A r \in RowsOf(e) : status[r] # "pending"
    BY DEF Prunable
  <2>3. Promise!Forget(Prunable)
    BY <2>1, <2>2 DEF Promise!Forget
  <2> QED
    BY <2>2, <2>3 DEF Promise!Next
<1> QED
  BY <1>2, <1>3, <1>4, <1>5, <1>6, StepKinds DEF BusyStep

(* The pipeline with its batches, timeouts, store errors, crashes and        *)
(* restarts implements the durable at-least-once outbox.                     *)
THEOREM ImplementsTheOutbox == Spec => ImplementsOutbox
<1>1. Init => Promise!Init
  BY DEF Init, StoreInit, Promise!Init, Promise!Entries, Rows
<1> QED
  BY <1>1, OutboxStep, Invariance, PTL DEF Spec, ImplementsOutbox, Promise!Spec
=============================================================================
