---------------------------- MODULE GatewayProofs ----------------------------
(***************************************************************************)
(* Theorems about the health loop by itself, beside forms that edit        *)
(* thresholds, and about the composed gateway: any number of requests,     *)
(* forms and stations, the health loop, signals, crashes and restarts.     *)
(* The steps of a request and of a form are proved in RelayProofs and      *)
(* AdminProofs; what is left is that they do not disturb one another.      *)
(***************************************************************************)
EXTENDS Gateway, RelayProofs, AdminProofs

-----------------------------------------------------------------------------
(* The health loop: type correctness *)

LEMMA EmptyTables == IsTable(<<>>, Station) /\ IsTable(<<>>, Status)
BY DEF IsTable

\* The rows a round of probes writes are status rows of stations it has read.
LEMMA ProbeType ==
  ASSUME LoopTypeOK, NEW id \in health.todo, Probe(id)
  PROVE  LoopTypeOK'
<1>1. StoreTypeOK /\ HealthTypeOK
  BY DEF LoopTypeOK
<1>2. /\ id \in DOMAIN health.stations /\ id \in Ids /\ health.stations[id] \in Station
      /\ IsTable(health.statuses, Status)
  BY <1>1 DEF HealthTypeOK, IsTable
<1>3. HealthTypeOK'
  BY <1>1 DEF Probe, HealthTypeOK
<1> DEFINE before == StatusOf(health.statuses, id)
<1>4. before \in Status /\ now \in Nat /\ faulted \subseteq Ids
  BY <1>1, <1>2, StatusOfType DEF StoreTypeOK
<1>5. /\ RecordSuccess(health.stations[id], before) \in Status
      /\ RecordFailure(health.stations[id], before, now) \in Status
  BY <1>2, <1>4, RecordSuccessType, RecordFailureType
<1>6. UNCHANGED <<configVars, now>>
  BY DEF Probe
<1>7. StoreTypeOK'
  <2>1. CASE UNCHANGED <<statuses, tally, faulted>>
    BY <1>1, <1>4, <1>6, <2>1, SameStoreType DEF configVars, tableVars
  <2>2. ASSUME NEW status \in Status, SaveStationStatus(stopping, id, status),
               faulted' \in {faulted, faulted \cup {id}}
        PROVE  StoreTypeOK'
    BY <1>1, <1>2, <1>4, <1>6, <2>2, SaveType
  <2>3. QED
    BY <1>5, <2>1, <2>2 DEF Probe
<1>8. QED
  BY <1>3, <1>7 DEF LoopTypeOK

LEMMA HealthStepType ==
  ASSUME LoopTypeOK, HealthStep
  PROVE  LoopTypeOK'
<1>1. StoreTypeOK /\ HealthTypeOK
  BY DEF LoopTypeOK
<1>2. CASE TickRound \/ ReadRound \/ SkipRound \/ EndRound \/ Halt
  <2>1. StoreTypeOK'
    BY <1>1, <1>2 DEF TickRound, ReadRound, SkipRound, EndRound, Halt, StoreTypeOK, storeVars,
                      tableVars
  <2>2. HealthTypeOK'
    <3>1. CASE TickRound
      BY <1>1, <3>1 DEF TickRound, HealthTypeOK, StoreTypeOK
    <3>2. CASE ReadRound
      BY <1>1, <3>2 DEF ReadRound, HealthTypeOK, StoreTypeOK
    <3>3. CASE SkipRound \/ EndRound
      BY <1>1, <3>3, EmptyTables DEF SkipRound, EndRound, HealthTypeOK, Resting
    <3>4. CASE Halt
      BY <1>1, <3>4 DEF Halt, HealthTypeOK
    <3>5. QED
      BY <1>2, <3>1, <3>2, <3>3, <3>4
  <2>3. QED
    BY <2>1, <2>2 DEF LoopTypeOK
<1>3. QED
  BY <1>2, ProbeType DEF HealthStep

\* An edit of thresholds leaves a station a station.
LEMMA RetuneType ==
  ASSUME StoreTypeOK, NEW id \in DOMAIN stations, Retune(id)
  PROVE  StoreTypeOK'
<1>1. PICK t \in Tunings : stations' = [stations EXCEPT ![id].failureThreshold = t.failure,
                                                       ![id].recoveryThreshold = t.recovery]
  BY DEF Retune
<1>2. t.failure \in Int /\ t.recovery \in Int
  BY HealthAssumption, CountCapAssumption
<1>3. IsTable(stations', Station)
  <2>1. IsTable(stations, Station) /\ stations[id] \in Station
    BY DEF StoreTypeOK, IsTable
  <2>2. [stations[id] EXCEPT !.failureThreshold = t.failure,
                             !.recoveryThreshold = t.recovery] \in Station
    BY <1>2, <2>1 DEF Station
  <2>3. stations' = [stations EXCEPT ![id] =
          [stations[id] EXCEPT !.failureThreshold = t.failure,
                               !.recoveryThreshold = t.recovery]]
    BY <1>1, <2>1 DEF IsTable
  <2>4. QED
    BY <2>1, <2>2, <2>3 DEF IsTable
<1>4. QED
  BY <1>3 DEF Retune, StoreTypeOK

\* Everything beside the loop's own steps: signals, upstreams, edits and the clock.
Around == \/ Signal
          \/ \E id \in DOMAIN stations : Flap(id) \/ Retune(id)
          \/ Tick /\ UNCHANGED healthVars
          \/ UNCHANGED loopVars

LEMMA LoopSteps == [LoopNext]_loopVars => HealthStep \/ Around
BY DEF LoopNext, Around

LEMMA AroundType ==
  ASSUME LoopTypeOK, Around
  PROVE  LoopTypeOK'
<1>1. StoreTypeOK /\ HealthTypeOK
  BY DEF LoopTypeOK
<1>2. StoreTypeOK'
  <2>1. CASE UNCHANGED storeVars
    BY <1>1, <2>1 DEF StoreTypeOK, storeVars, tableVars
  <2>2. ASSUME NEW id \in DOMAIN stations, Retune(id)
        PROVE  StoreTypeOK'
    BY <1>1, <2>2, RetuneType
  <2>3. CASE Tick
    BY <1>1, <2>3, TickType
  <2>4. QED
    BY <2>1, <2>2, <2>3 DEF Around, Signal, Flap, loopVars
<1>3. HealthTypeOK'
  <2>1. UNCHANGED health
    BY DEF Around, Signal, Flap, Retune, loopVars, healthVars
  <2>2. stopping' \in BOOLEAN
    BY <1>1 DEF Around, Signal, Flap, Retune, loopVars, healthVars, HealthTypeOK
  <2>3. down' \subseteq Ids
    <3>1. CASE UNCHANGED down
      BY <1>1, <3>1 DEF HealthTypeOK
    <3>2. ASSUME NEW id \in DOMAIN stations, Flap(id)
          PROVE  down' \subseteq Ids
      BY <1>1, <3>2 DEF Flap, HealthTypeOK, StoreTypeOK, IsTable
    <3>3. QED
      BY <3>1, <3>2 DEF Around, Signal, Retune, loopVars, healthVars
  <2>4. QED
    BY <1>1, <2>1, <2>2, <2>3 DEF HealthTypeOK
<1>4. QED
  BY <1>2, <1>3 DEF LoopTypeOK

LEMMA LoopInitType == LoopInit => LoopTypeOK
<1> SUFFICES ASSUME LoopInit PROVE LoopTypeOK
  OBVIOUS
<1>1. StoreTypeOK
  BY StoreInitType DEF LoopInit
<1>2. HealthTypeOK
  BY EmptyTables DEF LoopInit, HealthInit, HealthTypeOK, Resting
<1>3. QED
  BY <1>1, <1>2 DEF LoopTypeOK

LEMMA LoopNextType == LoopTypeOK /\ [LoopNext]_loopVars => LoopTypeOK'
BY LoopSteps, HealthStepType, AroundType

\* Type correctness: no station is left to probe outside a round, and every row a probe
\* writes is a status row, whatever thresholds were edited meanwhile (StartHealthLoop).
THEOREM LoopTypeCorrect == LoopSpec => []LoopTypeOK
BY LoopInitType, LoopNextType, PTL DEF LoopSpec

-----------------------------------------------------------------------------
(* The health loop: no outcome is lost *)

\* NoLostOutcome is not inductive: a probe counts from the snapshot of its round.  The
\* snapshot of a station still to be probed must be its row, which holds because
\* nobody else writes rows and each station is probed once in a round.
CountsKept ==
  /\ LoopTypeOK
  /\ DOMAIN tally = DOMAIN statuses
  /\ NoLostOutcome
  /\ \A id \in health.todo : StatusOf(health.statuses, id) = StatusOf(statuses, id)

\* Both outcomes count on from the row they start with.
LEMMA OutcomesCount ==
  ASSUME NEW station, NEW status \in Status, NEW time \in Nat
  PROVE  /\ Count(RecordFailure(station, status, time))
              = [failures |-> Bump(status.failures), recoveries |-> 0]
         /\ Count(RecordSuccess(station, status))
              = [failures |-> 0, recoveries |-> Bump(status.recoveries)]
BY DEF RecordFailure, RecordSuccess, Count, Status

LEMMA SaveCounts ==
  ASSUME StoreTypeOK, DOMAIN tally = DOMAIN statuses, NoLostOutcome,
         NEW id \in Ids, NEW station, NEW time \in Nat,
         NEW row \in {RecordFailure(station, StatusOf(statuses, id), time),
                      RecordSuccess(station, StatusOf(statuses, id))},
         NEW cancelled, SaveStationStatus(cancelled, id, row)
  PROVE  /\ (DOMAIN tally = DOMAIN statuses)' /\ NoLostOutcome'
         /\ \A other \in Ids \ {id} : StatusOf(statuses', other) = StatusOf(statuses, other)
<1>1. CASE UNCHANGED <<statuses, tally>>
  BY <1>1 DEF NoLostOutcome
<1>2. CASE /\ statuses' = Put(statuses, id, row)
           /\ tally' = Put(tally, id, Tallied(id, row))
  <2> DEFINE before == StatusOf(statuses, id)
             n == IF id \in DOMAIN tally THEN tally[id] ELSE Count(NoStatus)
  <2>1. before \in Status /\ n = Count(before)
    BY StatusOfType DEF StoreTypeOK, StatusOf, NoLostOutcome
  <2>2. n.failures = before.failures /\ n.recoveries = before.recoveries
    BY <2>1 DEF Count
  <2>a. before.failures \in 0 .. CountCap
    BY <2>1 DEF Status
  <2>3. Bump(before.failures) \in 1 .. CountCap
    BY <2>a, BumpType
  <2>4. CASE row = RecordFailure(station, before, time)
    <3>1. Count(row) = [failures |-> Bump(before.failures), recoveries |-> 0]
      BY <2>1, <2>4, OutcomesCount
    <3>2. row.failures > 0
      BY <2>3, <3>1 DEF Count
    <3>3. Tallied(id, row) = Count(row)
      BY <2>2, <3>1, <3>2 DEF Tallied
    <3>4. QED
      BY <1>2, <3>3 DEF Put, NoLostOutcome, StatusOf
  <2>5. CASE row = RecordSuccess(station, before)
    <3>1. Count(row) = [failures |-> 0, recoveries |-> Bump(before.recoveries)]
      BY <2>1, <2>5, OutcomesCount
    <3>2. ~ row.failures > 0
      BY <3>1 DEF Count
    <3>3. Tallied(id, row) = Count(row)
      BY <2>2, <3>1, <3>2 DEF Tallied
    <3>4. QED
      BY <1>2, <3>3 DEF Put, NoLostOutcome, StatusOf
  <2>6. QED
    BY <2>4, <2>5
<1>3. QED
  BY <1>1, <1>2 DEF SaveStationStatus

LEMMA CountsStep == CountsKept /\ [LoopNext]_loopVars => CountsKept'
<1> SUFFICES ASSUME CountsKept, [LoopNext]_loopVars PROVE CountsKept'
  OBVIOUS
<1>1. LoopTypeOK' /\ LoopTypeOK /\ StoreTypeOK /\ HealthTypeOK
  BY LoopNextType DEF CountsKept, LoopTypeOK
<1>2. CASE Around
  <2>1. UNCHANGED <<health, statuses, tally>>
    BY <1>2 DEF Around, Signal, Flap, Retune, Tick, loopVars, healthVars, storeVars, tableVars
  <2>2. QED
    BY <1>1, <2>1 DEF CountsKept, NoLostOutcome
<1>3. CASE TickRound \/ ReadRound \/ SkipRound \/ EndRound \/ Halt
  <2>1. UNCHANGED <<statuses, tally>>
    BY <1>3 DEF TickRound, ReadRound, SkipRound, EndRound, Halt, storeVars, tableVars
  <2>2. health'.todo = {} \/ health'.statuses = statuses
    <3>1. CASE ReadRound
      BY <1>1, <3>1 DEF ReadRound, HealthTypeOK
    <3>2. CASE TickRound \/ Halt
      BY <1>1, <3>2 DEF TickRound, Halt, HealthTypeOK
    <3>3. CASE SkipRound \/ EndRound
      BY <3>3 DEF SkipRound, EndRound, Resting
    <3>4. QED
      BY <1>3, <3>1, <3>2, <3>3
  <2>3. \A id \in health'.todo : StatusOf(health'.statuses, id) = StatusOf(statuses', id)
    BY <2>1, <2>2
  <2>4. QED
    BY <1>1, <2>1, <2>3 DEF CountsKept, NoLostOutcome
<1>4. ASSUME NEW id \in health.todo, Probe(id)
      PROVE  CountsKept'
  <2> DEFINE before == StatusOf(health.statuses, id)
             station == health.stations[id]
  <2>1. /\ id \in Ids /\ health.todo \subseteq Ids /\ now \in Nat
        /\ before = StatusOf(statuses, id)
    BY <1>1 DEF CountsKept, HealthTypeOK, StoreTypeOK, IsTable
  <2>2. health'.todo = health.todo \ {id} /\ health'.statuses = health.statuses
    BY <1>1, <1>4 DEF Probe, HealthTypeOK
  <2>3. /\ (DOMAIN tally = DOMAIN statuses)' /\ NoLostOutcome'
        /\ \A other \in Ids \ {id} : StatusOf(statuses', other) = StatusOf(statuses, other)
    <3>1. CASE UNCHANGED <<statuses, tally>>
      BY <3>1 DEF CountsKept, NoLostOutcome
    <3>2. ASSUME NEW row \in {RecordFailure(station, before, now), RecordSuccess(station, before)},
                 SaveStationStatus(stopping, id, row)
          PROVE  /\ (DOMAIN tally = DOMAIN statuses)' /\ NoLostOutcome'
                 /\ \A other \in Ids \ {id} :
                      StatusOf(statuses', other) = StatusOf(statuses, other)
      BY <1>1, <2>1, <3>2, SaveCounts DEF CountsKept
    <3>3. QED
      BY <1>4, <3>1, <3>2 DEF Probe
  <2>4. \A other \in health'.todo : StatusOf(health'.statuses, other) = StatusOf(statuses', other)
    BY <2>1, <2>2, <2>3 DEF CountsKept
  <2>5. QED
    BY <1>1, <2>3, <2>4 DEF CountsKept
<1>5. QED
  BY <1>2, <1>3, <1>4, LoopSteps DEF HealthStep

\* A round, however long it lasts and wherever it ends, loses no outcome of a probe:
\* the counters of every row are what a lone writer would have counted
\* (StartHealthLoop, SaveStationStatus).
THEOREM NoLostOutcomeHolds == LoopSpec => []NoLostOutcome
<1>1. LoopInit => CountsKept
  <2> SUFFICES ASSUME LoopInit PROVE CountsKept
    OBVIOUS
  <2>1. LoopTypeOK
    BY LoopInitType
  <2>2. QED
    BY <2>1 DEF LoopInit, StoreInit, HealthInit, Resting, CountsKept, NoLostOutcome
<1>2. CountsKept => NoLostOutcome
  BY DEF CountsKept
<1>3. QED
  BY <1>1, <1>2, CountsStep, PTL DEF LoopSpec

-----------------------------------------------------------------------------
(* The health loop: edited thresholds reach the rows *)

\* What a write needs of the row it starts from: only a cooldown has an end.  The
\* thresholds play no part in it, so an edit cannot disturb it.
RowsStamped ==
  /\ LoopTypeOK
  /\ now # 0
  /\ \A id \in DOMAIN statuses : Stamped(statuses[id])
  /\ \A id \in DOMAIN health.statuses : Stamped(health.statuses[id])

\* A step of the loop writes only rows that agree with the thresholds of the round.
LEMMA ProbeCatchesUp ==
  ASSUME RowsStamped, NEW id \in health.todo, Probe(id), NEW other \in DOMAIN statuses'
  PROVE  \/ other \in DOMAIN statuses /\ statuses'[other] = statuses[other]
         \/ RowCoherent(statuses'[other], health.stations[other])
<1> DEFINE before == StatusOf(health.statuses, id)
           station == health.stations[id]
<1>1. StoreTypeOK /\ HealthTypeOK
  BY DEF RowsStamped, LoopTypeOK
<1>2. /\ station \in Station /\ before \in Status /\ now \in Nat \ {0}
  BY <1>1, StatusOfType DEF RowsStamped, HealthTypeOK, StoreTypeOK, IsTable
<1>3. Stamped(before)
  BY DEF RowsStamped, StatusOf, NoStatus, Stamped
<1>4. /\ RowCoherent(RecordFailure(station, before, now), station)
      /\ RowCoherent(RecordSuccess(station, before), station)
  BY <1>2, <1>3, OutcomesMakeRowsCoherent
<1>5. CASE UNCHANGED statuses
  BY <1>5
<1>6. ASSUME NEW row, RowCoherent(row, station), statuses' = Put(statuses, id, row)
      PROVE  \/ other \in DOMAIN statuses /\ statuses'[other] = statuses[other]
             \/ RowCoherent(statuses'[other], health.stations[other])
  BY <1>6 DEF Put
<1>7. QED
  BY <1>4, <1>5, <1>6 DEF Probe, SaveStationStatus

LEMMA CoherentIsStamped ==
  ASSUME NEW row, NEW station, RowCoherent(row, station)
  PROVE  Stamped(row)
BY DEF RowCoherent, Stamped

LEMMA StampedStep == RowsStamped /\ [LoopNext]_loopVars => RowsStamped'
<1> SUFFICES ASSUME RowsStamped, [LoopNext]_loopVars PROVE RowsStamped'
  OBVIOUS
<1>1. LoopTypeOK' /\ LoopTypeOK /\ StoreTypeOK /\ HealthTypeOK
  BY LoopNextType DEF RowsStamped, LoopTypeOK
<1>2. CASE Around
  <2>1. UNCHANGED <<health, statuses>>
    BY <1>2 DEF Around, Signal, Flap, Retune, Tick, loopVars, healthVars, storeVars, tableVars
  <2>2. now' \in {now, now + 1} /\ now \in Nat
    BY <1>1, <1>2 DEF Around, Signal, Flap, Retune, Tick, loopVars, storeVars, tableVars,
                      StoreTypeOK
  <2>3. QED
    BY <1>1, <2>1, <2>2 DEF RowsStamped
<1>3. CASE TickRound \/ ReadRound \/ SkipRound \/ EndRound \/ Halt
  <2>1. UNCHANGED <<statuses, now>>
    BY <1>3 DEF TickRound, ReadRound, SkipRound, EndRound, Halt, storeVars, tableVars
  <2>2. health'.statuses \in {health.statuses, statuses, <<>>}
    <3>1. CASE ReadRound
      BY <1>1, <3>1 DEF ReadRound, HealthTypeOK
    <3>2. CASE TickRound \/ Halt
      BY <1>1, <3>2 DEF TickRound, Halt, HealthTypeOK
    <3>3. CASE SkipRound \/ EndRound
      BY <3>3 DEF SkipRound, EndRound, Resting
    <3>4. QED
      BY <1>3, <3>1, <3>2, <3>3
  <2>3. QED
    BY <1>1, <2>1, <2>2 DEF RowsStamped
<1>4. ASSUME NEW id \in health.todo, Probe(id)
      PROVE  RowsStamped'
  <2>1. UNCHANGED now /\ health'.statuses = health.statuses
    BY <1>1, <1>4 DEF Probe, HealthTypeOK
  <2>2. \A other \in DOMAIN statuses' : Stamped(statuses'[other])
    BY <1>4, ProbeCatchesUp, CoherentIsStamped DEF RowsStamped
  <2>3. QED
    BY <1>1, <2>1, <2>2 DEF RowsStamped
<1>5. QED
  BY <1>2, <1>3, <1>4, LoopSteps DEF HealthStep

\* Whatever thresholds forms and snapshots write, and whenever, the next write of the
\* loop leaves a row that agrees with the thresholds the round has read, if in the
\* rows at the start only a cooldown has an end (StartHealthLoop, UpdateStation).
THEOREM WritesCatchUpHolds ==
  ASSUME \A id \in DOMAIN SeedStatuses : Stamped(SeedStatuses[id])
  PROVE  LoopSpec => WritesCatchUp
<1>1. LoopInit => RowsStamped
  <2> SUFFICES ASSUME LoopInit PROVE RowsStamped
    OBVIOUS
  <2>1. LoopTypeOK
    BY LoopInitType
  <2>2. QED
    BY <2>1 DEF LoopInit, StoreInit, HealthInit, Resting, RowsStamped
<1>2. RowsStamped /\ [LoopNext]_loopVars =>
        [\A id \in DOMAIN statuses' :
           StatusOf(statuses, id) # statuses'[id]
             => RowCoherent(statuses'[id], health.stations[id])]_loopVars
  <2> SUFFICES ASSUME RowsStamped, [LoopNext]_loopVars, NEW id \in DOMAIN statuses',
                      StatusOf(statuses, id) # statuses'[id]
               PROVE  RowCoherent(statuses'[id], health.stations[id])
    OBVIOUS
  <2>1. ~ UNCHANGED statuses
    BY DEF StatusOf
  <2>2. PICK probed \in health.todo : Probe(probed)
    BY <2>1, LoopSteps DEF HealthStep, TickRound, ReadRound, SkipRound, EndRound, Halt, Around,
       Signal, Flap, Retune, Tick, loopVars, storeVars, tableVars
  <2>3. QED
    BY <2>2, ProbeCatchesUp DEF StatusOf
<1>3. QED
  BY <1>1, <1>2, StampedStep, PTL DEF LoopSpec, WritesCatchUp

-----------------------------------------------------------------------------
(* The gateway: type correctness *)

LEMMA RestartType ==
  ASSUME GatewayTypeOK, Restart
  PROVE  GatewayTypeOK'
<1>1. StoreTypeOK /\ RequestTypeOK /\ HealthTypeOK
  BY DEF GatewayTypeOK, RelayTypeOK
<1>2. StoreTypeOK'
  BY <1>1 DEF Restart, StoreTypeOK, storeVars, tableVars
<1>3. HealthTypeOK' /\ AdminTypeOK'
  BY <1>1, EmptyTables DEF Restart, HealthReset, Resting, HealthTypeOK, AdminTypeOK
<1>4. ASSUME NEW r \in Requests
      PROVE  HandlerOK(handler'[r]) /\ handler'[r].pc \in {handler[r].pc, "lost"}
  <2>1. HandlerOK(handler[r])
    BY <1>1 DEF RequestTypeOK
  <2>2. CASE handler'[r] = handler[r]
    BY <2>1, <2>2
  <2>3. CASE handler'[r] = [handler[r] EXCEPT !.pc = "lost", !.stations = <<>>,
                                              !.mappings = {}, !.statuses = <<>>]
    BY <2>1, <2>3, EmptyTables, ZenonT(40) DEF HandlerOK, Closed, Looping, Starting
  <2>4. QED
    BY <2>2, <2>3 DEF Restart
<1>5. RequestTypeOK'
  <2>1. handler' = [r \in Requests |-> handler'[r]]
    BY DEF Restart
  <2>2. UNCHANGED attempts
    BY DEF Restart
  <2>3. \A r \in Requests : handler'[r].pc \in Calling => attempts'[r] # <<>>
    BY <1>1, <1>4, <2>2 DEF Calling, RequestTypeOK
  <2>4. QED
    BY <1>1, <1>4, <2>1, <2>2, <2>3 DEF RequestTypeOK
<1>6. QED
  BY <1>2, <1>3, <1>5 DEF GatewayTypeOK, RelayTypeOK

LEMMA GatewayInitType ==
  ASSUME GatewayInit
  PROVE  GatewayTypeOK
<1>1. RelayTypeOK
  BY RelayInitType DEF GatewayInit, RelayInit
<1>2. AdminTypeOK
  BY DEF GatewayInit, AdminInit, AdminTypeOK
<1>3. HealthTypeOK
  BY EmptyTables DEF GatewayInit, HealthInit, Resting, HealthTypeOK
<1>4. QED
  BY <1>1, <1>2, <1>3 DEF GatewayTypeOK

LEMMA GatewayNextType ==
  ASSUME GatewayTypeOK, [GatewayNext]_gatewayVars
  PROVE  GatewayTypeOK'
<1>1. RelayTypeOK /\ HealthTypeOK /\ AdminTypeOK /\ StoreTypeOK /\ RequestTypeOK
  BY DEF GatewayTypeOK, RelayTypeOK
<1>2. UNCHANGED requestVars => RequestTypeOK'
  BY <1>1 DEF RequestTypeOK, requestVars
<1>3. UNCHANGED healthVars => HealthTypeOK'
  BY <1>1 DEF HealthTypeOK, healthVars
<1>4. UNCHANGED adminVars => AdminTypeOK'
  BY <1>1 DEF AdminTypeOK, adminVars
<1>5. UNCHANGED storeVars => StoreTypeOK'
  BY <1>1 DEF StoreTypeOK, storeVars, tableVars
<1>6. CASE \E r \in Requests : ServeRequest(r)
  BY <1>1, <1>3, <1>4, <1>6, RelayStepType DEF ServeRequest, GatewayTypeOK
<1>7. CASE HealthCheck
  BY <1>1, <1>2, <1>4, <1>7, HealthStepType
     DEF HealthCheck, LoopTypeOK, GatewayTypeOK, RelayTypeOK
<1>8. CASE UpstreamFlaps
  <2>1. PICK id \in DOMAIN stations : Flap(id)
    BY <1>8 DEF UpstreamFlaps
  <2>2. id \in Ids
    BY <1>1 DEF StoreTypeOK, IsTable
  <2>3. HealthTypeOK'
    BY <1>1, <2>1, <2>2 DEF Flap, HealthTypeOK
  <2>4. QED
    BY <1>2, <1>4, <1>5, <1>8, <2>1, <2>3 DEF UpstreamFlaps, Flap, GatewayTypeOK, RelayTypeOK
<1>9. CASE \E a \in Admins : ServeAdmin(a)
  <2>1. EditTypeOK'
    BY <1>1, <1>9, EditNextType DEF ServeAdmin, EditNext, EditTypeOK
  <2>2. QED
    BY <1>2, <1>3, <1>9, <2>1 DEF ServeAdmin, EditTypeOK, GatewayTypeOK, RelayTypeOK
<1>10. CASE ShutDown
  <2>1. HealthTypeOK'
    BY <1>1, <1>10 DEF ShutDown, Signal, HealthTypeOK
  <2>2. QED
    BY <1>2, <1>4, <1>5, <1>10, <2>1 DEF ShutDown, Signal, GatewayTypeOK, RelayTypeOK
<1>11. CASE PassTime
  BY <1>1, <1>2, <1>3, <1>4, <1>11, TickType DEF PassTime, GatewayTypeOK, RelayTypeOK
<1>12. CASE UNCHANGED gatewayVars
  BY <1>2, <1>3, <1>4, <1>5, <1>12 DEF gatewayVars, GatewayTypeOK, RelayTypeOK
<1>13. QED
  BY <1>6, <1>7, <1>8, <1>9, <1>10, <1>11, <1>12, RestartType DEF GatewayNext

\* Whatever runs together, and whenever the process dies, the tables, every
\* handler, the health loop and the forms under way keep their shape.
THEOREM GatewayTypeCorrect == GatewaySpec => []GatewayTypeOK
<1>1. GatewayInit => GatewayTypeOK
  BY GatewayInitType
<1>2. GatewayTypeOK /\ [GatewayNext]_gatewayVars => GatewayTypeOK'
  BY GatewayNextType
<1>3. QED
  BY <1>1, <1>2, PTL DEF GatewaySpec

-----------------------------------------------------------------------------
(* A cancelled context costs no station anything *)

\* Beside the requests, the round of probes holds rows it will write back.
ProbesOwned ==
  \A id \in DOMAIN health.statuses : HoldsFailure(health.statuses[id]) => id \in faulted

BlameInv == GatewayTypeOK /\ FaultsOwned /\ ProbesOwned

LEMMA ProbeOwned ==
  ASSUME LoopTypeOK, CancellationIsNoFault, ProbesOwned, NEW id \in health.todo, Probe(id)
  PROVE  CancellationIsNoFault' /\ faulted \subseteq faulted' /\ UNCHANGED health.statuses
<1>1. health.statuses = health.statuses'
  BY DEF LoopTypeOK, HealthTypeOK, Probe
<1>2. /\ id \in Ids /\ health.stations[id] \in Station
      /\ IsTable(health.statuses, Status)
  BY DEF LoopTypeOK, HealthTypeOK, IsTable
<1> DEFINE before == StatusOf(health.statuses, id)
           served == RecordSuccess(health.stations[id], before)
           failed == RecordFailure(health.stations[id], before, now)
<1>3. HoldsFailure(served) => id \in faulted
  BY <1>2, SuccessHoldsNoNewFailure DEF ProbesOwned
<1>4. CASE UNCHANGED <<statuses, faulted>>
  BY <1>1, <1>4 DEF CancellationIsNoFault
<1>5. CASE SaveStationStatus(stopping, id, served) /\ UNCHANGED faulted
  <2> HIDE DEF served
  <2>1. CancellationIsNoFault'
    BY <1>3, <1>5, SaveOwned
  <2>2. QED
    BY <1>1, <1>5, <2>1
<1>6. CASE /\ id \in down \/ stopping
           /\ SaveStationStatus(stopping, id, failed)
           /\ faulted' = IF id \in down THEN faulted \cup {id} ELSE faulted
  <2> HIDE DEF failed
  <2>1. faulted \subseteq faulted' /\ (~ stopping => id \in faulted')
    BY <1>6
  <2>2. CancellationIsNoFault'
    BY <1>6, <2>1, SaveOwned
  <2>3. QED
    BY <1>1, <2>1, <2>2
<1>7. QED
  BY <1>4, <1>5, <1>6 DEF Probe

LEMMA HealthStepOwned ==
  ASSUME LoopTypeOK, CancellationIsNoFault, ProbesOwned, HealthStep
  PROVE  CancellationIsNoFault' /\ ProbesOwned' /\ faulted \subseteq faulted'
<1>1. CASE \E id \in health.todo : Probe(id)
  BY <1>1, ProbeOwned DEF ProbesOwned
<1>2. CASE TickRound \/ ReadRound \/ SkipRound \/ EndRound \/ Halt
  <2>1. UNCHANGED <<statuses, faulted>>
    BY <1>2 DEF TickRound, ReadRound, SkipRound, EndRound, Halt, storeVars, tableVars
  <2>2. health'.statuses \in {health.statuses, statuses, <<>>}
    <3>1. CASE TickRound \/ ReadRound \/ Halt
      BY <3>1 DEF TickRound, ReadRound, Halt, LoopTypeOK, HealthTypeOK
    <3>2. CASE SkipRound \/ EndRound
      BY <3>2 DEF SkipRound, EndRound, Resting
    <3>3. QED
      BY <1>2, <3>1, <3>2
  <2>3. QED
    BY <2>1, <2>2 DEF CancellationIsNoFault, ProbesOwned
<1>3. QED
  BY <1>1, <1>2 DEF HealthStep

LEMMA BlameStep ==
  ASSUME BlameInv, GatewayNext
  PROVE  BlameInv'
<1>1. GatewayTypeOK' /\ RelayTypeOK'
  BY GatewayNextType DEF BlameInv, GatewayTypeOK
<1>2. GatewayTypeOK /\ FaultsOwned /\ CancellationIsNoFault /\ ProbesOwned /\ LoopTypeOK
  BY DEF BlameInv, FaultsOwned, LoopTypeOK, GatewayTypeOK, RelayTypeOK
\* What is enough of a step that leaves the handlers alone.
<1>3. ASSUME CancellationIsNoFault', faulted \subseteq faulted', UNCHANGED handler
      PROVE  FaultsOwned'
  BY <1>1, <1>2, <1>3 DEF FaultsOwned, Owned
<1>4. CASE \E r \in Requests : ServeRequest(r)
  <2>1. PICK r \in Requests : RequestStep(r) /\ UNCHANGED health
    BY <1>4 DEF ServeRequest, healthVars
  <2>2. FaultsOwned'
    BY <1>2, <2>1, OwnedNextRequest
  <2>3. faulted \subseteq faulted'
    BY <2>1, RequestBlames
  <2>4. QED
    BY <1>1, <1>2, <2>1, <2>2, <2>3 DEF BlameInv, ProbesOwned
<1>5. CASE HealthCheck
  <2>1. CancellationIsNoFault' /\ ProbesOwned' /\ faulted \subseteq faulted' /\ UNCHANGED handler
    BY <1>2, <1>5, HealthStepOwned DEF HealthCheck, requestVars
  <2>2. QED
    BY <1>1, <1>3, <2>1 DEF BlameInv
<1>6. CASE Restart
  <2>1. UNCHANGED <<statuses, faulted>> /\ health'.statuses = <<>>
    BY <1>6 DEF Restart, HealthReset, Resting, storeVars, tableVars
  <2>2. CancellationIsNoFault' /\ ProbesOwned'
    BY <1>2, <2>1 DEF CancellationIsNoFault, ProbesOwned
  <2>3. ASSUME NEW r \in Requests
        PROVE  Owned(handler'[r], faulted')
    <3>1. HandlerOK(handler[r]) /\ Owned(handler[r], faulted)
      BY <1>2 DEF FaultsOwned, RelayTypeOK, RequestTypeOK
    <3>2. CASE handler'[r] = handler[r]
      BY <2>1, <3>1, <3>2
    <3>3. CASE handler'[r] = [handler[r] EXCEPT !.pc = "lost", !.stations = <<>>,
                                                !.mappings = {}, !.statuses = <<>>]
      <4>1. handler'[r].pc = "lost" /\ handler'[r].statuses = <<>>
        BY <3>1, <3>3 DEF HandlerOK
      <4>2. QED
        BY <4>1 DEF Owned
    <3>4. QED
      BY <1>6, <3>2, <3>3 DEF Restart
  <2>4. QED
    BY <1>1, <2>2, <2>3 DEF BlameInv, FaultsOwned
<1>7. CASE \E a \in Admins : ServeAdmin(a)
  <2>1. PICK a \in Admins : AdminStep(a) /\ UNCHANGED <<requestVars, healthVars>>
    BY <1>7 DEF ServeAdmin
  <2>2. UNCHANGED <<faulted, handler, health>>
    BY <2>1 DEF AdminStep, CheckNewStation, CheckEditedStation, CheckNewMapping,
         CheckEditedMapping, CreateStation, UpdateStation, DeleteStation, UpsertMapping,
         UpdateMapping, DeleteMapping, WriteFails, storeVars, requestVars, healthVars
  <2>3. CASE \E id \in DOMAIN stations : DeleteStation(id)
    <3>1. CancellationIsNoFault'
      BY <1>2, <2>2, <2>3 DEF DeleteStation, Without, CancellationIsNoFault
    <3>2. QED
      BY <1>1, <1>2, <1>3, <2>2, <3>1 DEF BlameInv, ProbesOwned
  <2>4. CASE UNCHANGED statuses
    <3>1. CancellationIsNoFault'
      BY <1>2, <2>2, <2>4 DEF CancellationIsNoFault
    <3>2. QED
      BY <1>1, <1>2, <1>3, <2>2, <3>1 DEF BlameInv, ProbesOwned
  <2>5. QED
    BY <2>1, <2>3, <2>4
       DEF AdminStep, CheckNewStation, CheckEditedStation, CheckNewMapping, CheckEditedMapping,
           CreateStation, UpdateStation, UpsertMapping, UpdateMapping, DeleteMapping, WriteFails,
           storeVars, tableVars
<1>8. CASE UpstreamFlaps \/ ShutDown \/ PassTime
  <2>1. UNCHANGED <<statuses, faulted, handler, health>>
    BY <1>8 DEF UpstreamFlaps, Flap, ShutDown, Signal, PassTime, Tick, requestVars, healthVars,
                storeVars, tableVars
  <2>2. CancellationIsNoFault' /\ ProbesOwned'
    BY <1>2, <2>1 DEF CancellationIsNoFault, ProbesOwned
  <2>3. QED
    BY <1>1, <1>3, <2>1, <2>2 DEF BlameInv
<1>9. QED
  BY <1>4, <1>5, <1>6, <1>7, <1>8 DEF GatewayNext

\* In the whole gateway a station's row shows a failure or a cooldown only if a call, a
\* body or a probe of it failed before its context was cancelled: no client that net/http
\* reports gone, no shutdown in the middle of a round of probes, no crash and no form
\* makes it look worse (proxyNormalizedRequest, StartHealthLoop).
THEOREM CancellationIsNoFaultHolds == GatewaySpec => []CancellationIsNoFault
<1>1. GatewayInit => BlameInv
  <2> SUFFICES ASSUME GatewayInit PROVE BlameInv
    OBVIOUS
  <2>1. GatewayTypeOK /\ FaultsOwned
    BY GatewayInitType, OwnedInit DEF GatewayInit, RelayInit
  <2>2. ProbesOwned
    BY DEF GatewayInit, HealthInit, Resting, ProbesOwned
  <2>3. QED
    BY <2>1, <2>2 DEF BlameInv
<1>2. BlameInv /\ [GatewayNext]_gatewayVars => BlameInv'
  <2> SUFFICES ASSUME BlameInv, [GatewayNext]_gatewayVars PROVE BlameInv'
    OBVIOUS
  <2>1. CASE UNCHANGED gatewayVars
    <3>1. GatewayTypeOK' /\ RelayTypeOK'
      BY GatewayNextType DEF BlameInv, GatewayTypeOK
    <3>2. UNCHANGED <<statuses, faulted, handler, health>>
      BY <2>1 DEF gatewayVars, storeVars, tableVars, requestVars, healthVars
    <3>3. QED
      BY <3>1, <3>2 DEF BlameInv, FaultsOwned, CancellationIsNoFault, ProbesOwned
  <2>2. QED
    BY <2>1, BlameStep
<1>3. BlameInv => CancellationIsNoFault
  BY DEF BlameInv, FaultsOwned
<1>4. QED
  BY <1>1, <1>2, <1>3, PTL DEF GatewaySpec

-----------------------------------------------------------------------------
(* What requests are told and what the logs tell *)

\* The inductive invariants of RelayProofs, which a crash must not break either.
StoryInv == GatewayTypeOK /\ Stories /\ LogInv /\ EventInv

LEMMA LostKeeps ==
  ASSUME NEW h, HandlerOK(h), h.pc \in Open, NEW g,
         g = [h EXCEPT !.pc = "lost", !.stations = <<>>, !.mappings = {}, !.statuses = <<>>]
  PROVE  /\ g.pc = "lost" /\ h.pc # "done" /\ g.targets = h.targets /\ g.next = h.next
         /\ g.verdict = h.verdict /\ g.cancelled = h.cancelled
BY DEF HandlerOK, Open

\* A crash leaves a request the calls it made, and its client what it was sent.
LEMMA LostStory ==
  ASSUME NEW h, HandlerOK(h), h.pc \in Open, NEW t, Story(h, t), NEW g,
         g = [h EXCEPT !.pc = "lost", !.stations = <<>>, !.mappings = {}, !.statuses = <<>>]
  PROVE  Story(g, t)
<1>1. /\ g.pc = "lost" /\ g.targets = h.targets /\ g.next = h.next
      /\ g.verdict = h.verdict
  BY LostKeeps
<1>2. Trail(g, t)
  BY <1>1 DEF Story, Trail
<1>3. h.verdict = "exhausted" => AllFailed(t) /\ Len(t) = Len(h.targets)
  BY DEF Story
<1>4. h.verdict = "relayed" => OneOpen(t) /\ h.next = Len(t)
  BY DEF Story
<1>5. /\ g.pc \notin Starting \cup {"attempt", "headers", "capture", "failing", "exhausted"}
      /\ g.pc \notin {"streaming", "logging"}
  BY <1>1 DEF Starting
<1>6. QED
  BY <1>1, <1>2, <1>3, <1>4, <1>5, ZenonT(40) DEF Story

LEMMA RestartKeepsStories ==
  ASSUME StoryInv, Restart
  PROVE  StoryInv'
<1>1. /\ GatewayTypeOK' /\ RelayTypeOK'
      /\ Stories /\ LogInv /\ EventInv
      /\ \A r \in Requests : HandlerOK(handler[r]) /\ Story(handler[r], attempts[r])
  BY RestartType DEF StoryInv, GatewayTypeOK, RelayTypeOK, RequestTypeOK, Stories
<1>2. UNCHANGED <<attempts, requestLogs, failoverEvents>>
  BY DEF Restart, logVars
<1>3. ASSUME NEW r \in Requests
      PROVE  /\ Story(handler'[r], attempts[r])
             /\ handler'[r].targets = handler[r].targets
             /\ handler'[r].cancelled = handler[r].cancelled
             /\ handler[r].pc = "done" => handler'[r].pc = "done"
             /\ Loggable(handler'[r]) => Loggable(handler[r])
  <2>1. CASE handler'[r] = handler[r]
    BY <1>1, <2>1
  <2>2. CASE /\ handler[r].pc \in Open
             /\ handler'[r] = [handler[r] EXCEPT !.pc = "lost", !.stations = <<>>,
                                                 !.mappings = {}, !.statuses = <<>>]
    <3>1. Story(handler'[r], attempts[r])
      BY <1>1, <2>2, LostStory
    <3>2. /\ handler'[r].pc = "lost" /\ handler[r].pc # "done"
          /\ handler'[r].targets = handler[r].targets
          /\ handler'[r].cancelled = handler[r].cancelled
      <4> DEFINE h == handler[r]
                 g == handler'[r]
      <4>1. /\ HandlerOK(h) /\ h.pc \in Open
            /\ g = [h EXCEPT !.pc = "lost", !.stations = <<>>, !.mappings = {}, !.statuses = <<>>]
        BY <1>1, <2>2
      <4> HIDE DEF h, g
      <4>2. /\ g.pc = "lost" /\ h.pc # "done" /\ g.targets = h.targets
            /\ g.cancelled = h.cancelled
        BY <4>1, LostKeeps
      <4>3. QED
        BY <4>2 DEF h, g
    <3>3. QED
      BY <3>1, <3>2 DEF Loggable
  <2>3. QED
    BY <2>1, <2>2 DEF Restart
<1>4. Stories'
  BY <1>1, <1>2, <1>3 DEF Stories
<1>5. LogInv'
  BY <1>1, <1>2, <1>3 DEF LogInv
<1>6. EventInv'
  BY <1>1, <1>2, <1>3 DEF EventInv
<1>7. QED
  BY <1>1, <1>4, <1>5, <1>6 DEF StoryInv

LEMMA StoryInvStep ==
  ASSUME StoryInv, [GatewayNext]_gatewayVars
  PROVE  StoryInv'
<1>1. GatewayTypeOK' /\ RelayTypeOK' /\ Stories /\ LogInv /\ EventInv
  BY GatewayNextType DEF StoryInv, GatewayTypeOK
<1>2. CASE \E r \in Requests : ServeRequest(r)
  BY <1>1, <1>2, StoriesStep, LogStep, EventStep DEF ServeRequest, StoryInv
<1>3. CASE UNCHANGED requestVars
  <2>1. UNCHANGED <<handler, attempts, requestLogs, failoverEvents>>
    BY <1>3 DEF requestVars
  <2>2. Stories' /\ LogInv' /\ EventInv'
    BY <1>1, <2>1 DEF Stories, LogInv, EventInv
  <2>3. QED
    BY <1>1, <2>2 DEF StoryInv
<1>4. QED
  BY <1>2, <1>3, RestartKeepsStories
     DEF GatewayNext, HealthCheck, UpstreamFlaps, ServeAdmin, ShutDown, PassTime, gatewayVars

\* In the whole gateway, whatever forms, probes and crashes do meanwhile: what a client
\* was told was earned (VerdictEarned), a request log tells how its request went
\* (LogTellsTheStory), and the failover events are the hand-overs that were made
\* (FailoverTrail); a request that a crash cut off leaves a true trail, if a short one.
THEOREM GatewayTellsTheTruth ==
  GatewaySpec => [](VerdictEarned /\ LogTellsTheStory /\ FailoverTrail)
<1>1. GatewayInit => StoryInv
  BY GatewayInitType, StoriesInit, LogInit, EventInit DEF GatewayInit, RelayInit, StoryInv
<1>2. StoryInv /\ [GatewayNext]_gatewayVars => StoryInv'
  BY StoryInvStep
<1>3. StoryInv => VerdictEarned /\ LogTellsTheStory /\ FailoverTrail
  BY StoriesEarn, LogsTell, EventsTrail DEF StoryInv
<1>4. QED
  BY <1>1, <1>2, <1>3, PTL DEF GatewaySpec

-----------------------------------------------------------------------------
(* Requests end *)

\* A crash ends every request under way, at whatever step it finds it.
LEMMA LostEnds ==
  ASSUME NEW h, HandlerOK(h), h.pc \in Open, NEW g,
         g = [h EXCEPT !.pc = "lost", !.stations = <<>>, !.mappings = {}, !.statuses = <<>>]
  PROVE  StepsLeft(g) \in 0 .. (StepsLeft(h) - 1)
<1>1. Stage(g) = 0 /\ Departure(g) = Departure(h)
  <2>1. g.pc = "lost" /\ g.cancelled = h.cancelled
    BY LostKeeps
  <2>2. g.pc \in Closed
    BY <2>1 DEF Closed
  <2>3. QED
    BY <2>1, <2>2, StageTable DEF Departure
<1>2. Stage(h) \in Nat /\ Stage(h) # 0
  <2>1. h.pc \notin Closed
    BY DEF Open, Closed
  <2>2. QED
    BY <2>1, StageType
<1>3. Departure(h) \in {0, 1}
  BY DEF Departure
<1>4. StepsLeft(h) = Departure(h) + Stage(h) /\ StepsLeft(g) = Departure(g) + Stage(g)
  BY StepsSplit
<1>5. QED
  BY <1>1, <1>2, <1>3, <1>4

LEMMA GatewayNearsEnd ==
  ASSUME GatewayTypeOK, [GatewayNext]_gatewayVars, NEW r \in Requests,
         handler'[r] # handler[r]
  PROVE  StepsLeft(handler'[r]) \in 0 .. (StepsLeft(handler[r]) - 1)
<1>1. RelayTypeOK /\ HandlerOK(handler[r])
  BY DEF GatewayTypeOK, RelayTypeOK, RequestTypeOK
<1>2. CASE \E q \in Requests : ServeRequest(q)
  BY <1>1, <1>2, RequestsNearEnd DEF ServeRequest
<1>3. CASE Restart
  <2>1. /\ handler[r].pc \in Open
        /\ handler'[r] = [handler[r] EXCEPT !.pc = "lost", !.stations = <<>>,
                                            !.mappings = {}, !.statuses = <<>>]
    BY <1>3 DEF Restart
  <2>2. QED
    BY <1>1, <2>1, LostEnds
<1>4. ~ UNCHANGED requestVars
  BY DEF requestVars
<1>5. QED
  BY <1>2, <1>3, <1>4
     DEF GatewayNext, HealthCheck, UpstreamFlaps, ServeAdmin, ShutDown, PassTime, gatewayVars

\* In the whole gateway, with any number of stations and whatever forms, probes and
\* crashes change meanwhile, no handler goes round in circles (RequestsEnd): StepsLeft
\* is a natural number that every step of the handler, the crash included, lowers, so
\* that one request makes at most 4 * Cardinality(Ids) + 7 steps.
THEOREM RequestsEndHolds == GatewaySpec => RequestsEnd
<1> DEFINE Nearer == \A r \in Requests : handler'[r] # handler[r] =>
                       StepsLeft(handler'[r]) \in 0 .. (StepsLeft(handler[r]) - 1)
<1>1. GatewayTypeOK /\ [GatewayNext]_gatewayVars => [Nearer]_requestVars
  BY GatewayNearsEnd
<1>2. QED
  BY <1>1, GatewayTypeCorrect, PTL DEF GatewaySpec, RequestsEnd

-----------------------------------------------------------------------------
(* Ids are not given twice *)

\* A request, or a round of probes, may write about a station that is gone, but
\* only about one that has existed.
HandlerOld(h, next) ==
  /\ \A id \in DOMAIN h.stations : id < next
  /\ \A i \in DOMAIN h.targets : h.targets[i].id < next

LateInv ==
  /\ GatewayTypeOK
  /\ OldInv
  /\ \A r \in Requests : HandlerOld(handler[r], nextStation)
  /\ \A id \in DOMAIN health.stations : id < nextStation

LEMMA HandlerStaysOld ==
  ASSUME NEW h, HandlerOK(h), NEW next \in Nat, NEW later \in Nat, next <= later,
         HandlerOld(h, next)
  PROVE  HandlerOld(h, later)
<1>1. \A id \in DOMAIN h.stations : id \in Nat
  BY IdsAreNat DEF HandlerOK, IsTable
<1>2. \A i \in DOMAIN h.targets : h.targets[i].id \in Nat
  <2> TAKE i \in DOMAIN h.targets
  <2>1. h.targets \in Seq(RankedEntry)
    BY DEF HandlerOK
  <2>2. h.targets[i] \in RankedEntry
    BY <2>1
  <2>3. h.targets[i].id \in Ids
    BY <2>2 DEF RankedEntry
  <2>4. QED
    BY <2>3, IdsAreNat
<1>3. QED
  BY <1>1, <1>2 DEF HandlerOld

\* A request changes no station and no mapping, and writes rows of its targets only.
LEMMA RequestWrites ==
  ASSUME RelayTypeOK, NEW r \in Requests, RequestStep(r)
  PROVE  /\ UNCHANGED configVars
         /\ DOMAIN statuses' \subseteq DOMAIN statuses
              \cup {handler[r].targets[i].id : i \in DOMAIN handler[r].targets}
<1> DEFINE h == handler[r]
<1>1. CASE FailOver(r) \/ StreamEnds(r) \/ StreamBreaks(r)
  <2>1. UNCHANGED configVars
    BY <1>1 DEF FailOver, StreamEnds, StreamBreaks
  <2>2. h.next \in DOMAIN h.targets
    BY <1>1 DEF FailOver, StreamEnds, StreamBreaks, RelayTypeOK, RequestTypeOK, HandlerOK, Looping
  <2>3. DOMAIN statuses' \subseteq DOMAIN statuses \cup {Target(h).id}
    BY <1>1 DEF FailOver, StreamEnds, StreamBreaks, SaveStationStatus, Put
  <2>4. QED
    BY <2>1, <2>2, <2>3 DEF Target
<1>2. CASE UNCHANGED tableVars
  BY <1>2 DEF tableVars, configVars
<1>3. QED
  BY <1>1, <1>2 DEF RequestStep, Prompt, AwaitsUpstream, Arrive, Refuse, ClientLeaves, ReadStations,
       ReadMappings, ReadStatuses, ReadError, Choose, Attempt, Headers, CallCancelled, Capture,
       CaptureFails, LogRequest, GiveUp, storeVars

\* What a handler holds comes from the table of stations or from what it held.
LEMMA RequestReads ==
  ASSUME RelayTypeOK, NEW r \in Requests, RequestStep(r)
  PROVE  /\ \A q \in Requests \ {r} : handler'[q] = handler[q]
         /\ handler'[r].stations \in {<<>>, stations, handler[r].stations}
         /\ \/ handler'[r].targets = handler[r].targets
            \/ \A i \in DOMAIN handler'[r].targets :
                 handler'[r].targets[i].id \in DOMAIN handler[r].stations
<1> DEFINE h == handler[r]
           g == handler'[r]
<1>1. HandlerOK(h) /\ handler = [q \in Requests |-> handler[q]]
  BY DEF RelayTypeOK, RequestTypeOK
<1>2. ASSUME NEW verdict, handler' = [handler EXCEPT ![r] = Close(@, verdict)]
      PROVE  /\ \A q \in Requests \ {r} : handler'[q] = handler[q]
             /\ g.stations = <<>> /\ g.targets = h.targets
  BY <1>1, <1>2 DEF Close, HandlerOK
<1>3. CASE Refuse(r) \/ ReadError(r) \/ CallCancelled(r) \/ LogRequest(r) \/ GiveUp(r)
  <2>1. PICK verdict : handler' = [handler EXCEPT ![r] = Close(@, verdict)]
    BY <1>3 DEF Refuse, ReadError, CallCancelled, LogRequest, GiveUp
  <2>2. QED
    BY <1>2, <2>1
<1>4. CASE Arrive(r) \/ ReadMappings(r) \/ ReadStatuses(r) \/ ClientLeaves(r)
  <2>1. CASE Arrive(r)
    <3>1. PICK query \in Queries :
            handler' = [handler EXCEPT ![r].pc = "stations", ![r].query = query]
      BY <2>1 DEF Arrive
    <3>2. QED
      BY <1>1, <3>1 DEF HandlerOK
  <2>2. CASE ReadMappings(r)
    BY <1>1, <2>2 DEF ReadMappings, HandlerOK
  <2>3. CASE ReadStatuses(r)
    BY <1>1, <2>3 DEF ReadStatuses, HandlerOK
  <2>4. CASE ClientLeaves(r)
    BY <1>1, <2>4 DEF ClientLeaves, HandlerOK
  <2>5. QED
    BY <1>4, <2>1, <2>2, <2>3, <2>4
<1>5. CASE ReadStations(r)
  BY <1>1, <1>5 DEF ReadStations, HandlerOK
<1>6. CASE Choose(r)
  <2> DEFINE Chosen(targets) == handler' = [handler EXCEPT ![r] =
               IF targets = <<>> THEN Close(@, "none")
               ELSE [@ EXCEPT !.pc = "attempt", !.targets = targets,
                              !.stations = <<>>, !.mappings = {}]]
  <2>a. PICK scores \in Scoreboards :
          \E targets \in Candidates(h.query, h.stations, h.mappings, h.statuses, scores) :
            Chosen(targets)
    BY <1>6 DEF Choose
  <2>1. PICK targets \in Candidates(h.query, h.stations, h.mappings, h.statuses, scores) :
          Chosen(targets)
    BY <2>a
  <2>2. \A i \in DOMAIN targets : targets[i].id \in DOMAIN h.stations
    BY <1>1, CandidatesType, RequestAssumption DEF HandlerOK
  <2>3. CASE targets = <<>>
    BY <1>2, <2>1, <2>3
  <2>4. CASE targets # <<>>
    <3>1. handler' = [handler EXCEPT ![r] = [@ EXCEPT !.pc = "attempt", !.targets = targets,
                                                     !.stations = <<>>, !.mappings = {}]]
      BY <2>1, <2>4
    <3>2. g.stations = <<>> /\ g.targets = targets
      BY <1>1, <3>1 DEF HandlerOK
    <3>3. QED
      BY <1>1, <2>2, <3>1, <3>2
  <2>5. QED
    BY <2>3, <2>4
<1>7. CASE Attempt(r)
  <2>1. CASE handler' = [handler EXCEPT ![r].pc = "headers"]
    BY <1>1, <2>1 DEF HandlerOK
  <2>2. QED
    BY <1>2, <1>7, <2>1 DEF Attempt
<1>8. CASE Headers(r) \/ Capture(r) \/ CaptureFails(r)
  <2> DEFINE fails(answer) == handler' = [handler EXCEPT ![r].pc = "failing",
                                ![r].answer = answer, ![r].reason = failureKind(answer)]
             commits(answer) == handler' = [handler EXCEPT ![r].pc = "streaming",
                                ![r].answer = answer, ![r].verdict = "relayed"]
             captures(answer) == handler' = [handler EXCEPT ![r].pc = "capture",
                                ![r].answer = answer]
  <2>1. PICK answer : fails(answer) \/ commits(answer) \/ captures(answer)
    BY <1>8 DEF Headers, Capture, CaptureFails, Failing, Commit
  <2>2. CASE fails(answer)
    BY <1>1, <2>2 DEF HandlerOK
  <2>3. CASE commits(answer)
    BY <1>1, <2>3 DEF HandlerOK
  <2>4. CASE captures(answer)
    BY <1>1, <2>4 DEF HandlerOK
  <2>5. QED
    BY <2>1, <2>2, <2>3, <2>4
<1>9. CASE FailOver(r)
  <2>1. PICK rows : handler' = [handler EXCEPT ![r] = Advance([@ EXCEPT !.statuses = rows])]
    BY <1>9 DEF FailOver
  <2> DEFINE x == [h EXCEPT !.statuses = rows]
  <2>2. x.stations = h.stations /\ x.targets = h.targets
    BY <1>1 DEF HandlerOK
  <2>3. Advance(x).stations = x.stations /\ Advance(x).targets = x.targets
    BY <1>1 DEF HandlerOK, Advance
  <2>4. g = Advance(x) /\ \A q \in Requests \ {r} : handler'[q] = handler[q]
    BY <1>1, <2>1
  <2>5. QED
    BY <2>2, <2>3, <2>4
<1>10. CASE StreamEnds(r)
  <2>1. handler' = [handler EXCEPT ![r].pc = "logging"]
    BY <1>10 DEF StreamEnds
  <2>2. QED
    BY <1>1, <2>1 DEF HandlerOK
<1>11. CASE StreamBreaks(r)
  <2>1. handler' = [handler EXCEPT ![r].pc = "logging", ![r].error = "stream_copy_error"]
    BY <1>11 DEF StreamBreaks
  <2>2. QED
    BY <1>1, <2>1 DEF HandlerOK
<1>12. QED
  BY <1>3, <1>4, <1>5, <1>6, <1>7, <1>8, <1>9, <1>10, <1>11 DEF RequestStep, Prompt, AwaitsUpstream

\* Nor does a round of probes, which writes rows of the stations it has read.
LEMMA HealthWrites ==
  ASSUME LoopTypeOK, HealthStep
  PROVE  /\ UNCHANGED configVars
         /\ DOMAIN statuses' \subseteq DOMAIN statuses \cup DOMAIN health.stations
         /\ health'.stations \in {<<>>, stations, health.stations}
<1>1. CASE \E id \in health.todo : Probe(id)
  <2>1. PICK id \in health.todo : Probe(id)
    BY <1>1
  <2>2. id \in DOMAIN health.stations /\ health'.stations = health.stations
    BY <2>1 DEF Probe, LoopTypeOK, HealthTypeOK
  <2>3. DOMAIN statuses' \subseteq DOMAIN statuses \cup {id} /\ UNCHANGED configVars
    BY <2>1 DEF Probe, SaveStationStatus, Put
  <2>4. QED
    BY <2>2, <2>3
<1>2. CASE TickRound \/ ReadRound \/ SkipRound \/ EndRound \/ Halt
  <2>1. UNCHANGED <<configVars, statuses>>
    BY <1>2 DEF TickRound, ReadRound, SkipRound, EndRound, Halt, storeVars, tableVars, configVars
  <2>2. CASE TickRound \/ ReadRound \/ Halt
    BY <2>1, <2>2 DEF TickRound, ReadRound, Halt, LoopTypeOK, HealthTypeOK
  <2>3. CASE SkipRound \/ EndRound
    BY <2>1, <2>3 DEF SkipRound, EndRound, Resting
  <2>4. QED
    BY <1>2, <2>2, <2>3
<1>3. QED
  BY <1>1, <1>2 DEF HealthStep

LEMMA LateStep ==
  ASSUME LateInv, GatewayNext
  PROVE  LateInv'
<1>1. GatewayTypeOK' /\ EditTypeOK'
  BY GatewayNextType DEF LateInv, GatewayTypeOK, RelayTypeOK, EditTypeOK
<1>2. /\ RelayTypeOK /\ LoopTypeOK /\ OldInv /\ nextStation \in Nat
      /\ \A r \in Requests : HandlerOK(handler[r]) /\ HandlerOld(handler[r], nextStation)
      /\ \A id \in DOMAIN health.stations : id < nextStation
      /\ \A id \in DOMAIN stations \cup DOMAIN statuses : id < nextStation
  BY DEF LateInv, GatewayTypeOK, LoopTypeOK, RelayTypeOK, RequestTypeOK, StoreTypeOK, OldInv,
         IdsAreOld
\* What is enough of a step of a request or of the loop.
<1>3. ASSUME UNCHANGED <<configVars, admin>>, \A id \in DOMAIN statuses' : id < nextStation
      PROVE  OldInv' /\ nextStation' = nextStation
  BY <1>1, <1>2, <1>3 DEF OldInv, IdsAreOld, configVars
<1>4. CASE \E r \in Requests : ServeRequest(r)
  <2>1. PICK r \in Requests : RequestStep(r) /\ UNCHANGED <<health, admin>>
    BY <1>4 DEF ServeRequest, healthVars, adminVars
  <2>2. OldInv' /\ nextStation' = nextStation
    BY <1>2, <1>3, <2>1, RequestWrites DEF HandlerOld
  <2>3. \A q \in Requests \ {r} : HandlerOld(handler'[q], nextStation)
    BY <1>2, <2>1, RequestReads
  <2>4. /\ \A id \in DOMAIN handler[r].stations : id < nextStation
        /\ \A i \in DOMAIN handler[r].targets : handler[r].targets[i].id < nextStation
    BY <1>2 DEF HandlerOld
  <2>5. HandlerOld(handler'[r], nextStation)
    <3>1. \A id \in DOMAIN handler'[r].stations : id < nextStation
      BY <1>2, <2>1, <2>4, RequestReads
    <3>2. \A i \in DOMAIN handler'[r].targets : handler'[r].targets[i].id < nextStation
      BY <2>1, <2>4, RequestReads, <1>2
    <3>3. QED
      BY <3>1, <3>2 DEF HandlerOld
  <2>6. QED
    BY <1>1, <1>2, <2>1, <2>2, <2>3, <2>5 DEF LateInv
<1>5. CASE HealthCheck
  <2>1. HealthStep /\ UNCHANGED <<handler, admin>>
    BY <1>5 DEF HealthCheck, requestVars, adminVars
  <2>2. OldInv' /\ nextStation' = nextStation
    BY <1>2, <1>3, <2>1, HealthWrites
  <2>3. \A id \in DOMAIN health'.stations : id < nextStation
    BY <1>2, <2>1, HealthWrites
  <2>4. QED
    BY <1>1, <1>2, <2>1, <2>2, <2>3 DEF LateInv
<1>6. CASE \E a \in Admins : ServeAdmin(a)
  <2>1. PICK a \in Admins : AdminStep(a) /\ UNCHANGED <<handler, health>>
    BY <1>6 DEF ServeAdmin, requestVars, healthVars
  <2>2. OldInv'
    BY <1>2, <2>1, OldStep DEF EditNext
  <2>3. nextStation' \in Nat /\ nextStation <= nextStation'
    BY <1>2, <2>1, SequenceGrows
  <2>4. \A r \in Requests : HandlerOld(handler'[r], nextStation')
    BY <1>2, <2>1, <2>3, HandlerStaysOld
  <2>5. \A id \in DOMAIN health'.stations : id < nextStation'
    <3>1. DOMAIN health.stations \subseteq Nat
      BY <1>2, IdsAreNat DEF LoopTypeOK, HealthTypeOK, IsTable
    <3>2. QED
      BY <1>2, <2>1, <2>3, <3>1
  <2>6. QED
    BY <1>1, <2>2, <2>4, <2>5 DEF LateInv
<1>7. CASE UpstreamFlaps \/ ShutDown \/ PassTime
  <2>1. UNCHANGED <<configVars, statuses, handler, health, admin>>
    BY <1>7 DEF UpstreamFlaps, Flap, ShutDown, Signal, PassTime, Tick, requestVars, healthVars,
                adminVars, storeVars, tableVars, configVars
  <2>2. QED
    BY <1>1, <1>2, <1>3, <2>1 DEF LateInv
<1>8. CASE Restart
  <2>1. /\ UNCHANGED <<configVars, statuses>> /\ health'.stations = <<>>
        /\ admin' = [a \in Admins |-> NoForm]
    BY <1>8 DEF Restart, HealthReset, Resting, storeVars, tableVars, configVars
  <2>2. OldInv'
    BY <1>1, <1>2, <2>1 DEF OldInv, IdsAreOld, configVars, NoForm
  <2>3. ASSUME NEW r \in Requests
        PROVE  HandlerOld(handler'[r], nextStation)
    <3>1. CASE handler'[r] = handler[r]
      BY <1>2, <3>1
    <3>2. CASE handler'[r] = [handler[r] EXCEPT !.pc = "lost", !.stations = <<>>,
                                                !.mappings = {}, !.statuses = <<>>]
      <4>1. handler'[r].stations = <<>> /\ handler'[r].targets = handler[r].targets
        BY <1>2, <3>2 DEF HandlerOK
      <4>2. QED
        BY <1>2, <4>1 DEF HandlerOld
    <3>3. QED
      BY <1>8, <3>1, <3>2 DEF Restart
  <2>4. QED
    BY <1>1, <2>1, <2>2, <2>3 DEF LateInv, configVars
<1>9. QED
  BY <1>4, <1>5, <1>6, <1>7, <1>8 DEF GatewayNext

LEMMA LateInvariant ==
  ASSUME \A i \in DOMAIN SeedMappings : SeedMappings[i].station < SeedNextStation
  PROVE  GatewaySpec => []LateInv
<1>1. GatewayInit => LateInv
  <2> SUFFICES ASSUME GatewayInit PROVE LateInv
    OBVIOUS
  <2>1. GatewayTypeOK /\ OldInv
    BY GatewayInitType, OldInit DEF GatewayInit, EditInit
  <2>2. \A r \in Requests : handler[r].stations = <<>> /\ handler[r].targets = <<>>
    BY DEF GatewayInit, RequestInit, Fresh
  <2>3. health.stations = <<>>
    BY DEF GatewayInit, HealthInit, Resting
  <2>4. QED
    BY <2>1, <2>2, <2>3 DEF LateInv, HandlerOld
<1>2. LateInv /\ [GatewayNext]_gatewayVars => LateInv'
  <2> SUFFICES ASSUME LateInv, UNCHANGED gatewayVars PROVE LateInv'
    BY LateStep
  <2>1. GatewayTypeOK' /\ EditTypeOK'
    BY GatewayNextType DEF LateInv, GatewayTypeOK, RelayTypeOK, EditTypeOK
  <2>2. UNCHANGED <<stations, mappings, statuses, nextStation, handler, health, admin>>
    BY DEF gatewayVars, storeVars, tableVars, requestVars, healthVars, adminVars
  <2>3. QED
    BY <2>1, <2>2 DEF LateInv, OldInv, IdsAreOld
<1>3. QED
  BY <1>1, <1>2, PTL DEF GatewaySpec

\* Whatever a request, a probe or a form writes late about a deleted station, no row
\* speaks of an id that has not been given out yet, if none does at the start
\* (AUTOINCREMENT in schema.go against the blind upserts of store.go).
THEOREM IdsAreOldHolds ==
  ASSUME \A i \in DOMAIN SeedMappings : SeedMappings[i].station < SeedNextStation
  PROVE  GatewaySpec => []IdsAreOld
<1>1. LateInv => IdsAreOld
  BY DEF LateInv, OldInv
<1>2. QED
  BY <1>1, LateInvariant, PTL

\* So a station never inherits the status or the mappings of a deleted one, whoever
\* still writes about that one (CreateStation).
THEOREM NewStationStartsCleanHolds ==
  ASSUME \A i \in DOMAIN SeedMappings : SeedMappings[i].station < SeedNextStation
  PROVE  GatewaySpec => NewStationStartsClean
<1> DEFINE Clean == \A id \in DOMAIN stations' \ DOMAIN stations :
                      /\ id \notin DOMAIN statuses'
                      /\ \A i \in DOMAIN mappings' : mappings'[i].station # id
<1>1. LateInv /\ [GatewayNext]_gatewayVars => [Clean]_storeVars
  <2> SUFFICES ASSUME LateInv, GatewayNext PROVE Clean
    BY DEF gatewayVars
  <2>1. RelayTypeOK /\ LoopTypeOK /\ OldInv
    BY DEF LateInv, GatewayTypeOK, LoopTypeOK, RelayTypeOK
  <2>2. CASE \E a \in Admins : ServeAdmin(a)
    BY <2>1, <2>2, CleanStep DEF ServeAdmin, EditNext
  <2>3. CASE \E r \in Requests : ServeRequest(r)
    BY <2>1, <2>3, RequestWrites DEF ServeRequest, configVars
  <2>4. CASE HealthCheck
    BY <2>1, <2>4, HealthWrites DEF HealthCheck, configVars
  <2>5. CASE UpstreamFlaps \/ ShutDown \/ PassTime \/ Restart
    <3>1. UNCHANGED stations
      BY <2>5 DEF UpstreamFlaps, Flap, ShutDown, Signal, PassTime, Tick, Restart, storeVars,
                  tableVars, configVars
    <3>2. QED
      BY <3>1
  <2>6. QED
    BY <2>2, <2>3, <2>4, <2>5 DEF GatewayNext
<1>2. QED
  BY <1>1, LateInvariant, PTL DEF GatewaySpec, NewStationStartsClean

-----------------------------------------------------------------------------
(* Coherence of the status rows *)

\* The law also binds the round of probes, and speaks only of ids already given out: a
\* station that is created gets an id the law does not know, and its own thresholds
\* become the law of that id.
ProbesAgree(law) == Follow(health.stations, law) /\ RowsAgree(health.statuses, law)

Given(law, next) == DOMAIN law \subseteq Ids /\ \A id \in DOMAIN law : id < next

LawInv(law) == GatewayTypeOK /\ AllAgree(law) /\ ProbesAgree(law) /\ Given(law, nextStation)

SomeLaw == \E law : LawInv(law)

Continues(later, law) ==
  DOMAIN law \subseteq DOMAIN later /\ \A id \in DOMAIN law : later[id] = law[id]

\* What a step does to the table of stations, when no form edits a threshold.
ThresholdsKept ==
  \A id \in DOMAIN stations \cap DOMAIN stations' : SameThresholds(stations[id], stations'[id])

\* Who agrees with a law agrees with the laws that continue it.
LEMMA GrownLaw ==
  ASSUME NEW law, NEW later, Continues(later, law)
  PROVE  /\ \A table : Follow(table, law) => Follow(table, later)
         /\ \A table : RowsAgree(table, law) => RowsAgree(table, later)
         /\ \A h : HandlerAgrees(h, law) => HandlerAgrees(h, later)
<1>1. \A table : Follow(table, law) => Follow(table, later)
  BY DEF Continues, Follow
<1>2. \A table : RowsAgree(table, law) => RowsAgree(table, later)
  BY DEF Continues, RowsAgree
<1>3. ASSUME NEW h, HandlerAgrees(h, law)
      PROVE  HandlerAgrees(h, later)
  <2>1. Follow(h.stations, later) /\ RowsAgree(h.statuses, later)
    BY <1>1, <1>2, <1>3 DEF HandlerAgrees
  <2>2. QED
    BY <1>3, <2>1 DEF HandlerAgrees, Continues
<1>4. QED
  BY <1>1, <1>2, <1>3

\* A form leaves the law as it is, or adds the station it creates to it.
LEMMA AdminAgrees ==
  ASSUME NEW law, EditTypeOK, Given(law, nextStation), Follow(stations, law),
         RowsAgree(statuses, law), ThresholdsKept, NEW a \in Admins, AdminStep(a)
  PROVE  \E later : /\ Continues(later, law) /\ Given(later, nextStation')
                    /\ Follow(stations', later) /\ RowsAgree(statuses', later)
<1>1. Continues(law, law)
  BY DEF Continues
\* What is enough of a form that creates no station.
<1>2. ASSUME DOMAIN stations' \subseteq DOMAIN stations, UNCHANGED nextStation,
             RowsAgree(statuses', law)
      PROVE  Given(law, nextStation') /\ Follow(stations', law)
  <2>1. Given(law, nextStation')
    BY <1>2 DEF Given
  <2>2. Follow(stations', law)
    BY <1>2 DEF Follow, ThresholdsKept, SameThresholds
  <2>3. QED
    BY <2>1, <2>2
<1>3. CASE \E id \in DOMAIN stations : DeleteStation(id)
  <2>1. /\ DOMAIN stations' \subseteq DOMAIN stations /\ UNCHANGED nextStation
        /\ RowsAgree(statuses', law)
    BY <1>3 DEF DeleteStation, Without, RowsAgree
  <2>2. QED
    BY <1>1, <1>2, <2>1
<1>4. CASE UpdateStation(a)
  <2>1. DOMAIN stations' \subseteq DOMAIN stations /\ UNCHANGED <<nextStation, statuses>>
    BY <1>4 DEF UpdateStation, Put
  <2>2. QED
    BY <1>1, <1>2, <2>1
<1>5. CASE UNCHANGED <<stations, nextStation, statuses>>
  BY <1>1, <1>2, <1>5
<1>6. CASE CreateStation(a)
  <2>1. CASE UNCHANGED <<stations, nextStation>>
    BY <1>5, <1>6, <2>1 DEF CreateStation
  <2>2. CASE /\ nextStation \in Ids /\ nextStation' = nextStation + 1
             /\ stations' = Put(stations, nextStation, admin[a].row)
    <3> DEFINE later == Put(law, nextStation, admin[a].row)
    <3>1. /\ nextStation \in Nat
          /\ \A id \in DOMAIN law : id \in Nat /\ id < nextStation /\ id # nextStation
      <4>1. nextStation \in Nat
        BY DEF EditTypeOK, StoreTypeOK
      <4>2. \A id \in DOMAIN law : id \in Nat /\ id < nextStation
        BY IdsAreNat DEF Given
      <4>3. QED
        BY <4>1, <4>2
    <3>2. Continues(later, law)
      BY <3>1 DEF Continues, Put
    <3>3. DOMAIN later = DOMAIN law \cup {nextStation}
      BY DEF Put
    <3>4. Given(later, nextStation')
      <4>1. DOMAIN later \subseteq Ids
        BY <2>2, <3>3 DEF Given
      <4>2. ASSUME NEW id \in DOMAIN later PROVE id < nextStation'
        <5>1. id \in DOMAIN law \/ id = nextStation
          BY <3>3, <4>2
        <5>2. QED
          BY <2>2, <3>1, <5>1
      <4>3. QED
        BY <4>1, <4>2 DEF Given
    <3>5. Follow(stations', later)
      <4>1. later[nextStation] = admin[a].row
        BY DEF Put
      <4>2. ASSUME NEW id \in DOMAIN stations'
            PROVE  id \in DOMAIN later /\ SameThresholds(stations'[id], later[id])
        <5>1. CASE id = nextStation
          BY <2>2, <3>3, <4>1, <5>1 DEF Put, SameThresholds
        <5>2. CASE id # nextStation
          <6>1. id \in DOMAIN stations /\ stations'[id] = stations[id]
            BY <2>2, <4>2, <5>2 DEF Put
          <6>2. QED
            BY <3>2, <6>1 DEF Follow, Continues
        <5>3. QED
          BY <5>1, <5>2
      <4> HIDE DEF later
      <4>3. QED
        BY <4>2 DEF Follow
    <3>6. RowsAgree(statuses', later)
      BY <1>6, <3>2, GrownLaw DEF CreateStation
    <3>7. QED
      BY <3>2, <3>4, <3>5, <3>6
  <2>3. QED
    BY <1>6, <2>1, <2>2 DEF CreateStation
<1>7. QED
  BY <1>3, <1>4, <1>5, <1>6
     DEF AdminStep, CheckNewStation, CheckEditedStation, CheckNewMapping, CheckEditedMapping,
         UpsertMapping, UpdateMapping, DeleteMapping, WriteFails, storeVars, tableVars

LEMMA ProbesAgreeStep ==
  ASSUME NEW law, LoopTypeOK, Follow(stations, law), RowsAgree(statuses, law), now # 0,
         ProbesAgree(law), HealthStep
  PROVE  RowsAgree(statuses', law) /\ ProbesAgree(law)' /\ UNCHANGED <<stations, now>>
<1>1. CASE TickRound \/ ReadRound \/ SkipRound \/ EndRound \/ Halt
  <2>1. UNCHANGED <<stations, statuses, now>>
    BY <1>1 DEF TickRound, ReadRound, SkipRound, EndRound, Halt, storeVars, tableVars
  <2>2. /\ health'.stations \in {health.stations, stations, <<>>}
        /\ health'.statuses \in {health.statuses, statuses, <<>>}
    <3>1. CASE TickRound \/ ReadRound \/ Halt
      BY <3>1 DEF TickRound, ReadRound, Halt, LoopTypeOK, HealthTypeOK
    <3>2. CASE SkipRound \/ EndRound
      BY <3>2 DEF SkipRound, EndRound, Resting
    <3>3. QED
      BY <1>1, <3>1, <3>2
  <2>3. Follow(<<>>, law) /\ RowsAgree(<<>>, law)
    BY DEF Follow, RowsAgree
  <2>4. QED
    BY <2>1, <2>2, <2>3 DEF ProbesAgree
<1>2. CASE \E id \in health.todo : Probe(id)
  <2>1. PICK id \in health.todo : Probe(id)
    BY <1>2
  <2> DEFINE station == health.stations[id]
             before  == StatusOf(health.statuses, id)
  <2>2. /\ UNCHANGED <<stations, now>>
        /\ health'.stations = health.stations /\ health'.statuses = health.statuses
    BY <2>1 DEF Probe, configVars, LoopTypeOK, HealthTypeOK
  <2>3. /\ id \in DOMAIN law /\ station \in Station /\ IsTable(health.statuses, Status)
        /\ SameThresholds(station, law[id])
    BY DEF LoopTypeOK, HealthTypeOK, IsTable, ProbesAgree, Follow
  <2>4. now \in Nat \ {0}
    BY DEF LoopTypeOK, StoreTypeOK
  <2>5. /\ RowCoherent(RecordFailure(station, before, now), law[id])
        /\ RowCoherent(RecordSuccess(station, before), law[id])
    BY <2>3, <2>4, OutcomesAgree DEF ProbesAgree
  <2>6. \/ UNCHANGED statuses
        \/ \E row \in {RecordFailure(station, before, now), RecordSuccess(station, before)} :
             SaveStationStatus(stopping, id, row)
    BY <2>1 DEF Probe
  <2> HIDE DEF station, before
  <2>7. RowsAgree(statuses', law)
    BY <2>3, <2>5, <2>6, SaveAgrees
  <2>8. QED
    BY <2>2, <2>7 DEF ProbesAgree
<1>3. QED
  BY <1>1, <1>2 DEF HealthStep

LEMMA LawStep ==
  ASSUME NEW law, LawInv(law), [GatewayNext]_gatewayVars, ThresholdsKept
  PROVE  SomeLaw'
<1>1. GatewayTypeOK' /\ RelayTypeOK'
  BY GatewayNextType DEF LawInv, GatewayTypeOK
<1>2. /\ GatewayTypeOK /\ AllAgree(law) /\ ProbesAgree(law) /\ Given(law, nextStation)
      /\ LoopTypeOK /\ EditTypeOK /\ RelayTypeOK
      /\ Follow(stations, law) /\ RowsAgree(statuses, law) /\ now # 0
  BY DEF LawInv, AllAgree, GatewayTypeOK, RelayTypeOK, LoopTypeOK, EditTypeOK
<1>3. UNCHANGED nextStation => Given(law, nextStation')
  BY <1>2 DEF Given
<1>4. UNCHANGED health => ProbesAgree(law)'
  BY <1>2 DEF ProbesAgree
<1>5. LawInv(law)' => SomeLaw'
  BY DEF SomeLaw
\* What is enough of a step that leaves the handlers alone.
<1>6. ASSUME UNCHANGED handler, now' # 0, Follow(stations', law), RowsAgree(statuses', law)
      PROVE  AllAgree(law)'
  BY <1>1, <1>2, <1>6 DEF AllAgree
<1>7. CASE \E r \in Requests : ServeRequest(r)
  <2>1. PICK r \in Requests : RequestStep(r) /\ UNCHANGED health
    BY <1>7 DEF ServeRequest, healthVars
  <2>2. AllAgree(law)' /\ UNCHANGED nextStation
    BY <1>2, <2>1, AgreeNextRequest, RequestWrites DEF configVars
  <2>3. QED
    BY <1>1, <1>3, <1>4, <1>5, <2>1, <2>2 DEF LawInv
<1>8. CASE HealthCheck
  <2>1. RowsAgree(statuses', law) /\ ProbesAgree(law)' /\ UNCHANGED <<stations, now, nextStation>>
    BY <1>2, <1>8, ProbesAgreeStep, HealthWrites DEF HealthCheck, configVars
  <2>2. UNCHANGED handler
    BY <1>8 DEF HealthCheck, requestVars
  <2>3. QED
    BY <1>1, <1>2, <1>3, <1>5, <1>6, <2>1, <2>2 DEF LawInv
<1>9. CASE Restart
  <2>1. UNCHANGED <<stations, statuses, now, nextStation>> /\ health' = Resting
    BY <1>9 DEF Restart, HealthReset, storeVars, tableVars
  <2>2. ProbesAgree(law)'
    BY <2>1 DEF ProbesAgree, Resting, Follow, RowsAgree
  <2>3. ASSUME NEW r \in Requests
        PROVE  HandlerAgrees(handler'[r], law)
    <3>1. HandlerOK(handler[r]) /\ HandlerAgrees(handler[r], law)
      BY <1>2 DEF AllAgree, RelayTypeOK, RequestTypeOK
    <3>2. CASE handler'[r] = handler[r]
      BY <3>1, <3>2
    <3>3. CASE handler'[r] = [handler[r] EXCEPT !.pc = "lost", !.stations = <<>>,
                                                !.mappings = {}, !.statuses = <<>>]
      <4>1. /\ handler'[r].stations = <<>> /\ handler'[r].statuses = <<>>
            /\ handler'[r].targets = handler[r].targets
        BY <3>1, <3>3 DEF HandlerOK
      <4>2. QED
        BY <3>1, <4>1 DEF HandlerAgrees, Follow, RowsAgree
    <3>4. QED
      BY <1>9, <3>2, <3>3 DEF Restart
  <2>4. AllAgree(law)'
    BY <1>1, <1>2, <2>1, <2>3 DEF AllAgree
  <2>5. QED
    BY <1>1, <1>3, <1>5, <2>1, <2>2, <2>4 DEF LawInv
<1>10. CASE \E a \in Admins : ServeAdmin(a)
  <2>1. PICK a \in Admins : AdminStep(a) /\ UNCHANGED <<requestVars, healthVars>>
    BY <1>10 DEF ServeAdmin
  <2>2. PICK later : /\ Continues(later, law) /\ Given(later, nextStation')
                     /\ Follow(stations', later) /\ RowsAgree(statuses', later)
    BY <1>2, <2>1, AdminAgrees
  <2>3. UNCHANGED <<handler, health, now>>
    BY <2>1 DEF AdminStep, CheckNewStation, CheckEditedStation, CheckNewMapping,
         CheckEditedMapping, CreateStation, UpdateStation, DeleteStation, UpsertMapping,
         UpdateMapping, DeleteMapping, WriteFails, storeVars, tableVars, requestVars, healthVars
  <2>4. \A r \in Requests : HandlerAgrees(handler[r], later)
    BY <1>2, <2>2, GrownLaw DEF AllAgree
  <2>5. AllAgree(later)'
    BY <1>1, <1>2, <2>2, <2>3, <2>4 DEF AllAgree
  <2>6. ProbesAgree(later)'
    BY <1>2, <2>2, <2>3, GrownLaw DEF ProbesAgree
  <2>7. LawInv(later)'
    BY <1>1, <2>2, <2>5, <2>6 DEF LawInv
  <2>8. QED
    BY <2>7 DEF SomeLaw
<1>11. CASE UpstreamFlaps \/ ShutDown \/ UNCHANGED gatewayVars
  <2>1. UNCHANGED <<stations, statuses, now, handler, health, nextStation>>
    BY <1>11 DEF UpstreamFlaps, Flap, ShutDown, Signal, gatewayVars, storeVars, tableVars,
                 requestVars, healthVars
  <2>2. QED
    BY <1>1, <1>2, <1>3, <1>4, <1>5, <1>6, <2>1 DEF LawInv
<1>12. CASE PassTime
  <2>1. UNCHANGED <<stations, statuses, handler, health, nextStation>> /\ now' # 0
    BY <1>2, <1>12 DEF PassTime, Tick, configVars, requestVars, healthVars, LoopTypeOK, StoreTypeOK
  <2>2. QED
    BY <1>1, <1>2, <1>3, <1>4, <1>5, <1>6, <2>1 DEF LawInv
<1>13. QED
  BY <1>7, <1>8, <1>9, <1>10, <1>11, <1>12 DEF GatewayNext

\* In the whole gateway, as long as nobody edits the thresholds of a station that
\* exists, no row contradicts the thresholds of its station.  Stations are created with
\* any thresholds, edited otherwise and deleted; any number of requests and rounds of
\* probes write rows computed from old snapshots, over rows of stations edited, deleted
\* or restarted in between (FailOver, StreamEnds, StreamBreaks, Probe).
THEOREM GatewayRowsCoherent ==
  ASSUME \A id \in DOMAIN SeedStatuses : RowCoherent(SeedStatuses[id], SeedStations[id])
  PROVE  GatewaySpec /\ [][ThresholdsKept]_stations => []StatusCoherent
<1>1. GatewayInit => SomeLaw
  <2> SUFFICES ASSUME GatewayInit PROVE LawInv(SeedStations)
    BY DEF SomeLaw
  <2>1. Follow(SeedStations, SeedStations) /\ RowsAgree(SeedStatuses, SeedStations)
    BY SeedAssumption DEF RowsAgree, Follow, SameThresholds
  <2>2. AllAgree(SeedStations)
    BY <2>1, AgreeInit DEF GatewayInit, RelayInit
  <2>3. ProbesAgree(SeedStations)
    BY DEF GatewayInit, HealthInit, Resting, ProbesAgree, Follow, RowsAgree
  <2>4. Given(SeedStations, nextStation)
    BY SeedAssumption DEF GatewayInit, StoreInit, Given, IsTable
  <2>5. QED
    BY <2>2, <2>3, <2>4, GatewayInitType DEF LawInv
<1>2. SomeLaw /\ [GatewayNext]_gatewayVars /\ [ThresholdsKept]_stations => SomeLaw'
  <2> SUFFICES ASSUME SomeLaw, [GatewayNext]_gatewayVars, [ThresholdsKept]_stations
               PROVE  SomeLaw'
    OBVIOUS
  <2>1. ThresholdsKept
    BY DEF ThresholdsKept, SameThresholds
  <2>2. PICK law : LawInv(law)
    BY DEF SomeLaw
  <2>3. QED
    BY <2>1, <2>2, LawStep
<1>3. SomeLaw => StatusCoherent
  BY AgreedRows DEF SomeLaw, LawInv, AllAgree
<1>4. QED
  BY <1>1, <1>2, <1>3, PTL DEF GatewaySpec

-----------------------------------------------------------------------------
(* The whole process keeps the relay's contract *)

\* A request that is under way when the process dies is dropped.
LEMMA RestartDrops ==
  ASSUME NEW h
  PROVE  LET g == [h EXCEPT !.pc = "lost", !.stations = <<>>, !.mappings = {}, !.statuses = <<>>]
         IN  /\ h.pc \in Open => PhaseOf(h) \notin Contract!Final \cup {"new"}
             /\ HandlerOK(h) /\ h.pc \in Open =>
                  PhaseOf(g) = "dropped" /\ UntriedBy(g) = {} /\ CalledBy(g) = {}
             /\ HandlerOK(h) /\ h.pc \notin Open => PhaseOf(h) \in Contract!Final \cup {"new"}
<1> DEFINE g == [h EXCEPT !.pc = "lost", !.stations = <<>>, !.mappings = {}, !.statuses = <<>>]
<1>1. ASSUME h.pc \in Open PROVE PhaseOf(h) \notin Contract!Final \cup {"new"}
  <2>1. CASE h.pc \in Starting \ {"idle"}
    BY <2>1, PhaseTable DEF Contract!Final
  <2>2. CASE h.pc \in {"attempt", "headers", "capture", "failing", "exhausted"}
    BY <2>2, PhaseTable DEF Contract!Final
  <2>3. CASE h.pc \in {"streaming", "logging"}
    BY <2>3, PhaseTable DEF Contract!Final
  <2>4. QED
    BY <1>1, <2>1, <2>2, <2>3 DEF Open, Starting
<1>2. ASSUME HandlerOK(h), h.pc \in Open
      PROVE  PhaseOf(g) = "dropped" /\ UntriedBy(g) = {} /\ CalledBy(g) = {}
  <2>1. g.pc = "lost"
    BY <1>2 DEF HandlerOK
  <2> HIDE DEF g
  <2>2. QED
    BY <2>1 DEF PhaseOf, UntriedBy, CalledBy
<1>3. ASSUME HandlerOK(h), h.pc \notin Open PROVE PhaseOf(h) \in Contract!Final \cup {"new"}
  <2>1. h.pc \in {"idle", "done", "lost"} /\ h.verdict \in Verdict
    BY <1>3 DEF HandlerOK, Closed
  <2>2. CASE h.pc \in {"idle", "lost"}
    BY <2>2 DEF PhaseOf, Contract!Final
  <2>3. CASE h.pc = "done"
    <3>1. PhaseOf(h) = CASE h.verdict = "refused"   -> "refused"
                         [] h.verdict = "none"      -> "none"
                         [] h.verdict = "relayed"   -> "relayed"
                         [] h.verdict = "exhausted" -> "gaveUp"
                         [] OTHER                   -> "dropped"
      BY <2>3 DEF PhaseOf
    <3>2. QED
      BY <3>1 DEF Contract!Final
  <2>4. QED
    BY <2>1, <2>2, <2>3
<1>4. QED
  BY <1>1, <1>2, <1>3

LEMMA RestartDies ==
  ASSUME RelayTypeOK, Restart
  PROVE  Contract!Die
<1> DEFINE gone(h) == [h EXCEPT !.pc = "lost", !.stations = <<>>, !.mappings = {}, !.statuses = <<>>]
           survives(r) == PhaseOf(handler[r]) \in Contract!Final \cup {"new"}
<1>1. \A r \in Requests : HandlerOK(handler[r])
  BY DEF RelayTypeOK, RequestTypeOK
<1>2. handler' = [r \in Requests |-> IF handler[r].pc \in Open THEN gone(handler[r]) ELSE handler[r]]
  BY DEF Restart
<1> HIDE DEF gone
<1>3. ASSUME NEW r \in Requests
      PROVE  /\ survives(r) => handler'[r] = handler[r]
             /\ ~ survives(r) => /\ PhaseOf(handler'[r]) = "dropped"
                                 /\ UntriedBy(handler'[r]) = {} /\ CalledBy(handler'[r]) = {}
  <2>1. HandlerOK(handler[r])
    BY <1>1
  <2>2. CASE handler[r].pc \in Open
    <3>1. handler'[r] = gone(handler[r])
      BY <1>2, <2>2
    <3>2. ~ survives(r)
      BY <2>2, RestartDrops
    <3>3. /\ PhaseOf(gone(handler[r])) = "dropped" /\ UntriedBy(gone(handler[r])) = {}
          /\ CalledBy(gone(handler[r])) = {}
      BY <2>1, <2>2, RestartDrops DEF gone
    <3>4. QED
      BY <3>1, <3>2, <3>3
  <2>3. CASE handler[r].pc \notin Open
    <3>1. handler'[r] = handler[r]
      BY <1>2, <2>3
    <3>2. survives(r)
      BY <2>1, <2>3, RestartDrops
    <3>3. QED
      BY <3>1, <3>2
  <2>4. QED
    BY <2>2, <2>3
<1>4. Phases' = [r \in Requests |-> IF survives(r) THEN Phases[r] ELSE "dropped"]
  BY <1>3, Zenon DEF Phases
<1>5. Untrieds' = [r \in Requests |-> IF survives(r) THEN Untrieds[r] ELSE {}]
  BY <1>3, Zenon DEF Untrieds
<1>6. Currents' = [r \in Requests |-> IF survives(r) THEN Currents[r] ELSE {}]
  BY <1>3, Zenon DEF Currents
<1>7. QED
  BY <1>4, <1>5, <1>6 DEF Contract!Die, Phases, Untrieds, Currents

GatewayChoices == GatewayTypeOK /\ \A r \in Requests : Differ(handler[r].targets)

LEMMA GatewayContractNext ==
  ASSUME GatewayChoices, [GatewayNext]_gatewayVars
  PROVE  GatewayChoices' /\ [Contract!Next]_Contract!vars
<1>1. GatewayTypeOK' /\ RelayTypeOK /\ Choices
  BY GatewayNextType DEF GatewayChoices, GatewayTypeOK, Choices
<1>2. CASE \E r \in Requests : ServeRequest(r)
  <2>1. PICK r \in Requests : RequestStep(r)
    BY <1>2 DEF ServeRequest
  <2>2. Choices' /\ (Contract!Step(r) \/ UNCHANGED Contract!vars)
    BY <1>1, <2>1, ChoicesStep
  <2>3. QED
    BY <1>1, <2>2 DEF GatewayChoices, Choices, Contract!Next
<1>3. CASE Restart
  <2>1. Contract!Die
    BY <1>1, <1>3, RestartDies
  <2>2. \A r \in Requests : handler'[r].targets = handler[r].targets
    <3> TAKE r \in Requests
    <3>1. HandlerOK(handler[r])
      BY <1>1 DEF RelayTypeOK, RequestTypeOK
    <3>2. handler'[r] = IF handler[r].pc \in Open
                        THEN [handler[r] EXCEPT !.pc = "lost", !.stations = <<>>, !.mappings = {},
                                                !.statuses = <<>>]
                        ELSE handler[r]
      BY <1>3 DEF Restart
    <3>3. QED
      BY <3>1, <3>2 DEF HandlerOK
  <2>3. QED
    BY <1>1, <2>1, <2>2 DEF GatewayChoices, Contract!Next
<1>4. CASE UNCHANGED handler
  <2>1. GatewayChoices'
    BY <1>1, <1>4 DEF GatewayChoices
  <2>2. UNCHANGED Contract!vars
    BY <1>4 DEF Contract!vars
  <2>3. QED
    BY <2>1, <2>2
<1>5. QED
  BY <1>2, <1>3, <1>4 DEF GatewayNext, gatewayVars, HealthCheck, UpstreamFlaps, ServeAdmin,
     ShutDown, PassTime, requestVars

\* The promise of RelayContract holds of the whole process as well: whatever the health
\* loop, the admin handlers, a shutdown or a crash do beside the requests
\* (proxyNormalizedRequest, main.go).
THEOREM GatewayKeepsContract == GatewaySpec => KeepsContract
<1>1. GatewayInit => GatewayChoices /\ Contract!Init
  <2> SUFFICES ASSUME GatewayInit PROVE GatewayChoices /\ Contract!Init
    OBVIOUS
  <2>1. RelayInit
    BY DEF GatewayInit, RelayInit
  <2>2. QED
    BY <2>1, GatewayInitType, ChoicesInit, ContractInit DEF GatewayChoices, Choices
<1>2. GatewayChoices /\ [GatewayNext]_gatewayVars => GatewayChoices' /\ [Contract!Next]_Contract!vars
  BY GatewayContractNext
<1>3. GatewaySpec => []GatewayChoices
  BY <1>1, <1>2, PTL DEF GatewaySpec
<1>4. QED
  BY <1>1, <1>2, <1>3, PTL DEF GatewaySpec, KeepsContract, Contract!Spec

-----------------------------------------------------------------------------
(* The choice of a request is fresh *)

\* What the handler has read so far it saw while the request was being decided.
ReadsFresh(h, s) ==
  /\ h.pc \in Starting => h.targets = <<>>
  /\ h.pc \in {"mappings", "statuses", "choose"} =>
       \A id \in DOMAIN h.stations :
         h.stations[id].enabled /\ h.query.protocol \in h.stations[id].protocols => id \in s.enabled
  /\ h.pc \in {"statuses", "choose"} => \A m \in h.mappings : m.enabled => m.station \in s.mapped
  /\ h.pc = "choose" =>
       \A id \in Ids : StatusOf(h.statuses, id).state # "cooldown" => id \in s.warm
  /\ \A i \in DOMAIN h.targets : LET id == h.targets[i].id
                                 IN  id \in s.enabled /\ id \in s.mapped /\ id \in s.warm

FreshInv == GatewayTypeOK /\ \A r \in Requests : ReadsFresh(handler[r], seen[r])

Grows(s, z) == s.enabled \subseteq z.enabled /\ s.mapped \subseteq z.mapped /\ s.warm \subseteq z.warm

Holds(s, facts) == /\ facts.enabled \subseteq s.enabled /\ facts.mapped \subseteq s.mapped
                   /\ facts.warm \subseteq s.warm

LEMMA WatchGrows ==
  ASSUME NEW r \in Requests, Watch
  PROVE  /\ Grows(seen[r], seen'[r])
         /\ handler'[r].pc \in Deciding =>
              Holds(seen'[r], Facts(handler'[r].query, stations', mappings', statuses'))
<1> DEFINE facts == Facts(handler'[r].query, stations', mappings', statuses')
<1> HIDE DEF facts
<1>1. seen'[r] = IF handler'[r].pc \in Deciding
                 THEN [f \in DOMAIN Unseen |-> seen[r][f] \cup facts[f]]
                 ELSE seen[r]
  BY DEF Watch, facts
<1>2. DOMAIN Unseen = {"enabled", "mapped", "warm"}
  BY DEF Unseen
<1>3. CASE handler'[r].pc \in Deciding
  <2>1. /\ seen'[r].enabled = seen[r].enabled \cup facts.enabled
        /\ seen'[r].mapped = seen[r].mapped \cup facts.mapped
        /\ seen'[r].warm = seen[r].warm \cup facts.warm
    BY <1>1, <1>2, <1>3
  <2>2. Grows(seen[r], seen'[r]) /\ Holds(seen'[r], facts)
    BY <2>1 DEF Grows, Holds
  <2>3. QED
    BY <2>2 DEF facts
<1>4. CASE handler'[r].pc \notin Deciding
  BY <1>1, <1>4 DEF Grows
<1>5. QED
  BY <1>3, <1>4

LEMMA FreshGrows ==
  ASSUME NEW h, NEW s, NEW z, ReadsFresh(h, s), Grows(s, z)
  PROVE  ReadsFresh(h, z)
BY DEF ReadsFresh, Grows

\* A handler that reads no table and chooses nobody.
LEMMA FreshMoves ==
  ASSUME NEW h, NEW g, NEW s, NEW z, ReadsFresh(h, s), Grows(s, z), g.targets = h.targets,
         \/ g.pc \notin Starting
         \/ h.pc \in Starting /\ g.pc = "stations"
         \/ /\ g.pc = h.pc /\ g.query = h.query /\ g.stations = h.stations
            /\ g.mappings = h.mappings /\ g.statuses = h.statuses
  PROVE  ReadsFresh(g, z)
<1>1. \A i \in DOMAIN g.targets : LET id == g.targets[i].id
                                  IN  id \in z.enabled /\ id \in z.mapped /\ id \in z.warm
  BY DEF ReadsFresh, Grows
<1>2. CASE g.pc \notin Starting
  BY <1>1, <1>2 DEF ReadsFresh, Starting
<1>3. CASE h.pc \in Starting /\ g.pc = "stations"
  BY <1>1, <1>3 DEF ReadsFresh, Starting
<1>4. CASE /\ g.pc = h.pc /\ g.query = h.query /\ g.stations = h.stations
           /\ g.mappings = h.mappings /\ g.statuses = h.statuses
  <2>1. ReadsFresh(h, z)
    BY FreshGrows
  <2>2. QED
    BY <1>4, <2>1 DEF ReadsFresh
<1>5. QED
  BY <1>2, <1>3, <1>4

LEMMA FreshRequest ==
  ASSUME FreshInv, NEW r \in Requests, RequestStep(r), Watch
  PROVE  ReadsFresh(handler'[r], seen'[r])
<1> DEFINE h == handler[r]
           g == handler'[r]
           s == seen[r]
           z == seen'[r]
<1>1. RelayTypeOK /\ HandlerOK(h) /\ ReadsFresh(h, s) /\ handler = [q \in Requests |-> handler[q]]
  BY DEF FreshInv, GatewayTypeOK, RelayTypeOK, RequestTypeOK
<1>2. Grows(s, z) /\ (g.pc \in Deciding => Holds(z, Facts(g.query, stations', mappings', statuses')))
  BY WatchGrows
<1>3. CASE ReadStations(r)
  <2>1. /\ g.pc = "mappings" /\ g.stations = stations /\ g.query = h.query
        /\ g.targets = h.targets /\ h.pc = "stations"
    BY <1>1, <1>3 DEF ReadStations, HandlerOK
  <2>2. stations' = stations
    BY <1>3 DEF ReadStations, storeVars, tableVars, configVars
  <2>3. Facts(g.query, stations', mappings', statuses').enabled =
          {id \in DOMAIN stations : stations[id].enabled /\ g.query.protocol \in stations[id].protocols}
    BY <2>2 DEF Facts
  <2>4. \A id \in DOMAIN stations : stations[id].enabled /\ g.query.protocol \in stations[id].protocols
          => id \in z.enabled
    BY <1>2, <2>1, <2>3 DEF Deciding, Holds
  <2>5. g.targets = <<>> /\ DOMAIN g.targets = {}
    BY <1>1, <2>1, EmptyDomain DEF ReadsFresh, Starting
  <2>6. QED
    BY <2>1, <2>4, <2>5 DEF ReadsFresh, Starting
<1>4. CASE ReadMappings(r)
  <2>1. /\ g.pc = "statuses" /\ g.stations = h.stations /\ g.query = h.query
        /\ g.targets = h.targets /\ g.mappings = FindMappings(h.query) /\ h.pc = "mappings"
    BY <1>1, <1>4 DEF ReadMappings, HandlerOK
  <2>2. mappings' = mappings
    BY <1>4 DEF ReadMappings, storeVars, tableVars, configVars
  <2>3. Facts(g.query, stations', mappings', statuses').mapped =
          {mappings[i].station : i \in {j \in DOMAIN mappings :
             mappings[j].enabled /\ mappings[j].protocol = g.query.protocol
                                 /\ mappings[j].alias = g.query.alias}}
    BY <2>2 DEF Facts
  <2>4. \A m \in g.mappings : m.enabled => m.station \in z.mapped
    BY <1>2, <2>1, <2>3 DEF Deciding, Holds, FindMappings
  <2>5. g.targets = <<>> /\ DOMAIN g.targets = {}
    BY <1>1, <2>1, EmptyDomain DEF ReadsFresh, Starting
  <2>6. \A id \in DOMAIN g.stations :
          g.stations[id].enabled /\ g.query.protocol \in g.stations[id].protocols => id \in z.enabled
    BY <1>1, <1>2, <2>1 DEF ReadsFresh, Grows
  <2>7. QED
    BY <2>1, <2>4, <2>5, <2>6 DEF ReadsFresh, Starting
<1>5. CASE ReadStatuses(r)
  <2>1. /\ g.pc = "choose" /\ g.stations = h.stations /\ g.query = h.query
        /\ g.targets = h.targets /\ g.mappings = h.mappings /\ g.statuses = statuses
        /\ h.pc = "statuses"
    BY <1>1, <1>5 DEF ReadStatuses, HandlerOK
  <2>2. statuses' = statuses
    BY <1>5 DEF ReadStatuses, storeVars, tableVars
  <2>3. Facts(g.query, stations', mappings', statuses').warm =
          {id \in Ids : StatusOf(statuses, id).state # "cooldown"}
    BY <2>2 DEF Facts
  <2>4. \A id \in Ids : StatusOf(g.statuses, id).state # "cooldown" => id \in z.warm
    BY <1>2, <2>1, <2>3 DEF Deciding, Holds
  <2>5. g.targets = <<>> /\ DOMAIN g.targets = {}
    BY <1>1, <2>1, EmptyDomain DEF ReadsFresh, Starting
  <2>6. /\ \A id \in DOMAIN g.stations :
             g.stations[id].enabled /\ g.query.protocol \in g.stations[id].protocols
               => id \in z.enabled
        /\ \A m \in g.mappings : m.enabled => m.station \in z.mapped
    BY <1>1, <1>2, <2>1 DEF ReadsFresh, Grows
  <2>7. QED
    BY <2>1, <2>4, <2>5, <2>6 DEF ReadsFresh, Starting
<1>6. CASE Choose(r)
  <2> DEFINE Chosen(targets) == handler' = [handler EXCEPT ![r] =
               IF targets = <<>> THEN Close(@, "none")
               ELSE [@ EXCEPT !.pc = "attempt", !.targets = targets,
                              !.stations = <<>>, !.mappings = {}]]
  <2>1. PICK scores \in Scoreboards :
          \E targets \in Candidates(h.query, h.stations, h.mappings, h.statuses, scores) :
            Chosen(targets)
    BY <1>6 DEF Choose
  <2>2. PICK targets \in Candidates(h.query, h.stations, h.mappings, h.statuses, scores) :
          Chosen(targets)
    BY <2>1
  <2>3. h.pc = "choose"
    BY <1>6 DEF Choose
  <2>4. CASE targets = <<>>
    <3>1. g = Close(h, "none")
      BY <1>1, <2>2, <2>4
    <3>2. g.pc = "done" /\ g.targets = h.targets
      BY <1>1, <3>1, CloseKeeps
    <3>3. QED
      BY <1>1, <1>2, <3>2, FreshMoves DEF Starting
  <2>5. CASE targets # <<>>
    <3>1. g = [h EXCEPT !.pc = "attempt", !.targets = targets, !.stations = <<>>, !.mappings = {}]
      BY <1>1, <2>2, <2>5
    <3>2. g.pc = "attempt" /\ g.targets = targets
      BY <1>1, <3>1 DEF HandlerOK
    <3>3. ASSUME NEW i \in DOMAIN targets
          PROVE  LET id == targets[i].id
                 IN  id \in z.enabled /\ id \in z.mapped /\ id \in z.warm
      <4> DEFINE id == targets[i].id
      <4>1. IsTable(h.stations, Station)
        BY <1>1 DEF HandlerOK
      <4>2. id \in DOMAIN h.stations /\ Eligible(id, h.query, h.stations, h.mappings, h.statuses)
        BY <4>1, CandidatesType, RequestAssumption
      <4>3. id \in Ids
        BY <4>1, <4>2 DEF IsTable
      <4> HIDE DEF id
      <4>4. /\ h.stations[id].enabled /\ h.query.protocol \in h.stations[id].protocols
            /\ \E m \in h.mappings : m.enabled /\ m.station = id
            /\ StatusOf(h.statuses, id).state \in {"", "healthy"}
        BY <4>2 DEF Eligible, SupportsProtocol
      <4>5. id \in s.enabled
        BY <1>1, <2>3, <4>2, <4>4 DEF ReadsFresh
      <4>6. id \in s.mapped
        BY <1>1, <2>3, <4>4 DEF ReadsFresh
      <4>7. id \in s.warm
        BY <1>1, <2>3, <4>3, <4>4 DEF ReadsFresh
      <4>8. id \in z.enabled /\ id \in z.mapped /\ id \in z.warm
        BY <1>2, <4>5, <4>6, <4>7 DEF Grows
      <4>9. QED
        BY <4>8 DEF id
    <3>4. QED
      BY <3>2, <3>3 DEF ReadsFresh, Starting
  <2>6. QED
    BY <2>4, <2>5
<1>7. CASE Arrive(r)
  <2>1. PICK query \in Queries :
          handler' = [handler EXCEPT ![r].pc = "stations", ![r].query = query]
    BY <1>7 DEF Arrive
  <2>2. g.pc = "stations" /\ g.targets = h.targets /\ h.pc = "idle"
    BY <1>1, <1>7, <2>1 DEF HandlerOK, Arrive
  <2>3. QED
    BY <1>1, <1>2, <2>2, FreshMoves DEF Starting
<1>8. CASE ClientLeaves(r)
  <2>1. /\ g.pc = h.pc /\ g.query = h.query /\ g.stations = h.stations
        /\ g.mappings = h.mappings /\ g.statuses = h.statuses /\ g.targets = h.targets
    BY <1>1, <1>8 DEF HandlerOK, ClientLeaves
  <2>2. QED
    BY <1>1, <1>2, <2>1, FreshMoves
<1>9. CASE /\ ~ ReadStations(r) /\ ~ ReadMappings(r) /\ ~ ReadStatuses(r) /\ ~ Choose(r)
           /\ ~ Arrive(r) /\ ~ ClientLeaves(r)
  <2>1. Moves(h, g, attempts[r], attempts'[r])
    BY <1>1, RequestMoves
  <2>2. (g.pc \notin Starting /\ h.pc # "choose") \/ g.pc = "done"
    <3>1. CASE Refuse(r) \/ ReadError(r) \/ CallCancelled(r) \/ LogRequest(r) \/ GiveUp(r)
      <4>1. PICK verdict : handler' = [handler EXCEPT ![r] = Close(@, verdict)]
        BY <3>1 DEF Refuse, ReadError, CallCancelled, LogRequest, GiveUp
      <4>2. g = Close(h, verdict)
        BY <1>1, <4>1
      <4>3. QED
        BY <1>1, <4>2, CloseKeeps
    <3>2. CASE ~ (Refuse(r) \/ ReadError(r) \/ CallCancelled(r) \/ LogRequest(r) \/ GiveUp(r))
      <4>1. h.pc \notin Starting
        BY <1>9, <3>2 DEF RequestStep, Prompt, AwaitsUpstream, Attempt, Headers, Capture,
           CaptureFails, FailOver, StreamEnds, StreamBreaks, Starting
      <4>2. g.pc \notin Starting
        BY <2>1, <4>1 DEF Moves, Reads, Leaves, Ends, Chooses, Calls, Waits, Fails, Commits,
           Advances, Streams, Starting
      <4>3. QED
        BY <4>1, <4>2 DEF Starting
    <3>3. QED
      BY <3>1, <3>2
  <2>3. g.targets = h.targets /\ g.pc \notin Starting
    BY <2>1, <2>2 DEF Moves, Reads, Leaves, Ends, Chooses, Calls, Waits, Fails, Commits,
       Advances, Streams, Same, Starting
  <2>4. QED
    BY <1>1, <1>2, <2>3, FreshMoves
<1>10. QED
  BY <1>3, <1>4, <1>5, <1>6, <1>7, <1>8, <1>9

LEMMA FreshNext ==
  ASSUME FreshInv, [GatewayNext]_gatewayVars
  PROVE  FreshInv'
<1>1. GatewayTypeOK' /\ RelayTypeOK
  BY GatewayNextType DEF FreshInv, GatewayTypeOK
<1>2. CASE UNCHANGED gatewayVars
  BY <1>1, <1>2 DEF FreshInv, gatewayVars, requestVars
<1>3. CASE GatewayNext
  <2>1. Watch
    BY <1>3 DEF GatewayNext
  <2>2. ASSUME NEW q \in Requests, handler'[q] = handler[q]
        PROVE  ReadsFresh(handler'[q], seen'[q])
    <3>1. ReadsFresh(handler[q], seen[q]) /\ Grows(seen[q], seen'[q])
      BY <2>1, WatchGrows DEF FreshInv
    <3>2. QED
      BY <2>2, <3>1, FreshGrows
  <2>3. CASE \E r \in Requests : ServeRequest(r)
    <3>1. PICK r \in Requests : RequestStep(r)
      BY <2>3 DEF ServeRequest
    <3>2. ReadsFresh(handler'[r], seen'[r])
      BY <2>1, <3>1, FreshRequest
    <3>3. \A q \in Requests \ {r} : handler'[q] = handler[q]
      BY <1>1, <3>1, RequestMoves
    <3>4. QED
      BY <1>1, <2>2, <3>2, <3>3 DEF FreshInv
  <2>4. CASE Restart
    <3>1. ASSUME NEW q \in Requests PROVE ReadsFresh(handler'[q], seen'[q])
      <4>1. HandlerOK(handler[q])
        BY <1>1 DEF RelayTypeOK, RequestTypeOK
      <4>2. CASE handler[q].pc \in Open
        <5>1. handler'[q] = [handler[q] EXCEPT !.pc = "lost", !.stations = <<>>, !.mappings = {},
                                               !.statuses = <<>>]
          BY <2>4, <4>2 DEF Restart
        <5>2. handler'[q].pc = "lost" /\ handler'[q].targets = handler[q].targets
          BY <4>1, <5>1 DEF HandlerOK
        <5>3. ReadsFresh(handler[q], seen[q]) /\ Grows(seen[q], seen'[q])
          BY <2>1, WatchGrows DEF FreshInv
        <5>4. QED
          BY <5>2, <5>3, FreshMoves DEF Starting
      <4>3. CASE handler[q].pc \notin Open
        <5>1. handler'[q] = handler[q]
          BY <2>4, <4>3 DEF Restart
        <5>2. QED
          BY <2>2, <5>1
      <4>4. QED
        BY <4>2, <4>3
    <3>2. QED
      BY <1>1, <3>1 DEF FreshInv
  <2>5. CASE UNCHANGED handler
    BY <1>1, <2>2, <2>5 DEF FreshInv
  <2>6. QED
    BY <1>3, <2>3, <2>4, <2>5 DEF GatewayNext, HealthCheck, UpstreamFlaps, ServeAdmin,
       ShutDown, PassTime, requestVars
<1>4. QED
  BY <1>2, <1>3

LEMMA FreshInit == GatewayInit => FreshInv
<1> SUFFICES ASSUME GatewayInit PROVE FreshInv
  OBVIOUS
<1>1. \A r \in Requests : handler[r] = Fresh
  BY DEF GatewayInit, RequestInit
<1>2. Fresh.pc = "idle" /\ Fresh.targets = <<>>
  BY DEF Fresh
<1>3. \A r \in Requests : ReadsFresh(handler[r], seen[r])
  BY <1>1, <1>2, EmptyDomain DEF ReadsFresh, Starting
<1>4. QED
  BY <1>3, GatewayInitType DEF FreshInv

\* For any number of requests, stations and edits: the three reads behind a choice are not
\* one snapshot, but none is older than the request (ListStations, FindMappings,
\* ListStationStatuses, Candidates).
THEOREM ChoiceIsFreshHolds == GatewaySpec => []ChoiceIsFresh
<1>1. FreshInv => ChoiceIsFresh
  BY Zenon DEF FreshInv, ReadsFresh, ChoiceIsFresh
<1>2. FreshInv /\ [GatewayNext]_gatewayVars => FreshInv'
  BY FreshNext
<1>3. QED
  BY <1>1, <1>2, FreshInit, PTL DEF GatewaySpec
=============================================================================
