---------------------------- MODULE StationStore ----------------------------
(***************************************************************************)
(* internal/storage/sqlite: the database every component shares, one       *)
(* variable per table, and the statements that more than one component     *)
(* runs.  A statement, and a transaction, is one atomic step; what is not  *)
(* atomic is a component's sequence of them.                               *)
(***************************************************************************)
EXTENDS Selector

CONSTANTS SeedStations,   \* the rows the database holds when the process starts
          SeedMappings,
          SeedStatuses,
          SeedNextStation, \* and its two AUTOINCREMENT sequences
          SeedNextMapping,
          MaxTime,        \* bound: the clock stops there
          DBFaults        \* TRUE: a statement may fail (SQLITE_BUSY, disk) at any time

VARIABLES stations,       \* table stations: id -> Station
          mappings,       \* table model_mappings: id -> Mapping
          statuses,       \* table station_statuses: station id -> Status
          nextStation,    \* sqlite_sequence: ids are AUTOINCREMENT, never given twice
          nextMapping,
          now,            \* the wall clock
          tally,          \* history: the outcomes of a station written since the last one of
                          \* the other kind, [failures, recoveries], as a lone writer counts
          faulted         \* history: ids of the stations that failed, and of those whose body
                          \* broke off, at either end, before the context was cancelled

tableVars == <<stations, mappings, statuses, nextStation, nextMapping, now, tally>>
storeVars == <<tableVars, faulted>>
configVars == <<stations, mappings, nextStation, nextMapping>>

ASSUME SeedAssumption ==
  /\ IsTable(SeedStations, Station)
  /\ IsTable(SeedMappings, Mapping)
  /\ IsTable(SeedStatuses, Status)
  /\ DOMAIN SeedStatuses \subseteq DOMAIN SeedStations
  /\ SeedNextStation \in Nat /\ \A i \in DOMAIN SeedStations : i < SeedNextStation
  /\ SeedNextMapping \in Nat /\ \A i \in DOMAIN SeedMappings : i < SeedNextMapping
  /\ MaxTime \in Nat
  /\ DBFaults \in BOOLEAN

Count(status) == [failures |-> status.failures, recoveries |-> status.recoveries]

HoldsFailure(status) == status.failures > 0 \/ status.state = "cooldown"

StoreInit ==
  /\ stations = SeedStations
  /\ mappings = SeedMappings
  /\ statuses = SeedStatuses
  /\ nextStation = SeedNextStation
  /\ nextMapping = SeedNextMapping
  /\ now = 1
  /\ tally = [id \in DOMAIN SeedStatuses |-> Count(SeedStatuses[id])]
  /\ faulted = {id \in DOMAIN SeedStatuses : HoldsFailure(SeedStatuses[id])}

StoreTypeOK ==
  /\ IsTable(stations, Station)
  /\ IsTable(mappings, Mapping)
  /\ IsTable(statuses, Status)
  /\ nextStation \in Nat
  /\ nextMapping \in Nat
  /\ now \in Nat
  /\ IsTable(tally, [failures : 0 .. CountCap, recoveries : 0 .. CountCap])
  /\ faulted \subseteq Ids

\* A statement under a cancelled context fails, and any may fail under DBFaults.
MayFail(cancelled) == cancelled \/ DBFaults

Put(table, id, row) == [i \in DOMAIN table \cup {id} |-> IF i = id THEN row ELSE table[i]]

Tallied(id, status) ==
  LET n == IF id \in DOMAIN tally THEN tally[id] ELSE Count(NoStatus)
  IN  IF status.failures > 0
      THEN [failures |-> Bump(n.failures), recoveries |-> 0]
      ELSE [failures |-> 0, recoveries |-> Bump(n.recoveries)]

\* Mutant: the statement runs under a context of its own.
SaveStationStatus_Detached(cancelled, id, status) ==
  /\ statuses' = Put(statuses, id, status)
  /\ tally' = Put(tally, id, Tallied(id, status))

\* Mutant: DO UPDATE SET forgets consecutive_recoveries.
SaveStationStatus_Partial(cancelled, id, status) ==
  /\ ~ cancelled
  /\ statuses' = Put(statuses, id,
       [status EXCEPT !.recoveries = IF id \in DOMAIN statuses THEN statuses[id].recoveries ELSE @])
  /\ tally' = Put(tally, id, Tallied(id, status))

\* The upsert of a whole status row.  There is no foreign key, and every
\* caller ignores the error.
SaveStationStatus(cancelled, id, status) ==
  \/ /\ ~ cancelled
     /\ statuses' = Put(statuses, id, status)
     /\ tally' = Put(tally, id, Tallied(id, status))
  \/ MayFail(cancelled) /\ UNCHANGED <<statuses, tally>>

FindMappings(query) ==
  {m \in {mappings[i] : i \in DOMAIN mappings} :
     m.protocol = query.protocol /\ m.alias = query.alias}

\* ORDER BY priority DESC, id ASC
ListedBefore(table, a, b) ==
  \/ table[a].priority > table[b].priority
  \/ table[a].priority = table[b].priority /\ a < b

Tick == /\ now < MaxTime
        /\ now' = now + 1
        /\ UNCHANGED <<configVars, statuses, tally, faulted>>

-----------------------------------------------------------------------------
(* Properties of the status table, whoever writes it *)

RowCoherent(s, station) ==
  /\ s.failures = 0 \/ s.recoveries = 0
  /\ s.failures >= EffectiveFailureThreshold(station) => s.state = "cooldown"
  /\ s.state = "cooldown" /\ s.recoveries > 0 => s.recoveries < station.recoveryThreshold
  /\ s.state = "cooldown" <=> s.cooldownUntil # 0

\* A row never contradicts the thresholds that govern it, though several writers
\* upsert whole rows computed from old snapshots: one of the two counters is
\* zero, a failure count at the threshold means cooldown, a recovery count at the
\* threshold means no cooldown, and only a cooldown has an end (RecordFailure,
\* RecordSuccess, SaveStationStatus; as long as nobody edits the thresholds).
StatusCoherent ==
  \A id \in DOMAIN statuses \cap DOMAIN stations : RowCoherent(statuses[id], stations[id])

\* What fails because a context was cancelled, by the departure of a client or by the
\* shutdown of the process, costs no station anything: a row shows a failure or a
\* cooldown only for a station that failed, or in whose body the copy to the client
\* broke before net/http had noticed that the client was gone.  It rests on every
\* write going through the context whose cancellation caused the error
\* (SaveStationStatus(ctx, ...) in proxyNormalizedRequest and StartHealthLoop;
\* server_test.go DoesNotPersistFailureOnCanceledClient).
CancellationIsNoFault ==
  \A id \in DOMAIN statuses : HoldsFailure(statuses[id]) => id \in faulted

\* No outcome is lost: the counters of a row are the numbers of consecutive
\* failures and of consecutive successes written for the station.
NoLostOutcome == \A id \in DOMAIN statuses : Count(statuses[id]) = tally[id]

\* "Enter cooldown after this many failures" (docs/usage.md): a station with that
\* many failures written in a row is in cooldown.
ThresholdHonoured ==
  \A id \in DOMAIN statuses \cap DOMAIN stations :
    tally[id].failures >= EffectiveFailureThreshold(stations[id])
      => statuses[id].state = "cooldown"
=============================================================================
