----------------------------- MODULE HealthLoop -----------------------------
(***************************************************************************)
(* internal/jobs/health.go: the goroutine that probes every station in     *)
(* turn.  A round reads the stations, then the statuses, then probes the   *)
(* stations one by one (up to 5 s each), writing after each probe a row    *)
(* computed from the statuses read at the start of the round.              *)
(***************************************************************************)
EXTENDS StationStore

CONSTANTS Ticks,       \* bound: FALSE keeps the ticker from firing during the run
          ProbeFlaps,  \* TRUE: upstreams go down and come back
          Signals,     \* TRUE: the process may be told to stop
          Tunings,     \* the thresholds that forms and snapshots give to a station
          Tuned        \* bound: the stations that are given others

ASSUME HealthAssumption ==
  /\ {Ticks, ProbeFlaps, Signals} \subseteq BOOLEAN
  /\ Tunings \subseteq [failure : 0 .. CountCap, recovery : 0 .. CountCap]
  /\ Tuned \subseteq Ids

VARIABLES health,      \* the loop's local variables and its pc
          stopping,    \* the root context is cancelled (SIGINT, SIGTERM)
          down         \* the station ids whose probe fails now

healthVars == <<health, stopping, down>>

Resting == [pc |-> "waiting", stations |-> <<>>, statuses |-> <<>>, todo |-> {}]

HealthInit ==
  /\ health = Resting
  /\ stopping = FALSE
  /\ down = {}

\* A station with no protocol has no healthURL, and a URL that does not parse makes
\* no request: such a station is passed over.  No form or snapshot is refused for it.
HasHealthURL(station) == station.protocols # {} /\ station.parses

HealthReset == health' = Resting /\ stopping' = FALSE

\* The ticker fires and ListStations answers.
TickRound ==
  /\ health.pc = "waiting"
  /\ Ticks /\ ~ stopping
  /\ health' = [health EXCEPT !.pc = "statuses", !.stations = stations]
  /\ UNCHANGED <<storeVars, stopping, down>>

\* ListStationStatuses answers.
ReadRound ==
  /\ health.pc = "statuses"
  /\ ~ stopping
  /\ health' = [health EXCEPT !.pc = "probing", !.statuses = statuses,
                              !.todo = DOMAIN health.stations]
  /\ UNCHANGED <<storeVars, stopping, down>>

\* Mutant: a read that fails is tried again.
SkipRound_Retries ==
  /\ health.pc = "statuses"
  /\ MayFail(stopping)
  /\ UNCHANGED <<storeVars, health, stopping, down>>

\* A read that fails ends the round.
SkipRound ==
  /\ health.pc = "statuses"
  /\ MayFail(stopping)
  /\ health' = Resting
  /\ UNCHANGED <<storeVars, stopping, down>>

\* Mutant: a station in cooldown is left alone.
Probed_SkipsCooling(id) == /\ HasHealthURL(health.stations[id])
                           /\ StatusOf(health.statuses, id).state # "cooldown"

Probed(id) == HasHealthURL(health.stations[id])

\* The station at the head of the list: "id" is next in ListStations' order.
First(id) == /\ id \in health.todo
             /\ \A other \in health.todo \ {id} : ListedBefore(health.stations, id, other)

\* healthCheckFailed: an error (which a cancelled root context is) or a status
\* from 500.  The probe itself, the new row and its upsert.
Probe(id) ==
  /\ health.pc = "probing"
  /\ First(id)
  /\ health' = [health EXCEPT !.todo = @ \ {id}]
  /\ IF ~ Probed(id)
     THEN UNCHANGED <<statuses, tally, faulted>>
     ELSE LET station == health.stations[id]
              before  == StatusOf(health.statuses, id)
          IN  \/ /\ id \notin down /\ ~ stopping
                 /\ SaveStationStatus(stopping, id, RecordSuccess(station, before))
                 /\ UNCHANGED faulted
              \/ /\ id \in down \/ stopping
                 /\ SaveStationStatus(stopping, id, RecordFailure(station, before, now))
                 /\ faulted' = IF id \in down THEN faulted \cup {id} ELSE faulted
  /\ UNCHANGED <<configVars, now, stopping, down>>

EndRound ==
  /\ health.pc = "probing"
  /\ health.todo = {}
  /\ health' = Resting
  /\ UNCHANGED <<storeVars, stopping, down>>

\* ctx.Done() is selected: the goroutine returns.
Halt ==
  /\ health.pc = "waiting"
  /\ stopping
  /\ health' = [health EXCEPT !.pc = "halted"]
  /\ UNCHANGED <<storeVars, stopping, down>>

\* The signal that cancels the root context.
Signal ==
  /\ Signals /\ ~ stopping
  /\ stopping' = TRUE
  /\ UNCHANGED <<storeVars, health, down>>

\* An upstream breaks down or comes back: the environment.
\* What is never probed need not flap.
Flap(id) ==
  /\ ProbeFlaps
  /\ HasHealthURL(stations[id])
  /\ down' = IF id \in down THEN down \ {id} ELSE down \cup {id}
  /\ UNCHANGED <<storeVars, health, stopping>>

\* An administrator edits the thresholds of a station, by a form or by a pulled
\* snapshot; the status row stays as it is.
Retune(id) ==
  /\ id \in Tuned
  /\ \E t \in Tunings :
       stations' = [stations EXCEPT ![id].failureThreshold = t.failure,
                                    ![id].recoveryThreshold = t.recovery]
  /\ UNCHANGED <<mappings, nextStation, nextMapping, statuses, now, tally, faulted, healthVars>>

HealthStep == \/ TickRound \/ ReadRound \/ SkipRound \/ EndRound \/ Halt
              \/ \E id \in health.todo : Probe(id)

loopVars == <<storeVars, healthVars>>

LoopInit == StoreInit /\ HealthInit

LoopNext == \/ HealthStep
            \/ Signal
            \/ \E id \in DOMAIN stations : Flap(id) \/ Retune(id)
            \/ Tick /\ UNCHANGED healthVars

LoopSpec == LoopInit /\ [][LoopNext]_loopVars

\* The ticker keeps firing and a probe lasts at most 5 s.
FairLoopSpec == LoopSpec /\ WF_loopVars(HealthStep)

-----------------------------------------------------------------------------
(* Properties *)

HealthTypeOK ==
  /\ health \in [pc : {"waiting", "statuses", "probing", "halted"},
                  stations : {health.stations}, statuses : {health.statuses},
                  todo : SUBSET DOMAIN health.stations]
  /\ health.pc # "probing" => health.todo = {}
  /\ IsTable(health.stations, Station)
  /\ IsTable(health.statuses, Status)
  /\ stopping \in BOOLEAN
  /\ down \subseteq Ids

LoopTypeOK == StoreTypeOK /\ HealthTypeOK

StateOf(id) == StatusOf(statuses, id).state

\* A write forgives every edit of the thresholds before it: whatever row it finds, a
\* count already beyond a lowered threshold included, it leaves one that agrees with
\* the thresholds the round read (UpdateStation leaves the row alone;
\* RecordFailure, RecordSuccess).
WritesCatchUp ==
  [][\A id \in DOMAIN statuses' :
       StatusOf(statuses, id) # statuses'[id] => RowCoherent(statuses'[id], health.stations[id])
    ]_loopVars

\* A station that can be probed at all ends up healthy for good when its upstream comes
\* back for good, and in cooldown for good when that breaks down for good, as long as
\* the process runs: neither the stale snapshot of a round, nor the one-by-one order of
\* the probes with stations that are passed over among them, nor thresholds edited under
\* a count, however often, keep a station in the wrong state for ever (StartHealthLoop).
ProbesDecide ==
  \A id \in {i \in DOMAIN SeedStations : HasHealthURL(SeedStations[i])} :
    /\ [](~ stopping) /\ <>[](id \notin down) => <>[](StateOf(id) = "healthy")
    /\ [](~ stopping) /\ <>[](id \in down) => <>[](StateOf(id) = "cooldown")

\* Cancelling the root context ends the goroutine, wherever it is in its round.
LoopHalts == stopping ~> health.pc = "halted"
=============================================================================
