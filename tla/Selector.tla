------------------------------ MODULE Selector ------------------------------
(***************************************************************************)
(* internal/routing/selector.go: the pure part of the router.  Which       *)
(* stations may serve a request and in which order, and how one observed   *)
(* success or failure of a station changes its status row.                 *)
(*                                                                         *)
(* Stations, mappings and statuses are records; a database table is a      *)
(* function from row ids to records.  URLs, keys and upstream model names  *)
(* are abstracted to the set of protocols a station is configured for, and *)
(* to whether the URL of its probe can be parsed.                          *)
(***************************************************************************)
EXTENDS Integers, FiniteSets, Sequences

CONSTANTS Protocols,  \* the protocols of core.Protocol
          Aliases,    \* the model aliases clients ask for
          Names,      \* station names
          Ids,        \* the row ids the database can give out: finite, a bound
          CountCap    \* the value at which the two consecutive counters saturate

ASSUME IdsAssumption == Ids \subseteq Nat \ {0} /\ IsFiniteSet(Ids)
ASSUME CountCapAssumption == CountCap \in Nat \ {0}

Station == [name: Names, enabled: BOOLEAN, protocols: SUBSET Protocols, priority: Int,
            failureThreshold: Int, recoveryThreshold: Int, cooldown: Nat,
            parses: BOOLEAN]   \* whether the base URL that is probed is one

Mapping == [station: Ids, protocol: Protocols, alias: Aliases, enabled: BOOLEAN]

Query == [protocol: Protocols, alias: Aliases]

\* cooldownUntil = 0 is Go's zero time.
Status == [state: {"", "healthy", "cooldown"}, cooldownUntil: Nat,
           failures: 0 .. CountCap, recoveries: 0 .. CountCap]

\* What a read of a Go map yields for a station without a row.
NoStatus == [state |-> "", cooldownUntil |-> 0, failures |-> 0, recoveries |-> 0]

IsTable(table, Row) == /\ DOMAIN table \subseteq Ids
                       /\ table \in [DOMAIN table -> Row]

StatusOf(statuses, id) == IF id \in DOMAIN statuses THEN statuses[id] ELSE NoStatus

-----------------------------------------------------------------------------
(* Candidates *)

SupportsProtocol(station, protocol) == protocol \in station.protocols

\* Mutant: a disabled mapping counts.
Eligible_AnyMapping(id, query, stations, mappings, statuses) ==
  /\ stations[id].enabled
  /\ SupportsProtocol(stations[id], query.protocol)
  /\ \E m \in mappings : m.protocol = query.protocol /\ m.alias = query.alias /\ m.station = id
  /\ StatusOf(statuses, id).state \in {"", "healthy"}

\* Mutant: the status is not looked at.
Eligible_AnyState(id, query, stations, mappings, statuses) ==
  /\ stations[id].enabled
  /\ SupportsProtocol(stations[id], query.protocol)
  /\ \E m \in mappings : /\ m.enabled /\ m.station = id
                         /\ m.protocol = query.protocol /\ m.alias = query.alias

Eligible(id, query, stations, mappings, statuses) ==
  /\ stations[id].enabled
  /\ SupportsProtocol(stations[id], query.protocol)
  /\ \E m \in mappings : /\ m.enabled
                         /\ m.protocol = query.protocol
                         /\ m.alias = query.alias
                         /\ m.station = id
  /\ StatusOf(statuses, id).state \in {"", "healthy"}

Manual(entry) == entry.station.priority > 0

\* scores is the scoreboard: a function from <<protocol, alias, id>> to
\* [score, enough].  Only an auto station with enough samples has a score.
Ranked(id, query, stations, scores) ==
  LET key    == <<query.protocol, query.alias, id>>
      scored == /\ ~ stations[id].priority > 0
                /\ key \in DOMAIN scores
                /\ scores[key].enough
  IN  [id |-> id, station |-> stations[id], hasScore |-> scored,
       score |-> IF scored THEN scores[key].score ELSE 0]

RankedEntry == [id: Ids, station: Station, hasScore: BOOLEAN, score: Nat]

AutoBefore(a, b) ==
  \/ a.hasScore /\ ~ b.hasScore
  \/ a.hasScore /\ b.hasScore /\ a.score < b.score
  \/ /\ a.hasScore = b.hasScore
     /\ a.hasScore => a.score = b.score
     /\ a.id < b.id

ManualBefore(a, b) ==
  \/ a.station.priority > b.station.priority
  \/ a.station.priority = b.station.priority /\ a.id < b.id

\* The comparator of sort.SliceStable.
Before(a, b) ==
  \/ Manual(a) /\ ~ Manual(b)
  \/ Manual(a) /\ Manual(b) /\ ManualBefore(a, b)
  \/ ~ Manual(a) /\ ~ Manual(b) /\ AutoBefore(a, b)

\* The sorted pools: a set of exactly one sequence, Before being a strict
\* total order on entries with distinct ids.
Candidates(query, stations, mappings, statuses, scores) ==
  LET fit  == {id \in DOMAIN stations : Eligible(id, query, stations, mappings, statuses)}
      pool == {Ranked(id, query, stations, scores) : id \in fit}
  IN  {order \in [1 .. Cardinality(fit) -> pool] :
         \A i, j \in DOMAIN order : i < j => Before(order[i], order[j])}

-----------------------------------------------------------------------------
(* Status transitions *)

\* The counters are 64-bit integers compared with a threshold only; they are
\* kept up to CountCap, which is at least every threshold.
Bump_OneTooFar(n) == IF n <= CountCap THEN n + 1 ELSE n   \* mutant

Bump(n) == IF n < CountCap THEN n + 1 ELSE n

EffectiveFailureThreshold(station) ==
  IF station.failureThreshold <= 0 THEN 1 ELSE station.failureThreshold

\* Mutant: cooldown only beyond the threshold.
RecordFailure_OffByOne(station, status, now) ==
  LET failed == [status EXCEPT !.failures = Bump(@), !.recoveries = 0]
  IN  IF failed.failures > EffectiveFailureThreshold(station)
      THEN [failed EXCEPT !.state = "cooldown", !.cooldownUntil = now + station.cooldown]
      ELSE failed

RecordFailure(station, status, now) ==
  LET failed == [status EXCEPT !.failures = Bump(@), !.recoveries = 0]
  IN  IF failed.failures >= EffectiveFailureThreshold(station)
      THEN [failed EXCEPT !.state = "cooldown", !.cooldownUntil = now + station.cooldown]
      ELSE failed

\* Mutant: the failures are not reset.
RecordSuccess_KeepsFailures(station, status) ==
  LET recovered == [status EXCEPT !.recoveries = Bump(@)]
  IN  IF recovered.recoveries >= station.recoveryThreshold
      THEN [recovered EXCEPT !.state = "healthy", !.cooldownUntil = 0]
      ELSE recovered

RecordSuccess(station, status) ==
  LET recovered == [status EXCEPT !.failures = 0, !.recoveries = Bump(@)]
  IN  IF recovered.recoveries >= station.recoveryThreshold
      THEN [recovered EXCEPT !.state = "healthy", !.cooldownUntil = 0]
      ELSE recovered
=============================================================================
