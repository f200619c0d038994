------------------------------ MODULE Scoring ------------------------------
(***************************************************************************)
(* internal/jobs/scoring.go and retention.go: two goroutines over the log  *)
(* tables, while requests log and forms edit stations.  A log row names    *)
(* its station as the request knew it; a round of scoring looks names up   *)
(* among the stations it read, then reads the rows of the last window and  *)
(* replaces the whole scoreboard, which lives in memory.                   *)
(***************************************************************************)
EXTENDS StationAdmin

CONSTANTS Window,         \* ScoringWindow, in units of time
          Retention,      \* "keep" of StartRetentionLoop
          MinSample,      \* ScoringMinSample
          Calls,          \* what a request may log: its query, duration and failure
          MaxCalls,       \* bound: requests under way
          MaxRows,        \* bound: rows in request_logs, and ages in upstream_error_logs
          Scale           \* a multiple of every number of rows: keeps scores whole

ASSUME ScoringAssumption == /\ {Window, Retention, MinSample, MaxCalls, MaxRows, Scale} \subseteq Nat
                            /\ Window <= Retention
                            /\ \A n \in 1 .. MaxRows : Scale % n = 0
                            /\ Calls \subseteq [query : Query, ms : Nat, failed : BOOLEAN]

VARIABLES requestLogs,    \* table request_logs
          errorLogs,      \* table upstream_error_logs: the set of the ages of its rows
          calls,          \* the requests under way: station id and the name they read
          board,          \* Scoreboard.scores; history: whether a score counts rows
                          \* of a former bearer of its station's name
          scoring,        \* the scoring loop: its pc and the stations it read
          sweeping        \* the retention loop: its pc

logVars == <<requestLogs, errorLogs>>
scoreVars == <<logVars, calls, board, scoring, sweeping>>
scoringVars == <<editVars, scoreVars>>

Waiting == [pc |-> "waiting", stations |-> <<>>]

ScoringInit ==
  /\ StoreInit /\ AdminInit
  /\ requestLogs = <<>> /\ errorLogs = {}
  /\ calls = {}
  /\ board = <<>>
  /\ scoring = Waiting
  /\ sweeping = "waiting"

-----------------------------------------------------------------------------
(* Requests *)

Room == MaxRows - Cardinality(DOMAIN requestLogs) - Cardinality(errorLogs)

\* A request reads the stations and calls one.  Bound: it leaves room for its row.
Begin(id) ==
  /\ Cardinality(calls) < MaxCalls /\ Cardinality(calls) < Room
  /\ calls' = calls \cup {[id |-> id, name |-> stations[id].name]}
  /\ UNCHANGED <<editVars, logVars, board, scoring, sweeping>>

\* An id is one more than the largest.  Bound: ids start again in an empty table, for
\* nothing compares them.
NextRow(log) == {k \in 1 .. MaxRows : DOMAIN log \subseteq 1 .. (k - 1) /\ k - 1 \in {0} \cup DOMAIN log}

\* It ends, however much later; the answer of a failed call, if it had one, is kept too.
LogCall(call) ==
  /\ calls' = calls \ {call}
  /\ \E c \in Calls, k \in NextRow(requestLogs) :
       /\ requestLogs' = Put(requestLogs, k,
            [query |-> c.query, name |-> call.name, ms |-> c.ms, failed |-> c.failed,
             age |-> 0, id |-> call.id])
       /\ \/ UNCHANGED errorLogs
          \/ c.failed /\ Room > Cardinality(calls) /\ errorLogs' = errorLogs \cup {0}
  /\ UNCHANGED <<editVars, board, scoring, sweeping>>

-----------------------------------------------------------------------------
(* The scoring loop *)

\* medianInt64: the upper one of the two middle values.
Median(rows) ==
  CHOOSE ms \in {requestLogs[k].ms : k \in rows} :
    /\ Cardinality({k \in rows : requestLogs[k].ms < ms}) <= Cardinality(rows) \div 2
    /\ Cardinality({k \in rows : requestLogs[k].ms <= ms}) > Cardinality(rows) \div 2

\* Mutant: the errors are counted, and not their share.
Scored_Counts(rows, id) ==
  LET errors == Cardinality({k \in rows : requestLogs[k].failed})
  IN  [score |-> Scale * Median(rows) * (1 + errors),
       enough |-> Cardinality(rows) >= MinSample,
       inherited |-> \E k \in rows : requestLogs[k].id # id]

\* p50 * (1 + error rate)
Scored(rows, id) ==
  LET count  == Cardinality(rows)
      errors == Cardinality({k \in rows : requestLogs[k].failed})
  IN  [score |-> (Scale * Median(rows) * (count + errors)) \div count,
       enough |-> count >= MinSample,
       inherited |-> \E k \in rows : requestLogs[k].id # id]

Recent == {k \in DOMAIN requestLogs : requestLogs[k].age <= Window}

\* The rows that count for a station, given the table of stations.
RowsOf(id, query, table) ==
  {k \in Recent : requestLogs[k].name = table[id].name /\ requestLogs[k].query = query}

BoardOf(table) ==
  LET keys == {<<requestLogs[k].query.protocol, requestLogs[k].query.alias, id>> :
                 k \in Recent, id \in DOMAIN table}
      rows(key) == RowsOf(key[3], [protocol |-> key[1], alias |-> key[2]], table)
  IN  [key \in {key \in keys : rows(key) # {}} |-> Scored(rows(key), key[3])]

\* The ticker, or the start of the goroutine; ListStations answers.
StartRound ==
  /\ scoring.pc = "waiting"
  /\ scoring' = [pc |-> "named", stations |-> stations]
  /\ UNCHANGED <<editVars, logVars, calls, board, sweeping>>

\* Mutant: the new scores are put into the old table.
Replace_Merges(next) == [key \in DOMAIN next \cup DOMAIN board |->
                           IF key \in DOMAIN next THEN next[key] ELSE board[key]]

Replace(next) == next

\* ListRequestLogsSince answers and the board is replaced.  Bound: the two reads of
\* a round fall into one unit of time (see PassTime).
EndRound ==
  /\ scoring.pc = "named"
  /\ scoring' = Waiting
  /\ board' = Replace(BoardOf(scoring.stations))
  /\ UNCHANGED <<editVars, logVars, calls, sweeping>>

\* A read that fails leaves the board as it is.
RoundFails ==
  /\ scoring.pc = "named"
  /\ DBFaults
  /\ scoring' = Waiting
  /\ UNCHANGED <<editVars, logVars, calls, board, sweeping>>

-----------------------------------------------------------------------------
(* The retention loop *)

\* Mutant: the window of the scores is taken for the time to keep rows.
Overdue_Window(age) == age >= Window

Overdue(age) == age > Retention

\* The ticker fires for the first time an hour after the start: a process that does
\* not live that long never sweeps.  The cutoff is taken here; bound: a row's age is
\* compared when the statement runs.
TickSweep ==
  /\ sweeping = "waiting"
  /\ sweeping' = "requests"
  /\ UNCHANGED <<editVars, logVars, calls, board, scoring>>

SweepRequests ==
  /\ sweeping = "requests"
  /\ requestLogs' = Without(requestLogs, {k \in DOMAIN requestLogs : Overdue(requestLogs[k].age)})
  /\ sweeping' = "errors"
  /\ UNCHANGED <<editVars, errorLogs, calls, board, scoring>>

\* Mutant: the second statement forgets its WHERE and is left out.
SweepErrors_Skipped ==
  /\ sweeping = "errors"
  /\ sweeping' = "waiting"
  /\ UNCHANGED <<editVars, logVars, calls, board, scoring>>

SweepErrors ==
  /\ sweeping = "errors"
  /\ errorLogs' = {age \in errorLogs : ~ Overdue(age)}
  /\ sweeping' = "waiting"
  /\ UNCHANGED <<editVars, requestLogs, calls, board, scoring>>

\* The error of a statement is ignored, and the loop goes on.
SweepFails ==
  /\ DBFaults
  /\ sweeping # "waiting"
  /\ sweeping' = IF sweeping = "requests" THEN "errors" ELSE "waiting"
  /\ UNCHANGED <<editVars, logVars, calls, board, scoring>>

-----------------------------------------------------------------------------
(* Time, restarts and forms *)

Older(age) == IF age > Retention THEN age ELSE age + 1

PassTime ==
  /\ scoring.pc = "waiting"
  /\ requestLogs' = [k \in DOMAIN requestLogs |-> [requestLogs[k] EXCEPT !.age = Older(@)]]
  /\ errorLogs' = {Older(age) : age \in errorLogs}
  /\ UNCHANGED <<editVars, calls, board, scoring, sweeping>>

\* The process ends and starts again: the board is empty until the first round.
RestartProcess ==
  /\ calls' = {}
  /\ board' = <<>>
  /\ scoring' = Waiting /\ sweeping' = "waiting"
  /\ admin' = [a \in Admins |-> NoForm]
  /\ UNCHANGED <<storeVars, logVars>>

ScoringNext ==
  \/ \E id \in DOMAIN stations : Begin(id)
  \/ \E call \in calls : LogCall(call)
  \/ StartRound \/ EndRound \/ RoundFails
  \/ TickSweep \/ SweepRequests \/ SweepErrors \/ SweepFails
  \/ PassTime \/ RestartProcess
  \/ \E a \in Admins : AdminStep(a) /\ UNCHANGED scoreVars

ScoringSpec == ScoringInit /\ [][ScoringNext]_scoringVars

\* Rounds of scoring keep starting, the first with the process, and time goes on;
\* neither restarts nor the database keep one statement from succeeding for ever.
\* Nothing is assumed of the ticker of the sweeps, whose first period a restart cuts off.
FairScoringSpec ==
  /\ ScoringSpec
  /\ WF_scoringVars(StartRound) /\ SF_scoringVars(EndRound)
  /\ SF_scoringVars(SweepRequests) /\ SF_scoringVars(SweepErrors)
  /\ SF_scoringVars(PassTime)

-----------------------------------------------------------------------------
(* Properties *)

LogRow == [query : Query, name : Names, ms : Nat, failed : BOOLEAN, age : 0 .. Retention + 1, id : Ids]

ScoringTypeOK ==
  /\ EditTypeOK
  /\ DOMAIN requestLogs \subseteq 1 .. MaxRows
  /\ requestLogs \in [DOMAIN requestLogs -> LogRow]
  /\ errorLogs \subseteq 0 .. Retention + 1
  /\ calls \subseteq [id : Ids, name : Names]
  /\ DOMAIN board \subseteq Protocols \X Aliases \X Ids
  /\ \A key \in DOMAIN board :
       /\ board[key] \in [score : Nat, enough : BOOLEAN, inherited : BOOLEAN]
       /\ \E c, d \in Calls : board[key].score \in Scale * c.ms .. 2 * Scale * d.ms
  /\ scoring.pc \in {"waiting", "named"} /\ IsTable(scoring.stations, Station)
  /\ sweeping \in {"waiting", "requests", "errors"}

\* Retention never takes a row that a round of scoring would still count, wherever
\* the two loops stand (StartRetentionLoop's cutoff against recomputeOnce's since).
RetentionSparesTheWindow ==
  [][sweeping' # sweeping =>
       Recent' = Recent /\ \A k \in Recent : requestLogs'[k] = requestLogs[k]]_scoringVars

\* Once nobody edits stations any more, the board tells the log again and again:
\* whatever names, rows and restarts went before, no score outlives its rows and none
\* is missing (recomputeOnce reads names and rows at two moments).
BoardCatchesUp ==
  <>[][FALSE]_stations => []<>(board = BoardOf(stations))

\* A name given to another station hands it the scores of the old one, but not for
\* good: once nobody edits stations any more, rows logged under a former bearer's name
\* end up out of every score (recomputeOnce looks rows up by name).
InheritedScoresFade ==
  <>[][FALSE]_stations => <>[](\A key \in DOMAIN board : ~ board[key].inherited)

\* As long as processes live until their ticker fires again and again, every log row
\* goes in the end, from either table, though the first statement may fail and a process
\* may end between the two (StartRetentionLoop).
LogsAreSwept ==
  []<>(sweeping = "requests") =>
    /\ []<>(\A k \in DOMAIN requestLogs : ~ Overdue(requestLogs[k].age))
    /\ []<>(\A age \in errorLogs : ~ Overdue(age))
=============================================================================
