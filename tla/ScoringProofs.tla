---------------------------- MODULE ScoringProofs ----------------------------
(***************************************************************************)
(* Theorems about Scoring: any rows, any rounds and sweeps, forms under    *)
(* way beside them.                                                        *)
(***************************************************************************)
EXTENDS Scoring, AdminProofs

-----------------------------------------------------------------------------
(* The smallest number of a set *)

Below == {p \in Nat \X Nat : p[1] < p[2]}

LEMMA BelowIsWellFounded == IsWellFoundedOn(Below, Nat)
<1>1. OpToRel(<, Nat) = Below
  BY DEF OpToRel, Below
<1>2. QED
  BY <1>1, NatLessThanWellFounded

LEMMA SmallestOf ==
  ASSUME NEW T \in SUBSET Nat, T # {}
  PROVE  \E m \in T : \A k \in T : m <= k
<1>1. PICK m \in T : \A k \in T : <<k, m>> \notin Below
  BY BelowIsWellFounded, WFMin
<1>2. ASSUME NEW k \in T PROVE m <= k
  <2>1. <<k, m>> \notin Below
    BY <1>1
  <2>2. k < m => <<k, m>> \in Below
    BY DEF Below
  <2>3. QED
    BY <2>1, <2>2
<1>3. QED
  BY <1>2

\* Finitely many numbers have a bound.
LEMMA HasBound ==
  ASSUME NEW N \in Nat, NEW rows \in SUBSET (1 .. N), NEW f \in [rows -> Nat]
  PROVE  \E m \in Nat : \A k \in rows : f[k] <= m
<1> DEFINE Bounds(n, m) == \A k \in rows : k <= n => f[k] <= m
           T == {n \in Nat : ~ \E m \in Nat : Bounds(n, m)}
<1>1. T = {}
  <2> SUFFICES ASSUME T # {} PROVE FALSE
    OBVIOUS
  <2>1. PICK n \in T : \A k \in T : n <= k
    BY SmallestOf
  <2>2. n # 0
    <3>1. Bounds(0, 0)
      OBVIOUS
    <3>2. QED
      BY <3>1
  <2>3. n - 1 \in Nat /\ n - 1 \notin T
    <3>1. n \in Nat
      BY <2>1
    <3> HIDE DEF T
    <3>2. QED
      BY <2>1, <2>2, <3>1
  <2>4. PICK m \in Nat : Bounds(n - 1, m)
    BY <2>3
  <2>5. CASE n \in rows
    <3>1. \E b \in Nat : m <= b /\ f[n] <= b
      <4>1. f[n] \in Nat
        BY <2>5
      <4>2. f[n] <= m \/ m <= f[n]
        BY <4>1
      <4>3. QED
        BY <4>1, <4>2, SMTT(30)
    <3>2. PICK b \in Nat : m <= b /\ f[n] <= b
      BY <3>1
    <3>3. ASSUME NEW k \in rows, k <= n PROVE f[k] <= b
      <4>1. k = n \/ k <= n - 1
        BY <3>3
      <4>2. f[k] \in Nat
        OBVIOUS
      <4>3. QED
        BY <2>4, <3>2, <4>1, <4>2, SMTT(30)
    <3>4. QED
      BY <3>3
  <2>6. CASE n \notin rows
    <3>1. ASSUME NEW k \in rows, k <= n PROVE f[k] <= m
      <4>1. k <= n - 1
        <5>1. k \in Nat /\ n \in Nat /\ k # n
          BY <2>1, <2>6
        <5>2. QED
          BY <3>1, <5>1
      <4>2. QED
        BY <2>4, <4>1
    <3>2. QED
      BY <3>1
  <2>7. QED
    BY <2>5, <2>6
<1>2. PICK m \in Nat : Bounds(N, m)
  BY <1>1
<1>3. QED
  BY <1>2

-----------------------------------------------------------------------------
(* The median and the score *)

LEMMA HalfType ==
  ASSUME NEW n \in Nat, n # 0
  PROVE  n \div 2 \in Nat /\ n \div 2 < n
OBVIOUS

\* Of any numbers but none, one is the upper one of the two in the middle.
LEMMA MiddleExists ==
  ASSUME NEW N \in Nat, NEW rows \in SUBSET (1 .. N), rows # {}, NEW f \in [rows -> Nat]
  PROVE  \E ms \in {f[k] : k \in rows} :
           /\ Cardinality({k \in rows : f[k] < ms}) <= Cardinality(rows) \div 2
           /\ Cardinality({k \in rows : f[k] <= ms}) > Cardinality(rows) \div 2
<1> DEFINE half  == Cardinality(rows) \div 2
           to(m) == {k \in rows : f[k] <= m}
           T     == {m \in Nat : Cardinality(to(m)) > half}
<1>1. IsFiniteSet(rows)
  <2>1. IsFiniteSet(1 .. N)
    BY FS_Interval
  <2>2. QED
    BY <2>1, FS_Subset
<1>2. Cardinality(rows) \in Nat /\ Cardinality(rows) # 0
  BY <1>1, FS_CardinalityType, FS_EmptySet
<1>3. half \in Nat /\ half < Cardinality(rows)
  BY <1>2, HalfType
<1>4. \A m : Cardinality(to(m)) \in Nat
  BY <1>1, FS_Subset, FS_CardinalityType
<1>5. PICK b \in Nat : \A k \in rows : f[k] <= b
  BY HasBound
<1>6. b \in T
  <2>1. to(b) = rows
    BY <1>5
  <2>2. Cardinality(to(b)) > half
    BY <1>2, <1>3, <2>1
  <2>3. QED
    BY <1>5, <2>2
<1>7. PICK ms \in T : \A m \in T : ms <= m
  BY <1>6, SmallestOf
<1> DEFINE under == {k \in rows : f[k] < ms}
<1>8. Cardinality(under) <= half
  <2>1. CASE ms = 0
    <3>1. \A k \in rows : ~ f[k] < ms
      <4>1. \A k \in rows : f[k] \in Nat
        OBVIOUS
      <4>2. QED
        BY <2>1, <4>1
    <3>2. under = {}
      BY <3>1
    <3> HIDE DEF under, half
    <3>3. QED
      BY <1>3, <3>2, FS_EmptySet
  <2>2. CASE ms # 0
    <3>1. ms \in Nat
      BY <1>7
    <3>2. ms - 1 \in Nat /\ ms - 1 \notin T
      <4> HIDE DEF T
      <4>1. QED
        BY <1>7, <2>2, <3>1
    <3>3. ~ Cardinality(to(ms - 1)) > half
      BY <3>2
    <3>4. \A k \in rows : f[k] < ms <=> f[k] <= ms - 1
      BY <3>1
    <3>5. under = to(ms - 1)
      BY <3>4
    <3>6. Cardinality(to(ms - 1)) \in Nat
      BY <1>4
    <3> HIDE DEF half, to, under
    <3>7. QED
      BY <1>3, <3>3, <3>5, <3>6
  <2>3. QED
    BY <2>1, <2>2
<1>9. Cardinality(to(ms)) > half
  BY <1>7
<1>10. \E k \in rows : f[k] = ms
  <2> SUFFICES ASSUME \A k \in rows : f[k] # ms PROVE FALSE
    OBVIOUS
  <2>1. \A k \in rows : f[k] < ms <=> f[k] <= ms
    <3>1. ms \in Nat /\ \A k \in rows : f[k] \in Nat
      BY <1>7
    <3>2. QED
      BY <3>1
  <2>2. under = to(ms)
    BY <2>1
  <2>3. Cardinality(to(ms)) \in Nat
    BY <1>4
  <2> HIDE DEF half, to, under
  <2>4. QED
    BY <1>3, <1>8, <1>9, <2>2, <2>3
<1>11. QED
  BY <1>8, <1>9, <1>10

\* p50 times one plus an error rate stays between p50 and twice p50.
LEMMA ShareBounds ==
  ASSUME NEW p \in Nat, NEW n \in Nat, NEW e \in Nat, n > 0, e <= n
  PROVE  (p * (n + e)) \div n \in p .. 2 * p
<1> DEFINE x == p * (n + e)
<1>1. x \in Nat /\ x = p * n + p * e
  OBVIOUS
<1>2. p * e <= p * n /\ p * e \in Nat /\ p * n \in Nat
  OBVIOUS
<1> HIDE DEF x
<1>3. (x \div n) \in Nat /\ n * (x \div n) <= x /\ x < n * ((x \div n) + 1)
  BY <1>1
<1>4. p <= x \div n
  BY <1>1, <1>2, <1>3
<1>5. x \div n <= 2 * p
  BY <1>1, <1>2, <1>3
<1>6. QED
  BY <1>3, <1>4, <1>5 DEF x

-----------------------------------------------------------------------------
(* Type correctness *)

\* Every duration in the log is one that some request took.
RealDurations == \A k \in DOMAIN requestLogs : \E c \in Calls : requestLogs[k].ms = c.ms

BoardTypeOK ==
  /\ DOMAIN board \subseteq Protocols \X Aliases \X Ids
  /\ \A key \in DOMAIN board :
       /\ board[key] \in [score : Nat, enough : BOOLEAN, inherited : BOOLEAN]
       /\ \E c, d \in Calls : board[key].score \in Scale * c.ms .. 2 * Scale * d.ms

LogTypeOK ==
  /\ DOMAIN requestLogs \subseteq 1 .. MaxRows
  /\ requestLogs \in [DOMAIN requestLogs -> LogRow]
  /\ errorLogs \subseteq 0 .. Retention + 1
  /\ RealDurations

LoopTypeOK ==
  /\ calls \subseteq [id : Ids, name : Names]
  /\ scoring.pc \in {"waiting", "named"} /\ IsTable(scoring.stations, Station)
  /\ sweeping \in {"waiting", "requests", "errors"}

\* The inductive invariant: a score is made of what the rows hold.
ScoringInv == EditTypeOK /\ LogTypeOK /\ BoardTypeOK /\ LoopTypeOK

LEMMA LimitsType ==
  /\ Window \in Nat /\ Retention \in Nat /\ MinSample \in Nat /\ MaxRows \in Nat /\ Scale \in Nat
  /\ Window <= Retention
BY ScoringAssumption

LEMMA CallType ==
  ASSUME NEW c \in Calls
  PROVE  c.query \in Query /\ c.ms \in Nat /\ c.failed \in BOOLEAN
BY ScoringAssumption

LEMMA MedianType ==
  ASSUME LogTypeOK, NEW rows \in SUBSET DOMAIN requestLogs, rows # {}
  PROVE  Median(rows) \in {requestLogs[k].ms : k \in rows}
<1> DEFINE f == [k \in rows |-> requestLogs[k].ms]
<1>1. f \in [rows -> Nat] /\ rows \in SUBSET (1 .. MaxRows)
  BY DEF LogTypeOK, LogRow
<1>2. \A k \in rows : f[k] = requestLogs[k].ms
  OBVIOUS
<1> HIDE DEF f
<1>3. PICK ms \in {f[k] : k \in rows} :
        /\ Cardinality({k \in rows : f[k] < ms}) <= Cardinality(rows) \div 2
        /\ Cardinality({k \in rows : f[k] <= ms}) > Cardinality(rows) \div 2
  BY <1>1, MiddleExists, LimitsType
<1>4. /\ {f[k] : k \in rows} = {requestLogs[k].ms : k \in rows}
      /\ {k \in rows : f[k] < ms} = {k \in rows : requestLogs[k].ms < ms}
      /\ {k \in rows : f[k] <= ms} = {k \in rows : requestLogs[k].ms <= ms}
  BY <1>2
<1>5. QED
  BY <1>3, <1>4 DEF Median

LEMMA ScoredType ==
  ASSUME LogTypeOK, NEW rows \in SUBSET DOMAIN requestLogs, rows # {}, NEW id
  PROVE  /\ Scored(rows, id) \in [score : Nat, enough : BOOLEAN, inherited : BOOLEAN]
         /\ \E c, d \in Calls : Scored(rows, id).score \in Scale * c.ms .. 2 * Scale * d.ms
<1> DEFINE count == Cardinality(rows)
           bad == {k \in rows : requestLogs[k].failed}
           errors == Cardinality(bad)
<1>1. IsFiniteSet(rows)
  <2>1. IsFiniteSet(1 .. MaxRows)
    BY FS_Interval, LimitsType
  <2>2. rows \in SUBSET (1 .. MaxRows)
    BY DEF LogTypeOK
  <2>3. QED
    BY <2>1, <2>2, FS_Subset
<1>2. count \in Nat /\ count # 0
  BY <1>1, FS_CardinalityType, FS_EmptySet
<1>3. errors \in Nat /\ errors <= count
  <2>1. bad \in SUBSET rows
    OBVIOUS
  <2> HIDE DEF bad
  <2>2. QED
    BY <1>1, <2>1, FS_Subset, FS_CardinalityType
<1>4. PICK c \in Calls : Median(rows) = c.ms
  BY MedianType DEF LogTypeOK, RealDurations
<1>5. c.ms \in Nat
  BY CallType
<1> DEFINE p == Scale * c.ms
           score == (p * (count + errors)) \div count
<1>6. p \in Nat
  BY <1>5, LimitsType
<1> HIDE DEF p, count, errors
<1>7. score \in p .. 2 * p
  BY <1>2, <1>3, <1>6, ShareBounds
<1>8. score \in Nat /\ 2 * p = 2 * Scale * c.ms
  BY <1>5, <1>6, <1>7, LimitsType DEF p
<1>9. Scored(rows, id).score = score
  BY <1>4 DEF Scored, p, count, errors, bad
<1>10. Scored(rows, id) \in [score : {score}, enough : BOOLEAN, inherited : BOOLEAN]
  BY <1>4 DEF Scored, p, count, errors, bad
<1>11. QED
  BY <1>7, <1>8, <1>9, <1>10 DEF p

LEMMA BoardOfType ==
  ASSUME LogTypeOK, NEW table, IsTable(table, Station), board' = BoardOf(table)
  PROVE  BoardTypeOK'
<1> DEFINE keys == {<<requestLogs[k].query.protocol, requestLogs[k].query.alias, id>> :
                      k \in Recent, id \in DOMAIN table}
           rows(key) == RowsOf(key[3], [protocol |-> key[1], alias |-> key[2]], table)
<1>1. keys \subseteq Protocols \X Aliases \X Ids
  BY DEF LogTypeOK, LogRow, Query, Recent, IsTable
<1>2. ASSUME NEW key \in keys, rows(key) # {}
      PROVE  /\ Scored(rows(key), key[3]) \in [score : Nat, enough : BOOLEAN, inherited : BOOLEAN]
             /\ \E c, d \in Calls : Scored(rows(key), key[3]).score \in Scale * c.ms .. 2 * Scale * d.ms
  <2>1. rows(key) \in SUBSET DOMAIN requestLogs
    BY DEF RowsOf, Recent
  <2>2. QED
    BY <1>2, <2>1, ScoredType
<1>3. BoardOf(table) = [key \in {key \in keys : rows(key) # {}} |-> Scored(rows(key), key[3])]
  BY DEF BoardOf
<1> HIDE DEF keys, rows
<1>4. QED
  BY <1>1, <1>2, <1>3, ZenonT(40) DEF BoardTypeOK

LEMMA ScoringInitType ==
  ASSUME ScoringInit
  PROVE  ScoringInv
<1>1. EditTypeOK
  BY EditInitType DEF ScoringInit, EditInit
<1>2. LogTypeOK /\ BoardTypeOK
  BY DEF ScoringInit, LogTypeOK, BoardTypeOK, RealDurations
<1>3. LoopTypeOK
  BY DEF ScoringInit, LoopTypeOK, Waiting, IsTable
<1>4. QED
  BY <1>1, <1>2, <1>3 DEF ScoringInv

LEMMA SameEdit ==
  ASSUME EditTypeOK, UNCHANGED editVars
  PROVE  EditTypeOK'
BY EditNextType

LEMMA SameLog ==
  ASSUME LogTypeOK, UNCHANGED logVars
  PROVE  LogTypeOK'
BY DEF LogTypeOK, logVars, RealDurations

LEMMA SameBoard ==
  ASSUME BoardTypeOK, UNCHANGED board
  PROVE  BoardTypeOK'
BY DEF BoardTypeOK

LEMMA BeginType ==
  ASSUME ScoringInv, NEW id \in DOMAIN stations, Begin(id)
  PROVE  ScoringInv'
<1>1. id \in Ids /\ stations[id].name \in Names
  BY DEF ScoringInv, EditTypeOK, StoreTypeOK, IsTable, Station
<1>2. LoopTypeOK'
  BY <1>1 DEF Begin, ScoringInv, LoopTypeOK
<1>3. QED
  BY <1>2, SameEdit, SameLog, SameBoard DEF Begin, ScoringInv

LEMMA LogCallType ==
  ASSUME ScoringInv, NEW call \in calls, LogCall(call)
  PROVE  ScoringInv'
<1>1. PICK c \in Calls, k \in NextRow(requestLogs) :
        /\ requestLogs' = Put(requestLogs, k,
             [query |-> c.query, name |-> call.name, ms |-> c.ms, failed |-> c.failed,
              age |-> 0, id |-> call.id])
        /\ \/ UNCHANGED errorLogs
           \/ c.failed /\ Room > Cardinality(calls) /\ errorLogs' = errorLogs \cup {0}
  BY DEF LogCall
<1> DEFINE row == [query |-> c.query, name |-> call.name, ms |-> c.ms, failed |-> c.failed,
                   age |-> 0, id |-> call.id]
<1>2. 0 \in 0 .. Retention + 1
  BY LimitsType
<1>3. call.id \in Ids /\ call.name \in Names
  BY DEF ScoringInv, LoopTypeOK
<1>4. row \in LogRow /\ row.ms = c.ms
  BY <1>2, <1>3, CallType DEF LogRow
<1>5. k \in 1 .. MaxRows
  BY DEF NextRow
<1> HIDE DEF row
<1>6. /\ DOMAIN requestLogs' = DOMAIN requestLogs \cup {k}
      /\ \A j \in DOMAIN requestLogs' :
           requestLogs'[j] = IF j = k THEN row ELSE requestLogs[j]
      /\ requestLogs' = [j \in DOMAIN requestLogs' |-> requestLogs'[j]]
  BY <1>1 DEF Put, row
<1>7. \A j \in DOMAIN requestLogs' :
        requestLogs'[j] \in LogRow /\ \E d \in Calls : requestLogs'[j].ms = d.ms
  BY <1>4, <1>6 DEF ScoringInv, LogTypeOK, RealDurations
<1>8. LogTypeOK'
  BY <1>1, <1>2, <1>5, <1>6, <1>7 DEF ScoringInv, LogTypeOK, RealDurations
<1>9. LoopTypeOK'
  BY DEF ScoringInv, LoopTypeOK, LogCall
<1>10. QED
  BY <1>8, <1>9, SameEdit, SameBoard DEF ScoringInv, LogCall

LEMMA RoundTypes ==
  ASSUME ScoringInv, StartRound \/ EndRound \/ RoundFails
  PROVE  ScoringInv'
<1>1. EditTypeOK' /\ LogTypeOK'
  BY SameEdit, SameLog DEF ScoringInv, StartRound, EndRound, RoundFails
<1>2. LoopTypeOK'
  <2>1. IsTable(stations, Station) /\ IsTable(Waiting.stations, Station) /\ Waiting.pc = "waiting"
    BY DEF ScoringInv, EditTypeOK, StoreTypeOK, IsTable, Waiting
  <2>2. QED
    BY <2>1 DEF ScoringInv, LoopTypeOK, StartRound, EndRound, RoundFails
<1>3. BoardTypeOK'
  <2>1. CASE EndRound
    BY <2>1, BoardOfType DEF EndRound, Replace, ScoringInv, LoopTypeOK
  <2>2. CASE StartRound \/ RoundFails
    BY <2>2, SameBoard DEF ScoringInv, StartRound, RoundFails
  <2>3. QED
    BY <2>1, <2>2
<1>4. QED
  BY <1>1, <1>2, <1>3 DEF ScoringInv

LEMMA SweepTypes ==
  ASSUME ScoringInv, TickSweep \/ SweepRequests \/ SweepErrors \/ SweepFails
  PROVE  ScoringInv'
<1>1. EditTypeOK' /\ BoardTypeOK'
  BY SameEdit, SameBoard DEF ScoringInv, TickSweep, SweepRequests, SweepErrors, SweepFails
<1>2. LoopTypeOK'
  BY DEF ScoringInv, LoopTypeOK, TickSweep, SweepRequests, SweepErrors, SweepFails
<1>3. LogTypeOK'
  <2>1. CASE SweepRequests
    BY <2>1 DEF SweepRequests, Without, ScoringInv, LogTypeOK, RealDurations
  <2>2. CASE SweepErrors
    BY <2>2 DEF SweepErrors, ScoringInv, LogTypeOK, RealDurations
  <2>3. CASE TickSweep \/ SweepFails
    BY <2>3, SameLog DEF TickSweep, SweepFails, ScoringInv
  <2>4. QED
    BY <2>1, <2>2, <2>3
<1>4. QED
  BY <1>1, <1>2, <1>3 DEF ScoringInv

LEMMA OlderType ==
  ASSUME NEW age \in 0 .. Retention + 1
  PROVE  Older(age) \in 0 .. Retention + 1
BY LimitsType DEF Older

LEMMA PassTimeType ==
  ASSUME ScoringInv, PassTime
  PROVE  ScoringInv'
<1>1. ASSUME NEW k \in DOMAIN requestLogs
      PROVE  /\ [requestLogs[k] EXCEPT !.age = Older(@)] \in LogRow
             /\ [requestLogs[k] EXCEPT !.age = Older(@)].ms = requestLogs[k].ms
  <2>1. requestLogs[k] \in LogRow
    BY DEF ScoringInv, LogTypeOK
  <2>2. requestLogs[k].age \in 0 .. Retention + 1
    BY <2>1 DEF LogRow
  <2>3. QED
    BY <2>1, <2>2, OlderType DEF LogRow
<1>2. /\ DOMAIN requestLogs' = DOMAIN requestLogs
      /\ \A k \in DOMAIN requestLogs : requestLogs'[k] = [requestLogs[k] EXCEPT !.age = Older(@)]
      /\ requestLogs' = [k \in DOMAIN requestLogs' |-> requestLogs'[k]]
  BY DEF PassTime
<1>3. \A k \in DOMAIN requestLogs' :
        requestLogs'[k] \in LogRow /\ \E c \in Calls : requestLogs'[k].ms = c.ms
  <2> SUFFICES ASSUME NEW k \in DOMAIN requestLogs
               PROVE  requestLogs'[k] \in LogRow /\ \E c \in Calls : requestLogs'[k].ms = c.ms
    BY <1>2
  <2>1. PICK c \in Calls : requestLogs[k].ms = c.ms
    BY DEF ScoringInv, LogTypeOK, RealDurations
  <2>2. requestLogs'[k] \in LogRow /\ requestLogs'[k].ms = c.ms
    BY <1>1, <1>2, <2>1, Zenon
  <2>3. QED
    BY <2>2
<1>4. errorLogs' \subseteq 0 .. Retention + 1
  BY OlderType DEF PassTime, ScoringInv, LogTypeOK
<1>5. LogTypeOK'
  BY <1>2, <1>3, <1>4 DEF ScoringInv, LogTypeOK, RealDurations
<1>6. LoopTypeOK'
  BY DEF PassTime, ScoringInv, LoopTypeOK
<1>7. QED
  BY <1>5, <1>6, SameEdit, SameBoard DEF PassTime, ScoringInv

LEMMA RestartType ==
  ASSUME ScoringInv, RestartProcess
  PROVE  ScoringInv'
<1>1. EditTypeOK'
  BY DEF RestartProcess, ScoringInv, EditTypeOK, AdminTypeOK, StoreTypeOK, storeVars, tableVars
<1>2. LogTypeOK' /\ BoardTypeOK'
  BY SameLog DEF RestartProcess, ScoringInv, BoardTypeOK
<1>3. LoopTypeOK'
  BY DEF RestartProcess, LoopTypeOK, Waiting, IsTable
<1>4. QED
  BY <1>1, <1>2, <1>3 DEF ScoringInv

LEMMA FormStepType ==
  ASSUME ScoringInv, NEW a \in Admins, AdminStep(a), UNCHANGED scoreVars
  PROVE  ScoringInv'
<1>1. EditTypeOK'
  BY EditNextType DEF ScoringInv, EditNext
<1>2. LogTypeOK' /\ BoardTypeOK' /\ LoopTypeOK'
  BY SameLog, SameBoard DEF ScoringInv, scoreVars, LoopTypeOK
<1>3. QED
  BY <1>1, <1>2 DEF ScoringInv

LEMMA ScoringStep ==
  ASSUME ScoringInv, [ScoringNext]_scoringVars
  PROVE  ScoringInv'
<1>1. CASE \E id \in DOMAIN stations : Begin(id)
  BY <1>1, BeginType
<1>2. CASE \E call \in calls : LogCall(call)
  BY <1>2, LogCallType
<1>3. CASE StartRound \/ EndRound \/ RoundFails
  BY <1>3, RoundTypes
<1>4. CASE TickSweep \/ SweepRequests \/ SweepErrors \/ SweepFails
  BY <1>4, SweepTypes
<1>5. CASE PassTime
  BY <1>5, PassTimeType
<1>6. CASE RestartProcess
  BY <1>6, RestartType
<1>7. CASE \E a \in Admins : AdminStep(a) /\ UNCHANGED scoreVars
  BY <1>7, FormStepType
<1>8. CASE UNCHANGED scoringVars
  BY <1>8, SameEdit, SameLog, SameBoard DEF ScoringInv, scoringVars, scoreVars, LoopTypeOK
<1>9. QED
  BY <1>1, <1>2, <1>3, <1>4, <1>5, <1>6, <1>7, <1>8 DEF ScoringNext

\* However many rows the log holds, a round of scoring finds a median among them, and
\* no score lies below the duration of some request or above twice that of another;
\* whatever was deleted, renamed or restarted meanwhile (recomputeOnce, medianInt64).
THEOREM ScoringTypeCorrect == ScoringSpec => []ScoringTypeOK
<1>1. ScoringInit => ScoringInv
  BY ScoringInitType
<1>2. ScoringInv /\ [ScoringNext]_scoringVars => ScoringInv'
  BY ScoringStep
<1>3. ScoringInv => ScoringTypeOK
  BY DEF ScoringInv, ScoringTypeOK, LogTypeOK, BoardTypeOK, LoopTypeOK
<1>4. QED
  BY <1>1, <1>2, <1>3, PTL DEF ScoringSpec

-----------------------------------------------------------------------------
(* Retention *)

LEMMA SweepSpares ==
  ASSUME ScoringInv, [ScoringNext]_scoringVars, sweeping' # sweeping
  PROVE  Recent' = Recent /\ \A k \in Recent : requestLogs'[k] = requestLogs[k]
<1>1. CASE UNCHANGED requestLogs
  BY <1>1 DEF Recent
<1>2. CASE SweepRequests
  <2>1. \A k \in Recent : k \in DOMAIN requestLogs /\ ~ Overdue(requestLogs[k].age)
    <3> SUFFICES ASSUME NEW k \in Recent PROVE k \in DOMAIN requestLogs /\ ~ Overdue(requestLogs[k].age)
      OBVIOUS
    <3>1. k \in DOMAIN requestLogs /\ requestLogs[k].age <= Window
      BY DEF Recent
    <3>2. requestLogs[k].age \in 0 .. Retention + 1
      BY <3>1 DEF ScoringInv, LogTypeOK, LogRow
    <3>3. QED
      BY <3>1, <3>2, LimitsType DEF Overdue
  <2>2. QED
    BY <1>2, <2>1 DEF SweepRequests, Without, Recent
<1>3. QED
  BY <1>1, <1>2 DEF ScoringNext, scoringVars, scoreVars, logVars, Begin, LogCall, StartRound,
                    EndRound, RoundFails, TickSweep, SweepErrors, SweepFails, PassTime, RestartProcess

\* A sweep takes no row that a round of scoring counts, for any window that is not
\* longer than the time rows are kept (StartRetentionLoop, recomputeOnce).
THEOREM RetentionSparesTheWindowHolds == ScoringSpec => RetentionSparesTheWindow
<1>1. ScoringInit => ScoringInv
  BY ScoringInitType
<1>2. ScoringInv /\ [ScoringNext]_scoringVars => ScoringInv'
  BY ScoringStep
<1>3. ScoringInv /\ [ScoringNext]_scoringVars =>
        [sweeping' # sweeping =>
           Recent' = Recent /\ \A k \in Recent : requestLogs'[k] = requestLogs[k]]_scoringVars
  BY SweepSpares
<1>4. QED
  BY <1>1, <1>2, <1>3, PTL DEF ScoringSpec, RetentionSparesTheWindow

=============================================================================
