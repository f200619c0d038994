----------------------------- MODULE StoreProofs -----------------------------
(***************************************************************************)
(* Facts about the selector and the status table that hold for all         *)
(* stations, statuses and scoreboards.  The proofs about the components    *)
(* rest on them.                                                           *)
(***************************************************************************)
EXTENDS StationStore, FiniteSetTheorems, SequenceTheorems, TLAPS

LEMMA IdsAreNat == Ids \subseteq Nat
BY IdsAssumption

\* The comparator given to sort.SliceStable is a strict total order on entries of
\* different stations, so the order of the candidates is determined by the pool:
\* it does not depend on the order the rows came in (Candidates).
THEOREM BeforeIsStrictTotalOrder ==
  ASSUME NEW a \in RankedEntry, NEW b \in RankedEntry, NEW c \in RankedEntry
  PROVE  /\ ~ Before(a, a)
         /\ Before(a, b) /\ Before(b, c) => Before(a, c)
         /\ Before(a, b) => ~ Before(b, a)
         /\ a.id # b.id => Before(a, b) \/ Before(b, a)
<1>1. \A e \in RankedEntry : e.id \in Nat /\ e.score \in Int /\ e.station.priority \in Int
  <2> TAKE e \in RankedEntry
  <2>1. e.id \in Ids
    BY DEF RankedEntry
  <2>2. e.score \in Int
    BY DEF RankedEntry
  <2>3. e.station \in Station
    BY DEF RankedEntry
  <2>4. e.station.priority \in Int
    BY <2>3 DEF Station
  <2>5. e.id \in Nat
    BY <2>1, IdsAreNat
  <2>6. QED
    BY <2>2, <2>4, <2>5
<1>2. ~ Before(a, a)
  BY <1>1 DEF Before, Manual, ManualBefore, AutoBefore
<1>3. Before(a, b) => ~ Before(b, a)
  BY <1>1 DEF Before, Manual, ManualBefore, AutoBefore
<1>4. a.id # b.id => Before(a, b) \/ Before(b, a)
  <2>1. CASE Manual(a) \/ Manual(b)
    BY <1>1, <2>1 DEF Before, Manual, ManualBefore
  <2>2. CASE ~ Manual(a) /\ ~ Manual(b)
    <3>1. a.hasScore \in BOOLEAN /\ b.hasScore \in BOOLEAN
      BY DEF RankedEntry
    <3>2. a.id # b.id => AutoBefore(a, b) \/ AutoBefore(b, a)
      BY <1>1, <3>1 DEF AutoBefore
    <3>3. QED
      BY <2>2, <3>2 DEF Before
  <2>3. QED
    BY <2>1, <2>2
<1>5. Before(a, b) /\ Before(b, c) => Before(a, c)
  <2>1. CASE Manual(a) /\ Manual(b) /\ Manual(c)
    BY <1>1, <2>1 DEF Before, Manual, ManualBefore
  <2>2. CASE ~ Manual(a) /\ ~ Manual(b) /\ ~ Manual(c)
    BY <1>1, <2>2 DEF Before, Manual, AutoBefore
  <2>3. QED
    BY <2>1, <2>2 DEF Before
<1>6. QED
  BY <1>2, <1>3, <1>4, <1>5

LEMMA BumpType ==
  ASSUME NEW n \in 0 .. CountCap
  PROVE  Bump(n) \in 1 .. CountCap
BY CountCapAssumption DEF Bump

LEMMA NoStatusType == NoStatus \in Status
BY CountCapAssumption DEF NoStatus, Status

LEMMA StatusOfType ==
  ASSUME NEW table, IsTable(table, Status), NEW id
  PROVE  StatusOf(table, id) \in Status
BY NoStatusType DEF StatusOf, IsTable

LEMMA PutType ==
  ASSUME NEW Row, NEW table, IsTable(table, Row), NEW id \in Ids, NEW row \in Row
  PROVE  IsTable(Put(table, id, row), Row)
BY DEF IsTable, Put

LEMMA RecordFailureType ==
  ASSUME NEW station \in Station, NEW status \in Status, NEW time \in Nat
  PROVE  /\ RecordFailure(station, status, time) \in Status
         /\ RecordFailure(station, status, time).failures > 0
<1> DEFINE failed == [status EXCEPT !.failures = Bump(@), !.recoveries = 0]
<1>b. status.failures \in 0 .. CountCap
  BY DEF Status
<1>c. Bump(status.failures) \in 1 .. CountCap
  BY <1>b, BumpType
<1>1. Bump(status.failures) \in 0 .. CountCap /\ Bump(status.failures) > 0
  BY <1>c, CountCapAssumption
<1>a. 0 \in 0 .. CountCap
  BY CountCapAssumption
<1>2. failed \in Status /\ failed.failures > 0
  BY <1>1, <1>a DEF Status
<1>3. time + station.cooldown \in Nat
  BY DEF Station
<1>4. [failed EXCEPT !.state = "cooldown", !.cooldownUntil = time + station.cooldown] \in Status
  BY <1>2, <1>3 DEF Status
<1>5. [failed EXCEPT !.state = "cooldown",
                     !.cooldownUntil = time + station.cooldown].failures > 0
  BY <1>2 DEF Status
<1>6. QED
  BY <1>2, <1>4, <1>5 DEF RecordFailure

LEMMA RecordSuccessType ==
  ASSUME NEW station \in Station, NEW status \in Status
  PROVE  /\ RecordSuccess(station, status) \in Status
         /\ RecordSuccess(station, status).failures = 0
<1> DEFINE recovered == [status EXCEPT !.failures = 0, !.recoveries = Bump(@)]
<1>b. status.recoveries \in 0 .. CountCap
  BY DEF Status
<1>c. Bump(status.recoveries) \in 1 .. CountCap
  BY <1>b, BumpType
<1>1. Bump(status.recoveries) \in 0 .. CountCap
  BY <1>c, CountCapAssumption
<1>a. 0 \in 0 .. CountCap
  BY CountCapAssumption
<1>2. recovered \in Status /\ recovered.failures = 0
  BY <1>1, <1>a DEF Status
<1>3. [recovered EXCEPT !.state = "healthy", !.cooldownUntil = 0] \in Status
  BY <1>2 DEF Status
<1>4. [recovered EXCEPT !.state = "healthy", !.cooldownUntil = 0].failures = 0
  BY <1>2 DEF Status
<1>5. QED
  BY <1>2, <1>3, <1>4 DEF RecordSuccess

\* What RowCoherent says without the thresholds: only a cooldown has an end.
Stamped(status) == status.state = "cooldown" <=> status.cooldownUntil # 0

\* Either outcome of a call turns any row in which only a cooldown has an end into one
\* that agrees with the thresholds, counts beyond them included; the row of a station
\* never seen agrees with all thresholds (RecordFailure, RecordSuccess).
THEOREM OutcomesMakeRowsCoherent ==
  ASSUME NEW station \in Station, NEW status \in Status, NEW time \in Nat \ {0}
  PROVE  /\ RowCoherent(NoStatus, station)
         /\ Stamped(status) =>
              /\ RowCoherent(RecordFailure(station, status, time), station)
              /\ RowCoherent(RecordSuccess(station, status), station)
<1>0. EffectiveFailureThreshold(station) \in Nat \ {0}
  BY DEF EffectiveFailureThreshold, Station
<1>1. RowCoherent(NoStatus, station)
  BY <1>0 DEF RowCoherent, NoStatus
<1>2. ASSUME Stamped(status)
      PROVE  RowCoherent(RecordFailure(station, status, time), station)
  <2> DEFINE failed == [status EXCEPT !.failures = Bump(@), !.recoveries = 0]
             cooled == [failed EXCEPT !.state = "cooldown",
                                      !.cooldownUntil = time + station.cooldown]
  <2>1. Bump(status.failures) \in 1 .. CountCap
    BY BumpType DEF Status
  <2>2. /\ failed.state = status.state /\ failed.cooldownUntil = status.cooldownUntil
        /\ failed.failures = Bump(status.failures) /\ failed.recoveries = 0
    BY DEF Status
  <2>3. /\ cooled.state = "cooldown" /\ cooled.cooldownUntil = time + station.cooldown
        /\ cooled.recoveries = 0
    BY DEF Status
  <2>4. time + station.cooldown # 0
    BY DEF Station
  <2>5. RowCoherent(cooled, station)
    BY <2>3, <2>4 DEF RowCoherent
  <2>6. ~ failed.failures >= EffectiveFailureThreshold(station) => RowCoherent(failed, station)
    BY <1>2, <2>2 DEF RowCoherent, Stamped
  <2>7. QED
    BY <2>5, <2>6 DEF RecordFailure
<1>3. ASSUME Stamped(status)
      PROVE  RowCoherent(RecordSuccess(station, status), station)
  <2> DEFINE recovered == [status EXCEPT !.failures = 0, !.recoveries = Bump(@)]
             healed == [recovered EXCEPT !.state = "healthy", !.cooldownUntil = 0]
  <2>1. /\ recovered.state = status.state /\ recovered.cooldownUntil = status.cooldownUntil
        /\ recovered.failures = 0 /\ recovered.recoveries = Bump(status.recoveries)
    BY DEF Status
  <2>2. healed.state = "healthy" /\ healed.cooldownUntil = 0 /\ healed.failures = 0
    BY DEF Status
  <2>3. RowCoherent(healed, station)
    BY <1>0, <2>2 DEF RowCoherent
  <2>a. Bump(status.recoveries) \in 1 .. CountCap
    BY BumpType DEF Status
  <2>4. station.recoveryThreshold \in Int /\ recovered.recoveries \in Int
    BY <2>1, <2>a, CountCapAssumption DEF Station
  <2>5. ~ recovered.recoveries >= station.recoveryThreshold => RowCoherent(recovered, station)
    BY <1>0, <1>3, <2>1, <2>4 DEF RowCoherent, Stamped
  <2>6. QED
    BY <2>3, <2>5 DEF RecordSuccess
<1>4. QED
  BY <1>1, <1>2, <1>3

LEMMA RankedType ==
  ASSUME NEW query, NEW table, IsTable(table, Station), NEW id \in DOMAIN table, NEW scores,
         \A key \in DOMAIN scores : scores[key].score \in Nat /\ scores[key].enough \in BOOLEAN
  PROVE  /\ Ranked(id, query, table, scores) \in RankedEntry
         /\ Ranked(id, query, table, scores).id = id
         /\ Ranked(id, query, table, scores).station = table[id]
<1>1. id \in Ids /\ table[id] \in Station
  BY DEF IsTable
<1>2. table[id].priority \in Int
  BY <1>1 DEF Station
<1>3. QED
  BY <1>1, <1>2 DEF Ranked, RankedEntry

\* A candidate list is a sequence of ranked entries, each of them an eligible row
\* of the station snapshot, and no two neighbours are out of order.
LEMMA CandidatesType ==
  ASSUME NEW query, NEW table, IsTable(table, Station), NEW maps, NEW stats, NEW scores,
         \A key \in DOMAIN scores : scores[key].score \in Nat /\ scores[key].enough \in BOOLEAN,
         NEW order \in Candidates(query, table, maps, stats, scores)
  PROVE  /\ order \in Seq(RankedEntry)
         /\ \A i \in DOMAIN order :
              /\ order[i].id \in DOMAIN table
              /\ order[i].station = table[order[i].id]
              /\ Eligible(order[i].id, query, table, maps, stats)
         /\ order # <<>> => 1 \in DOMAIN order
<1> DEFINE fit  == {i \in DOMAIN table : Eligible(i, query, table, maps, stats)}
           pool == {Ranked(id, query, table, scores) : id \in fit}
<1>1. IsFiniteSet(fit)
  BY IdsAssumption, FS_Subset DEF IsTable
<1>3. Cardinality(fit) \in Nat
  BY <1>1, FS_CardinalityType
<1>4. \A e \in pool : /\ e \in RankedEntry
                      /\ e.id \in DOMAIN table /\ e.station = table[e.id]
                      /\ Eligible(e.id, query, table, maps, stats)
  BY RankedType
<1>5. order \in [1 .. Cardinality(fit) -> pool]
  BY DEF Candidates
<1>a. pool \subseteq RankedEntry
  BY <1>4
<1>b. order \in [1 .. Cardinality(fit) -> RankedEntry]
  BY <1>a, <1>5
<1>6. order \in Seq(RankedEntry)
  BY <1>3, <1>b, SeqDef
<1>7. QED
  BY <1>3, <1>4, <1>5, <1>6

\* No station is a candidate twice: the comparator is irreflexive.
LEMMA CandidatesDiffer ==
  ASSUME NEW query, NEW table, IsTable(table, Station), NEW maps, NEW stats, NEW scores,
         \A key \in DOMAIN scores : scores[key].score \in Nat /\ scores[key].enough \in BOOLEAN,
         NEW order \in Candidates(query, table, maps, stats, scores)
  PROVE  \A i, j \in DOMAIN order : order[i].id = order[j].id => i = j
<1> DEFINE fit  == {i \in DOMAIN table : Eligible(i, query, table, maps, stats)}
           pool == {Ranked(id, query, table, scores) : id \in fit}
<1>1. IsFiniteSet(fit)
  BY IdsAssumption, FS_Subset DEF IsTable
<1>2. Cardinality(fit) \in Nat
  BY <1>1, FS_CardinalityType
<1>3. /\ order \in [1 .. Cardinality(fit) -> pool]
      /\ \A i, j \in DOMAIN order : i < j => Before(order[i], order[j])
  BY DEF Candidates
<1>4. \A e \in pool : e \in RankedEntry /\ e = Ranked(e.id, query, table, scores)
  BY RankedType
<1>5. \A e \in pool : ~ Before(e, e)
  BY <1>4, BeforeIsStrictTotalOrder
<1>6. SUFFICES ASSUME NEW i \in DOMAIN order, NEW j \in DOMAIN order,
                      order[i].id = order[j].id
               PROVE  i = j
  OBVIOUS
<1>7. order[i] = order[j] /\ order[i] \in pool
  BY <1>3, <1>4, <1>6
<1>8. i \in Int /\ j \in Int
  BY <1>2, <1>3
<1>9. QED
  BY <1>3, <1>5, <1>7, <1>8

-----------------------------------------------------------------------------
(* Sorting *)

\* What sort.SliceStable may return for entries in a strict order, given as a set of pairs.
Sorted(pool, less) ==
  {order \in [1 .. Cardinality(pool) -> pool] :
     \A i, j \in DOMAIN order : i < j => <<order[i], order[j]>> \in less}

Lower(pool, less, e) == {d \in pool : <<d, e>> \in less}

\* The place of an entry is one more than the number of entries below it.
LEMMA PlacesDiffer ==
  ASSUME NEW pool, IsFiniteSet(pool), NEW less,
         \A a \in pool : <<a, a>> \notin less,
         \A a, b, c \in pool : <<a, b>> \in less /\ <<b, c>> \in less => <<a, c>> \in less,
         NEW a \in pool, NEW b \in pool, <<a, b>> \in less
  PROVE  /\ Cardinality(Lower(pool, less, a)) \in 0 .. (Cardinality(pool) - 1)
         /\ Cardinality(Lower(pool, less, b)) \in 0 .. (Cardinality(pool) - 1)
         /\ Cardinality(Lower(pool, less, a)) < Cardinality(Lower(pool, less, b))
<1> DEFINE A == Lower(pool, less, a)
           B == Lower(pool, less, b)
<1>1. A \subseteq B /\ a \in B /\ a \notin A
  BY DEF Lower
<1>2. B \subseteq pool /\ b \notin B
  BY DEF Lower
<1>3. IsFiniteSet(B) /\ Cardinality(B) <= Cardinality(pool)
  BY <1>2, FS_Subset
<1>4. Cardinality(B) # Cardinality(pool)
  BY <1>2, FS_Subset
<1>5. IsFiniteSet(A) /\ Cardinality(A) <= Cardinality(B) /\ Cardinality(B) # Cardinality(A)
  BY <1>1, <1>3, FS_Subset
<1>6. /\ Cardinality(pool) \in Nat /\ Cardinality(A) \in Nat /\ Cardinality(B) \in Nat
  BY <1>3, <1>5, FS_CardinalityType
<1> HIDE DEF A, B
<1>7. /\ Cardinality(A) \in 0 .. (Cardinality(pool) - 1)
      /\ Cardinality(B) \in 0 .. (Cardinality(pool) - 1)
      /\ Cardinality(A) < Cardinality(B)
  BY <1>3, <1>4, <1>5, <1>6
<1>8. QED
  BY <1>7 DEF A, B

LEMMA PlaceType ==
  ASSUME NEW pool, IsFiniteSet(pool), NEW less, NEW a \in pool, <<a, a>> \notin less
  PROVE  Cardinality(Lower(pool, less, a)) + 1 \in 1 .. Cardinality(pool)
<1> DEFINE A == Lower(pool, less, a)
<1>1. A \subseteq pool /\ a \notin A
  BY DEF Lower
<1>2. IsFiniteSet(A) /\ Cardinality(A) <= Cardinality(pool) /\ Cardinality(A) # Cardinality(pool)
  BY <1>1, FS_Subset
<1>3. Cardinality(pool) \in Nat /\ Cardinality(A) \in Nat
  BY <1>2, FS_CardinalityType
<1> HIDE DEF A
<1>4. Cardinality(A) + 1 \in 1 .. Cardinality(pool)
  BY <1>2, <1>3
<1>5. QED
  BY <1>4 DEF A

\* In a sorted sequence every entry stands at its place.
LEMMA SortedPlaces ==
  ASSUME NEW pool, IsFiniteSet(pool), NEW less,
         \A a \in pool : <<a, a>> \notin less,
         \A a, b, c \in pool : <<a, b>> \in less /\ <<b, c>> \in less => <<a, c>> \in less,
         NEW order \in Sorted(pool, less), NEW i \in 1 .. Cardinality(pool)
  PROVE  i = Cardinality(Lower(pool, less, order[i])) + 1
<1> DEFINE n == Cardinality(pool)
           low == Lower(pool, less, order[i])
<1>1. n \in Nat
  BY FS_CardinalityType
<1>2. /\ order \in [1 .. n -> pool]
      /\ \A j, k \in 1 .. n : j < k => <<order[j], order[k]>> \in less
  BY DEF Sorted
<1> HIDE DEF n
<1>3. \A j, k \in 1 .. n : order[j] = order[k] => j = k
  <2> SUFFICES ASSUME NEW j \in 1 .. n, NEW k \in 1 .. n, order[j] = order[k], j < k
               PROVE  FALSE
    BY <1>1
  <2>1. order[j] \in pool /\ <<order[j], order[k]>> \in less
    BY <1>2
  <2>2. QED
    BY <2>1
<1>4. IsFiniteSet(1 .. n) /\ Cardinality(1 .. n) = n
  BY <1>1, FS_Interval
<1>5. order \in Injection(1 .. n, pool)
  BY <1>2, <1>3 DEF Injection, IsInjective
<1>6. order \in Surjection(1 .. n, pool)
  BY <1>4, <1>5, FS_Injection DEF n
<1>7. \A e \in pool : \E k \in 1 .. n : order[k] = e
  BY <1>6 DEF Surjection
<1>8. i \in 1 .. n
  BY DEF n
<1>9. low = {order[k] : k \in 1 .. (i - 1)}
  <2>1. ASSUME NEW e \in low PROVE \E k \in 1 .. (i - 1) : e = order[k]
    <3>1. e \in pool /\ <<e, order[i]>> \in less
      BY DEF Lower
    <3>2. PICK k \in 1 .. n : order[k] = e
      BY <1>7, <3>1
    <3>3. k # i
      BY <1>2, <1>8, <3>1, <3>2
    <3>4. ~ i < k
      <4> SUFFICES ASSUME i < k PROVE FALSE
        OBVIOUS
      <4>1. <<order[i], e>> \in less /\ order[i] \in pool
        BY <1>2, <1>8, <3>2
      <4>2. QED
        BY <3>1, <4>1
    <3>5. k \in 1 .. (i - 1)
      BY <1>1, <1>8, <3>2, <3>3, <3>4
    <3>6. QED
      BY <3>2, <3>5
  <2>2. ASSUME NEW k \in 1 .. (i - 1) PROVE order[k] \in low
    <3>1. k \in 1 .. n /\ k < i
      BY <1>1, <1>8
    <3>2. order[k] \in pool /\ <<order[k], order[i]>> \in less
      BY <1>2, <1>8, <3>1
    <3>3. QED
      BY <3>2 DEF Lower
  <2>3. QED
    BY <2>1, <2>2
<1>10. Cardinality(low) = i - 1
  <2> DEFINE f == [k \in 1 .. (i - 1) |-> order[k]]
  <2>1. \A k \in 1 .. (i - 1) : k \in 1 .. n
    BY <1>1, <1>8
  <2> HIDE DEF low
  <2>2. f \in Injection(1 .. (i - 1), low)
    BY <1>3, <1>9, <2>1 DEF Injection, IsInjective
  <2>3. f \in Surjection(1 .. (i - 1), low)
    BY <1>9 DEF Surjection
  <2>4. ExistsBijection(1 .. (i - 1), low)
    BY <2>2, <2>3 DEF ExistsBijection, Bijection
  <2>5. i - 1 \in Nat
    BY <1>1, <1>8
  <2>6. QED
    BY <2>4, <2>5, FS_CountingElements
<1>11. QED
  BY <1>1, <1>8, <1>10

\* A finite set in a strict total order can be sorted in exactly one way.
LEMMA SortsOnce ==
  ASSUME NEW pool, IsFiniteSet(pool), NEW less,
         \A a \in pool : <<a, a>> \notin less,
         \A a, b, c \in pool : <<a, b>> \in less /\ <<b, c>> \in less => <<a, c>> \in less,
         \A a, b \in pool : a # b => <<a, b>> \in less \/ <<b, a>> \in less
  PROVE  \E order : Sorted(pool, less) = {order}
<1> DEFINE n == Cardinality(pool)
           place == [e \in pool |-> Cardinality(Lower(pool, less, e)) + 1]
           order == [i \in 1 .. n |-> CHOOSE e \in pool : place[e] = i]
<1>1. n \in Nat
  BY FS_CardinalityType
<1>2. place \in [pool -> 1 .. n]
  BY PlaceType
<1>3. \A a, b \in pool : <<a, b>> \in less => place[a] < place[b]
  <2> SUFFICES ASSUME NEW a \in pool, NEW b \in pool, <<a, b>> \in less
               PROVE  place[a] < place[b]
    OBVIOUS
  <2>1. /\ Cardinality(Lower(pool, less, a)) \in 0 .. (n - 1)
        /\ Cardinality(Lower(pool, less, b)) \in 0 .. (n - 1)
        /\ Cardinality(Lower(pool, less, a)) < Cardinality(Lower(pool, less, b))
    BY PlacesDiffer
  <2>2. QED
    BY <1>1, <2>1
<1> HIDE DEF n, place
<1>4. ASSUME NEW a \in pool, NEW b \in pool, place[a] = place[b] PROVE a = b
  <2>1. place[a] \in Int /\ place[b] \in Int
    BY <1>1, <1>2
  <2>2. ~ place[a] < place[b] /\ ~ place[b] < place[a]
    BY <1>4, <2>1
  <2>3. QED
    BY <1>3, <2>2
<1>5. IsFiniteSet(1 .. n) /\ Cardinality(1 .. n) = n
  BY <1>1, FS_Interval
<1>6. place \in Injection(pool, 1 .. n)
  BY <1>2, <1>4 DEF Injection, IsInjective
<1>7. place \in Surjection(pool, 1 .. n)
  BY <1>5, <1>6, FS_Injection DEF n
<1>8. \A i \in 1 .. n : order[i] \in pool /\ place[order[i]] = i
  BY <1>7 DEF Surjection
<1>9. order \in [1 .. n -> pool]
  BY <1>8
<1> HIDE DEF order
<1>10. ASSUME NEW i \in 1 .. n, NEW j \in 1 .. n, i < j
       PROVE  <<order[i], order[j]>> \in less
  <2>1. order[i] # order[j]
    BY <1>1, <1>8, <1>10
  <2>2. CASE <<order[j], order[i]>> \in less
    <3>1. j < i
      BY <1>3, <1>8, <1>10, <2>2
    <3>2. QED
      BY <1>1, <1>10, <3>1
  <2>3. QED
    BY <1>8, <2>1, <2>2
<1>11. order \in Sorted(pool, less)
  BY <1>9, <1>10 DEF Sorted, n
<1>12. ASSUME NEW other \in Sorted(pool, less)
       PROVE  other = order
  <2>1. other \in [1 .. n -> pool]
    BY DEF Sorted, n
  <2>2. \A i \in 1 .. n : place[other[i]] = i
    BY <2>1, SortedPlaces DEF n, place
  <2>3. \A i \in 1 .. n : other[i] = order[i]
    BY <1>4, <1>8, <2>1, <2>2
  <2>4. other = [i \in 1 .. n |-> other[i]] /\ order = [i \in 1 .. n |-> order[i]]
    BY <1>9, <2>1
  <2>5. [i \in 1 .. n |-> other[i]] = [i \in 1 .. n |-> order[i]]
    BY <2>3, Zenon
  <2>6. QED
    BY <2>4, <2>5, Zenon
<1>13. QED
  BY <1>11, <1>12

\* However the rows of the three tables came in, Candidates has exactly one result: a
\* request that chooses always finds a list, if only the empty one, and two requests
\* that read the same rows and scores call the stations in the same order (Candidates).
THEOREM CandidatesAreDetermined ==
  ASSUME NEW query, NEW table, IsTable(table, Station), NEW maps, NEW stats, NEW scores,
         \A key \in DOMAIN scores : scores[key].score \in Nat /\ scores[key].enough \in BOOLEAN
  PROVE  \E order : Candidates(query, table, maps, stats, scores) = {order}
<1> DEFINE fit  == {i \in DOMAIN table : Eligible(i, query, table, maps, stats)}
           pool == {Ranked(id, query, table, scores) : id \in fit}
           less == {p \in pool \X pool : Before(p[1], p[2])}
<1>1. IsFiniteSet(fit)
  BY IdsAssumption, FS_Subset DEF IsTable
<1>2. \A id \in fit : /\ Ranked(id, query, table, scores) \in RankedEntry
                      /\ Ranked(id, query, table, scores).id = id
  BY RankedType
<1>3. IsFiniteSet(pool) /\ Cardinality(pool) = Cardinality(fit)
  <2> DEFINE f == [id \in fit |-> Ranked(id, query, table, scores)]
  <2>1. f \in Injection(fit, pool)
    BY <1>2 DEF Injection, IsInjective
  <2>2. f \in Surjection(fit, pool)
    BY DEF Surjection
  <2>3. ExistsBijection(fit, pool)
    BY <2>1, <2>2 DEF ExistsBijection, Bijection
  <2>4. QED
    BY <1>1, <2>3, FS_Bijection
<1>4. \A a \in pool : a \in RankedEntry
  BY <1>2
<1>5. \A a, b \in pool : a # b => a.id # b.id
  BY <1>2
<1>6. Candidates(query, table, maps, stats, scores) = Sorted(pool, less)
  <2>1. ASSUME NEW order \in [1 .. Cardinality(pool) -> pool],
               NEW i \in DOMAIN order, NEW j \in DOMAIN order
        PROVE  Before(order[i], order[j]) <=> <<order[i], order[j]>> \in less
    OBVIOUS
  <2> HIDE DEF less
  <2>2. QED
    BY <1>3, <2>1 DEF Candidates, Sorted
<1> HIDE DEF fit, pool
<1>7. \A a \in pool : <<a, a>> \notin less
  BY <1>4, BeforeIsStrictTotalOrder
<1>8. \A a, b, c \in pool : <<a, b>> \in less /\ <<b, c>> \in less => <<a, c>> \in less
  BY <1>4, BeforeIsStrictTotalOrder
<1>9. \A a, b \in pool : a # b => <<a, b>> \in less \/ <<b, a>> \in less
  BY <1>4, <1>5, BeforeIsStrictTotalOrder
<1> HIDE DEF less
<1>10. QED
  BY <1>3, <1>6, <1>7, <1>8, <1>9, SortsOnce

-----------------------------------------------------------------------------
(* Types of the tables *)

Tally == [failures : 0 .. CountCap, recoveries : 0 .. CountCap]

LEMMA CountType ==
  ASSUME NEW status \in Status
  PROVE  Count(status) \in Tally
BY DEF Count, Status, Tally

LEMMA TalliedType ==
  ASSUME IsTable(tally, Tally), NEW id \in Ids, NEW status \in Status
  PROVE  Tallied(id, status) \in Tally
<1> DEFINE n == IF id \in DOMAIN tally THEN tally[id] ELSE Count(NoStatus)
<1>1. n \in Tally
  BY CountType, NoStatusType DEF IsTable
<1>2. n.failures \in 0 .. CountCap /\ n.recoveries \in 0 .. CountCap
  BY <1>1 DEF Tally
<1>3. Bump(n.failures) \in 1 .. CountCap /\ Bump(n.recoveries) \in 1 .. CountCap
  BY <1>2, BumpType
<1>4. Bump(n.failures) \in 0 .. CountCap /\ Bump(n.recoveries) \in 0 .. CountCap
  BY <1>3, CountCapAssumption
<1>5. 0 \in 0 .. CountCap
  BY CountCapAssumption
<1>6. QED
  BY <1>4, <1>5 DEF Tallied, Tally

LEMMA StoreInitType ==
  ASSUME StoreInit
  PROVE  StoreTypeOK
<1>1. IsTable(stations, Station) /\ IsTable(mappings, Mapping) /\ IsTable(statuses, Status)
  BY SeedAssumption DEF StoreInit
<1>2. nextStation \in Nat /\ nextMapping \in Nat /\ now \in Nat
  BY SeedAssumption DEF StoreInit
<1>3. DOMAIN SeedStatuses \subseteq Ids /\ \A id \in DOMAIN SeedStatuses : SeedStatuses[id] \in Status
  BY <1>1 DEF StoreInit, IsTable
<1>4. IsTable(tally, Tally)
  BY <1>3, CountType DEF StoreInit, IsTable
<1>5. faulted \subseteq Ids
  BY <1>3 DEF StoreInit
<1>6. QED
  BY <1>1, <1>2, <1>4, <1>5 DEF StoreTypeOK, Tally

LEMMA SaveType ==
  ASSUME StoreTypeOK, NEW cancelled, NEW id \in Ids, NEW status \in Status,
         SaveStationStatus(cancelled, id, status),
         UNCHANGED <<configVars, now>>, faulted' \subseteq Ids
  PROVE  StoreTypeOK'
<1>1. IsTable(statuses', Status)
  BY PutType DEF SaveStationStatus, StoreTypeOK
<1>2. IsTable(tally, Tally)
  BY DEF StoreTypeOK, Tally
<1>3. IsTable(tally', Tally)
  BY <1>2, PutType, TalliedType DEF SaveStationStatus
<1>4. QED
  BY <1>1, <1>3 DEF StoreTypeOK, Tally, configVars

LEMMA TickType ==
  ASSUME StoreTypeOK, Tick
  PROVE  StoreTypeOK'
BY DEF StoreTypeOK, Tick, configVars

LEMMA SameStoreType ==
  ASSUME StoreTypeOK, UNCHANGED tableVars, faulted' \subseteq Ids
  PROVE  StoreTypeOK'
BY DEF StoreTypeOK, tableVars
=============================================================================
