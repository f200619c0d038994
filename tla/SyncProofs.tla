----------------------------- MODULE SyncProofs -----------------------------
(***************************************************************************)
(* Theorems about ConfigSync: any number of sync requests and forms under  *)
(* way on one device, and whatever snapshots other devices upload.         *)
(***************************************************************************)
EXTENDS ConfigSync, AdminProofs

-----------------------------------------------------------------------------
(* Snapshots *)

LEMMA SnapshotOfType ==
  ASSUME NEW st, IsTable(st, Station), NEW maps, IsTable(maps, Mapping)
  PROVE  IsSnapshot(SnapshotOf(st, maps))
<1> DEFINE snap == SnapshotOf(st, maps)
<1>1. snap.stations = {st[i] : i \in DOMAIN st}
  BY DEF SnapshotOf
<1>2. snap.mappings \subseteq SnapshotMapping
  <2> SUFFICES ASSUME NEW j \in DOMAIN maps, maps[j].station \in DOMAIN st
               PROVE  [maps[j] EXCEPT !.station = st[maps[j].station].name] \in SnapshotMapping
    BY DEF SnapshotOf
  <2>1. maps[j] \in Mapping /\ st[maps[j].station] \in Station
    BY DEF IsTable
  <2>2. QED
    BY <2>1 DEF Mapping, Station, SnapshotMapping
<1>3. snap.stations \subseteq Station
  BY <1>1 DEF IsTable
<1>4. IsFiniteSet(snap.stations)
  <2>1. IsFiniteSet(DOMAIN st)
    BY IdsAssumption, FS_Subset DEF IsTable
  <2>2. st \in Surjection(DOMAIN st, snap.stations)
    BY <1>1 DEF Surjection, IsTable
  <2>3. QED
    BY <2>1, <2>2, FS_Surjection
<1>5. QED
  BY <1>2, <1>3, <1>4 DEF IsSnapshot, SnapshotOf

NamesDiffer(st) == \A i, j \in DOMAIN st : st[i].name = st[j].name => i = j
Serves(st) == \A i \in DOMAIN st : st[i].protocols # {}
KeysDiffer(maps) == \A i, j \in DOMAIN maps : SameKey(maps[i], maps[j]) => i = j

\* Two mappings of one key in the snapshot are mappings of one station, for the listed
\* names differ.
LEMMA SnapshotOfValid ==
  ASSUME NEW st, IsTable(st, Station), NamesDiffer(st), Serves(st),
         NEW maps, IsTable(maps, Mapping), KeysDiffer(maps)
  PROVE  ValidateSnapshot(SnapshotOf(st, maps))
<1> DEFINE snap == SnapshotOf(st, maps)
           listed == {j \in DOMAIN maps : maps[j].station \in DOMAIN st}
           entry(j) == [maps[j] EXCEPT !.station = st[maps[j].station].name]
<1>1. /\ snap.stations = {st[i] : i \in DOMAIN st}
      /\ snap.mappings = {entry(j) : j \in listed}
      /\ snap.readable
  BY DEF SnapshotOf
<1>2. \A s \in snap.stations : s.protocols # {}
  BY <1>1 DEF Serves
<1>3. \A s, t \in snap.stations : s.name = t.name => s = t
  BY <1>1 DEF NamesDiffer
<1>4. \A j \in listed : /\ entry(j).station = st[maps[j].station].name
                        /\ entry(j).protocol = maps[j].protocol
                        /\ entry(j).alias = maps[j].alias
  BY DEF IsTable, Mapping
<1>5. \A m \in snap.mappings : \E s \in snap.stations : s.name = m.station
  BY <1>1, <1>4, ZenonT(40)
<1>6. ASSUME NEW j \in listed, NEW k \in listed, SameKey(entry(j), entry(k))
      PROVE  entry(j) = entry(k)
  <2>1. maps[j].station = maps[k].station
    BY <1>4, <1>6 DEF SameKey, NamesDiffer
  <2>2. SameKey(maps[j], maps[k])
    BY <1>4, <1>6, <2>1 DEF SameKey
  <2>3. QED
    BY <2>2 DEF KeysDiffer
<1>7. QED
  BY <1>1, <1>2, <1>3, <1>5, <1>6 DEF ValidateSnapshot

-----------------------------------------------------------------------------
(* The invariant of a device *)

\* Beside types and unique keys: no id is given twice, which makes the rows of a
\* snapshot's new stations new; a station serves some protocol; what a sync request
\* read can be exported, and what it exported is valid.
Fit(held) ==
  \/ held \in {NoSync, Pulled}
  \/ /\ held.pc = "listed" /\ held \in [pc : {"listed"}, stations : {held.stations}]
     /\ IsTable(held.stations, Station)
     /\ NamesDiffer(held.stations) /\ Serves(held.stations)
  \/ /\ held.pc \in {"exported", "uploaded", "downloaded"}
     /\ held \in [pc : {held.pc}, snapshot : {held.snapshot}]
     /\ IsSnapshot(held.snapshot)
     /\ held.pc = "exported" => ValidateSnapshot(held.snapshot)

FormsServe == \A a \in Admins :
  admin[a].kind \in {"createStation", "updateStation"} => admin[a].row.protocols # {}

DeviceInv ==
  /\ OldInv
  /\ \A i \in DOMAIN mappings : i < nextMapping
  /\ NamesDiffer(stations) /\ KeysDiffer(mappings)
  /\ Serves(stations) /\ FormsServe
  /\ DOMAIN sync = Syncs /\ \A s \in Syncs : Fit(sync[s])

LEMMA DeviceTables ==
  ASSUME DeviceInv
  PROVE  /\ EditTypeOK /\ StoreTypeOK /\ AdminTypeOK
         /\ IsTable(stations, Station) /\ IsTable(mappings, Mapping)
         /\ nextStation \in Nat /\ nextMapping \in Nat
         /\ DOMAIN stations \subseteq Nat \ {0} /\ DOMAIN mappings \subseteq Nat \ {0}
         /\ \A i \in DOMAIN stations : i < nextStation
         /\ \A i \in DOMAIN statuses : i < nextStation
         /\ \A i \in DOMAIN mappings : i < nextMapping /\ mappings[i].station < nextStation
BY IdsAssumption DEF DeviceInv, OldInv, EditTypeOK, StoreTypeOK, IdsAreOld, IsTable

-----------------------------------------------------------------------------
(* What an apply does *)

\* A station of the snapshot lives where its name lived, or at an id never given out;
\* no two live together.
Fresh(snap) == {s \in snap.stations : ~ NameTaken(s.name, 0)}
Grown(snap) == nextStation + Cardinality(Fresh(snap))

LEMMA HomesAreApart ==
  ASSUME DeviceInv, NEW snap, IsSnapshot(snap), ValidateSnapshot(snap), NEW home \in Homes(snap)
  PROVE  /\ home \in [snap.stations -> Ids]
         /\ \A s, t \in snap.stations : home[s] = home[t] => s = t
         /\ \A s \in snap.stations, i \in DOMAIN stations :
              home[s] = i <=> stations[i].name = s.name
         /\ Grown(snap) \in Nat /\ nextStation <= Grown(snap)
         /\ \A s \in snap.stations : /\ home[s] < Grown(snap)
                                     /\ home[s] \in DOMAIN stations \/ nextStation <= home[s]
<1>1. /\ nextStation \in Nat /\ DOMAIN stations \subseteq Nat \ {0}
      /\ \A i \in DOMAIN stations : i < nextStation
      /\ NamesDiffer(stations)
  BY DeviceTables DEF DeviceInv
<1>2. Fresh(snap) \subseteq snap.stations /\ Cardinality(Fresh(snap)) \in Nat
  BY FS_Subset, FS_CardinalityType DEF IsSnapshot, Fresh
<1>3. Grown(snap) \in Nat /\ nextStation <= Grown(snap)
  BY <1>1, <1>2 DEF Grown
<1>4. /\ home \in [snap.stations -> Ids]
      /\ \A s \in Fresh(snap) : home[s] \in nextStation .. (Grown(snap) - 1)
      /\ \A s \in snap.stations \ Fresh(snap) : \E i \in DOMAIN stations :
           stations[i].name = s.name /\ home[s] = i
      /\ \A s, t \in Fresh(snap) : home[s] = home[t] => s = t
  <2>1. /\ home \in [snap.stations -> Ids]
        /\ \A s \in Fresh(snap) :
             home[s] \in nextStation .. (nextStation + Cardinality(Fresh(snap)) - 1)
        /\ \A s \in snap.stations \ Fresh(snap) : \E i \in DOMAIN stations :
             stations[i].name = s.name /\ home[s] = i
        /\ \A s, t \in Fresh(snap) : home[s] = home[t] => s = t
    BY Zenon DEF Homes, Fresh
  <2>2. QED
    BY <1>1, <1>2, <2>1 DEF Grown
<1>5. ASSUME NEW s \in Fresh(snap)
      PROVE  nextStation <= home[s] /\ home[s] < Grown(snap) /\ home[s] \notin DOMAIN stations
  BY <1>1, <1>3, <1>4
<1>6. ASSUME NEW s \in snap.stations \ Fresh(snap)
      PROVE  home[s] \in DOMAIN stations /\ stations[home[s]].name = s.name /\ home[s] < Grown(snap)
  BY <1>1, <1>3, <1>4
<1>7. \A s, t \in snap.stations : s.name = t.name => s = t
  BY DEF ValidateSnapshot
<1>8. \A s \in Fresh(snap), i \in DOMAIN stations : stations[i].name # s.name
  BY <1>1 DEF NameTaken, Fresh
<1>9. ASSUME NEW s \in snap.stations, NEW t \in snap.stations, home[s] = home[t]
      PROVE  s = t
  BY <1>4, <1>5, <1>6, <1>7, <1>9
<1>10. ASSUME NEW s \in snap.stations, NEW i \in DOMAIN stations
       PROVE  home[s] = i <=> stations[i].name = s.name
  BY <1>1, <1>5, <1>6, <1>8 DEF NamesDiffer
<1>11. QED
  BY <1>3, <1>4, <1>5, <1>6, <1>9, <1>10

\* The rows of the snapshot's mappings, and the way back.
Owner(snap, m) == CHOOSE s \in snap.stations : s.name = m.station
RowOf(snap, home, m) == [m EXCEPT !.station = home[Owner(snap, m)]]

LEMMA RowsAtHome ==
  ASSUME NEW snap, IsSnapshot(snap), ValidateSnapshot(snap), NEW home \in [snap.stations -> Ids],
         \A s, t \in snap.stations : home[s] = home[t] => s = t
  PROVE  /\ MappingRows(snap, home) \subseteq Mapping
         /\ \A r \in MappingRows(snap, home) : \E s \in snap.stations :
              r.station = home[s] /\ [r EXCEPT !.station = s.name] \in snap.mappings
         /\ \A m \in snap.mappings : \E r \in MappingRows(snap, home), s \in snap.stations :
              r.station = home[s] /\ [r EXCEPT !.station = s.name] = m
         /\ \A r, q \in MappingRows(snap, home) : SameKey(r, q) => r = q
<1>1. MappingRows(snap, home) = {RowOf(snap, home, m) : m \in snap.mappings}
  BY DEF MappingRows, RowOf, Owner
<1>2. ASSUME NEW m \in snap.mappings
      PROVE  Owner(snap, m) \in snap.stations /\ Owner(snap, m).name = m.station
  BY DEF ValidateSnapshot, Owner
<1>3. ASSUME NEW m \in snap.mappings
      PROVE  /\ RowOf(snap, home, m) \in Mapping
             /\ RowOf(snap, home, m).station = home[Owner(snap, m)]
             /\ RowOf(snap, home, m).protocol = m.protocol
             /\ RowOf(snap, home, m).alias = m.alias
             /\ [RowOf(snap, home, m) EXCEPT !.station = Owner(snap, m).name] = m
  <2>1. m \in SnapshotMapping
    BY DEF IsSnapshot
  <2>2. home[Owner(snap, m)] \in Ids /\ Owner(snap, m).name = m.station
    BY <1>2
  <2>3. QED
    BY <2>1, <2>2 DEF SnapshotMapping, Mapping, RowOf
<1>4. ASSUME NEW m \in snap.mappings, NEW n \in snap.mappings,
             SameKey(RowOf(snap, home, m), RowOf(snap, home, n))
      PROVE  RowOf(snap, home, m) = RowOf(snap, home, n)
  <2>1. Owner(snap, m) = Owner(snap, n)
    BY <1>2, <1>3, <1>4 DEF SameKey
  <2>2. SameKey(m, n)
    BY <1>2, <1>3, <1>4, <2>1 DEF SameKey
  <2>3. QED
    BY <2>2 DEF ValidateSnapshot
<1>5. ASSUME NEW m \in snap.mappings
      PROVE  \E s \in snap.stations :
               /\ RowOf(snap, home, m).station = home[s]
               /\ [RowOf(snap, home, m) EXCEPT !.station = s.name] = m
  BY <1>2, <1>3
<1>6. \A r, q \in MappingRows(snap, home) : SameKey(r, q) => r = q
  BY <1>1, <1>4
<1>7. MappingRows(snap, home) \subseteq Mapping
  BY <1>1, <1>3
<1>8. ASSUME NEW r \in MappingRows(snap, home)
      PROVE  \E s \in snap.stations :
               r.station = home[s] /\ [r EXCEPT !.station = s.name] \in snap.mappings
  <2>1. PICK m \in snap.mappings : r = RowOf(snap, home, m)
    BY <1>1
  <2>2. PICK s \in snap.stations :
          /\ RowOf(snap, home, m).station = home[s]
          /\ [RowOf(snap, home, m) EXCEPT !.station = s.name] = m
    BY <1>5
  <2>3. r.station = home[s] /\ [r EXCEPT !.station = s.name] = m
    BY <2>1, <2>2, Zenon
  <2>4. QED
    BY <2>3
<1>9. ASSUME NEW m \in snap.mappings
      PROVE  \E r \in MappingRows(snap, home), s \in snap.stations :
               r.station = home[s] /\ [r EXCEPT !.station = s.name] = m
  <2>1. RowOf(snap, home, m) \in MappingRows(snap, home)
    BY <1>1
  <2>2. QED
    BY <1>5, <2>1
<1>10. QED
  BY <1>6, <1>7, <1>8, <1>9

\* What becomes of the mappings when each row of the snapshot has a kept station and a
\* key of its own: a row is an orphan that was there, or one of the snapshot's, under
\* the id of its key if that was there and under a new one if it was not.
Left(j, kept) ==
  /\ j \in DOMAIN mappings /\ mappings'[j] = mappings[j]
  /\ mappings[j].station \notin DOMAIN stations \cup kept

Taken(j, rows) ==
  /\ mappings'[j] \in rows
  /\ \A i \in DOMAIN mappings : SameKey(mappings[i], mappings'[j]) <=> i = j

LEMMA MappingsApplied ==
  ASSUME DeviceInv, NEW rows \in SUBSET Mapping, NEW kept,
         \A r \in rows : r.station \in kept,
         \A r, q \in rows : SameKey(r, q) => r = q,
         ApplyMappings(rows, kept)
  PROVE  /\ IsTable(mappings', Mapping) /\ nextMapping' \in Nat
         /\ \A j \in DOMAIN mappings' : j < nextMapping'
         /\ \A j \in DOMAIN mappings' : Left(j, kept) \/ Taken(j, rows)
         /\ \A r \in rows : \E j \in DOMAIN mappings' : mappings'[j] = r
         /\ KeysDiffer(mappings')
<1> DEFINE orphans == {i \in DOMAIN mappings : mappings[i].station \notin DOMAIN stations \cup kept}
           updated == {i \in DOMAIN mappings : \E r \in rows : SameKey(mappings[i], r)}
           new     == {r \in rows : \A i \in updated : ~ SameKey(mappings[i], r)}
           next    == nextMapping .. (nextMapping + Cardinality(new) - 1)
<1>1. PICK place \in [new -> next \cap Ids] :
        /\ \A r, q \in new : place[r] = place[q] => r = q
        /\ nextMapping' = nextMapping + Cardinality(new)
        /\ mappings' = [i \in orphans \cup updated \cup {place[r] : r \in new} |->
             IF i \in orphans THEN mappings[i]
             ELSE IF i \in updated THEN CHOOSE r \in rows : SameKey(mappings[i], r)
             ELSE CHOOSE r \in new : place[r] = i]
  BY Zenon DEF ApplyMappings
<1>2. /\ IsTable(mappings, Mapping) /\ nextMapping \in Nat
      /\ \A i \in DOMAIN mappings : i \in Nat /\ i < nextMapping
      /\ KeysDiffer(mappings)
  BY DeviceTables DEF DeviceInv
<1>3. \A i \in updated : i \in DOMAIN mappings \ orphans
  BY DEF SameKey
<1>4. \A r \in new, i \in DOMAIN mappings : ~ SameKey(mappings[i], r)
  OBVIOUS
<1>5. Cardinality(new) \in Nat
  <2>1. place \in Injection(new, Ids)
    BY <1>1 DEF Injection, IsInjective
  <2>2. QED
    BY <2>1, IdsAssumption, FS_Injection, FS_CardinalityType
<1>6. \A r \in new : /\ place[r] \in Ids
                     /\ nextMapping <= place[r] /\ place[r] < nextMapping + Cardinality(new)
                     /\ place[r] \notin DOMAIN mappings
  BY <1>1, <1>2, <1>5
<1> HIDE DEF orphans, updated, new, next
<1>7. DOMAIN mappings' = orphans \cup updated \cup {place[r] : r \in new}
  BY <1>1
<1>8. ASSUME NEW i \in orphans
      PROVE  Left(i, kept)
  BY <1>1, <1>8 DEF orphans, Left
<1>9. ASSUME NEW i \in updated
      PROVE  mappings'[i] \in rows /\ SameKey(mappings[i], mappings'[i])
  <2>1. mappings'[i] = CHOOSE r \in rows : SameKey(mappings[i], r)
    BY <1>1, <1>3
  <2>2. \E r \in rows : SameKey(mappings[i], r)
    BY DEF updated
  <2>3. QED
    BY <2>1, <2>2
<1>10. ASSUME NEW r \in new
       PROVE  mappings'[place[r]] = r
  <2>1. place[r] \notin orphans \cup updated
    BY <1>3, <1>6 DEF orphans
  <2>2. mappings'[place[r]] = CHOOSE q \in new : place[q] = place[r]
    BY <1>1, <2>1
  <2>3. QED
    BY <1>1, <2>2
<1>11. ASSUME NEW i \in updated
       PROVE  Taken(i, rows)
  BY <1>2, <1>3, <1>9 DEF Taken, KeysDiffer, SameKey
<1>12. ASSUME NEW r \in new
       PROVE  Taken(place[r], rows)
  <2>1. r \in rows
    BY DEF new
  <2>2. ASSUME NEW i \in DOMAIN mappings
        PROVE  ~ SameKey(mappings[i], mappings'[place[r]]) /\ i # place[r]
    BY <1>4, <1>6, <1>10, Zenon
  <2>3. QED
    BY <1>10, <2>1, <2>2 DEF Taken
<1>13. \A j \in DOMAIN mappings' : Left(j, kept) \/ Taken(j, rows)
  BY <1>7, <1>8, <1>11, <1>12
<1>14. IsTable(mappings', Mapping)
  <2>1. DOMAIN mappings' \subseteq Ids
    BY <1>2, <1>3, <1>6, <1>7 DEF IsTable, orphans
  <2>2. \A j \in DOMAIN mappings' : mappings'[j] \in Mapping
    BY <1>2, <1>13 DEF Left, Taken, IsTable
  <2>3. mappings' = [j \in DOMAIN mappings' |-> mappings'[j]]
    BY <1>1
  <2>4. QED
    BY <2>1, <2>2, <2>3 DEF IsTable
<1>15. nextMapping' \in Nat /\ \A j \in DOMAIN mappings' : j < nextMapping'
  <2>1. nextMapping' \in Nat /\ nextMapping <= nextMapping'
    BY <1>1, <1>2, <1>5
  <2>2. \A j \in orphans \cup updated : j \in Nat /\ j < nextMapping
    BY <1>2, <1>3 DEF orphans
  <2>3. \A j \in orphans \cup updated : j < nextMapping'
    BY <1>2, <2>1, <2>2
  <2>4. \A r \in new : place[r] < nextMapping'
    BY <1>1, <1>6
  <2>5. QED
    BY <1>7, <2>1, <2>3, <2>4
<1>16. ASSUME NEW r \in rows
       PROVE  \E j \in DOMAIN mappings' : mappings'[j] = r
  <2>1. CASE r \in new
    BY <1>7, <1>10, <2>1
  <2>2. CASE r \notin new
    <3>1. PICK i \in updated : SameKey(mappings[i], r)
      BY <2>2 DEF new
    <3>2. mappings'[i] = r
      BY <1>9, <3>1 DEF SameKey
    <3>3. QED
      BY <1>7, <3>2
  <2>3. QED
    BY <2>1, <2>2
<1>17. ASSUME NEW j \in DOMAIN mappings', NEW k \in DOMAIN mappings',
              SameKey(mappings'[j], mappings'[k])
       PROVE  j = k
  <2>1. CASE Left(j, kept) /\ Left(k, kept)
    BY <1>2, <1>17, <2>1 DEF Left, KeysDiffer
  <2>2. CASE Taken(j, rows) /\ Taken(k, rows)
    <3>1. mappings'[j] = mappings'[k]
      BY <1>17, <2>2 DEF Taken
    <3>2. CASE j \in updated
      BY <1>3, <1>9, <2>2, <3>1, <3>2 DEF Taken
    <3>3. CASE k \in updated
      BY <1>3, <1>9, <2>2, <3>1, <3>3 DEF Taken
    <3>4. ASSUME NEW i \in orphans, Taken(i, rows)
          PROVE  FALSE
      BY <1>8, <3>4 DEF Left, Taken
    <3>5. CASE j \notin updated /\ k \notin updated
      <4>1. PICK r \in new : j = place[r]
        BY <1>7, <2>2, <3>4, <3>5
      <4>2. PICK q \in new : k = place[q]
        BY <1>7, <2>2, <3>4, <3>5
      <4>3. QED
        BY <1>10, <3>1, <4>1, <4>2
    <3>6. QED
      BY <3>2, <3>3, <3>5
  <2>3. ASSUME NEW i, NEW l, Left(i, kept), Taken(l, rows)
        PROVE  mappings'[i].station # mappings'[l].station
    BY <2>3 DEF Left, Taken
  <2>4. QED
    BY <1>13, <1>17, <2>1, <2>2, <2>3 DEF SameKey
<1>18. QED
  BY <1>13, <1>14, <1>15, <1>16, <1>17 DEF KeysDiffer

Kept(snap, home) == {home[s] : s \in snap.stations}

\* The transaction of a pull, the homes of its stations given.
Applied(snap, home) ==
  /\ IsSnapshot(snap) /\ ValidateSnapshot(snap)
  /\ home \in Homes(snap)
  /\ stations' = [i \in Kept(snap, home) |-> CHOOSE s \in snap.stations : home[s] = i]
  /\ nextStation' = Grown(snap)
  /\ DropStations(Kept(snap, home))
  /\ ApplyMappings(MappingRows(snap, home), Kept(snap, home))

LEMMA PullApplies ==
  ASSUME DeviceInv, NEW s \in Syncs, Pull(s)
  PROVE  \E home : Applied(sync[s].snapshot, home)
<1>1. sync[s].pc = "downloaded" /\ ValidateSnapshot(sync[s].snapshot)
  BY DEF Pull
<1>2. IsSnapshot(sync[s].snapshot)
  BY <1>1 DEF DeviceInv, Fit, NoSync, Pulled
<1>3. ApplySnapshot(sync[s].snapshot)
  BY DEF Pull
<1> DEFINE snap == sync[s].snapshot
<1>4. PICK home \in Homes(snap) :
        /\ stations' = [i \in Kept(snap, home) |-> CHOOSE t \in snap.stations : home[t] = i]
        /\ nextStation' = Grown(snap)
        /\ DropStations(Kept(snap, home))
        /\ ApplyMappings(MappingRows(snap, home), Kept(snap, home))
  BY <1>3, Zenon DEF ApplySnapshot, Kept, Grown, Fresh
<1>5. Applied(snap, home)
  BY <1>1, <1>2, <1>4, Zenon DEF Applied
<1>6. QED
  BY <1>5

LEMMA StationsApplied ==
  ASSUME DeviceInv, NEW snap, NEW home, Applied(snap, home)
  PROVE  /\ IsTable(stations', Station)
         /\ DOMAIN stations' = Kept(snap, home)
         /\ \A s \in snap.stations : home[s] \in Kept(snap, home) /\ stations'[home[s]] = s
         /\ \A i \in Kept(snap, home) : stations'[i] \in snap.stations /\ home[stations'[i]] = i
         /\ NamesDiffer(stations') /\ Serves(stations')
<1>1. /\ home \in [snap.stations -> Ids]
      /\ \A s, t \in snap.stations : home[s] = home[t] => s = t
  BY HomesAreApart DEF Applied
<1>2. /\ DOMAIN stations' = Kept(snap, home)
      /\ stations' = [i \in Kept(snap, home) |-> stations'[i]]
  BY DEF Applied
<1>3. ASSUME NEW i \in Kept(snap, home)
      PROVE  stations'[i] \in snap.stations /\ home[stations'[i]] = i
  <2>1. stations'[i] = CHOOSE s \in snap.stations : home[s] = i
    BY DEF Applied
  <2>2. \E s \in snap.stations : home[s] = i
    BY DEF Kept
  <2>3. QED
    BY <2>1, <2>2
<1>4. ASSUME NEW s \in snap.stations
      PROVE  home[s] \in Kept(snap, home) /\ stations'[home[s]] = s
  <2>1. home[s] \in Kept(snap, home)
    BY DEF Kept
  <2>2. QED
    BY <1>1, <1>3, <2>1
<1>5. \A s \in snap.stations : s \in Station /\ s.protocols # {}
  BY DEF Applied, IsSnapshot, ValidateSnapshot
<1>6. Kept(snap, home) \subseteq Ids
  BY <1>1 DEF Kept
<1>7. IsTable(stations', Station)
  BY <1>2, <1>3, <1>5, <1>6 DEF IsTable
<1>8. Serves(stations')
  BY <1>2, <1>3, <1>5 DEF Serves
<1>9. NamesDiffer(stations')
  <2>1. \A s, t \in snap.stations : s.name = t.name => s = t
    BY DEF Applied, ValidateSnapshot
  <2>2. QED
    BY <1>2, <1>3, <2>1 DEF NamesDiffer
<1>10. QED
  BY <1>2, <1>3, <1>4, <1>7, <1>8, <1>9

LEMMA RowsApplied ==
  ASSUME DeviceInv, NEW snap, NEW home, Applied(snap, home)
  PROVE  LET rows == MappingRows(snap, home)
             kept == Kept(snap, home)
         IN  /\ \A r \in rows : \E s \in snap.stations :
                  r.station = home[s] /\ [r EXCEPT !.station = s.name] \in snap.mappings
             /\ \A m \in snap.mappings : \E r \in rows, s \in snap.stations :
                  r.station = home[s] /\ [r EXCEPT !.station = s.name] = m
             /\ \A r \in rows : r \in Mapping /\ r.station \in kept
             /\ IsTable(mappings', Mapping) /\ nextMapping' \in Nat
             /\ \A j \in DOMAIN mappings' : j < nextMapping'
             /\ \A j \in DOMAIN mappings' : Left(j, kept) \/ Taken(j, rows)
             /\ \A r \in rows : \E j \in DOMAIN mappings' : mappings'[j] = r
             /\ KeysDiffer(mappings')
<1> DEFINE rows == MappingRows(snap, home)
           kept == Kept(snap, home)
<1>1. /\ IsSnapshot(snap) /\ ValidateSnapshot(snap) /\ home \in Homes(snap)
      /\ ApplyMappings(rows, kept)
  BY DEF Applied
<1>2. /\ home \in [snap.stations -> Ids]
      /\ \A s, t \in snap.stations : home[s] = home[t] => s = t
  BY <1>1, HomesAreApart
<1>3. /\ rows \subseteq Mapping
      /\ \A r \in rows : \E s \in snap.stations :
           r.station = home[s] /\ [r EXCEPT !.station = s.name] \in snap.mappings
      /\ \A m \in snap.mappings : \E r \in rows, s \in snap.stations :
           r.station = home[s] /\ [r EXCEPT !.station = s.name] = m
      /\ \A r, q \in rows : SameKey(r, q) => r = q
  BY <1>1, <1>2, RowsAtHome
<1>4. \A r \in rows : r.station \in kept
  BY <1>3 DEF Kept
<1> HIDE DEF rows, kept
<1>5. /\ IsTable(mappings', Mapping) /\ nextMapping' \in Nat
      /\ \A j \in DOMAIN mappings' : j < nextMapping'
      /\ \A j \in DOMAIN mappings' : Left(j, kept) \/ Taken(j, rows)
      /\ \A r \in rows : \E j \in DOMAIN mappings' : mappings'[j] = r
      /\ KeysDiffer(mappings')
  BY <1>1, <1>3, <1>4, MappingsApplied
<1>6. QED
  BY <1>3, <1>4, <1>5, Zenon DEF rows, kept

-----------------------------------------------------------------------------
(* Steps *)

\* A pull: whatever forms passed their checks before, and whatever rows were there.
LEMMA PullKeepsInv ==
  ASSUME DeviceInv, NEW s \in Syncs, Pull(s), UNCHANGED adminVars
  PROVE  /\ OldInv' /\ FormsServe'
         /\ \A i \in DOMAIN mappings' : i < nextMapping'
         /\ NamesDiffer(stations') /\ KeysDiffer(mappings') /\ Serves(stations')
<1> DEFINE snap == sync[s].snapshot
<1>1. PICK home : Applied(snap, home)
  BY PullApplies
<1>2. /\ IsTable(stations', Station) /\ DOMAIN stations' = Kept(snap, home)
      /\ NamesDiffer(stations') /\ Serves(stations')
  BY <1>1, StationsApplied
<1>3. /\ \A r \in MappingRows(snap, home) : r \in Mapping /\ r.station \in Kept(snap, home)
      /\ IsTable(mappings', Mapping) /\ nextMapping' \in Nat
      /\ \A j \in DOMAIN mappings' : j < nextMapping'
      /\ \A j \in DOMAIN mappings' : Left(j, Kept(snap, home)) \/ Taken(j, MappingRows(snap, home))
      /\ KeysDiffer(mappings')
  BY <1>1, RowsApplied
<1>4. /\ EditTypeOK /\ StoreTypeOK /\ AdminTypeOK
      /\ nextStation \in Nat
      /\ \A i \in DOMAIN statuses : i < nextStation
      /\ \A i \in DOMAIN mappings : mappings[i].station < nextStation
  BY DeviceTables
<1>5. /\ nextStation' = Grown(snap) /\ Grown(snap) \in Nat /\ nextStation <= Grown(snap)
      /\ \A t \in snap.stations : home[t] < Grown(snap)
  BY <1>1, HomesAreApart DEF Applied
<1>6. \A i \in Kept(snap, home) : i < nextStation'
  BY <1>5 DEF Kept
<1>7. /\ IsTable(statuses', Status) /\ DOMAIN statuses' \subseteq DOMAIN statuses
      /\ IsTable(tally', [failures : 0 .. CountCap, recoveries : 0 .. CountCap])
  BY <1>1, <1>4, WithoutType DEF Applied, DropStations, StoreTypeOK, Without
<1>8. StoreTypeOK'
  BY <1>2, <1>3, <1>4, <1>5, <1>7 DEF StoreTypeOK, Pull
<1>9. EditTypeOK'
  BY <1>4, <1>8 DEF EditTypeOK, AdminTypeOK, adminVars
<1>10. ASSUME NEW i \in Ids, i < nextStation
       PROVE  i < nextStation'
  BY <1>4, <1>5, <1>10, IdsAreNat
<1>11. \A i \in DOMAIN stations' \cup DOMAIN statuses' : i < nextStation'
  BY <1>2, <1>4, <1>6, <1>7, <1>10 DEF IsTable
<1>12. ASSUME NEW j \in DOMAIN mappings'
       PROVE  mappings'[j].station < nextStation'
  <2>1. CASE Left(j, Kept(snap, home))
    <3>1. mappings'[j] = mappings[j] /\ mappings[j].station < nextStation
      BY <1>4, <2>1 DEF Left
    <3>2. mappings'[j].station \in Ids
      BY <1>3 DEF IsTable, Mapping
    <3>3. QED
      BY <1>10, <3>1, <3>2
  <2>2. CASE Taken(j, MappingRows(snap, home))
    BY <1>3, <1>6, <2>2 DEF Taken
  <2>3. QED
    BY <1>3, <2>1, <2>2
<1>13. IdsAreOld'
  BY <1>11, <1>12 DEF IdsAreOld
<1>14. ASSUME NEW a \in Admins, admin'[a].kind \in {"upsertMapping", "updateMapping"}
       PROVE  admin'[a].row.station < nextStation'
  <2>1. admin[a].row \in Mapping /\ admin[a].row.station < nextStation
    BY <1>4, <1>14, FormType DEF DeviceInv, OldInv, adminVars
  <2>2. admin[a].row.station \in Ids
    BY <2>1 DEF Mapping
  <2>3. QED
    BY <1>10, <2>1, <2>2 DEF adminVars
<1>15. FormsServe'
  BY DEF DeviceInv, FormsServe, adminVars
<1>16. QED
  BY <1>2, <1>3, <1>9, <1>13, <1>14, <1>15 DEF OldInv

\* A form: what AdminProofs says of it, and what an export needs beside.
LEMMA FormKeepsInv ==
  ASSUME DeviceInv, NEW a \in Admins, AdminStep(a)
  PROVE  /\ OldInv' /\ FormsServe'
         /\ \A i \in DOMAIN mappings' : i < nextMapping'
         /\ NamesDiffer(stations') /\ KeysDiffer(mappings') /\ Serves(stations')
<1>1. EditNext
  BY DEF EditNext
<1>2. OldInv'
  BY <1>1, OldStep DEF DeviceInv
<1>3. NamesDiffer(stations') /\ KeysDiffer(mappings')
  <2>1. UniqueInv
    BY DEF UniqueInv, KeysUnique, DeviceInv, OldInv, NamesDiffer, KeysDiffer
  <2>2. KeysUnique'
    BY <1>1, <2>1, UniqueStep
  <2>3. QED
    BY <2>2 DEF KeysUnique, NamesDiffer, KeysDiffer
<1>4. /\ Serves(stations) /\ FormsServe /\ AdminTypeOK
      /\ nextMapping \in Nat /\ DOMAIN mappings \subseteq Nat
      /\ \A i \in DOMAIN mappings : i < nextMapping
  BY DeviceTables DEF DeviceInv
<1>5. ASSUME NEW form, Hold(a, form),
             form.kind \in {"createStation", "updateStation"} => form.row.protocols # {}
      PROVE  FormsServe'
  BY <1>4, <1>5 DEF Hold, FormsServe
<1>6. ASSUME Release(a)
      PROVE  FormsServe'
  BY <1>4, <1>6 DEF Release, FormsServe, NoForm
<1>7. CASE CheckNewStation(a)
  <2>1. PICK form \in StationForms :
          Hold(a, [kind |-> "createStation", row |-> form]) /\ form.protocols # {}
    BY <1>7 DEF CheckNewStation, ValidStationForm
  <2>2. QED
    BY <1>2, <1>3, <1>4, <1>5, <1>7, <2>1 DEF CheckNewStation, storeVars, tableVars
<1>8. CASE CheckEditedStation(a)
  <2>1. PICK form \in StationForms, id \in Ids :
          Hold(a, [kind |-> "updateStation", id |-> id, row |-> form]) /\ form.protocols # {}
    BY <1>8 DEF CheckEditedStation, ValidStationForm
  <2>2. QED
    BY <1>2, <1>3, <1>4, <1>5, <1>8, <2>1 DEF CheckEditedStation, storeVars, tableVars
<1>9. CASE CheckNewMapping(a)
  <2>1. PICK form \in MappingForms : Hold(a, [kind |-> "upsertMapping", row |-> form])
    BY <1>9 DEF CheckNewMapping
  <2>2. QED
    BY <1>2, <1>3, <1>4, <1>5, <1>9, <2>1 DEF CheckNewMapping, storeVars, tableVars
<1>10. CASE CheckEditedMapping(a)
  <2>1. PICK form \in MappingForms, id \in Ids :
          Hold(a, [kind |-> "updateMapping", id |-> id, row |-> form])
    BY <1>10 DEF CheckEditedMapping
  <2>2. QED
    BY <1>2, <1>3, <1>4, <1>5, <1>10, <2>1 DEF CheckEditedMapping, storeVars, tableVars
<1>11. CASE CreateStation(a)
  <2>1. Serves(stations')
    BY <1>4, <1>11 DEF CreateStation, Serves, FormsServe, Put
  <2>2. QED
    BY <1>2, <1>3, <1>4, <1>6, <1>11, <2>1 DEF CreateStation
<1>12. CASE UpdateStation(a)
  <2>1. Serves(stations')
    BY <1>4, <1>12 DEF UpdateStation, Serves, FormsServe, Put
  <2>2. QED
    BY <1>2, <1>3, <1>4, <1>6, <1>12, <2>1 DEF UpdateStation
<1>13. CASE UpsertMapping(a)
  <2>1. \A i \in DOMAIN mappings' : i < nextMapping'
    BY <1>4, <1>13 DEF UpsertMapping, Put
  <2>2. QED
    BY <1>2, <1>3, <1>4, <1>6, <1>13, <2>1 DEF UpsertMapping
<1>14. CASE UpdateMapping(a)
  <2>1. \A i \in DOMAIN mappings' : i < nextMapping'
    BY <1>4, <1>14 DEF UpdateMapping, Put
  <2>2. QED
    BY <1>2, <1>3, <1>4, <1>6, <1>14, <2>1 DEF UpdateMapping
<1>15. CASE WriteFails(a)
  BY <1>2, <1>3, <1>4, <1>6, <1>15 DEF WriteFails, storeVars, tableVars
<1>16. CASE \E id \in DOMAIN stations : DeleteStation(id)
  BY <1>2, <1>3, <1>4, <1>16 DEF DeleteStation, Without, Serves, FormsServe
<1>17. CASE \E id \in DOMAIN mappings : DeleteMapping(id)
  BY <1>2, <1>3, <1>4, <1>17 DEF DeleteMapping, Without, FormsServe
<1>18. QED
  BY <1>7, <1>8, <1>9, <1>10, <1>11, <1>12, <1>13, <1>14, <1>15, <1>16, <1>17 DEF AdminStep

LEMMA SyncStepFits ==
  ASSUME DeviceInv, NEW s \in Syncs, SyncStep(s)
  PROVE  DOMAIN sync' = Syncs /\ \A q \in Syncs : Fit(sync'[q])
<1>1. DOMAIN sync = Syncs /\ \A q \in Syncs : Fit(sync[q])
  BY DEF DeviceInv
<1>2. SUFFICES \E held : Fit(held) /\ sync' = [sync EXCEPT ![s] = held]
  <2>1. PICK held : Fit(held) /\ sync' = [sync EXCEPT ![s] = held]
    OBVIOUS
  <2>2. DOMAIN sync' = Syncs /\ \A q \in Syncs : sync'[q] = IF q = s THEN held ELSE sync[q]
    BY <1>1, <2>1
  <2>3. QED
    BY <1>1, <2>1, <2>2
<1>3. Fit(NoSync) /\ Fit(Pulled)
  BY DEF Fit
<1>4. /\ IsTable(stations, Station) /\ IsTable(mappings, Mapping)
      /\ NamesDiffer(stations) /\ Serves(stations) /\ KeysDiffer(mappings)
  BY DeviceTables DEF DeviceInv
<1>5. CASE ExportStations(s)
  <2>1. Fit([pc |-> "listed", stations |-> stations])
    BY <1>4 DEF Fit
  <2>2. QED
    BY <1>5, <2>1 DEF ExportStations
<1>6. CASE ExportMappings(s)
  <2> DEFINE snap == SnapshotOf(sync[s].stations, mappings)
  <2>1. /\ IsTable(sync[s].stations, Station)
        /\ NamesDiffer(sync[s].stations) /\ Serves(sync[s].stations)
    BY <1>1, <1>6 DEF ExportMappings, Fit, NoSync, Pulled
  <2>2. IsSnapshot(snap) /\ ValidateSnapshot(snap)
    BY <1>4, <2>1, SnapshotOfType, SnapshotOfValid
  <2> HIDE DEF snap
  <2>3. Fit([pc |-> "exported", snapshot |-> snap])
    BY <2>2 DEF Fit
  <2>4. sync' = [sync EXCEPT ![s] = [pc |-> "exported", snapshot |-> snap]]
    BY <1>6 DEF ExportMappings, snap
  <2>5. QED
    BY <2>3, <2>4
<1>7. CASE Upload(s)
  <2>1. /\ sync[s] \in [pc : {"exported"}, snapshot : {sync[s].snapshot}]
        /\ IsSnapshot(sync[s].snapshot)
    BY <1>1, <1>7 DEF Upload, Fit, NoSync, Pulled
  <2>2. sync' = [sync EXCEPT ![s] = [pc |-> "uploaded", snapshot |-> sync[s].snapshot]]
    <3>1. ASSUME NEW snap, NEW held \in [pc : {"exported"}, snapshot : {snap}]
          PROVE  [held EXCEPT !.pc = "uploaded"] = [pc |-> "uploaded", snapshot |-> snap]
      OBVIOUS
    <3>2. [sync[s] EXCEPT !.pc = "uploaded"] = [pc |-> "uploaded", snapshot |-> sync[s].snapshot]
      BY <2>1, <3>1, Zenon
    <3>3. QED
      BY <1>7, <3>2, Zenon DEF Upload
  <2>3. Fit([pc |-> "uploaded", snapshot |-> sync[s].snapshot])
    BY <2>1 DEF Fit
  <2>4. QED
    BY <2>2, <2>3
<1>8. CASE Download(s)
  <2>1. PICK snap \in Remote :
          sync' = [sync EXCEPT ![s] = [pc |-> "downloaded", snapshot |-> snap]]
    BY <1>8 DEF Download
  <2>2. IsSnapshot(snap)
    <3>1. CASE snap \in Foreign
      BY <3>1, ForeignAssumption
    <3>2. ASSUME NEW q \in Syncs, sync[q].pc = "uploaded", snap = sync[q].snapshot
          PROVE  IsSnapshot(snap)
      BY <1>1, <3>2 DEF Fit, NoSync, Pulled
    <3>3. QED
      BY <3>1, <3>2 DEF Remote
  <2>3. Fit([pc |-> "downloaded", snapshot |-> snap])
    BY <2>2 DEF Fit
  <2>4. QED
    BY <2>1, <2>3
<1>9. CASE SyncFails(s)
  BY <1>3, <1>9 DEF SyncFails, Answer
<1>10. CASE Pull(s)
  BY <1>3, <1>10 DEF Pull
<1>11. QED
  BY <1>5, <1>6, <1>7, <1>8, <1>9, <1>10 DEF SyncStep

LEMMA DeviceInitially ==
  ASSUME /\ NamesDiffer(SeedStations) /\ Serves(SeedStations) /\ KeysDiffer(SeedMappings)
         /\ \A i \in DOMAIN SeedMappings : SeedMappings[i].station < SeedNextStation,
         DeviceInit
  PROVE  DeviceInv
<1>1. OldInv
  BY OldInit DEF DeviceInit, EditInit
<1>2. /\ \A i \in DOMAIN mappings : i < nextMapping
      /\ NamesDiffer(stations) /\ KeysDiffer(mappings) /\ Serves(stations)
  BY SeedAssumption DEF DeviceInit, StoreInit
<1>3. FormsServe
  BY DEF DeviceInit, AdminInit, FormsServe, NoForm
<1>4. DOMAIN sync = Syncs /\ \A s \in Syncs : Fit(sync[s])
  BY DEF DeviceInit, SyncInit, Fit
<1>5. QED
  BY <1>1, <1>2, <1>3, <1>4 DEF DeviceInv

LEMMA DeviceStep ==
  ASSUME DeviceInv, [DeviceNext]_deviceVars
  PROVE  DeviceInv'
<1>1. ASSUME NEW s \in Syncs, SyncStep(s), UNCHANGED adminVars
      PROVE  DeviceInv'
  <2>1. DOMAIN sync' = Syncs /\ \A q \in Syncs : Fit(sync'[q])
    BY <1>1, SyncStepFits
  <2>2. CASE Pull(s)
    BY <1>1, <2>1, <2>2, PullKeepsInv DEF DeviceInv
  <2>3. CASE UNCHANGED storeVars
    <3>1. /\ OldInv' /\ FormsServe'
          /\ \A i \in DOMAIN mappings' : i < nextMapping'
          /\ NamesDiffer(stations') /\ KeysDiffer(mappings') /\ Serves(stations')
      BY <1>1, <2>3 DEF DeviceInv, OldInv, EditTypeOK, StoreTypeOK, AdminTypeOK, IdsAreOld,
                        FormsServe, storeVars, tableVars, adminVars
    <3>2. QED
      BY <2>1, <3>1 DEF DeviceInv
  <2>4. QED
    BY <1>1, <2>2, <2>3 DEF SyncStep
<1>2. ASSUME NEW a \in Admins, AdminStep(a), UNCHANGED sync
      PROVE  DeviceInv'
  BY <1>2, FormKeepsInv DEF DeviceInv
<1>3. CASE UNCHANGED deviceVars
  BY <1>3 DEF DeviceInv, OldInv, EditTypeOK, StoreTypeOK, AdminTypeOK, IdsAreOld, FormsServe,
              deviceVars, storeVars, tableVars, adminVars
<1>4. QED
  BY <1>1, <1>2, <1>3 DEF DeviceNext

\* Nothing but the pull itself turns a download into a pull.
LEMMA PullOfIsPull ==
  ASSUME DeviceInv, [DeviceNext]_deviceVars, NEW s \in Syncs, PullOf(s)
  PROVE  Pull(s)
<1>1. DOMAIN sync = Syncs /\ sync[s].pc = "downloaded" /\ sync'[s].pc = "pulled"
  BY DEF DeviceInv, PullOf
<1>2. sync' # sync
  BY <1>1
<1>3. PICK q \in Syncs : SyncStep(q)
  BY <1>2 DEF DeviceNext, deviceVars
<1>4. CASE Pull(q)
  BY <1>1, <1>4 DEF Pull
<1>5. CASE ExportStations(q) \/ ExportMappings(q) \/ Download(q) \/ SyncFails(q)
  BY <1>1, <1>5 DEF ExportStations, ExportMappings, Download, SyncFails, Answer, NoSync
<1>6. CASE Upload(q)
  BY <1>1, <1>6 DEF Upload
<1>7. QED
  BY <1>3, <1>4, <1>5, <1>6 DEF SyncStep

\* The tables after a pull, exported, are the snapshot.
LEMMA PullMatchesStep ==
  ASSUME DeviceInv, NEW s \in Syncs, Pull(s)
  PROVE  SnapshotOf(stations', mappings') = sync[s].snapshot
<1> DEFINE snap == sync[s].snapshot
<1>1. PICK home : Applied(snap, home)
  BY PullApplies
<1> DEFINE rows == MappingRows(snap, home)
           kept == Kept(snap, home)
<1>2. snap = [readable |-> TRUE, stations |-> snap.stations, mappings |-> snap.mappings]
  <2>1. ASSUME NEW x, NEW y, NEW held \in [readable : BOOLEAN, stations : {x}, mappings : {y}],
               held.readable
        PROVE  held = [readable |-> TRUE, stations |-> x, mappings |-> y]
    BY <2>1
  <2>2. /\ snap \in [readable : BOOLEAN, stations : {snap.stations}, mappings : {snap.mappings}]
        /\ snap.readable
    BY <1>1 DEF Applied, IsSnapshot, ValidateSnapshot
  <2>3. QED
    BY <2>1, <2>2, Zenon
<1>3. /\ DOMAIN stations' = kept
      /\ \A t \in snap.stations : home[t] \in kept /\ stations'[home[t]] = t
      /\ \A i \in kept : stations'[i] \in snap.stations /\ home[stations'[i]] = i
  BY <1>1, StationsApplied
<1>4. /\ \A r \in rows : \E t \in snap.stations :
           r.station = home[t] /\ [r EXCEPT !.station = t.name] \in snap.mappings
      /\ \A m \in snap.mappings : \E r \in rows, t \in snap.stations :
           r.station = home[t] /\ [r EXCEPT !.station = t.name] = m
      /\ \A r \in rows : r \in Mapping /\ r.station \in kept
      /\ \A j \in DOMAIN mappings' : Left(j, kept) \/ Taken(j, rows)
      /\ \A r \in rows : \E j \in DOMAIN mappings' : mappings'[j] = r
  BY <1>1, RowsApplied, SMTT(20)
<1> HIDE DEF snap, rows, kept
<1>5. {stations'[i] : i \in DOMAIN stations'} = snap.stations
  BY <1>3
<1> DEFINE listed == {k \in DOMAIN mappings' : mappings'[k].station \in DOMAIN stations'}
           entry(j) == [mappings'[j] EXCEPT !.station = stations'[mappings'[j].station].name]
<1>6. ASSUME NEW j \in listed
      PROVE  entry(j) \in snap.mappings
  <2>1. mappings'[j] \in rows
    BY <1>3, <1>4, <1>6 DEF Left, Taken
  <2>2. PICK t \in snap.stations :
          /\ mappings'[j].station = home[t]
          /\ [mappings'[j] EXCEPT !.station = t.name] \in snap.mappings
    BY <1>4, <2>1
  <2>3. stations'[mappings'[j].station].name = t.name
    BY <1>3, <2>2
  <2>4. QED
    BY <2>2, <2>3, Zenon
<1>7. ASSUME NEW m \in snap.mappings
      PROVE  \E j \in listed : entry(j) = m
  <2>1. PICK r \in rows, t \in snap.stations :
          r.station = home[t] /\ [r EXCEPT !.station = t.name] = m
    BY <1>4
  <2>2. PICK j \in DOMAIN mappings' : mappings'[j] = r
    BY <1>4
  <2>3. stations'[mappings'[j].station].name = t.name
    BY <1>3, <2>1, <2>2
  <2>4. entry(j) = m
    BY <2>1, <2>2, <2>3, Zenon
  <2>5. j \in listed
    BY <1>3, <1>4, <2>2
  <2>6. QED
    BY <2>4, <2>5, Zenon
<1> HIDE DEF listed, entry
<1>8. {entry(j) : j \in listed} = snap.mappings
  BY <1>6, <1>7
<1>9. SnapshotOf(stations', mappings') =
        [readable |-> TRUE, stations |-> {stations'[i] : i \in DOMAIN stations'},
         mappings |-> {entry(j) : j \in listed}]
  BY Zenon DEF SnapshotOf, entry, listed
<1>10. QED
  BY <1>2, <1>5, <1>8, <1>9, Zenon DEF snap

\* Ids, mappings and statuses stay with their stations.
LEMMA PullKeepsIdentityStep ==
  ASSUME DeviceInv, NEW s \in Syncs, Pull(s)
  PROVE  KeepsIdentity(sync[s].snapshot)
<1> DEFINE snap == sync[s].snapshot
<1>1. PICK home : Applied(snap, home)
  BY PullApplies
<1> DEFINE rows == MappingRows(snap, home)
           kept == Kept(snap, home)
<1>2. /\ \A t \in snap.stations, i \in DOMAIN stations : home[t] = i <=> stations[i].name = t.name
      /\ \A t \in snap.stations : home[t] \in DOMAIN stations \/ nextStation <= home[t]
      /\ home \in [snap.stations -> Ids]
  BY <1>1, HomesAreApart DEF Applied
<1>3. /\ DOMAIN stations' = kept
      /\ \A t \in snap.stations : home[t] \in kept /\ stations'[home[t]] = t
      /\ \A i \in kept : stations'[i] \in snap.stations /\ home[stations'[i]] = i
  BY <1>1, StationsApplied
<1>4. /\ \A r \in rows : r.station \in kept
      /\ \A j \in DOMAIN mappings' : Left(j, kept) \/ Taken(j, rows)
  BY <1>1, RowsApplied
<1>5. statuses' = Without(statuses, DOMAIN stations \ kept)
  BY <1>1 DEF Applied, DropStations
<1>6. /\ nextStation \in Nat
      /\ \A i \in DOMAIN stations : i \in Nat /\ i < nextStation
      /\ \A i \in DOMAIN statuses : i < nextStation
  BY DeviceTables
<1> HIDE DEF snap, rows, kept
<1>7. ASSUME NEW i \in DOMAIN stations, NEW t \in snap.stations, t.name = stations[i].name
      PROVE  /\ i \in DOMAIN stations' /\ stations'[i].name = stations[i].name
             /\ StatusOf(statuses', i) = StatusOf(statuses, i)
             /\ \A j \in DOMAIN mappings, k \in DOMAIN mappings' :
                  mappings[j].station = i /\ SameKey(mappings[j], mappings'[k]) => j = k
  <2>1. home[t] = i
    BY <1>2, <1>7
  <2>2. i \in kept /\ stations'[i] = t
    BY <1>3, <2>1
  <2>3. StatusOf(statuses', i) = StatusOf(statuses, i)
    BY <1>5, <2>2 DEF StatusOf, Without
  <2>4. ASSUME NEW j \in DOMAIN mappings, NEW k \in DOMAIN mappings',
               mappings[j].station = i, SameKey(mappings[j], mappings'[k])
        PROVE  j = k
    <3>1. mappings'[k].station \in kept
      BY <2>2, <2>4 DEF SameKey
    <3>2. Taken(k, rows)
      BY <1>4, <3>1 DEF Left
    <3>3. QED
      BY <2>4, <3>2 DEF Taken
  <2>5. QED
    BY <1>3, <1>7, <2>2, <2>3, <2>4
<1>8. ASSUME NEW i \in DOMAIN stations, ~ \E t \in snap.stations : t.name = stations[i].name
      PROVE  /\ i \notin DOMAIN stations' \cup DOMAIN statuses'
             /\ \A k \in DOMAIN mappings' : mappings'[k].station # i
  <2>1. i \notin kept
    BY <1>2, <1>3, <1>8
  <2>2. i \notin DOMAIN statuses'
    BY <1>5, <2>1 DEF Without
  <2>3. ASSUME NEW k \in DOMAIN mappings'
        PROVE  mappings'[k].station # i
    BY <1>4, <2>1 DEF Left, Taken
  <2>4. QED
    BY <1>3, <2>1, <2>2, <2>3
<1>9. ASSUME NEW i \in DOMAIN stations' \ DOMAIN stations
      PROVE  i \notin DOMAIN statuses'
  <2>1. nextStation <= i /\ i \in Ids
    BY <1>2, <1>3
  <2>2. i \notin DOMAIN statuses
    BY <1>6, <2>1, IdsAreNat
  <2>3. QED
    BY <1>5, <2>2 DEF Without
<1>10. QED
  BY <1>7, <1>8, <1>9 DEF snap, KeepsIdentity

-----------------------------------------------------------------------------
(* Theorems *)

\* The configuration a device starts with is one that forms could have made.
SeedFits ==
  /\ NamesDiffer(SeedStations) /\ Serves(SeedStations) /\ KeysDiffer(SeedMappings)
  /\ \A i \in DOMAIN SeedMappings : SeedMappings[i].station < SeedNextStation

LEMMA DeviceAlways ==
  ASSUME SeedFits
  PROVE  DeviceSpec => []DeviceInv
<1>1. DeviceInit => DeviceInv
  BY DeviceInitially DEF SeedFits
<1>2. DeviceInv /\ [DeviceNext]_deviceVars => DeviceInv'
  BY DeviceStep
<1>3. QED
  BY <1>1, <1>2, PTL DEF DeviceSpec

\* Type correctness: forms and pulls of any snapshot together leave only well-formed
\* rows under ids of the right kind (store.go, configsync.go).
THEOREM DeviceTypeCorrect ==
  ASSUME SeedFits
  PROVE  DeviceSpec => []DeviceTypeOK
<1>1. DeviceInv => DeviceTypeOK
  BY DEF DeviceInv, OldInv, Fit, SyncTypeOK, DeviceTypeOK
<1>2. QED
  BY <1>1, DeviceAlways, PTL

\* No interleaving of forms and pulls gives two stations one name, or two mappings
\* one key (the constraints of schema.go behind the forms, the tables of ids by name
\* and by key in ApplyConfigSnapshot).
THEOREM DeviceKeysUnique ==
  ASSUME SeedFits
  PROVE  DeviceSpec => []KeysUnique
<1>1. DeviceInv => KeysUnique
  BY DEF DeviceInv, NamesDiffer, KeysDiffer, KeysUnique
<1>2. QED
  BY <1>1, DeviceAlways, PTL

\* Whatever happens between its two reads, an export is a snapshot that every device
\* accepts (ExportConfigSnapshot, ValidateSnapshot).
THEOREM ExportsAreValidHolds ==
  ASSUME SeedFits
  PROVE  DeviceSpec => []ExportsAreValid
<1>1. DeviceInv => ExportsAreValid
  BY DEF DeviceInv, Fit, NoSync, Pulled, ExportsAreValid
<1>2. QED
  BY <1>1, DeviceAlways, PTL

\* After a pull the tables are the snapshot's, whichever rows and forms were there
\* (ApplyConfigSnapshot).
THEOREM PullMatchesHolds ==
  ASSUME SeedFits
  PROVE  DeviceSpec => PullMatches
<1>1. ASSUME DeviceInv, [DeviceNext]_deviceVars
      PROVE  [\A s \in Syncs : PullOf(s)
                => SnapshotOf(stations', mappings') = sync[s].snapshot]_deviceVars
  BY <1>1, PullOfIsPull, PullMatchesStep
<1>2. QED
  BY <1>1, DeviceAlways, PTL DEF DeviceSpec, PullMatches

\* A pull leaves every id, mapping and status with the station it belonged to
\* (ApplyConfigSnapshot).
THEOREM PullKeepsIdentityHolds ==
  ASSUME SeedFits
  PROVE  DeviceSpec => PullKeepsIdentity
<1>1. ASSUME DeviceInv, [DeviceNext]_deviceVars
      PROVE  [\A s \in Syncs : PullOf(s) => KeepsIdentity(sync[s].snapshot)]_deviceVars
  BY <1>1, PullOfIsPull, PullKeepsIdentityStep
<1>2. QED
  BY <1>1, DeviceAlways, PTL DEF DeviceSpec, PullKeepsIdentity
=============================================================================
