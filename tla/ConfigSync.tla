----------------------------- MODULE ConfigSync -----------------------------
(***************************************************************************)
(* internal/storage/sqlite/configsync.go, internal/configsync/snapshot.go  *)
(* and the sync handlers of internal/admin: a device exports its stations  *)
(* and mappings as a snapshot, and replaces them by a snapshot it pulled,  *)
(* while forms edit them.  An export reads in two statements; an apply is  *)
(* one transaction.  Which snapshot a pull finds in the remote directory   *)
(* is SyncDirectory's business: here, any.                                 *)
(***************************************************************************)
EXTENDS StationAdmin

CONSTANTS Syncs,          \* sync requests that may be under way at the same time
          Foreign         \* the snapshots that other devices have uploaded

VARIABLE sync             \* per sync request: its pc and what it holds

SnapshotMapping == [station: Names, protocol: Protocols, alias: Aliases, enabled: BOOLEAN]

\* Lists with unique names and keys are sets.  "readable" stands for the JSON and
\* schema_version checks of DecodeSnapshot.
IsSnapshot(snap) ==
  /\ snap \in [readable : BOOLEAN, stations : {snap.stations}, mappings : {snap.mappings}]
  /\ snap.stations \subseteq Station /\ IsFiniteSet(snap.stations)
  /\ snap.mappings \subseteq SnapshotMapping

ASSUME ForeignAssumption == \A snap \in Foreign : IsSnapshot(snap)

\* Thresholds, priority and cooldown are not looked at.
ValidateSnapshot(snap) ==
  /\ snap.readable
  /\ \A s \in snap.stations : s.protocols # {}
  /\ \A s, t \in snap.stations : s.name = t.name => s = t
  /\ \A m \in snap.mappings : /\ \E s \in snap.stations : s.name = m.station
                              /\ \A n \in snap.mappings : SameKey(m, n) => m = n

\* What an export makes of the two listings: a mapping whose station is not
\* listed is passed over.
SnapshotOf(st, maps) ==
  [readable |-> TRUE,
   stations |-> {st[i] : i \in DOMAIN st},
   mappings |-> {[maps[j] EXCEPT !.station = st[maps[j].station].name] :
                   j \in {k \in DOMAIN maps : maps[k].station \in DOMAIN st}}]

-----------------------------------------------------------------------------
(* Export and upload *)

NoSync == [pc |-> "idle"]
Pulled == [pc |-> "pulled"]

Ready(s) == sync[s].pc \in {"idle", "uploaded", "pulled"}

SyncInit == sync = [s \in Syncs |-> NoSync]

Answer(s) == sync' = [sync EXCEPT ![s] = NoSync]

\* What may be found in the remote directory; of its own uploads, the last of each
\* request.
Remote == Foreign \cup {sync[s].snapshot : s \in {t \in Syncs : sync[t].pc = "uploaded"}}

ExportStations(s) ==
  /\ Ready(s)
  /\ sync' = [sync EXCEPT ![s] = [pc |-> "listed", stations |-> stations]]

\* Mutant: mappings are named by the stations of now, listed ones or not.
ExportMappings_Rereads(s) ==
  /\ sync[s].pc = "listed"
  /\ sync' = [sync EXCEPT ![s] =
       [pc |-> "exported",
        snapshot |-> [SnapshotOf(sync[s].stations, <<>>) EXCEPT
                        !.mappings = SnapshotOf(stations, mappings).mappings]]]

ExportMappings(s) ==
  /\ sync[s].pc = "listed"
  /\ sync' = [sync EXCEPT ![s] =
       [pc |-> "exported", snapshot |-> SnapshotOf(sync[s].stations, mappings)]]

\* EncodeSnapshot refuses what it would not decode.
Upload(s) ==
  /\ sync[s].pc = "exported"
  /\ ValidateSnapshot(sync[s].snapshot)
  /\ sync' = [sync EXCEPT ![s].pc = "uploaded"]

-----------------------------------------------------------------------------
(* Download and apply *)

Download(s) ==
  /\ Ready(s)
  /\ \E snap \in Remote :
       sync' = [sync EXCEPT ![s] = [pc |-> "downloaded", snapshot |-> snap]]

\* The rows of the snapshot's stations: the same id for the same name, the next
\* ids of the sequence, in the order of its list, for the others.
Homes(snap) ==
  LET fresh == {s \in snap.stations : ~ NameTaken(s.name, 0)}
      next  == nextStation .. (nextStation + Cardinality(fresh) - 1)
  IN  {home \in [snap.stations -> Ids] :
         /\ \A s \in fresh : home[s] \in next
         /\ \A s \in snap.stations \ fresh : \E i \in DOMAIN stations :
              stations[i].name = s.name /\ home[s] = i
         /\ \A s, t \in fresh : home[s] = home[t] => s = t}

\* Mutant: a station deleted by the snapshot keeps its status row.
DropStations_KeepsStatus(kept) ==
  /\ UNCHANGED <<statuses, tally>>

DropStations(kept) ==
  LET gone == DOMAIN stations \ kept
  IN  statuses' = Without(statuses, gone) /\ tally' = Without(tally, gone)

\* Mutant: mappings the snapshot does not have are left alone.
ApplyMappings_KeepsMissing(rows, kept) ==
  LET left == {i \in DOMAIN mappings : mappings[i].station \in kept \/ mappings[i].station \notin DOMAIN stations}
      new  == {r \in rows : \A i \in left : ~ SameKey(mappings[i], r)}
      next == nextMapping .. (nextMapping + Cardinality(new) - 1)
  IN  \E place \in [new -> next \cap Ids] :
        /\ \A r, q \in new : place[r] = place[q] => r = q
        /\ nextMapping' = nextMapping + Cardinality(new)
        /\ mappings' = [i \in left \cup {place[r] : r \in new} |->
             IF i \in left
             THEN IF \E r \in rows : SameKey(mappings[i], r)
                  THEN CHOOSE r \in rows : SameKey(mappings[i], r) ELSE mappings[i]
             ELSE CHOOSE r \in new : place[r] = i]

\* The mappings of the deleted stations go, then those of the kept stations that
\* the snapshot does not have; a row with a key of the snapshot is updated, a key
\* without a row is inserted.  A row of no station is left alone.
ApplyMappings(rows, kept) ==
  LET orphans == {i \in DOMAIN mappings : mappings[i].station \notin DOMAIN stations \cup kept}
      updated == {i \in DOMAIN mappings : \E r \in rows : SameKey(mappings[i], r)}
      new     == {r \in rows : \A i \in updated : ~ SameKey(mappings[i], r)}
      next    == nextMapping .. (nextMapping + Cardinality(new) - 1)
  IN  \E place \in [new -> next \cap Ids] :
        /\ \A r, q \in new : place[r] = place[q] => r = q
        /\ nextMapping' = nextMapping + Cardinality(new)
        /\ mappings' = [i \in orphans \cup updated \cup {place[r] : r \in new} |->
             IF i \in orphans THEN mappings[i]
             ELSE IF i \in updated THEN CHOOSE r \in rows : SameKey(mappings[i], r)
             ELSE CHOOSE r \in new : place[r] = i]

\* The mapping rows of the snapshot, its stations living at home.
MappingRows(snap, home) ==
  {[m EXCEPT !.station = home[CHOOSE s \in snap.stations : s.name = m.station]] :
     m \in snap.mappings}

\* Bound: an apply that would need an id beyond Ids does not happen.
ApplySnapshot(snap) ==
  \E home \in Homes(snap) :
    LET kept == {home[s] : s \in snap.stations}
    IN  /\ stations' = [i \in kept |-> CHOOSE s \in snap.stations : home[s] = i]
        /\ nextStation' = nextStation
                            + Cardinality({s \in snap.stations : ~ NameTaken(s.name, 0)})
        /\ DropStations(kept)
        /\ ApplyMappings(MappingRows(snap, home), kept)

Pull(s) ==
  /\ sync[s].pc = "downloaded"
  /\ ValidateSnapshot(sync[s].snapshot)
  /\ ApplySnapshot(sync[s].snapshot)
  /\ sync' = [sync EXCEPT ![s] = Pulled]
  /\ UNCHANGED <<now, faulted>>

\* The snapshot is refused, a statement or a call fails, or the browser hangs up: a
\* transaction is rolled back.
SyncFails(s) ==
  /\ sync[s].pc \in {"listed", "exported", "downloaded"}
  /\ Answer(s)

SyncStep(s) ==
  \/ /\ \/ ExportStations(s) \/ ExportMappings(s) \/ Upload(s)
        \/ Download(s) \/ SyncFails(s)
     /\ UNCHANGED storeVars
  \/ Pull(s)

-----------------------------------------------------------------------------
(* A device: the sync requests and the forms *)

deviceVars == <<storeVars, adminVars, sync>>

DeviceInit == StoreInit /\ AdminInit /\ SyncInit

DeviceNext == \/ \E s \in Syncs : SyncStep(s) /\ UNCHANGED adminVars
              \/ \E a \in Admins : AdminStep(a) /\ UNCHANGED sync

DeviceSpec == DeviceInit /\ [][DeviceNext]_deviceVars

-----------------------------------------------------------------------------
(* Properties *)

SyncTypeOK ==
  /\ DOMAIN sync = Syncs
  /\ \A s \in Syncs :
       \/ sync[s] \in {NoSync, Pulled}
       \/ /\ sync[s].pc = "listed"
          /\ sync[s] \in [pc : {"listed"}, stations : {sync[s].stations}]
          /\ IsTable(sync[s].stations, Station)
       \/ /\ sync[s].pc \in {"exported", "uploaded", "downloaded"}
          /\ sync[s] \in [pc : {sync[s].pc}, snapshot : {sync[s].snapshot}]
          /\ IsSnapshot(sync[s].snapshot)

DeviceTypeOK == EditTypeOK /\ SyncTypeOK

\* What a device exports, it and every other device will accept: whatever forms and
\* pulls did before and between the two listings, names and keys are unique in it,
\* every mapping names a listed station, every station has a protocol
\* (ExportConfigSnapshot against ValidateSnapshot, called by EncodeSnapshot).
ExportsAreValid == \A s \in Syncs : sync[s].pc = "exported" => ValidateSnapshot(sync[s].snapshot)

PullOf(s) == sync[s].pc = "downloaded" /\ sync'[s].pc = "pulled"

\* "Treat the remote snapshot as authoritative": after a pull the tables, exported
\* again at once, give the snapshot back, whichever rows were there before and
\* whichever form was under way (docs/usage.md, ApplyConfigSnapshot).  Mappings of no
\* station are not exported, and not seen by a request.
PullMatches ==
  [][\A s \in Syncs : PullOf(s) => SnapshotOf(stations', mappings') = sync[s].snapshot]_deviceVars

KeepsIdentity(snap) ==
  /\ \A i \in DOMAIN stations :
       IF \E t \in snap.stations : t.name = stations[i].name
       THEN /\ i \in DOMAIN stations' /\ stations'[i].name = stations[i].name
            /\ StatusOf(statuses', i) = StatusOf(statuses, i)
            /\ \A j \in DOMAIN mappings, k \in DOMAIN mappings' :
                 mappings[j].station = i /\ SameKey(mappings[j], mappings'[k]) => j = k
       ELSE /\ i \notin DOMAIN stations' \cup DOMAIN statuses'
            /\ \A k \in DOMAIN mappings' : mappings'[k].station # i
  /\ \A i \in DOMAIN stations' \ DOMAIN stations : i \notin DOMAIN statuses'

\* "The sync snapshot excludes status": a pull hands no runtime status from one
\* station to another.  A station of a name on both sides keeps its id and its
\* status row, and its mappings of a key on both sides keep theirs; of a station that
\* goes nothing stays; a station that comes has no status (ApplyConfigSnapshot).
PullKeepsIdentity ==
  [][\A s \in Syncs : PullOf(s) => KeepsIdentity(sync[s].snapshot)]_deviceVars
=============================================================================
