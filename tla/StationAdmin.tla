---------------------------- MODULE StationAdmin ----------------------------
(***************************************************************************)
(* internal/admin/handlers.go and the statements it runs: the forms that   *)
(* create, edit and delete stations and mappings.  A form that must not    *)
(* collide, or must name a station that exists, is checked by one          *)
(* statement and written by a later one; a rejected form changes nothing.  *)
(***************************************************************************)
EXTENDS StationStore

CONSTANTS Admins,         \* admin requests that may be under way at the same time
          StationForms,   \* the station forms that are submitted
          MappingForms    \* the mapping forms that are submitted

\* parseStationForm lets no other form through; a checked form has no threshold
\* that the saturating counters could not reach.
ValidStationForm(form) ==
  /\ form.protocols # {}
  /\ form.priority >= 0
  /\ form.cooldown > 0
  /\ form.failureThreshold \in 1 .. CountCap
  /\ form.recoveryThreshold \in 1 .. CountCap

ASSUME FormsAssumption == /\ StationForms \subseteq Station
                          /\ MappingForms \subseteq Mapping

VARIABLE admin   \* per admin request: the form that passed its check, or none

adminVars == <<admin>>

NoForm == [kind |-> "none"]

AdminInit == admin = [a \in Admins |-> NoForm]

NameTaken(name, exceptId) == \E id \in DOMAIN stations \ {exceptId} : stations[id].name = name

SameKey(m, n) == m.station = n.station /\ m.protocol = n.protocol /\ m.alias = n.alias

Hold(a, form) == admin[a] = NoForm /\ admin' = [admin EXCEPT ![a] = form]
Release(a) == admin' = [admin EXCEPT ![a] = NoForm]

-----------------------------------------------------------------------------
(* The checks *)

\* stationNameExists; a read that fails counts as "no".
CheckNewStation(a) ==
  /\ \E form \in StationForms :
       /\ ValidStationForm(form)
       /\ ~ NameTaken(form.name, 0) \/ DBFaults
       /\ Hold(a, [kind |-> "createStation", row |-> form])
  /\ UNCHANGED storeVars

CheckEditedStation(a) ==
  /\ \E form \in StationForms, id \in Ids :
       /\ ValidStationForm(form)
       /\ ~ NameTaken(form.name, id) \/ DBFaults
       /\ Hold(a, [kind |-> "updateStation", id |-> id, row |-> form])
  /\ UNCHANGED storeVars

\* stationExists, in the handler and again in the store: the last look counts.
CheckNewMapping(a) ==
  /\ \E form \in MappingForms :
       /\ form.station \in DOMAIN stations
       /\ Hold(a, [kind |-> "upsertMapping", row |-> form])
  /\ UNCHANGED storeVars

\* Mutant: the form is handed to the wrong statement.
CheckEditedMapping_WrongForm(a) ==
  /\ \E form \in MappingForms, id \in Ids :
       /\ form.station \in DOMAIN stations
       /\ Hold(a, [kind |-> "updateStation", id |-> id, row |-> form])
  /\ UNCHANGED storeVars

CheckEditedMapping(a) ==
  /\ \E form \in MappingForms, id \in Ids :
       /\ form.station \in DOMAIN stations
       /\ Hold(a, [kind |-> "updateMapping", id |-> id, row |-> form])
  /\ UNCHANGED storeVars

-----------------------------------------------------------------------------
(* The writes *)

\* INSERT INTO stations: AUTOINCREMENT id, UNIQUE name.  Bound: no id beyond Ids
\* is given out, here and in UpsertMapping.
CreateStation(a) ==
  /\ admin[a].kind = "createStation"
  /\ Release(a)
  /\ IF ~ NameTaken(admin[a].row.name, 0) /\ nextStation \in Ids
     THEN /\ stations' = Put(stations, nextStation, admin[a].row)
          /\ nextStation' = nextStation + 1
     ELSE UNCHANGED <<stations, nextStation>>
  /\ UNCHANGED <<mappings, nextMapping, statuses, now, tally, faulted>>

\* Mutant: no UNIQUE constraint, the check alone.
UpdateStation_TrustsCheck(a) ==
  /\ admin[a].kind = "updateStation"
  /\ Release(a)
  /\ stations' = IF admin[a].id \in DOMAIN stations
                 THEN Put(stations, admin[a].id, admin[a].row) ELSE stations
  /\ UNCHANGED <<mappings, nextStation, nextMapping, statuses, now, tally, faulted>>

\* UPDATE stations: nothing for a missing id, an error for a taken name.
UpdateStation(a) ==
  /\ admin[a].kind = "updateStation"
  /\ Release(a)
  /\ LET id == admin[a].id
     IN  IF id \in DOMAIN stations /\ ~ NameTaken(admin[a].row.name, id)
         THEN stations' = Put(stations, id, admin[a].row)
         ELSE UNCHANGED stations
  /\ UNCHANGED <<mappings, nextStation, nextMapping, statuses, now, tally, faulted>>

Without(table, ids) == [i \in DOMAIN table \ ids |-> table[i]]

\* Mutant: the id is given out again (a rowid without AUTOINCREMENT).
DeleteStation_FreesId(id) ==
  /\ id \in DOMAIN stations
  /\ mappings' = Without(mappings, {i \in DOMAIN mappings : mappings[i].station = id})
  /\ statuses' = Without(statuses, {id})
  /\ tally' = Without(tally, {id})
  /\ stations' = Without(stations, {id})
  /\ nextStation' = IF nextStation = id + 1 THEN id ELSE nextStation
  /\ UNCHANGED <<nextMapping, now, faulted, admin>>

\* One transaction: the mappings, the status and the station; rolled back when
\* there is no such station.
DeleteStation(id) ==
  /\ id \in DOMAIN stations
  /\ mappings' = Without(mappings, {i \in DOMAIN mappings : mappings[i].station = id})
  /\ statuses' = Without(statuses, {id})
  /\ tally' = Without(tally, {id})
  /\ stations' = Without(stations, {id})
  /\ UNCHANGED <<nextStation, nextMapping, now, faulted, admin>>

\* INSERT ... ON CONFLICT(station_id, protocol, alias) DO UPDATE.  No foreign key.
\* AUTOINCREMENT uses up an id even when the conflict turns the insert into an update.
UpsertMapping(a) ==
  LET form == admin[a].row
      same == {i \in DOMAIN mappings : SameKey(mappings[i], form)}
  IN  /\ admin[a].kind = "upsertMapping"
      /\ Release(a)
      /\ mappings' = IF same = {} /\ nextMapping \in Ids
                     THEN Put(mappings, nextMapping, form)
                     ELSE [i \in DOMAIN mappings |-> IF i \in same THEN form ELSE mappings[i]]
      /\ nextMapping' = IF nextMapping \in Ids THEN nextMapping + 1 ELSE nextMapping
      /\ UNCHANGED <<stations, nextStation, statuses, now, tally, faulted>>

\* UPDATE model_mappings: nothing for a missing id, an error for a key in use.
UpdateMapping(a) ==
  LET form == admin[a].row
      id   == admin[a].id
  IN  /\ admin[a].kind = "updateMapping"
      /\ Release(a)
      /\ IF /\ id \in DOMAIN mappings
            /\ \A i \in DOMAIN mappings \ {id} : ~ SameKey(mappings[i], form)
         THEN mappings' = Put(mappings, id, form)
         ELSE UNCHANGED mappings
      /\ UNCHANGED <<stations, nextStation, nextMapping, statuses, now, tally, faulted>>

DeleteMapping(id) ==
  /\ id \in DOMAIN mappings
  /\ mappings' = Without(mappings, {id})
  /\ UNCHANGED <<stations, nextStation, nextMapping, statuses, now, tally, faulted, admin>>

\* A write that fails leaves the form unanswered and the tables alone.
WriteFails(a) ==
  /\ admin[a] # NoForm
  /\ DBFaults
  /\ Release(a)
  /\ UNCHANGED storeVars

AdminStep(a) ==
  \/ CheckNewStation(a) \/ CheckEditedStation(a) \/ CheckNewMapping(a) \/ CheckEditedMapping(a)
  \/ CreateStation(a) \/ UpdateStation(a) \/ UpsertMapping(a) \/ UpdateMapping(a)
  \/ WriteFails(a)
  \/ \E id \in DOMAIN stations : DeleteStation(id)
  \/ \E id \in DOMAIN mappings : DeleteMapping(id)

editVars == <<storeVars, adminVars>>

EditInit == StoreInit /\ AdminInit

EditNext == \E a \in Admins : AdminStep(a)

EditSpec == EditInit /\ [][EditNext]_editVars

-----------------------------------------------------------------------------
(* Properties *)

AdminTypeOK ==
  \A a \in Admins :
    \/ admin[a] = NoForm
    \/ admin[a] \in [kind : {"createStation"}, row : Station]
    \/ admin[a] \in [kind : {"updateStation"}, id : Ids, row : Station]
    \/ admin[a] \in [kind : {"upsertMapping"}, row : Mapping]
    \/ admin[a] \in [kind : {"updateMapping"}, id : Ids, row : Mapping]

EditTypeOK == StoreTypeOK /\ AdminTypeOK

\* Two forms checked at the same time never leave two stations with one name, nor
\* two mappings of one station for the same protocol and alias: the name check is
\* only advisory, the UNIQUE constraints decide (CreateStation, UpdateStation,
\* UpsertModelMapping, UpdateModelMapping).
KeysUnique ==
  /\ \A i, j \in DOMAIN stations : stations[i].name = stations[j].name => i = j
  /\ \A i, j \in DOMAIN mappings : SameKey(mappings[i], mappings[j]) => i = j

\* A row about a station, kept or left behind, only ever speaks of an id already
\* given out; ids are not given twice, so no leftover speaks of a later station.
IdsAreOld ==
  /\ \A id \in DOMAIN stations \cup DOMAIN statuses : id < nextStation
  /\ \A i \in DOMAIN mappings : mappings[i].station < nextStation

\* A station that is created starts clean: whatever a request, a probe or a form
\* wrote late about a deleted station, no status and no mapping is attached to the
\* new one (AUTOINCREMENT in schema.go against the blind upserts of store.go).
NewStationStartsClean ==
  [][\A id \in DOMAIN stations' \ DOMAIN stations :
       /\ id \notin DOMAIN statuses'
       /\ \A i \in DOMAIN mappings' : mappings'[i].station # id]_storeVars
=============================================================================
