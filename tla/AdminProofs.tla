----------------------------- MODULE AdminProofs -----------------------------
(***************************************************************************)
(* Theorems about StationAdmin: any number of forms under way, any forms,  *)
(* any interleaving of their checks and writes.                            *)
(***************************************************************************)
EXTENDS StationAdmin, StoreProofs

-----------------------------------------------------------------------------
(* Type correctness *)

LEMMA WithoutType ==
  ASSUME NEW Row, NEW table, IsTable(table, Row), NEW ids
  PROVE  IsTable(Without(table, ids), Row)
BY DEF IsTable, Without

\* What a step may do to the tables, and no more.
LEMMA TablesType ==
  ASSUME StoreTypeOK,
         IsTable(stations', Station), IsTable(mappings', Mapping),
         statuses' = statuses /\ tally' = tally,
         nextStation' \in Nat, nextMapping' \in Nat, UNCHANGED <<now, faulted>>
  PROVE  StoreTypeOK'
BY DEF StoreTypeOK

LEMMA HoldType ==
  ASSUME AdminTypeOK, NEW a \in Admins, NEW form, Hold(a, form),
         \/ form \in [kind : {"createStation"}, row : Station]
         \/ form \in [kind : {"updateStation"}, id : Ids, row : Station]
         \/ form \in [kind : {"upsertMapping"}, row : Mapping]
         \/ form \in [kind : {"updateMapping"}, id : Ids, row : Mapping]
  PROVE  AdminTypeOK'
BY DEF AdminTypeOK, Hold

LEMMA ReleaseType ==
  ASSUME AdminTypeOK, NEW a \in Admins, Release(a)
  PROVE  AdminTypeOK'
BY DEF AdminTypeOK, Release

LEMMA FormType ==
  ASSUME AdminTypeOK, NEW a \in Admins
  PROVE  /\ admin[a].kind \in {"createStation", "updateStation"} => admin[a].row \in Station
         /\ admin[a].kind \in {"upsertMapping", "updateMapping"} => admin[a].row \in Mapping
         /\ admin[a].kind \in {"updateStation", "updateMapping"} => admin[a].id \in Ids
<1> DEFINE form == admin[a]
<1>1. CASE form = NoForm
  BY <1>1 DEF NoForm
<1>2. CASE form \in [kind : {"createStation"}, row : Station]
  BY <1>2
<1>3. CASE form \in [kind : {"updateStation"}, id : Ids, row : Station]
  BY <1>3
<1>4. CASE form \in [kind : {"upsertMapping"}, row : Mapping]
  BY <1>4
<1>5. CASE form \in [kind : {"updateMapping"}, id : Ids, row : Mapping]
  BY <1>5
<1>6. QED
  BY <1>1, <1>2, <1>3, <1>4, <1>5 DEF AdminTypeOK

LEMMA CheckTypes ==
  ASSUME EditTypeOK, NEW a \in Admins,
         \/ CheckNewStation(a) \/ CheckEditedStation(a)
         \/ CheckNewMapping(a) \/ CheckEditedMapping(a)
  PROVE  EditTypeOK'
<1>1. StoreTypeOK'
  BY DEF EditTypeOK, StoreTypeOK, CheckNewStation, CheckEditedStation, CheckNewMapping,
         CheckEditedMapping, storeVars, tableVars
<1>2. AdminTypeOK
  BY DEF EditTypeOK
<1>3. CASE CheckNewStation(a)
  <2>1. PICK form \in StationForms : Hold(a, [kind |-> "createStation", row |-> form])
    BY <1>3 DEF CheckNewStation
  <2>2. AdminTypeOK'
    BY <1>2, <2>1, FormsAssumption, HoldType
  <2>3. QED
    BY <1>1, <2>2 DEF EditTypeOK
<1>4. CASE CheckEditedStation(a)
  <2>1. PICK form \in StationForms, id \in Ids :
          Hold(a, [kind |-> "updateStation", id |-> id, row |-> form])
    BY <1>4 DEF CheckEditedStation
  <2>2. AdminTypeOK'
    BY <1>2, <2>1, FormsAssumption, HoldType
  <2>3. QED
    BY <1>1, <2>2 DEF EditTypeOK
<1>5. CASE CheckNewMapping(a)
  <2>1. PICK form \in MappingForms : Hold(a, [kind |-> "upsertMapping", row |-> form])
    BY <1>5 DEF CheckNewMapping
  <2>2. AdminTypeOK'
    BY <1>2, <2>1, FormsAssumption, HoldType
  <2>3. QED
    BY <1>1, <2>2 DEF EditTypeOK
<1>6. CASE CheckEditedMapping(a)
  <2>1. PICK form \in MappingForms, id \in Ids :
          Hold(a, [kind |-> "updateMapping", id |-> id, row |-> form])
    BY <1>6 DEF CheckEditedMapping
  <2>2. AdminTypeOK'
    BY <1>2, <2>1, FormsAssumption, HoldType
  <2>3. QED
    BY <1>1, <2>2 DEF EditTypeOK
<1>7. QED
  BY <1>3, <1>4, <1>5, <1>6

LEMMA WriteTypes ==
  ASSUME EditTypeOK, NEW a \in Admins,
         \/ CreateStation(a) \/ UpdateStation(a) \/ UpsertMapping(a) \/ UpdateMapping(a)
         \/ WriteFails(a)
  PROVE  EditTypeOK'
<1>1. StoreTypeOK /\ AdminTypeOK
  BY DEF EditTypeOK
<1>2. AdminTypeOK'
  BY <1>1, ReleaseType DEF CreateStation, UpdateStation, UpsertMapping, UpdateMapping, WriteFails
<1>3. /\ IsTable(stations, Station) /\ IsTable(mappings, Mapping)
      /\ nextStation \in Nat /\ nextMapping \in Nat
  BY <1>1 DEF StoreTypeOK
<1>4. CASE CreateStation(a)
  <2>1. admin[a].row \in Station
    BY <1>1, <1>4, FormType DEF CreateStation
  <2>2. nextStation \in Ids => IsTable(Put(stations, nextStation, admin[a].row), Station)
    BY <1>3, <2>1, PutType
  <2>3. StoreTypeOK'
    BY <1>1, <1>3, <1>4, <2>2, TablesType DEF CreateStation
  <2>4. QED
    BY <1>2, <2>3 DEF EditTypeOK
<1>5. CASE UpdateStation(a)
  <2>1. admin[a].row \in Station /\ admin[a].id \in Ids
    BY <1>1, <1>5, FormType DEF UpdateStation
  <2>2. IsTable(Put(stations, admin[a].id, admin[a].row), Station)
    BY <1>3, <2>1, PutType
  <2>3. StoreTypeOK'
    BY <1>1, <1>3, <1>5, <2>2, TablesType DEF UpdateStation
  <2>4. QED
    BY <1>2, <2>3 DEF EditTypeOK
<1>6. CASE UpsertMapping(a)
  <2>1. admin[a].row \in Mapping
    BY <1>1, <1>6, FormType DEF UpsertMapping
  <2> DEFINE same == {i \in DOMAIN mappings : SameKey(mappings[i], admin[a].row)}
  <2>2. IsTable([i \in DOMAIN mappings |-> IF i \in same THEN admin[a].row ELSE mappings[i]], Mapping)
    BY <1>3, <2>1 DEF IsTable
  <2>3. nextMapping \in Ids => IsTable(Put(mappings, nextMapping, admin[a].row), Mapping)
    BY <1>3, <2>1, PutType
  <2>4. StoreTypeOK'
    BY <1>1, <1>3, <1>6, <2>2, <2>3, TablesType DEF UpsertMapping
  <2>5. QED
    BY <1>2, <2>4 DEF EditTypeOK
<1>7. CASE UpdateMapping(a)
  <2>1. admin[a].row \in Mapping /\ admin[a].id \in Ids
    BY <1>1, <1>7, FormType DEF UpdateMapping
  <2>2. IsTable(Put(mappings, admin[a].id, admin[a].row), Mapping)
    BY <1>3, <2>1, PutType
  <2>3. StoreTypeOK'
    BY <1>1, <1>3, <1>7, <2>2, TablesType DEF UpdateMapping
  <2>4. QED
    BY <1>2, <2>3 DEF EditTypeOK
<1>8. CASE WriteFails(a)
  <2>1. StoreTypeOK'
    BY <1>1, <1>8 DEF WriteFails, StoreTypeOK, storeVars, tableVars
  <2>2. QED
    BY <1>2, <2>1 DEF EditTypeOK
<1>9. QED
  BY <1>4, <1>5, <1>6, <1>7, <1>8

LEMMA DeleteTypes ==
  ASSUME EditTypeOK, NEW id, DeleteStation(id) \/ DeleteMapping(id)
  PROVE  EditTypeOK'
<1>1. AdminTypeOK'
  BY DEF EditTypeOK, AdminTypeOK, DeleteStation, DeleteMapping
<1>2. StoreTypeOK
  BY DEF EditTypeOK
<1>3. CASE DeleteStation(id)
  <2>1. /\ IsTable(stations', Station) /\ IsTable(mappings', Mapping)
        /\ IsTable(statuses', Status)
        /\ IsTable(tally', [failures : 0 .. CountCap, recoveries : 0 .. CountCap])
    BY <1>2, <1>3, WithoutType DEF DeleteStation, StoreTypeOK
  <2>2. QED
    BY <1>1, <1>2, <1>3, <2>1 DEF EditTypeOK, StoreTypeOK, DeleteStation
<1>4. CASE DeleteMapping(id)
  <2>1. IsTable(mappings', Mapping)
    BY <1>2, <1>4, WithoutType DEF DeleteMapping, StoreTypeOK
  <2>2. QED
    BY <1>1, <1>2, <1>4, <2>1 DEF EditTypeOK, StoreTypeOK, DeleteMapping
<1>5. QED
  BY <1>3, <1>4

LEMMA EditInitType ==
  ASSUME EditInit
  PROVE  EditTypeOK
BY StoreInitType DEF EditInit, AdminInit, EditTypeOK, AdminTypeOK

LEMMA EditNextType ==
  ASSUME EditTypeOK, [EditNext]_editVars
  PROVE  EditTypeOK'
<1>1. CASE EditNext
  BY <1>1, CheckTypes, WriteTypes, DeleteTypes DEF EditNext, AdminStep
<1>2. CASE UNCHANGED editVars
  BY <1>2 DEF EditTypeOK, StoreTypeOK, AdminTypeOK, editVars, storeVars, tableVars, adminVars
<1>3. QED
  BY <1>1, <1>2

\* Whatever forms are under way together, the tables hold only well-formed rows
\* under ids of the right kind (the handlers of stations and mappings).
THEOREM EditTypeCorrect == EditSpec => []EditTypeOK
<1>1. EditInit => EditTypeOK
  BY EditInitType
<1>2. EditTypeOK /\ [EditNext]_editVars => EditTypeOK'
  BY EditNextType
<1>3. QED
  BY <1>1, <1>2, PTL DEF EditSpec

-----------------------------------------------------------------------------
(* Unique keys *)

\* The checks are of no help here: a write keeps the keys unique by the constraint
\* it runs into itself.
UniqueInv == EditTypeOK /\ KeysUnique

StationNames == \A i, j \in DOMAIN stations : stations[i].name = stations[j].name => i = j
MappingKeys == \A i, j \in DOMAIN mappings : SameKey(mappings[i], mappings[j]) => i = j

LEMMA UniqueStep ==
  ASSUME UniqueInv, EditNext
  PROVE  KeysUnique'
<1>1. StationNames /\ MappingKeys
  BY DEF UniqueInv, KeysUnique, StationNames, MappingKeys
<1>2. 0 \notin DOMAIN stations
  BY IdsAssumption DEF UniqueInv, EditTypeOK, StoreTypeOK, IsTable
<1>3. SUFFICES StationNames' /\ MappingKeys'
  BY DEF KeysUnique, StationNames, MappingKeys
<1>4. PICK a \in Admins : AdminStep(a)
  BY DEF EditNext
<1>5. CASE CreateStation(a)
  <2>1. StationNames'
    BY <1>1, <1>2, <1>5 DEF CreateStation, StationNames, NameTaken, Put
  <2>2. QED
    BY <1>1, <1>5, <2>1 DEF CreateStation, MappingKeys
<1>6. CASE UpdateStation(a)
  <2>1. StationNames'
    BY <1>1, <1>6 DEF UpdateStation, StationNames, NameTaken, Put
  <2>2. QED
    BY <1>1, <1>6, <2>1 DEF UpdateStation, MappingKeys
<1>7. CASE UpsertMapping(a)
  <2> DEFINE form == admin[a].row
             same == {i \in DOMAIN mappings : SameKey(mappings[i], form)}
  <2>1. MappingKeys'
    <3>1. CASE same = {} /\ nextMapping \in Ids
      <4>1. mappings' = Put(mappings, nextMapping, form)
        BY <1>7, <3>1 DEF UpsertMapping
      <4>2. \A i \in DOMAIN mappings : ~ SameKey(mappings[i], form) /\ ~ SameKey(form, mappings[i])
        BY <3>1 DEF SameKey
      <4>3. QED
        BY <1>1, <4>1, <4>2 DEF MappingKeys, Put
    <3>2. CASE ~ (same = {} /\ nextMapping \in Ids)
      <4>1. mappings' = [i \in DOMAIN mappings |-> IF i \in same THEN form ELSE mappings[i]]
        BY <1>7, <3>2 DEF UpsertMapping
      <4>2. QED
        BY <1>1, <4>1 DEF MappingKeys, SameKey
    <3>3. QED
      BY <3>1, <3>2
  <2>2. QED
    BY <1>1, <1>7, <2>1 DEF UpsertMapping, StationNames
<1>8. CASE UpdateMapping(a)
  <2>1. MappingKeys'
    BY <1>1, <1>8 DEF UpdateMapping, MappingKeys, SameKey, Put
  <2>2. QED
    BY <1>1, <1>8, <2>1 DEF UpdateMapping, StationNames
<1>9. CASE \E id \in DOMAIN stations : DeleteStation(id)
  BY <1>1, <1>9 DEF DeleteStation, Without, StationNames, MappingKeys
<1>10. CASE \E id \in DOMAIN mappings : DeleteMapping(id)
  BY <1>1, <1>10 DEF DeleteMapping, Without, StationNames, MappingKeys
<1>11. CASE UNCHANGED <<stations, mappings>>
  BY <1>1, <1>11 DEF StationNames, MappingKeys
<1>12. QED
  BY <1>4, <1>5, <1>6, <1>7, <1>8, <1>9, <1>10, <1>11
     DEF AdminStep, CheckNewStation, CheckEditedStation, CheckNewMapping, CheckEditedMapping,
         WriteFails, storeVars, tableVars

\* If the rows the process starts with have unique keys, no interleaving of any
\* number of forms ever breaks them (the UNIQUE constraints of schema.go behind the
\* advisory checks of handlers.go).
THEOREM KeysUniqueHolds ==
  ASSUME /\ \A i, j \in DOMAIN SeedStations : SeedStations[i].name = SeedStations[j].name => i = j
         /\ \A i, j \in DOMAIN SeedMappings : SameKey(SeedMappings[i], SeedMappings[j]) => i = j
  PROVE  EditSpec => []KeysUnique
<1>1. EditInit => UniqueInv
  BY EditInitType DEF EditInit, StoreInit, UniqueInv, KeysUnique
<1>2. UniqueInv /\ [EditNext]_editVars => UniqueInv'
  <2>1. CASE EditNext
    BY <2>1, UniqueStep, EditNextType DEF UniqueInv
  <2>2. CASE UNCHANGED editVars
    BY <2>2, EditNextType DEF UniqueInv, KeysUnique, editVars, storeVars, tableVars
  <2>3. QED
    BY <2>1, <2>2
<1>3. UniqueInv => KeysUnique
  BY DEF UniqueInv
<1>4. QED
  BY <1>1, <1>2, <1>3, PTL DEF EditSpec

-----------------------------------------------------------------------------
(* Ids are not given twice *)

\* A form that passed its check may name a station that is gone when it is written,
\* but only one that has existed.
OldInv ==
  /\ EditTypeOK
  /\ IdsAreOld
  /\ \A a \in Admins : admin[a].kind \in {"upsertMapping", "updateMapping"}
                         => admin[a].row.station < nextStation

LEMMA OldStep ==
  ASSUME OldInv, EditNext
  PROVE  OldInv'
<1>1. EditTypeOK'
  BY EditNextType DEF OldInv
<1>2. /\ \A id \in DOMAIN stations \cup DOMAIN statuses : id < nextStation
      /\ \A i \in DOMAIN mappings : mappings[i].station < nextStation
      /\ nextStation \in Nat
      /\ DOMAIN stations \subseteq Nat /\ DOMAIN statuses \subseteq Nat
      /\ \A i \in DOMAIN mappings : mappings[i].station \in Nat
  <2>1. /\ IsTable(stations, Station) /\ IsTable(mappings, Mapping) /\ IsTable(statuses, Status)
        /\ nextStation \in Nat
    BY DEF OldInv, EditTypeOK, StoreTypeOK
  <2>2. \A i \in DOMAIN mappings : mappings[i].station \in Ids
    BY <2>1 DEF IsTable, Mapping
  <2>3. QED
    BY <2>1, <2>2, IdsAreNat DEF OldInv, IdsAreOld, IsTable
<1>3. PICK a \in Admins : AdminStep(a)
  BY DEF EditNext
<1>4. AdminTypeOK /\ \A b \in Admins : admin[b].kind \in {"upsertMapping", "updateMapping"}
                                        => admin[b].row.station < nextStation
  BY DEF OldInv, EditTypeOK
<1>5. SUFFICES /\ IdsAreOld'
               /\ \A b \in Admins : admin'[b].kind \in {"upsertMapping", "updateMapping"}
                                      => admin'[b].row.station < nextStation'
  BY <1>1 DEF OldInv
<1>6. ASSUME Release(a), nextStation' \in {nextStation, nextStation + 1}
      PROVE  \A b \in Admins : admin'[b].kind \in {"upsertMapping", "updateMapping"}
                                 => admin'[b].row.station < nextStation'
  <2> TAKE b \in Admins
  <2>1. admin'[b] \in {NoForm, admin[b]}
    BY <1>6 DEF Release
  <2> SUFFICES ASSUME admin'[b].kind \in {"upsertMapping", "updateMapping"}
               PROVE  admin'[b].row.station < nextStation'
    OBVIOUS
  <2>2. admin'[b] = admin[b]
    BY <2>1 DEF NoForm
  <2>3. admin[b].row.station < nextStation /\ admin[b].row \in Mapping
    BY <1>4, <2>2, FormType
  <2>4. admin[b].row.station \in Ids
    BY <2>3 DEF Mapping
  <2>5. admin[b].row.station \in Nat
    BY <2>4, IdsAreNat
  <2>6. QED
    BY <1>2, <1>6, <2>2, <2>3, <2>5
<1>7. ASSUME NEW form, Hold(a, form), UNCHANGED storeVars,
             form.kind \in {"upsertMapping", "updateMapping"} => form.row.station < nextStation
      PROVE  /\ IdsAreOld'
             /\ \A b \in Admins : admin'[b].kind \in {"upsertMapping", "updateMapping"}
                                    => admin'[b].row.station < nextStation'
  BY <1>2, <1>4, <1>7 DEF Hold, IdsAreOld, storeVars, tableVars
<1>8. CASE CheckNewStation(a)
  <2>1. PICK form \in StationForms :
          Hold(a, [kind |-> "createStation", row |-> form])
    BY <1>8 DEF CheckNewStation
  <2>2. UNCHANGED storeVars
    BY <1>8 DEF CheckNewStation
  <2>3. QED
    BY <1>7, <2>1, <2>2
<1>9. CASE CheckEditedStation(a)
  <2>1. PICK form \in StationForms, id \in Ids :
          Hold(a, [kind |-> "updateStation", id |-> id, row |-> form])
    BY <1>9 DEF CheckEditedStation
  <2>2. UNCHANGED storeVars
    BY <1>9 DEF CheckEditedStation
  <2>3. QED
    BY <1>7, <2>1, <2>2
<1>10. CASE CheckNewMapping(a)
  <2>1. PICK form \in MappingForms :
          Hold(a, [kind |-> "upsertMapping", row |-> form]) /\ form.station \in DOMAIN stations
    BY <1>10 DEF CheckNewMapping
  <2>2. UNCHANGED storeVars
    BY <1>10 DEF CheckNewMapping
  <2>3. QED
    BY <1>2, <1>7, <2>1, <2>2
<1>11. CASE CheckEditedMapping(a)
  <2>1. PICK form \in MappingForms, id \in Ids :
          Hold(a, [kind |-> "updateMapping", id |-> id, row |-> form]) /\ form.station \in DOMAIN stations
    BY <1>11 DEF CheckEditedMapping
  <2>2. UNCHANGED storeVars
    BY <1>11 DEF CheckEditedMapping
  <2>3. QED
    BY <1>2, <1>7, <2>1, <2>2
<1>12. CASE CreateStation(a)
  <2>1. IdsAreOld'
    BY <1>2, <1>12 DEF CreateStation, IdsAreOld, Put
  <2>2. QED
    BY <1>6, <1>12, <2>1 DEF CreateStation
<1>13. CASE UpdateStation(a)
  <2>1. IdsAreOld'
    BY <1>2, <1>13 DEF UpdateStation, IdsAreOld, Put
  <2>2. QED
    BY <1>6, <1>13, <2>1 DEF UpdateStation
<1>14. CASE UpsertMapping(a)
  <2>1. admin[a].row.station < nextStation
    BY <1>4, <1>14 DEF UpsertMapping
  <2>2. IdsAreOld'
    BY <1>2, <1>14, <2>1 DEF UpsertMapping, IdsAreOld, Put
  <2>3. QED
    BY <1>6, <1>14, <2>2 DEF UpsertMapping
<1>15. CASE UpdateMapping(a)
  <2>1. admin[a].row.station < nextStation
    BY <1>4, <1>15 DEF UpdateMapping
  <2>2. IdsAreOld'
    BY <1>2, <1>15, <2>1 DEF UpdateMapping, IdsAreOld, Put
  <2>3. QED
    BY <1>6, <1>15, <2>2 DEF UpdateMapping
<1>16. CASE WriteFails(a)
  <2>1. IdsAreOld'
    BY <1>2, <1>16 DEF WriteFails, IdsAreOld, storeVars, tableVars
  <2>2. QED
    BY <1>6, <1>16, <2>1 DEF WriteFails, storeVars, tableVars
<1>17. CASE \E id \in DOMAIN stations : DeleteStation(id)
  BY <1>2, <1>4, <1>17 DEF DeleteStation, Without, IdsAreOld
<1>18. CASE \E id \in DOMAIN mappings : DeleteMapping(id)
  BY <1>2, <1>4, <1>18 DEF DeleteMapping, Without, IdsAreOld
<1>19. QED
  BY <1>3, <1>8, <1>9, <1>10, <1>11, <1>12, <1>13, <1>14, <1>15, <1>16, <1>17, <1>18 DEF AdminStep

LEMMA OldInit ==
  ASSUME EditInit, \A i \in DOMAIN SeedMappings : SeedMappings[i].station < SeedNextStation
  PROVE  OldInv
<1>1. IdsAreOld
  BY SeedAssumption DEF EditInit, StoreInit, IdsAreOld
<1>2. \A a \in Admins : admin[a].kind = "none"
  BY DEF EditInit, AdminInit, NoForm
<1>3. QED
  BY <1>1, <1>2, EditInitType DEF OldInv

\* A station that a form creates gets an id that no row speaks of.
LEMMA CleanStep ==
  ASSUME OldInv, EditNext
  PROVE  \A id \in DOMAIN stations' \ DOMAIN stations :
           /\ id \notin DOMAIN statuses'
           /\ \A i \in DOMAIN mappings' : mappings'[i].station # id
<1>1. PICK a \in Admins : AdminStep(a)
  BY DEF EditNext
<1>2. CASE CreateStation(a)
  <2>1. /\ \A id \in DOMAIN stations' \ DOMAIN stations : id = nextStation
        /\ UNCHANGED <<statuses, mappings>>
    BY <1>2 DEF CreateStation, Put
  <2>2. /\ nextStation \in Nat
        /\ \A id \in DOMAIN statuses : id < nextStation
        /\ \A i \in DOMAIN mappings : mappings[i].station < nextStation
    BY DEF OldInv, IdsAreOld, EditTypeOK, StoreTypeOK
  <2>3. QED
    BY <2>1, <2>2
<1>3. CASE UpdateStation(a)
  BY <1>3 DEF UpdateStation, Put
<1>4. CASE \E id \in DOMAIN stations : DeleteStation(id)
  BY <1>4 DEF DeleteStation, Without
<1>5. CASE UNCHANGED stations
  BY <1>5
<1>6. QED
  BY <1>1, <1>2, <1>3, <1>4, <1>5
     DEF AdminStep, CheckNewStation, CheckEditedStation, CheckNewMapping, CheckEditedMapping,
         UpsertMapping, UpdateMapping, DeleteMapping, WriteFails, storeVars, tableVars

\* No form takes an id back.
LEMMA SequenceGrows ==
  ASSUME NEW a \in Admins, AdminStep(a), nextStation \in Nat
  PROVE  nextStation' \in Nat /\ nextStation <= nextStation'
<1>1. nextStation' \in {nextStation, nextStation + 1}
  <2>1. CASE CreateStation(a)
    BY <2>1 DEF CreateStation
  <2>2. CASE UNCHANGED nextStation
    BY <2>2
  <2>3. QED
    BY <2>1, <2>2
       DEF AdminStep, CheckNewStation, CheckEditedStation, CheckNewMapping, CheckEditedMapping,
           UpdateStation, DeleteStation, UpsertMapping, UpdateMapping, DeleteMapping, WriteFails,
           storeVars, tableVars
<1>2. QED
  BY <1>1
=============================================================================
