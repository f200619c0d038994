-------------------------- MODULE DirectoryProofs --------------------------
(***************************************************************************)
(* The shared directory, for any number of devices, any clocks and any     *)
(* number of snapshots kept.  What an upload leaves behind holds whatever  *)
(* the parent's URL; that the newest snapshots survive and are the ones    *)
(* that are pulled needs a parent path that a listing does not escape.     *)
(***************************************************************************)
EXTENDS SyncDirectory, FiniteSetTheorems, TLAPS

NamesOf(files) == {e.name : e \in files}

\* Two names are of the same second and slug, or one is newer.
LEMMA NewerIsTotal ==
  ASSUME NEW m \in Name, NEW n \in Name
  PROVE  /\ ~ Newer(m, m)
         /\ m # n => Newer(m, n) \/ Newer(n, m)
BY DEF Name, Newer

LEMMA NewerIsTransitive ==
  ASSUME NEW m \in Name, NEW n \in Name, NEW o \in Name,
         Newer(m, n), ~ Newer(o, n)
  PROVE  Newer(m, o)
BY DEF Name, Newer

\* A set of entries has no more names than entries.
LEMMA NamesBound ==
  ASSUME NEW files \in SUBSET Entry, IsFiniteSet(files)
  PROVE  /\ IsFiniteSet(NamesOf(files))
         /\ Cardinality(NamesOf(files)) <= Cardinality(files)
<1> DEFINE f == [e \in files |-> e.name]
<1>1. f \in Surjection(files, NamesOf(files))
  BY DEF Surjection, NamesOf
<1>2. QED
  BY <1>1, FS_Surjection

LEMMA ListingIsFinite ==
  ASSUME IsFiniteSet(dir)
  PROVE  IsFiniteSet(Listing)
<1> DEFINE f == [n \in dir |-> [name |-> n, escaped |-> ParentEscapes]]
<1>1. f \in Surjection(dir, Listing)
  BY DEF Surjection, Listing
<1>2. QED
  BY <1>1, FS_Surjection

LEMMA ListingType ==
  ASSUME dir \subseteq Name
  PROVE  Listing \subseteq Entry
BY DirectoryAssumption DEF Listing, Entry

-----------------------------------------------------------------------------
(* Types *)

LEMMA DirectoryNextType ==
  ASSUME DirectoryTypeOK, [DirectoryNext]_dirVars
  PROVE  DirectoryTypeOK'
<1> USE DirectoryTypeOK DEF DirectoryTypeOK
<1>1. NoName \in Name /\ dir \subseteq Name
  BY DEF NoName, Name
<1>2. ASSUME NEW d \in Devices, StartUpload(d)
      PROVE  DirectoryTypeOK'
  <2>1. [at |-> clock + Skew[d], slug |-> Slug[d]] \in Name
    BY DirectoryAssumption DEF Name
  <2>2. QED
    BY <1>1, <1>2, <2>1 DEF StartUpload, Idle
<1>3. ASSUME NEW d \in Devices, PutFile(d)
      PROVE  DirectoryTypeOK'
  <2>1. job[d].name \in Name /\ stored' \subseteq Name /\ dir' \subseteq stored'
    BY <1>3 DEF PutFile
  <2>2. mark' \in [Devices -> SUBSET Name]
    BY <1>3, <2>1 DEF PutFile
  <2>3. CASE job' = [job EXCEPT ![d].pc = "list"]
    BY <1>3, <2>1, <2>2, <2>3 DEF PutFile
  <2>4. CASE job' = [job EXCEPT ![d] = Idle]
    BY <1>1, <1>3, <2>1, <2>2, <2>4 DEF PutFile, Idle
  <2>5. QED
    BY <1>3, <2>3, <2>4 DEF PutFile
<1>4. ASSUME NEW d \in Devices, ListUpload(d)
      PROVE  DirectoryTypeOK'
  <2>1. Listing \cup {Target(job[d].name)} \subseteq Entry
    <3>1. Target(job[d].name) \in Entry
      BY DEF Target, Entry
    <3>2. QED
      BY <1>1, <3>1, ListingType
  <2>2. QED
    BY <1>4, <2>1 DEF ListUpload
<1>5. ASSUME NEW d \in Devices, DeleteOldest(d)
      PROVE  DirectoryTypeOK'
  <2>1. dir' \subseteq dir /\ UNCHANGED <<clock, stored, mark>>
    BY <1>5 DEF DeleteOldest
  <2>2. \/ job' = [job EXCEPT ![d] = Idle]
        \/ \E victim : job' = [job EXCEPT ![d].files = @ \ {victim}]
    BY <1>5 DEF DeleteOldest
  <2>3. CASE job' = [job EXCEPT ![d] = Idle]
    BY <1>1, <2>1, <2>3 DEF Idle
  <2>4. CASE \E victim : job' = [job EXCEPT ![d].files = @ \ {victim}]
    BY <1>5, <2>1, <2>4, SMTT(20) DEF DeleteOldest
  <2>5. QED
    BY <2>2, <2>3, <2>4
<1>6. ASSUME NEW d \in Devices, EndUpload(d)
      PROVE  DirectoryTypeOK'
  BY <1>1, <1>6 DEF EndUpload, Idle
<1>7. ASSUME NEW d \in Devices, ListPull(d)
      PROVE  DirectoryTypeOK'
  <2>1. CASE dir = {}
    BY <1>1, <1>7, <2>1, SMTT(20) DEF ListPull, Idle
  <2>2. CASE dir # {}
    <3>1. PICK latest \in Newest(Listing) :
            job' = [job EXCEPT ![d] = [pc |-> "get", name |-> latest.name, files |-> {latest}]]
      BY <1>7, <2>2 DEF ListPull
    <3>2. latest \in Entry /\ latest.name \in Name
      BY <1>1, ListingType DEF Newest, Entry
    <3>3. QED
      BY <1>7, <3>1, <3>2 DEF ListPull
  <2>3. QED
    BY <2>1, <2>2
<1>8. ASSUME NEW d \in Devices, GetFile(d)
      PROVE  DirectoryTypeOK'
  <2>1. PICK latest \in job[d].files :
          job' = [job EXCEPT ![d] = [pc |-> IF Found(latest) THEN "got" ELSE "missing",
                                     name |-> @.name, files |-> {}]]
    BY <1>8 DEF GetFile
  <2>2. CASE Found(latest)
    BY <1>8, <2>1, <2>2 DEF GetFile
  <2>3. CASE ~ Found(latest)
    BY <1>8, <2>1, <2>3 DEF GetFile
  <2>4. QED
    BY <2>2, <2>3
<1>9. ASSUME NEW d \in Devices, Fail(d)
      PROVE  DirectoryTypeOK'
  BY <1>1, <1>9 DEF Fail, Idle
<1>10. CASE TickClock
  BY <1>10 DEF TickClock
<1>11. CASE UNCHANGED dirVars
  BY <1>11 DEF dirVars
<1>12. QED
  BY <1>2, <1>3, <1>4, <1>5, <1>6, <1>7, <1>8, <1>9, <1>10, <1>11 DEF DirectoryNext, DeviceStep

\* Type correctness: every job keeps its shape, and what is in the directory was
\* uploaded, whatever the devices do (webdav.go).
THEOREM DirectoryTypeCorrect == DirectorySpec => []DirectoryTypeOK
<1>1. DirectoryInit => DirectoryTypeOK
  BY DEF DirectoryInit, DirectoryTypeOK, Idle, NoName, Name, Entry
<1>2. DirectoryTypeOK /\ [DirectoryNext]_dirVars => DirectoryTypeOK'
  BY DirectoryNextType
<1>3. QED
  BY <1>1, <1>2, PTL DEF DirectorySpec

-----------------------------------------------------------------------------
(* What an upload leaves behind *)

\* What is in the directory was in the listing, unless it came later.
Covered(d) == job[d].pc = "prune" => dir \ mark[d] \subseteq NamesOf(job[d].files)

TidyInv ==
  /\ DirectoryTypeOK
  /\ IsFiniteSet(dir)
  /\ \A d \in Devices : IsFiniteSet(job[d].files) /\ Covered(d)

\* A step of one device leaves the job of another alone and adds nothing to the
\* directory that the other's upload would have to answer for.
LEMMA OthersStayCovered ==
  ASSUME DirectoryTypeOK, NEW d \in Devices, DeviceStep(d), NEW e \in Devices, e # d
  PROVE  /\ job'[e] = job[e]
         /\ Covered(e) => Covered(e)'
<1> USE DEF DirectoryTypeOK
<1>1. job'[e] = job[e]
  BY DEF DeviceStep, StartUpload, PutFile, ListUpload, DeleteOldest, EndUpload, ListPull, GetFile, Fail
<1>2. job[e].pc = "prune" => dir' \ mark'[e] \subseteq dir \ mark[e]
  <2>1. CASE PutFile(d)
    BY <2>1 DEF PutFile
  <2>2. CASE DeleteOldest(d)
    BY <2>2 DEF DeleteOldest
  <2>3. CASE StartUpload(d) \/ ListUpload(d) \/ EndUpload(d) \/ ListPull(d) \/ GetFile(d) \/ Fail(d)
    BY <2>3 DEF StartUpload, ListUpload, EndUpload, ListPull, GetFile, Fail
  <2>4. QED
    BY <2>1, <2>2, <2>3 DEF DeviceStep
<1>3. QED
  BY <1>1, <1>2 DEF Covered

LEMMA UploaderStaysCovered ==
  ASSUME TidyInv, NEW d \in Devices, DeviceStep(d)
  PROVE  /\ IsFiniteSet(dir')
         /\ IsFiniteSet(job'[d].files)
         /\ Covered(d)'
<1> USE DEF DirectoryTypeOK
<1>0. DirectoryTypeOK /\ IsFiniteSet(dir) /\ IsFiniteSet(job[d].files) /\ Covered(d)
  BY DEF TidyInv
<1>1. IsFiniteSet({})
  BY FS_EmptySet
<1>2. CASE StartUpload(d) \/ EndUpload(d) \/ Fail(d)
  <2>1. dir' = dir
    BY <1>2 DEF StartUpload, EndUpload, Fail
  <2>2. job'[d].files = {} /\ job'[d].pc # "prune"
    <3>1. CASE StartUpload(d)
      BY <1>0, <3>1 DEF StartUpload, Idle
    <3>2. CASE EndUpload(d)
      BY <1>0, <3>2 DEF EndUpload, Idle
    <3>3. CASE Fail(d)
      BY <1>0, <3>3 DEF Fail, Idle
    <3>4. QED
      BY <1>2, <3>1, <3>2, <3>3
  <2>3. QED
    BY <1>0, <1>1, <2>1, <2>2 DEF Covered
<1>3. CASE PutFile(d)
  <2>1. IsFiniteSet(dir')
    BY <1>0, <1>3, FS_AddElement DEF PutFile
  <2>2. job'[d].pc # "prune" /\ job'[d].files \in {job[d].files, {}}
    BY <1>0, <1>3 DEF PutFile, Idle
  <2>3. QED
    BY <1>0, <1>1, <2>1, <2>2 DEF Covered
<1>4. CASE ListUpload(d)
  <2>1. dir' = dir /\ job'[d].files = Listing \cup {Target(job[d].name)}
    BY <1>0, <1>4 DEF ListUpload
  <2>2. IsFiniteSet(job'[d].files)
    <3>1. IsFiniteSet(Listing)
      BY <1>0, ListingIsFinite
    <3>2. IsFiniteSet(Listing \cup {Target(job[d].name)})
      BY <3>1, FS_AddElement
    <3>3. QED
      BY <2>1, <3>2
  <2>3. dir \subseteq NamesOf(job'[d].files)
    <3> SUFFICES ASSUME NEW n \in dir
                 PROVE  n \in NamesOf(job'[d].files)
      OBVIOUS
    <3> DEFINE entry == [name |-> n, escaped |-> ParentEscapes]
    <3>1. entry \in job'[d].files /\ entry.name = n
      BY <2>1 DEF Listing
    <3>2. QED
      BY <3>1 DEF NamesOf
  <2>4. QED
    BY <1>0, <2>1, <2>2, <2>3 DEF Covered
<1>5. CASE DeleteOldest(d)
  <2>1. PICK victim \in Oldest(job[d].files) :
          IF Found(victim)
          THEN /\ dir' = dir \ {victim.name}
               /\ \/ job' = [job EXCEPT ![d].files = @ \ {victim}]
                  \/ NetFaults /\ job' = [job EXCEPT ![d] = Idle]
          ELSE /\ job' = [job EXCEPT ![d] = Idle]
               /\ UNCHANGED dir
    BY <1>5 DEF DeleteOldest
  <2>2. IsFiniteSet(dir')
    <3>1. dir' = dir \/ dir' = dir \ {victim.name}
      BY <2>1
    <3>2. IsFiniteSet(dir \ {victim.name})
      BY <1>0, FS_RemoveElement
    <3>3. QED
      BY <1>0, <3>1, <3>2
  <2>3. CASE job' = [job EXCEPT ![d] = Idle]
    BY <1>0, <1>1, <2>2, <2>3 DEF Idle, Covered
  <2>4. CASE /\ dir' = dir \ {victim.name}
             /\ job' = [job EXCEPT ![d].files = @ \ {victim}]
    <3>1. job'[d].files = job[d].files \ {victim} /\ mark' = mark
      BY <1>0, <1>5, <2>4 DEF DeleteOldest
    <3>2. IsFiniteSet(job'[d].files)
      <4>1. IsFiniteSet(job[d].files \ {victim})
        BY <1>0, FS_RemoveElement
      <4>2. QED
        BY <3>1, <4>1
    <3>3. dir \ mark[d] \subseteq NamesOf(job[d].files)
      BY <1>0, <1>5 DEF DeleteOldest, Covered
    <3>4. dir' \ mark'[d] \subseteq NamesOf(job'[d].files)
      BY <2>4, <3>1, <3>3 DEF NamesOf
    <3>5. QED
      BY <2>2, <3>2, <3>4 DEF Covered
  <2>5. QED
    BY <2>1, <2>3, <2>4
<1>6. CASE ListPull(d)
  <2>1. CASE dir = {}
    <3>1. dir' = dir /\ job'[d] = Idle
      BY <1>0, <1>6, <2>1 DEF ListPull
    <3>2. QED
      BY <1>0, <1>1, <3>1 DEF Idle, Covered
  <2>2. CASE dir # {}
    <3>1. PICK latest \in Newest(Listing) :
            job' = [job EXCEPT ![d] = [pc |-> "get", name |-> latest.name, files |-> {latest}]]
      BY <1>6, <2>2 DEF ListPull
    <3>2. dir' = dir /\ job'[d].pc = "get" /\ job'[d].files = {latest}
      BY <1>0, <1>6, <3>1 DEF ListPull
    <3>3. QED
      <4>1. IsFiniteSet({latest})
        BY FS_Singleton
      <4>2. QED
        BY <1>0, <3>2, <4>1 DEF Covered
  <2>3. QED
    BY <2>1, <2>2
<1>7. CASE GetFile(d)
  BY <1>0, <1>1, <1>7 DEF GetFile, Covered
<1>8. QED
  BY <1>2, <1>3, <1>4, <1>5, <1>6, <1>7 DEF DeviceStep

LEMMA TidyInitially == DirectoryInit => TidyInv
<1>1. DirectoryInit => DirectoryTypeOK
  BY DEF DirectoryInit, DirectoryTypeOK, Idle, NoName, Name, Entry
<1>2. QED
  BY <1>1, FS_EmptySet DEF DirectoryInit, TidyInv, Covered, Idle

LEMMA TidyNext ==
  ASSUME TidyInv, [DirectoryNext]_dirVars
  PROVE  TidyInv'
<1>1. DirectoryTypeOK'
  BY DirectoryNextType DEF TidyInv
<1>2. ASSUME NEW d \in Devices, DeviceStep(d)
      PROVE  IsFiniteSet(dir') /\ \A e \in Devices : IsFiniteSet(job'[e].files) /\ Covered(e)'
  BY <1>2, UploaderStaysCovered, OthersStayCovered DEF TidyInv
<1>3. CASE TickClock \/ UNCHANGED dirVars
  BY <1>1, <1>3 DEF TidyInv, Covered, TickClock, dirVars
<1>4. QED
  BY <1>1, <1>2, <1>3 DEF TidyInv, DirectoryNext

\* An upload that reports success leaves no more than Keep files, those that other
\* devices uploaded after its listing aside (UploadSnapshot).
THEOREM UploadTidiesUpHolds == DirectorySpec => UploadTidiesUp
<1>1. ASSUME TidyInv, [DirectoryNext]_dirVars, NEW d \in Devices,
             job[d].pc = "prune", job'[d].pc = "uploaded"
      PROVE  Cardinality(dir' \ mark[d]) <= Keep
  <2>1. DeviceStep(d)
    <3>1. CASE TickClock \/ UNCHANGED dirVars
      BY <1>1, <3>1 DEF TickClock, dirVars
    <3>2. ASSUME NEW e \in Devices, DeviceStep(e), e # d
          PROVE  FALSE
      BY <1>1, <3>2, OthersStayCovered DEF TidyInv
    <3>3. QED
      BY <1>1, <3>1, <3>2 DEF DirectoryNext
  <2>2. EndUpload(d)
    BY <1>1, <2>1 DEF TidyInv, DirectoryTypeOK, DeviceStep, StartUpload, PutFile, ListUpload,
      DeleteOldest, ListPull, GetFile, Fail, Ready, Idle
  <2>3. dir' = dir /\ ~ TooMany(job[d].files)
    BY <2>2 DEF EndUpload
  <2>4. /\ job[d].files \in SUBSET Entry
        /\ IsFiniteSet(job[d].files)
        /\ dir \ mark[d] \in SUBSET NamesOf(job[d].files)
    BY <1>1 DEF TidyInv, DirectoryTypeOK, Covered
  <2>5. /\ IsFiniteSet(NamesOf(job[d].files))
        /\ Cardinality(NamesOf(job[d].files)) <= Cardinality(job[d].files)
    BY <2>4, NamesBound
  <2>6. IsFiniteSet(dir \ mark[d]) /\ Cardinality(dir \ mark[d]) <= Cardinality(NamesOf(job[d].files))
    BY <2>4, <2>5, FS_Subset
  <2>7. QED
    BY <2>3, <2>4, <2>5, <2>6, KeepAssumption, FS_CardinalityType DEF TooMany
<1>2. TidyInv /\ [DirectoryNext]_dirVars
        => [\A d \in Devices : job[d].pc = "prune" /\ job'[d].pc = "uploaded"
              => Cardinality(dir' \ mark[d]) <= Keep]_dirVars
  BY <1>1
<1>3. QED
  BY <1>2, TidyInitially, TidyNext, PTL DEF DirectorySpec, UploadTidiesUp

-----------------------------------------------------------------------------
(* What survives and what is pulled *)

JobFresh(d) ==
  /\ \A e \in job[d].files : e.name \in stored /\ ~ e.escaped
  /\ job[d].pc \in {"list", "get", "got", "missing"} => job[d].name \in stored
  /\ job[d].pc = "get" => \A e \in job[d].files : e.name = job[d].name
  /\ job[d].pc \in {"get", "got"} => \A n \in mark[d] : ~ Newer(n, job[d].name)
  /\ job[d].pc = "missing" => Cardinality(NewerStored(job[d].name)) >= Keep

\* Whatever was stored, something as new is still there: KeepsNewest alone does not
\* say so without a newest element, and a pull needs it.
NewestStays == \A m \in stored : \E n \in dir : ~ Newer(m, n)

FreshInv ==
  /\ TidyInv
  /\ IsFiniteSet(stored)
  /\ KeepsNewest
  /\ NewestStays
  /\ \A d \in Devices : JobFresh(d)

LEMMA NewerStoredIsFinite ==
  ASSUME IsFiniteSet(stored), NEW n
  PROVE  IsFiniteSet(NewerStored(n)) /\ Cardinality(NewerStored(n)) \in Nat
BY FS_Subset, FS_CardinalityType DEF NewerStored

\* The heart of the matter: a listing longer than Keep holds, beside its oldest
\* entry, Keep others, and all of them are newer.
LEMMA VictimIsOutrun ==
  ASSUME FreshInv, NEW d \in Devices, NEW v \in Oldest(job[d].files), TooMany(job[d].files)
  PROVE  Cardinality(NewerStored(v.name)) >= Keep
<1> DEFINE rest == job[d].files \ {v}
           name == [e \in rest |-> e.name]
<1>1. /\ job[d].files \in SUBSET Entry
      /\ IsFiniteSet(job[d].files)
      /\ \A e \in job[d].files : e.name \in stored /\ ~ e.escaped
      /\ v \in job[d].files
      /\ IsFiniteSet(stored)
  BY DEF FreshInv, TidyInv, DirectoryTypeOK, JobFresh, Oldest
<1>2. IsFiniteSet(rest) /\ Cardinality(rest) = Cardinality(job[d].files) - 1
  BY <1>1, FS_RemoveElement
<1>3. Cardinality(rest) >= Keep
  BY <1>1, <1>2, KeepAssumption, FS_CardinalityType DEF TooMany
<1>4. \A e \in rest : e.name \in NewerStored(v.name)
  <2> TAKE e \in rest
  <2>1. e \in Entry /\ v \in Entry /\ ~ e.escaped /\ ~ v.escaped /\ e # v /\ e.name \in stored
    BY <1>1
  <2>2. e.name \in Name /\ v.name \in Name /\ e.name # v.name
    BY <2>1 DEF Entry
  <2>3. ~ Before(e, v)
    BY DEF Oldest
  <2>4. e.escaped = v.escaped
    BY <2>1 DEF Entry
  <2>5. ~ Newer(v.name, e.name)
    BY <2>3, <2>4 DEF Before
  <2>6. QED
    BY <2>1, <2>2, <2>5, NewerIsTotal DEF NewerStored
<1>5. name \in [rest -> NewerStored(v.name)]
  BY <1>4
<1>6. \A e, f \in rest : name[e] = name[f] => e = f
  BY <1>1 DEF Entry
<1>7. name \in Injection(rest, NewerStored(v.name))
  BY <1>5, <1>6 DEF Injection, IsInjective
<1>8. Cardinality(rest) <= Cardinality(NewerStored(v.name))
  BY <1>1, <1>7, NewerStoredIsFinite, FS_Injection
<1>9. QED
  BY <1>1, <1>2, <1>3, <1>8, KeepAssumption, NewerStoredIsFinite, FS_CardinalityType

LEMMA StoredGrows ==
  ASSUME FreshInv, [DirectoryNext]_dirVars
  PROVE  /\ stored \subseteq stored'
         /\ IsFiniteSet(stored')
         /\ \A n : /\ Cardinality(NewerStored(n)) \in Nat
                  /\ Cardinality({m \in stored' : Newer(m, n)}) \in Nat
                  /\ Cardinality(NewerStored(n)) <= Cardinality({m \in stored' : Newer(m, n)})
<1>1. stored' = stored \/ \E d \in Devices : stored' = stored \cup {job[d].name}
  BY DEF DirectoryNext, DeviceStep, StartUpload, PutFile, ListUpload, DeleteOldest, EndUpload,
    ListPull, GetFile, Fail, TickClock, dirVars
<1>2. IsFiniteSet(stored')
  <2>1. CASE stored' = stored
    BY <2>1 DEF FreshInv
  <2>2. ASSUME NEW d \in Devices, stored' = stored \cup {job[d].name}
        PROVE  IsFiniteSet(stored')
    <3>1. IsFiniteSet(stored \cup {job[d].name})
      BY FS_AddElement DEF FreshInv
    <3>2. QED
      BY <2>2, <3>1
  <2>3. QED
    BY <1>1, <2>1, <2>2
<1>3. ASSUME NEW n
      PROVE  /\ Cardinality(NewerStored(n)) \in Nat
             /\ Cardinality({m \in stored' : Newer(m, n)}) \in Nat
             /\ Cardinality(NewerStored(n)) <= Cardinality({m \in stored' : Newer(m, n)})
  <2> DEFINE after == {m \in stored' : Newer(m, n)}
  <2>1. IsFiniteSet(NewerStored(n)) /\ Cardinality(NewerStored(n)) \in Nat
    BY NewerStoredIsFinite DEF FreshInv
  <2>2. IsFiniteSet(after) /\ Cardinality(after) \in Nat
    BY <1>2, FS_Subset, FS_CardinalityType
  <2>3. NewerStored(n) \in SUBSET after
    BY <1>1 DEF NewerStored
  <2>4. QED
    BY <2>1, <2>2, <2>3, FS_Subset
<1>4. QED
  BY <1>1, <1>2, <1>3

\* A deletion spares the newest snapshots.
LEMMA DeletionSpares ==
  ASSUME FreshInv, NEW d \in Devices, DeleteOldest(d)
  PROVE  KeepsNewest' /\ NewestStays'
<1>1. PICK v \in Oldest(job[d].files) : dir' = dir \/ dir' = dir \ {v.name}
  BY DEF DeleteOldest
<1>2. stored' = stored /\ TooMany(job[d].files)
  BY DEF DeleteOldest
<1>3. Cardinality(NewerStored(v.name)) >= Keep
  BY <1>2, VictimIsOutrun
<1>4. /\ stored \subseteq Name /\ dir \subseteq stored
      /\ v.name \in stored
      /\ IsFiniteSet(stored) /\ KeepsNewest /\ NewestStays
  BY DEF FreshInv, TidyInv, DirectoryTypeOK, JobFresh, Oldest
<1>5. KeepsNewest'
  <2> SUFFICES ASSUME NEW n \in stored, Cardinality(NewerStored(n)) < Keep
               PROVE  n \in dir'
    BY <1>2 DEF KeepsNewest, NewerStored
  <2>1. n \in dir
    BY <1>4 DEF KeepsNewest
  <2>2. n # v.name
    BY <1>3, <1>4, NewerStoredIsFinite, KeepAssumption
  <2>3. QED
    BY <1>1, <2>1, <2>2
<1>6. NewestStays'
  <2> SUFFICES ASSUME NEW m \in stored
               PROVE  \E n \in dir' : ~ Newer(m, n)
    BY <1>2 DEF NewestStays
  <2>1. PICK n \in dir : ~ Newer(m, n)
    BY <1>4 DEF NewestStays
  <2>2. CASE n # v.name
    BY <1>1, <2>1, <2>2
  <2>3. CASE n = v.name
    <3>1. NewerStored(v.name) # {}
      BY <1>3, KeepAssumption, FS_EmptySet
    <3>2. PICK k \in stored : Newer(k, v.name)
      BY <3>1 DEF NewerStored
    <3>3. PICK o \in dir : ~ Newer(k, o)
      BY <1>4 DEF NewestStays
    <3>4. k \in Name /\ o \in Name /\ m \in Name /\ n \in Name
      BY <1>4
    <3>5. ~ Newer(m, o) /\ o # v.name
      BY <2>1, <2>3, <3>2, <3>3, <3>4 DEF Newer, Name
    <3>6. QED
      BY <1>1, <3>3, <3>5
  <2>4. QED
    BY <2>2, <2>3
<1>7. QED
  BY <1>5, <1>6

LEMMA DirectoryStaysFresh ==
  ASSUME FreshInv, [DirectoryNext]_dirVars
  PROVE  KeepsNewest' /\ NewestStays'
<1>1. /\ stored \subseteq Name /\ dir \subseteq stored
      /\ IsFiniteSet(stored) /\ KeepsNewest /\ NewestStays
  BY DEF FreshInv, TidyInv, DirectoryTypeOK
<1>2. ASSUME NEW d \in Devices, PutFile(d)
      PROVE  KeepsNewest' /\ NewestStays'
  <2>1. /\ stored' = stored \cup {job[d].name}
        /\ dir' = dir \cup {job[d].name}
        /\ job[d].name \in Name
    BY <1>2 DEF PutFile, FreshInv, TidyInv, DirectoryTypeOK
  <2>2. KeepsNewest'
    <3> SUFFICES ASSUME NEW n \in stored', Cardinality(NewerStored(n)') < Keep
                 PROVE  n \in dir'
      BY DEF KeepsNewest
    <3>1. CASE n \in stored
      <4>1. /\ Cardinality(NewerStored(n)) \in Nat
            /\ Cardinality({m \in stored' : Newer(m, n)}) \in Nat
            /\ Cardinality(NewerStored(n)) <= Cardinality({m \in stored' : Newer(m, n)})
        BY StoredGrows
      <4>2. Cardinality({m \in stored' : Newer(m, n)}) < Keep
        BY DEF NewerStored
      <4>3. Cardinality(NewerStored(n)) < Keep
        BY <4>1, <4>2, KeepAssumption
      <4>4. QED
        BY <1>1, <2>1, <3>1, <4>3 DEF KeepsNewest
    <3>2. QED
      BY <2>1, <3>1
  <2>3. NewestStays'
    <3>1. ~ Newer(job[d].name, job[d].name)
      BY <2>1, NewerIsTotal
    <3>2. QED
      BY <1>1, <2>1, <3>1 DEF NewestStays
  <2>4. QED
    BY <2>2, <2>3
<1>3. ASSUME NEW d \in Devices, DeviceStep(d), ~ PutFile(d), ~ DeleteOldest(d)
      PROVE  UNCHANGED <<dir, stored>>
  BY <1>3 DEF DeviceStep, StartUpload, ListUpload, EndUpload, ListPull, GetFile, Fail
<1>4. CASE UNCHANGED <<dir, stored>>
  BY <1>1, <1>4 DEF KeepsNewest, NewestStays, NewerStored
<1>5. CASE TickClock \/ UNCHANGED dirVars
  BY <1>4, <1>5 DEF TickClock, dirVars
<1>6. QED
  BY <1>2, <1>3, <1>4, <1>5, DeletionSpares DEF DirectoryNext

\* A job is not disturbed by what others do.
LEMMA OthersStayFresh ==
  ASSUME FreshInv, NEW d \in Devices, DeviceStep(d), NEW e \in Devices, e # d
  PROVE  JobFresh(e)'
<1>1. DirectoryTypeOK /\ JobFresh(e)
  BY DEF FreshInv, TidyInv
<1>2. job'[e] = job[e]
  BY <1>1, OthersStayCovered
<1>3. job[e].pc # "prune" => mark'[e] = mark[e]
  <2>1. CASE PutFile(d)
    BY <1>1, <2>1 DEF PutFile, DirectoryTypeOK
  <2>2. CASE DeleteOldest(d)
    BY <2>2 DEF DeleteOldest
  <2>3. CASE StartUpload(d) \/ ListUpload(d) \/ EndUpload(d) \/ ListPull(d) \/ GetFile(d) \/ Fail(d)
    BY <1>1, <2>3 DEF StartUpload, ListUpload, EndUpload, ListPull, GetFile, Fail, DirectoryTypeOK
  <2>4. QED
    BY <2>1, <2>2, <2>3 DEF DeviceStep
<1>4. stored \subseteq stored'
  BY StoredGrows DEF DirectoryNext
<1>5. job[e].pc = "missing" => Cardinality(NewerStored(job[e].name)') >= Keep
  <2> SUFFICES ASSUME job[e].pc = "missing"
               PROVE  Cardinality(NewerStored(job[e].name)') >= Keep
    OBVIOUS
  <2> DEFINE n == job[e].name
  <2>1. /\ Cardinality(NewerStored(n)) \in Nat
        /\ Cardinality({m \in stored' : Newer(m, n)}) \in Nat
        /\ Cardinality(NewerStored(n)) <= Cardinality({m \in stored' : Newer(m, n)})
    BY StoredGrows DEF DirectoryNext
  <2>2. Cardinality({m \in stored' : Newer(m, n)}) >= Keep
    BY <1>1, <2>1, KeepAssumption DEF JobFresh
  <2>3. QED
    BY <1>2, <2>2 DEF NewerStored
<1>6. QED
  BY <1>1, <1>2, <1>3, <1>4, <1>5 DEF JobFresh

\* Nor by its own steps.
LEMMA DeviceStaysFresh ==
  ASSUME ~ ParentEscapes, FreshInv, NEW d \in Devices, DeviceStep(d)
  PROVE  JobFresh(d)'
<1>1. /\ DirectoryTypeOK /\ JobFresh(d) /\ KeepsNewest /\ NewestStays
      /\ dir \subseteq stored /\ stored \subseteq Name
  BY DEF FreshInv, TidyInv, DirectoryTypeOK
<1>2. job \in [Devices -> [pc : {"idle", "put", "list", "prune", "uploaded", "get", "got", "missing"},
                          name : Name, files : SUBSET Entry]]
  BY <1>1 DEF DirectoryTypeOK
<1>3. stored \subseteq stored'
  BY StoredGrows DEF DirectoryNext
<1>4. \A e \in Listing : e.name \in dir /\ ~ e.escaped
  BY DEF Listing
<1>5. ASSUME job'[d].files = {}, job'[d].pc \notin {"list", "get", "got", "missing"}
      PROVE  JobFresh(d)'
  BY <1>5 DEF JobFresh
<1>6. CASE job'[d] = Idle
  BY <1>5, <1>6 DEF Idle
<1>7. CASE StartUpload(d)
  <2>1. job'[d].files = {} /\ job'[d].pc = "put"
    BY <1>2, <1>7 DEF StartUpload, Idle
  <2>2. QED
    BY <1>5, <2>1
<1>8. CASE PutFile(d)
  <2>1. CASE job' = [job EXCEPT ![d] = Idle]
    BY <1>2, <1>6, <2>1
  <2>2. CASE job' = [job EXCEPT ![d].pc = "list"]
    <3>1. job'[d].pc = "list" /\ job'[d].name = job[d].name /\ job'[d].files = job[d].files
      BY <1>2, <2>2
    <3>2. job[d].name \in stored'
      BY <1>8 DEF PutFile
    <3>3. QED
      BY <1>1, <1>3, <3>1, <3>2 DEF JobFresh
  <2>3. QED
    BY <1>8, <2>1, <2>2 DEF PutFile
<1>9. CASE ListUpload(d)
  <2>1. /\ job'[d].pc = "prune" /\ stored' = stored
        /\ job'[d].files = Listing \cup {Target(job[d].name)}
    BY <1>2, <1>9 DEF ListUpload
  <2>2. job[d].name \in stored
    BY <1>1, <1>9 DEF ListUpload, JobFresh
  <2>3. \A e \in job'[d].files : e.name \in stored' /\ ~ e.escaped
    BY <1>1, <1>4, <2>1, <2>2 DEF Target
  <2>4. QED
    BY <2>1, <2>3 DEF JobFresh
<1>10. CASE DeleteOldest(d)
  <2>1. CASE job' = [job EXCEPT ![d] = Idle]
    BY <1>2, <1>6, <2>1
  <2>2. ASSUME NEW victim, job' = [job EXCEPT ![d].files = @ \ {victim}]
        PROVE  JobFresh(d)'
    <3>1. job'[d].pc = "prune" /\ job'[d].files \subseteq job[d].files
      BY <1>2, <1>10, <2>2 DEF DeleteOldest
    <3>2. QED
      BY <1>1, <1>3, <3>1 DEF JobFresh
  <2>3. QED
    BY <1>10, <2>1, <2>2 DEF DeleteOldest
<1>11. CASE EndUpload(d)
  <2>1. job'[d].files = {} /\ job'[d].pc = "uploaded"
    BY <1>2, <1>11 DEF EndUpload, Idle
  <2>2. QED
    BY <1>5, <2>1
<1>12. CASE ListPull(d)
  <2>1. CASE dir = {}
    BY <1>2, <1>6, <1>12, <2>1 DEF ListPull
  <2>2. CASE dir # {}
    <3>1. PICK latest \in Newest(Listing) :
            job' = [job EXCEPT ![d] = [pc |-> "get", name |-> latest.name, files |-> {latest}]]
      BY <1>12, <2>2 DEF ListPull
    <3>2. /\ job'[d].pc = "get" /\ job'[d].name = latest.name /\ job'[d].files = {latest}
          /\ mark'[d] = stored /\ stored' = stored
      BY <1>1, <1>2, <1>12, <3>1 DEF ListPull, DirectoryTypeOK
    <3>3. latest \in Listing /\ latest.name \in stored /\ ~ latest.escaped
      BY <1>1, <1>4 DEF Newest
    <3>4. ASSUME NEW m \in stored
          PROVE  ~ Newer(m, latest.name)
      <4>1. PICK n \in dir : ~ Newer(m, n)
        BY <1>1 DEF NewestStays
      <4>2. [name |-> n, escaped |-> ParentEscapes] \in Listing /\ latest.escaped = ParentEscapes
        BY <3>3 DEF Listing
      <4>3. ~ Before(latest, [name |-> n, escaped |-> ParentEscapes])
        BY <4>2 DEF Newest
      <4>4. ~ Newer(n, latest.name)
        BY <4>2, <4>3 DEF Before
      <4>5. m \in Name /\ n \in Name /\ latest.name \in Name
        BY <1>1, <3>3
      <4>6. QED
        BY <4>1, <4>4, <4>5, NewerIsTransitive
    <3>5. QED
      BY <3>2, <3>3, <3>4 DEF JobFresh
  <2>3. QED
    BY <2>1, <2>2
<1>13. CASE GetFile(d)
  <2>1. PICK latest \in job[d].files :
          job' = [job EXCEPT ![d] = [pc |-> IF Found(latest) THEN "got" ELSE "missing",
                                     name |-> @.name, files |-> {}]]
    BY <1>13 DEF GetFile
  <2>2. /\ job'[d].pc = IF Found(latest) THEN "got" ELSE "missing"
        /\ job'[d].name = job[d].name /\ job'[d].files = {}
        /\ mark' = mark /\ stored' = stored
    BY <1>2, <1>13, <2>1 DEF GetFile
  <2>3. /\ job[d].name \in stored /\ latest.name = job[d].name /\ ~ latest.escaped
        /\ \A n \in mark[d] : ~ Newer(n, job[d].name)
    BY <1>1, <1>13 DEF GetFile, JobFresh
  <2>4. ~ Found(latest) => Cardinality(NewerStored(job[d].name)) >= Keep
    <3>1. ~ Found(latest) => job[d].name \notin dir
      BY <2>3 DEF Found
    <3>2. Cardinality(NewerStored(job[d].name)) \in Nat
      BY StoredGrows DEF DirectoryNext
    <3>3. QED
      BY <1>1, <2>3, <3>1, <3>2, KeepAssumption DEF KeepsNewest
  <2>5. NewerStored(job[d].name) = {m \in stored' : Newer(m, job'[d].name)}
    BY <2>2 DEF NewerStored
  <2>6. CASE Found(latest)
    BY <2>2, <2>3, <2>6 DEF JobFresh
  <2>7. CASE ~ Found(latest)
    BY <2>2, <2>3, <2>4, <2>5, <2>7 DEF JobFresh, NewerStored
  <2>8. QED
    BY <2>6, <2>7
<1>14. CASE Fail(d)
  BY <1>2, <1>6, <1>14 DEF Fail
<1>15. QED
  BY <1>7, <1>8, <1>9, <1>10, <1>11, <1>12, <1>13, <1>14 DEF DeviceStep

LEMMA FreshInitially == DirectoryInit => FreshInv
<1> SUFFICES ASSUME DirectoryInit
             PROVE  FreshInv
  OBVIOUS
<1>1. TidyInv
  BY TidyInitially
<1>2. IsFiniteSet(stored)
  BY FS_EmptySet DEF DirectoryInit
<1>3. QED
  BY <1>1, <1>2 DEF DirectoryInit, FreshInv, KeepsNewest, NewestStays, JobFresh, Idle

LEMMA FreshNext ==
  ASSUME ~ ParentEscapes, FreshInv, [DirectoryNext]_dirVars
  PROVE  FreshInv'
<1>1. TidyInv'
  BY TidyNext DEF FreshInv
<1>2. IsFiniteSet(stored')
  BY StoredGrows
<1>3. KeepsNewest' /\ NewestStays'
  BY DirectoryStaysFresh
<1>4. ASSUME NEW d \in Devices
      PROVE  JobFresh(d)'
  <2>1. CASE DeviceStep(d)
    BY <2>1, DeviceStaysFresh
  <2>2. ASSUME NEW e \in Devices, DeviceStep(e), d # e
        PROVE  JobFresh(d)'
    BY <2>2, OthersStayFresh
  <2>3. CASE TickClock \/ UNCHANGED dirVars
    <3>1. JobFresh(d) /\ UNCHANGED <<job, stored, mark>>
      BY <2>3 DEF FreshInv, TickClock, dirVars
    <3>2. QED
      BY <3>1 DEF JobFresh, NewerStored
  <2>4. QED
    BY <2>1, <2>2, <2>3 DEF DirectoryNext
<1>5. QED
  BY <1>1, <1>2, <1>3, <1>4 DEF FreshInv

LEMMA FreshAlways ==
  ASSUME ~ ParentEscapes
  PROVE  DirectorySpec => []FreshInv
<1>1. FreshInv /\ [DirectoryNext]_dirVars => FreshInv'
  BY FreshNext
<1>2. QED
  BY <1>1, FreshInitially, PTL DEF DirectorySpec

\* For any number of devices, with clocks as wrong as they like and uploads that break
\* off anywhere: a snapshot that fewer than Keep newer ones have followed is still
\* there (UploadSnapshot, pruneOldSnapshots).
THEOREM KeepsNewestHolds ==
  ASSUME ~ ParentEscapes
  PROVE  DirectorySpec => []KeepsNewest
<1>1. FreshInv => KeepsNewest
  BY DEF FreshInv
<1>2. QED
  BY <1>1, FreshAlways, PTL

\* A pull gets a snapshot as new as every one stored before its listing, or finds it
\* gone because Keep newer ones came (DownloadLatestSnapshot).
THEOREM PullIsFreshHolds ==
  ASSUME ~ ParentEscapes
  PROVE  DirectorySpec => []PullIsFresh
<1>1. FreshInv => PullIsFresh
  BY DEF FreshInv, JobFresh, PullIsFresh
<1>2. QED
  BY <1>1, FreshAlways, PTL
=============================================================================
