--------------------------- MODULE SyncDirectory ---------------------------
(***************************************************************************)
(* internal/configsync/webdav.go: the remote directory that devices share. *)
(* A device uploads a file named by its clock, lists the directory and     *)
(* deletes, one request after the other, what its listing calls oldest; or *)
(* lists the directory and gets the newest file.  Requests of two devices  *)
(* interleave, and the answer of any may be lost.                          *)
(***************************************************************************)
EXTENDS Integers, FiniteSets

CONSTANTS Devices,
          Keep,           \* maxRemoteSnapshots
          Slug,           \* slugify of a device's name, as its place in the order of slugs
          Skew,           \* by how many seconds a device's clock is ahead of the slowest
          ParentEscapes,  \* TRUE: the path of the parent URL is one that a listing escapes
          NetFaults,      \* TRUE: requests and answers get lost
          MaxTime         \* bound: the clock stops there

ASSUME KeepAssumption == Keep \in Nat \ {0}
ASSUME DirectoryAssumption == /\ Slug \in [Devices -> Nat]
                              /\ Skew \in [Devices -> Nat]
                              /\ MaxTime \in Nat
                              /\ {ParentEscapes, NetFaults} \subseteq BOOLEAN

VARIABLES dir,            \* the names in the remote directory
          clock,          \* the slowest clock
          job,            \* per device: the request of the sync page under way
          stored,         \* history: the names ever uploaded
          mark            \* history, per device: the names uploaded since an upload's listing,
                          \* or ever uploaded before a pull's

dirVars == <<dir, clock, job, stored, mark>>

Name == [at : Nat, slug : Nat]

\* A path in a listing is escaped; used as the path of a request it is escaped again
\* and, if that makes a difference, names no file.
Entry == [name : Name, escaped : BOOLEAN]

Target(name) == [name |-> name, escaped |-> FALSE]

Newer(m, n) == m.at > n.at \/ (m.at = n.at /\ m.slug > n.slug)

\* By time, then by path, in which the parent's spelling counts first.
Before(e, f) == \/ e.name.at < f.name.at
                \/ (e.escaped = f.escaped /\ Newer(f.name, e.name))

Oldest(files) == {e \in files : \A f \in files : ~ Before(f, e)}

\* Mutant: the wrong end of the sorted listing.
Newest_First(files) == Oldest(files)

Newest(files) == {e \in files : \A f \in files : ~ Before(e, f)}

Found(entry) == ~ entry.escaped /\ entry.name \in dir

NoName == [at |-> 0, slug |-> 0]
Idle == [pc |-> "idle", name |-> NoName, files |-> {}]

Ready(d) == job[d].pc \in {"idle", "uploaded", "got", "missing"}

DirectoryInit ==
  /\ dir = {}
  /\ clock = 1
  /\ job = [d \in Devices |-> Idle]
  /\ stored = {}
  /\ mark = [d \in Devices |-> {}]

-----------------------------------------------------------------------------
(* Upload *)

\* The name is made when the snapshot is exported; MKCOL follows.
StartUpload(d) ==
  /\ Ready(d)
  /\ job' = [job EXCEPT ![d] = [Idle EXCEPT
               !.pc = "put", !.name = [at |-> clock + Skew[d], slug |-> Slug[d]]]]
  /\ UNCHANGED <<dir, clock, stored, mark>>

\* The server stores the body; the answer may be lost.
PutFile(d) ==
  /\ job[d].pc = "put"
  /\ dir' = dir \cup {job[d].name}
  /\ stored' = stored \cup {job[d].name}
  /\ mark' = [e \in Devices |-> IF job[e].pc = "prune" THEN mark[e] \cup {job[d].name} ELSE mark[e]]
  /\ \/ job' = [job EXCEPT ![d].pc = "list"]
     \/ NetFaults /\ job' = [job EXCEPT ![d] = Idle]
  /\ UNCHANGED clock

Listing == {[name |-> n, escaped |-> ParentEscapes] : n \in dir}

\* Mutant: the own file is not counted.
ListUpload_DropsOwn(d) ==
  /\ job[d].pc = "list"
  /\ job' = [job EXCEPT ![d] = [@ EXCEPT !.pc = "prune", !.files = Listing \ {Target(job[d].name)}]]
  /\ mark' = [mark EXCEPT ![d] = {}]
  /\ UNCHANGED <<dir, clock, stored>>

\* PROPFIND; the own file is added when the listing does not have its path.
ListUpload(d) ==
  /\ job[d].pc = "list"
  /\ job' = [job EXCEPT ![d] = [@ EXCEPT !.pc = "prune", !.files = Listing \cup {Target(job[d].name)}]]
  /\ mark' = [mark EXCEPT ![d] = {}]
  /\ UNCHANGED <<dir, clock, stored>>

\* Mutant: one file too many is deleted.
TooMany_ByOne(files) == Cardinality(files) >= Keep

TooMany(files) == Cardinality(files) > Keep

\* DELETE of the oldest file of the listing.  A file that is not there (any more)
\* ends the upload with an error.
DeleteOldest(d) ==
  /\ job[d].pc = "prune"
  /\ TooMany(job[d].files)
  /\ \E victim \in Oldest(job[d].files) :
       IF Found(victim)
       THEN /\ dir' = dir \ {victim.name}
            /\ \/ job' = [job EXCEPT ![d].files = @ \ {victim}]
               \/ NetFaults /\ job' = [job EXCEPT ![d] = Idle]
       ELSE /\ job' = [job EXCEPT ![d] = Idle]
            /\ UNCHANGED dir
  /\ UNCHANGED <<clock, stored, mark>>

EndUpload(d) ==
  /\ job[d].pc = "prune"
  /\ ~ TooMany(job[d].files)
  /\ job' = [job EXCEPT ![d] = [Idle EXCEPT !.pc = "uploaded"]]
  /\ UNCHANGED <<dir, clock, stored, mark>>

-----------------------------------------------------------------------------
(* Download *)

\* Mutant: the empty listing is not looked for.
ListPull_Unchecked(d) ==
  /\ Ready(d)
  /\ job' = [job EXCEPT ![d] = [pc |-> "get", name |-> NoName, files |-> Newest(Listing)]]
  /\ mark' = [mark EXCEPT ![d] = stored]
  /\ UNCHANGED <<dir, clock, stored>>

\* PROPFIND: no snapshot is an error, otherwise the last one in order is fetched.
ListPull(d) ==
  /\ Ready(d)
  /\ IF dir = {}
     THEN job' = [job EXCEPT ![d] = Idle]
     ELSE \E latest \in Newest(Listing) :
            job' = [job EXCEPT ![d] = [pc |-> "get", name |-> latest.name, files |-> {latest}]]
  /\ mark' = [mark EXCEPT ![d] = stored]
  /\ UNCHANGED <<dir, clock, stored>>

GetFile(d) ==
  /\ job[d].pc = "get"
  /\ \E latest \in job[d].files :
       job' = [job EXCEPT ![d] = [pc |-> IF Found(latest) THEN "got" ELSE "missing",
                                  name |-> @.name, files |-> {}]]
  /\ UNCHANGED <<dir, clock, stored, mark>>

-----------------------------------------------------------------------------

\* A request that never arrives, or is refused, ends the job with an error.
Fail(d) ==
  /\ NetFaults
  /\ ~ Ready(d)
  /\ job' = [job EXCEPT ![d] = Idle]
  /\ UNCHANGED <<dir, clock, stored, mark>>

TickClock ==
  /\ clock < MaxTime
  /\ clock' = clock + 1
  /\ UNCHANGED <<dir, job, stored, mark>>

DeviceStep(d) == \/ StartUpload(d) \/ PutFile(d) \/ ListUpload(d) \/ DeleteOldest(d) \/ EndUpload(d)
                 \/ ListPull(d) \/ GetFile(d) \/ Fail(d)

DirectoryNext == TickClock \/ \E d \in Devices : DeviceStep(d)

DirectorySpec == DirectoryInit /\ [][DirectoryNext]_dirVars

-----------------------------------------------------------------------------
(* Properties *)

DirectoryTypeOK ==
  /\ dir \subseteq stored
  /\ stored \subseteq Name
  /\ clock \in Nat
  /\ job \in [Devices -> [pc : {"idle", "put", "list", "prune", "uploaded", "get", "got", "missing"},
                          name : Name, files : SUBSET Entry]]
  /\ \A d \in Devices : job[d].pc = "get" => \E latest \in job[d].files : job[d].files = {latest}
  /\ mark \in [Devices -> SUBSET Name]

NewerStored(name) == {m \in stored : Newer(m, name)}

\* Pruning never costs a snapshot its place among the newest: however uploads
\* interleave, whichever clocks are wrong and wherever an upload breaks off, a
\* snapshot is gone only when Keep newer ones have been stored (UploadSnapshot,
\* pruneOldSnapshots: each device deletes by a listing that is already old).
KeepsNewest == \A n \in stored : Cardinality(NewerStored(n)) < Keep => n \in dir

\* An upload that reports success has left no more than Keep files, those aside that
\* other devices uploaded after its listing (UploadSnapshot).
UploadTidiesUp ==
  [][\A d \in Devices : job[d].pc = "prune" /\ job'[d].pc = "uploaded"
       => Cardinality(dir' \ mark[d]) <= Keep]_dirVars

\* "Select the newest" (docs/usage.md): what a pull gets is as new as every snapshot
\* stored before it listed the directory; it finds the file gone only when Keep newer
\* ones have been stored since (DownloadLatestSnapshot beside the uploads of others).
PullIsFresh ==
  \A d \in Devices :
    /\ job[d].pc = "got" => \A n \in mark[d] : ~ Newer(n, job[d].name)
    /\ job[d].pc = "missing" => Cardinality(NewerStored(job[d].name)) >= Keep
=============================================================================
