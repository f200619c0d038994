# A verification project for local-relay-gateway

TLA+ models of the gateway, the TLC configurations that check them on small
instances, and proofs that TLAPS checks for every value of the constants.
Every definition is translated from the Go code; `PROJECT.json` gives, for each
one, the lines it stands for.

    tlc -workers 2 -config MCRelay_pair.cfg MCRelay     # check one run
    tlapm RelayProofs.tla                               # check one proof module

## The system

The gateway is one process in front of several upstream *stations* that speak
the OpenAI or the Anthropic protocol. A client names a model by an *alias*; the
gateway finds the stations that have a mapping for it, calls them in order until
one answers, and relays that answer. A station that fails often enough goes into
*cooldown*; probes and successful requests bring it back.

| Component | State it keeps | Operations |
| --- | --- | --- |
| Router, `internal/routing` | none of its own (a view of the scoreboard) | `Candidates`, `RecordFailure`, `RecordSuccess` |
| Request proxy, `internal/gateway` | per request: the stations and statuses it read, the targets, how far it is | authorise, read, choose, attempt, capture an error body, fail over, stream, log |
| Health loop, `internal/jobs/health.go` | per round: the stations and statuses it read | tick, read, probe one by one, write |
| Scoring loop, `internal/jobs/scoring.go` | the scoreboard | recompute from the request logs |
| Retention loop, `internal/jobs/retention.go` | none | delete old logs |
| Database, `internal/storage/sqlite` | stations, mappings, statuses, three log tables, two id sequences | single statements; two transactions (delete a station, apply a snapshot) |
| Forms, `internal/admin` | per request: the parsed form | create, edit, delete stations and mappings; set-up; sync |
| Configuration sync, `internal/configsync`, `configsync.go` | a remote directory of snapshots | export, upload, prune, download, apply |
| Runtime file, `internal/config` | `runtime.json` | load, save; start-up mode |
| Process, `cmd/local-relay-gateway` | the root context | start the loops, serve, shut down |
| Protocol adapters, `internal/protocol` | none | convert bodies and headers |

The components share nothing but the database, the scoreboard, `runtime.json` and,
between devices, the remote directory. There is no in-memory lock
around a status row: a request and the health loop each read rows, compute new
ones and upsert them whole. A client that disconnects cancels the context of its
request (statements included); a signal cancels the root context, on which the
health loop's probes and statements run, but not the requests under way.

### What is hard here, and what makes it right

* *Concurrent writers of one row.* A row is computed from a snapshot that may be
  minutes old. It must still never contradict the thresholds of its station
  (`StatusCoherent`), though counts may be lost (`ThresholdHonoured` fails). An
  edited threshold reaches a row with its next write (`WritesCatchUp`).
* *Blame.* A client that hangs up, or a shutdown, cancels a context and so makes calls,
  copies and probes fail. No station may pay for that (`CancellationIsNoFault`).
* *Failover.* Only before headers are committed; each target once, in order;
  an answer from exactly one of them (`KeepsContract`, `VerdictEarned`).
* *Logs written by statements that may fail and whose errors are ignored*
  (`FailoverTrail`, `LogTellsTheStory`).
* *Choices made of three reads* while forms edit the tables (`ChoiceIsFresh`).
* *Late writes about deleted stations* (`IdsAreOld`, `NewStationStartsClean`).
* *Forms checked by one statement and written by another*, with a pull between
  the two (`KeysUnique`).
* *Exports in two reads* (`ExportsAreValid`) and *a snapshot applied over rows it
  knows nothing of*: an orphan, a half-finished form, a station of the same name
  and another id (`PullMatches`, `PullKeepsIdentity`).
* *A directory shared by devices whose clocks disagree*, each pruning by a listing
  that is already old (`KeepsNewest`, `PullIsFresh`, `UploadTidiesUp`).
* *A file replaced in four steps without a lock* (`KeySurvives`, `NextKeyIsReady`;
  `SavedKeyStays` fails).
* *Scores keyed by a name that may change hands* (`InheritedScoresFade`,
  `BoardCatchesUp`), over rows that another goroutine deletes
  (`RetentionSparesTheWindow`, `LogsAreSwept`).
* *Waiting*: for upstreams that never take a request or end a body, in a round of
  probes, for a cooldown
  (`RequestsMoveOn`, `LeaversAreForgotten`, `ProbesDecide`, `LoopHalts`); and *a loop with
  several ways on*, none of which may lead back (`RequestsEnd`).
* *Crashes and restarts* on the same database (run `MCGateway_process`) and on the
  same file (run `MCRuntime_save`).

`PROJECT.json` lists each hazard at its line, with the properties about it.

## The modules

    Selector <- StationStore <- RelayRequest --+
                    ^   ^         (+ Failover)  |
                    |   +------ HealthLoop -----+--> Gateway
                    +---------- StationAdmin ---+
                                  ^      ^
                            ConfigSync  Scoring
    RelayContract : what RelayRequest promises (refinement)
    SyncDirectory, RuntimeFile : share no table with the others

| Module | Models | How |
| --- | --- | --- |
| `Selector` | `selector.go` | pure operators. A station is a record; its URLs and keys are the set of protocols it supports and `parses`, whether the URL that is probed is one. `Candidates` is the set of sequences sorted by the comparator `Before`, which has exactly one element because `Before` is proved a strict total order |
| `Failover` | the classifiers of `server.go` | pure operators on an answer `[err, status, body]`. The phrases searched in a body are abstracted to the kind they select |
| `StationStore` | the tables and the statements shared by components | one variable per table. A statement or a transaction is one step. `MayFail` lets a statement fail under a cancelled context, and any statement when `DBFaults` |
| `RelayContract` | the promise made to a client | abstract: choose a set of stations, call them one at a time, none twice, answer from one |
| `RelayRequest` | `proxyNormalizedRequest` and its callees | one action per statement or network event; `handler[r]` holds the handler's local variables, `pc` says where it is |
| `HealthLoop` | `StartHealthLoop` | one action per read and per probe; `health` holds the round's snapshot. A station without a URL, or whose URL makes no request (`HasHealthURL`), is passed over. `Retune` is the form that edits thresholds |
| `StationAdmin` | the station and mapping forms and their statements | `Check...` actions read and hold the form, the write actions apply it under the schema's constraints |
| `ConfigSync` | `configsync.go`, `snapshot.go`, the sync handlers | beside the forms: an export is two reads, an apply one transaction. `sync[s]` holds the listing or the snapshot of a request; a pull gets any snapshot of `Remote` |
| `SyncDirectory` | `webdav.go` | one action per request of the client; `job[d]` holds the name and the listing. What a snapshot says does not matter here, only its name: the device's clock and its slug |
| `RuntimeFile` | `runtime_bootstrap.go` and its callers | open, write, remove and rename as four steps of any number of saves; a file is absent, just truncated (`Empty`), holds a key, or something that cannot be read |
| `Scoring` | `scoring.go`, `retention.go`, the log tables | a round reads names, then rows; a sweep is its tick and two deletes; forms rename stations, the process restarts. `requestLogs` is a table, `errorLogs` the set of the ages of its rows, which is all that a sweep looks at |
| `Gateway` | `main.go` | the composition, with signals, crashes and restarts |
| `MC*` | | values of the constants for TLC |
| `StoreProofs` | | theorems about the operators of `Selector` and `StationStore` |
| `RelayProofs`, `AdminProofs` | | theorems about requests and about forms |
| `GatewayProofs` | | theorems about the health loop and the composed gateway |
| `SyncProofs`, `DirectoryProofs`, `RuntimeProofs`, `ScoringProofs` | | theorems about the module of that name |

Names follow the code where TLA+ allows. Operators whose name has a suffix after
an underscore (`Advance_OffByOne`) are plausible bugs; each property of a passing
run is violated when one of them replaces the definition it is named after.

### State and code

`handler[r].pc` and the lines of `proxyNormalizedRequest`:

| pc | about to | lines of server.go |
| --- | --- | --- |
| `stations`, `mappings`, `statuses` | read the table | 166-180 |
| `choose` | call `Candidates` | 181-185 |
| `attempt` | log the hand-over, build and send the request | 194-214 |
| `headers` | see `client.Do` return | 214-219 |
| `capture` | have the error body read | 220-227 |
| `failing` | write the failure and take the next target | 229-240 |
| `streaming` | see the copy end | 242, 250 |
| `logging` | insert the request log | 246, 253 |
| `exhausted` | answer 502 | 257-264 |

`job[d].pc` and the requests of `webdav.go`: `put` sends the file, `list` asks for
the listing after it, `prune` deletes the oldest file of that listing until `Keep`
are left; `get` fetches the newest file of a pull's listing. `save[s].pc` and
`SaveRuntimeFile`: `open` and `write` are `os.WriteFile`, then `remove` and `rename`.
`sync[s].pc`: `listed` after the first read of an export, `exported` after the
second, `downloaded` before the apply.

History variables, which no guard reads: `attempts`, `tally`, `faulted` and `seen` of
the relay (`tally` counts the outcomes written for a station as a single writer
would; `faulted` holds the stations that failed, and those whose body broke before the
context was cancelled; `seen` collects what held of a station at some moment since a request arrived); `stored` and `mark`
of the directory; `last`, `risk` and the field `alone` of the runtime file; the field
`inherited` of a score.

## The runs

| Run | Question | Instance |
| --- | --- | --- |
| `MCRelay_pair` | do whole-row writes from old snapshots keep rows coherent, and is blame right? | 2 requests, 2 stations (one manual with failure threshold 1, one auto with 2/2), a clock of 2, clients may leave |
| `MCRelay_story` | do logs and verdicts tell what happened, is the contract kept, does every request move on, and only onwards? | 1 request, 3 stations in the three tiers of the order, 6 classes of answer, 2 scoreboards |
| `MCHealth_loop` | does the loop alone lose nothing, do edited thresholds reach the rows, do the probes decide? | 3 stations: two go up and down at any moment, the one between them in the list has a URL that does not parse; the thresholds of one edited between two pairs (`Tuned`), a signal at any moment |
| `MCGateway_edits` | do late writes stay away from new stations, are choices fresh? | 1 request against 1 administrator, 2 ids, create, edit, delete; the station at the start is in cooldown |
| `MCGateway_process` | do coherence, blame, contract and fresh choices survive the process? | 1 request and the health loop, signals, crashes, restarts, statements may fail |
| `MCSync_device` | is every export valid, do keys stay unique, does a pull leave exactly the snapshot? | 2 sync requests and 1 form at once, 2 station ids, 3 names, 2 foreign snapshots (a rival configuration with thresholds of 0, an invalid one) and the device's own, statements may fail |
| `MCDirectory_shared` | do the newest snapshots survive, is a pull fresh, is the directory tidied? | 3 devices, one with a fast clock, two of one name, `Keep` 2, requests and answers get lost |
| `MCRuntime_save` | when can a saved key be lost? | 3 saves of 3 keys at once, file operations fail, the process ends anywhere |
| `MCScoring_loops` | does the board follow the log, do rows go neither too early nor never? | 2 stations whose names change hands, 1 request under way, 2 log rows, statements fail, restarts |

and three that TLC finds violated, each a sentence of the documentation that the
code does not keep:

| Run | Sentence | What happens |
| --- | --- | --- |
| `MCRelay_lost` | "Enter cooldown after this many failures" (docs/usage.md:157) | two requests fail together, each writes the count 1 |
| `MCDirectory_escaped` | "Select the newest `lrg-config-*.json` from the ... child directory under the WebDAV parent directory" (docs/usage.md:222) | the path of a listing is escaped already and is escaped again for the GET: under a parent with a blank in its path nothing is found |
| `MCRuntime_lost` | "Runtime key changes are saved to `runtime.json`" (docs/usage.md:376) | two saves at once: one succeeds, the other removes its file and then fails |

Met while modelling, and visible in the models, but without a run of their own:

* "A station returns to `healthy` after reaching `consecutive_recovery_threshold`"
  (docs/usage.md:336): one success of a request older than the cooldown ends it.
* "... enters `cooldown` until `cooldown_seconds` expires" (README.md:171):
  `Candidates` never looks at `CooldownUntil`, so only recorded successes end a cooldown.
* "`429`, `5xx` ... trigger the next candidate station" (README.md:170): the error body
  is read to its end first, without a timeout (`Capture` and `CaptureFails` have no fairness of their own).
* A client that leaves in the middle of a body may be found out by the copy first, whose
  writes go to the connection past net/http's own checks, and only then by the context:
  the station is booked a failure for it. The test
  `TestResponsesHandlerDoesNotPersistFailureOnCanceledClient` (server_test.go:278) is about
  a context that is cancelled before. The copy's error does not tell one end from the
  other, so `StreamBreaks` has one outcome for both, and `CancellationIsNoFault` is about
  cancelled contexts.
* `ResponseHeaderTimeout` bounds the wait for headers only once the request has been sent:
  an upstream that stops reading a large request holds the handler until its client leaves.
* Station forms and snapshots do not look at URLs. A station whose URL does not parse is
  never probed (health.go:51): its state does not follow its upstream, and a request that
  is handed to it ends with 500 (server.go:210) without trying the next one.
* A process that ends within its first hour never sweeps the logs (retention.go:18).
* "Deleting a station also deletes its mappings and runtime status"
  (docs/usage.md:168): a form that passed its check inserts a mapping afterwards, and a
  request under way writes the status row back. The rows stay orphans: that no later
  station inherits them is `NewStationStartsClean`.
* A station in cooldown that is deleted between the reads of a request may still be
  called: its status row is gone, and a station without one counts as healthy.
  `ChoiceIsFresh` holds nevertheless: a station without a row is out of cooldown.
* Of two uploads that prune at the same time one may find a file already deleted. It
  then reports an error and leaves up to one file more than `Keep`; the next upload
  counts it.
* Retention sweeps `request_logs` and `upstream_error_logs`; `failover_events` is never
  swept.
* An export may silently omit the mappings of a station created between its two reads.

The runs of `MCDirectory` and `MCRuntime` check deadlock as well. The others have
`CHECK_DEADLOCK FALSE`: each request is sent once, the loop may halt and ids run out,
so the model may really stop.

### Bounds and why they are enough

* `CountCap`: the two counters of a row are compared with thresholds only, so
  they saturate at a value no smaller than any threshold used (2; 1 in `MCScoring_loops`,
  where no row is written).
* Two writers of one row show every lost update.
* Three stations put one in each tier of the order (manual, auto with a score,
  auto without) and let a request fail over twice.
* `MaxTime`: only "before or after the end of a cooldown of 1" matters; for the
  directory, that names may come before, at and after one another whatever the order of
  the uploads, which a skew of 1 and two instants give.
* `Ids` bounds the ids given out. Two station ids let a station be created,
  deleted and created again. A step that would need a further id does not happen.
* `Keep` is 2 where the code has 5: with three devices uploading again and again the
  directory is over its limit, and a device can be outrun by as many newer files as
  `Keep`. `KeepsNewest` and `PullIsFresh` are proved for every `Keep`.
* Two sync requests let one pull between the two reads of the other's export and
  between the download and the apply of the other; the form stands between its check
  and its write meanwhile.
* Three saves let one truncate the temporary file while another renames it and a third
  removes the result.
* `MaxRows` bounds the rows of the two log tables together; a request begins only while
  there is room for its row, which a sweep makes. `Scale` is a common multiple of the
  numbers of rows, so that a score, a duration times a share, is a whole number.
* `Window = Retention = 1`, the tightest the assumption `Window <= Retention` allows
  (the code has 15 minutes and 7 days): ages 0, 1 and 2 are inside, at and beyond both.
  Calls are of one shape, a failure of 2 ms, so the runs tell one row from two (the minimum
  sample) and a share of errors from their number, but not medians or shares from one another;
  `ScoringTypeCorrect` bounds every score for any calls. The two reads of a round fall into one unit of time.
* `Tuned` names the stations whose thresholds are edited: the other one shows that the loop
  treats stations apart.
* `Ticks = FALSE` keeps the health loop out of runs about something else, whose
  components do not depend on it.

### Fairness

Safety runs assume none. `FairRelaySpec` assumes weak fairness of the steps that need
nothing of a peer (`Prompt`: the scheduler runs a ready goroutine), and of those that await
an upstream (`AwaitsUpstream`: headers, an error body, a body) only once the context is
cancelled, for then the transport closes the connection. Nothing else is assumed of an
upstream: the 15 s of `cloneDefaultTransport` do not begin before it has read the request,
and no body has a timeout. `RequestsMoveOn` has as its premise that the request leaves those
waits again and again; `LeaversAreForgotten` needs none. `FairLoopSpec` assumes weak fairness
of the loop's steps: the ticker keeps firing and a probe lasts at most 5 s. `ProbesDecide`
takes an upstream that stays up, or stays down, as its premise, and speaks of stations with
a URL that can be probed. `FairScoringSpec` assumes weak fairness of the start of a round
(one starts with the process, then the ticker keeps firing) and strong fairness of the second
read, of both deletes and of time: a statement may fail and a process may end before it,
again and again, but a statement that is tried infinitely often succeeds some time. Nothing
is assumed of `TickSweep`, whose first period is an hour and begins anew with every process:
`LogsAreSwept` has as its premise that it fires again and again. `BoardCatchesUp` and
`InheritedScoresFade` take as their premise that stations are no longer edited.

## What is proved

For every set of requests, forms, stations, answers and scoreboards, and every clock:

* `RelayTypeCorrect`: `RelaySpec => []RelayTypeOK`. The inductive part is that the
  handler's index stays within its targets while it loops (`Advance`).
* `GatewayTypeCorrect`: the same of the whole gateway. `HealthTypeOK` says that no station
  is left to probe outside a round, without which a new snapshot could lack one.
* `CancellationIsNoFaultHolds`: `GatewaySpec => []CancellationIsNoFault`. Not inductive alone: a
  handler and a round of probes carry rows they will write back. `FaultsOwned` adds, for
  every handler whose context is not cancelled, that the failures in its snapshot are of
  stations at fault, and that its target is at fault while it is failing; under a
  cancelled context the write fails. `ProbesOwned` adds the same of the snapshot of the
  round; a probe that fails because of the signal writes nothing. `RelayProofs` has the
  steps of a request, `GatewayProofs` the probes, forms, deletions, signals and restarts.
* `StatusCoherentHolds`, `GatewayRowsCoherent`: `StatusCoherent` of `RelaySpec` and of
  `GatewaySpec`, if the rows at the start are coherent. A row in somebody's memory is
  compared with thresholds that need not be in the table any more, for its station may be
  deleted. So the invariant speaks of a `law` that gives thresholds to ids: `AllAgree(law)`
  says that tables, snapshots and targets follow it and that every row in the table or in a
  snapshot agrees with it, `ProbesAgree` the same of the round of probes. The step is
  `OutcomesMakeRowsCoherent`: `RecordFailure` and `RecordSuccess` turn any row in which only a
  cooldown has an end into a coherent one, whatever the thresholds. Of the gateway the theorem
  is `GatewaySpec /\ [][ThresholdsKept]_stations => []StatusCoherent`: forms may create stations
  with any thresholds, rename, switch and delete them, but edit no threshold of one that exists.
  There the law is not fixed but grows (`SomeLaw`): a created station gets an id that the law
  does not know, and brings its thresholds with it (`AdminAgrees`); whoever agreed with the law
  before agrees with the longer one (`GrownLaw`). The premise is needed: after an edit of a
  threshold a row is incoherent until its next write (`WritesCatchUp`).
* `VerdictEarnedHolds`, `LogTellsTheStoryHolds`, `FailoverTrailHolds` of `RelaySpec`, and
  `GatewayTellsTheTruth`, all three of `GatewaySpec`. The
  invariant is `Stories`: where a handler stands in its loop says which calls were made,
  to which targets, and how each of them ended (before a call all earlier ones failed;
  while a body is relayed the last is the only one that did not). `LogInv` and `EventInv`
  add the rows of the two tables. A row is about the past, so the argument is that the
  past stays: a logged request is done and its calls no longer change, a failure that
  was handed over is never rewritten, and a cancelled request stays cancelled, which
  the completeness of both tables rests on. A crash leaves a request the calls it made and
  its client what it was sent (`LostStory`).
* `RequestsEndHolds`: `GatewaySpec => RequestsEnd`. `StepsLeft` is a natural number while the
  handler's index stays within its targets, and each kind of step (`Moves`) lowers it;
  that it starts at no more than `4 * Cardinality(Ids) + 7` is `FewTargets`: the targets have
  distinct ids, so there are no more of them than ids. With fairness this is why
  `RequestsMoveOn` and `LeaversAreForgotten` hold, for any number of stations.
* `ContractKept`, `GatewayKeepsContract`: `RelaySpec` and `GatewaySpec` implement
  `RelayContract`. Each step of a handler maps to one step of the promise or to a stutter;
  forms, probes and signals map to stutters and a restart to the death of the requests
  under way. What the mapping needs is in `Choices`: the targets of a request have
  distinct ids, so calling the next one calls none twice.
* `ChoiceIsFreshHolds`: of `GatewaySpec`. `FreshInv` says of each of the three reads
  that what the handler holds of it was seen since its request arrived; the history
  `seen` only grows (`WatchGrows`), whatever the forms do meanwhile.
* `LoopTypeCorrect`, `NoLostOutcomeHolds`, `WritesCatchUpHolds`: of `LoopSpec`. A probe
  counts from the snapshot of its round, so `CountsKept` adds that the snapshot's row of a
  station still to be probed is the row in the table: nobody else writes it, and no
  station is probed twice in a round. `WritesCatchUp` needs only `RowsStamped`, that no row
  but one in cooldown has an end; how the thresholds were edited plays no part. The
  seed rows must be such rows.
* `EditTypeCorrect`, `KeysUniqueHolds`: of `EditSpec`, under any number of concurrent
  forms, if the seed rows have unique keys; the checks contribute nothing, the
  constraints do it.
* `IdsAreOldHolds`, `NewStationStartsCleanHolds`: of `GatewaySpec`, if the mappings at the
  start name ids already given out. A deleted station may still be written about by a
  mapping form that passed its check, a request and a round of probes: `OldInv` says that
  the form names an id already given out, `LateInv` that the stations a handler has read,
  its targets and the stations of the round are such ids too.
* `BeforeIsStrictTotalOrder`: the comparator handed to `sort.SliceStable` is
  irreflexive, transitive and total on distinct ids, so the order of the candidates
  does not depend on the order of the rows.
* `CandidatesAreDetermined`: `Candidates`, a set of sorted sequences, has exactly one element,
  whatever the tables and the scores.
* `FailuresAreNamed`, `ErrorTablesAgree`: the classifiers agree with one another
  for every status code and body.

For every number of sync requests and forms on a device, and any foreign snapshots:

* `DeviceTypeCorrect`, `DeviceKeysUnique`, `ExportsAreValidHolds`, `PullMatchesHolds`,
  `PullKeepsIdentityHolds`, of `DeviceSpec`, if the seed rows fit the schema (`SeedFits`).
  `DeviceInv` joins three things. No row speaks of an id not yet given out, so the ids
  that an apply gives to the stations it creates are new and differ from those that
  stay, and two stations of a snapshot never share a home. Keys are unique at every
  moment. A held listing has unique names; an export adds to it the mappings there
  are now, whose keys are unique now, and which count only if their station is in the
  listing: that is why two reads at different times still make a valid snapshot.

For every number of devices, every `Keep`, every skew of their clocks, and requests and
answers lost at any point:

* `DirectoryTypeCorrect`, and `UploadTidiesUpHolds` for any parent path. `TidyInv` adds to
  the types that a pruning device's listing, together with what came after it (`mark`),
  covers the directory (`Covered`), so that what is left of the listing bounds what is
  left of the directory.
* `KeepsNewestHolds` and `PullIsFreshHolds`, if a listing does not escape the parent's
  path. A device deletes the oldest of a listing that is already old, and what it believes
  too many may have been deleted by others meanwhile. `FreshInv` adds to `TidyInv` that
  every listing is made of names once stored and a pull's choice is as new as all that was
  stored before its listing (`JobFresh`), and that something as new as any stored name is
  still there (`NewestStays`). What makes a deletion harmless is `VictimIsOutrun`: a
  listing longer than `Keep` holds, beside its oldest entry, `Keep` names newer than it.

For every number of concurrent saves, faults and crashes:

* `RuntimeTypeCorrect`, `KeySurvivesHolds`, `NextKeyIsReadyHolds`. `RuntimeInv` adds that a
  save that ran alone so far is the only one under way and, while it writes, finds the
  temporary file empty as it truncated it (`Alone`): what it writes is complete.

For every window and retention, any number of log rows, requests and forms, and restarts:

* `ScoringTypeCorrect`: `ScoringSpec => []ScoringTypeOK`. `Median` is a `CHOOSE`; that there is
  something to choose is `MiddleExists`, and with it every score lies between the least
  duration that a request may log and twice the greatest (`ScoredType`). `ScoringInv` adds
  that every logged duration is one of those (`RealDurations`).
* `RetentionSparesTheWindowHolds`: no sweep takes or changes a row of the window, wherever the
  two loops stand. It rests on `Window <= Retention` alone.

`MiddleExists` needs an induction, and the library's induction theorems take an operator
as parameter, which no installed prover can instantiate. The argument is made with sets:
the order of the naturals is well-founded, so a non-empty set of them has a least
element (`SmallestOf`), and the median is the least duration with more than half of the
rows at or below it. No theorem needs what a recursive definition computes.

Assumptions: `IdsAssumption` (ids are positive, and finitely many: the bound),
`CountCapAssumption`, `SeedAssumption` (the database at the start has rows of the
right types, statuses only of its stations), `RequestAssumption`, `FormsAssumption`,
`KeepAssumption` (`Keep` is positive), `ForeignAssumption`,
`ScoringAssumption` (`Window <= Retention`, and `Scale` is a multiple of every number of
rows), `HealthAssumption`, `DirectoryAssumption` and `RuntimeAssumption` (types of the constants; `None`, `Empty`, `Broken` and the keys differ). TLC evaluates each of
them on the runs. Theorems about coherence take the coherence of the seed rows as an
explicit hypothesis; they hold for every `CountCap`, without relating it to any threshold.

Only model-checked: liveness, which is out of the provers' reach (`RequestsMoveOn`,
`LeaversAreForgotten`, `ProbesDecide`, `LoopHalts`, `BoardCatchesUp`, `InheritedScoresFade`,
`LogsAreSwept`). Every other property of a passing run is a theorem.

## What is left out, and the plan

Left to prove, in this order:

1. What liveness rests on, in the form `RequestsEnd` has it: a rank for a round of probes, and
   one for a sweep.
2. `RowsStamped` and `WritesCatchUp` beside requests and crashes (`GatewaySpec`; proved for the
   loop beside forms that edit thresholds).
3. `KeysUnique` of `GatewaySpec`, which `AdminProofs` has for the forms alone.

Left out for good: the protocol adapters (JSON, header and URL conversions: stateless),
the admin pages and usage reports (they read tables and render HTML), the opening and
migration of the database file, API keys and tokens (a request with a wrong one is
`Refuse`; the setup and runtime forms are modelled from a valid write token on), the
durations and timestamps in the rows that a request logs, and the text of error
messages. `health_check_interval_seconds` and `health_check_timeout_seconds` are stored and
never used by the code, so a station record does not have them. The environment start-up
mode reads no file and has no state.

Abstractions to keep in mind:

* An upsert of a mapping uses up an id as SQLite's AUTOINCREMENT does; `cooldown` is a
  natural number, as both the form check and the clock have it in whole seconds; a body
  that is not searched (its status is neither 402 nor 403) is "".
* A transaction happens or fails as a whole; busy timeouts and the journal are SQLite's.
* The lists of a snapshot are sets: the same entry written twice by hand, and names
  with blanks around them, are not modelled.
* The name of an upload is made when the snapshot is exported. Files put into the remote
  directory by hand, or whose name has no time that can be read, are not modelled.
* `RuntimeFile` has the rules of Windows for open files, the only system that starts
  from the file. A file that is there and cannot be opened fails the start, though the
  design note speaks of setup mode for it; the model has no such file.
* Timestamps in log rows are compared as strings; a change of the UTC offset while the
  process runs is not modelled.
