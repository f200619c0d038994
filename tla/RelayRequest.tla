---------------------------- MODULE RelayRequest ----------------------------
(***************************************************************************)
(* internal/gateway/server.go: one goroutine per client request.           *)
(*                                                                         *)
(*   Arrive -> ReadStations -> ReadMappings -> ReadStatuses -> Choose      *)
(*     -> Attempt -> Headers -> (Capture ->) FailOver -> Attempt ...       *)
(*                           -> EndStream -> LogRequest                    *)
(*     ... -> GiveUp when the candidates are exhausted                     *)
(*                                                                         *)
(* Each database statement and each network event is a step of its own, so *)
(* other requests, the health loop and the admin handlers interleave       *)
(* between them.  The handler works on the snapshot of stations and        *)
(* statuses it read and writes whole status rows back.                     *)
(***************************************************************************)
EXTENDS StationStore, Failover

CONSTANTS Requests,      \* the client requests; each is sent once
          Queries,       \* the <protocol, alias> pairs the clients ask for
          Answers,       \* the upstream answers considered
          Scoreboards,   \* the tables the scoring loop may have published
          SetupMode      \* TRUE: the process runs without a runtime configuration

ASSUME RequestAssumption ==
  /\ Queries \subseteq Query /\ Queries # {}
  /\ Answers \subseteq Answer
  /\ SetupMode \in BOOLEAN
  /\ \A scores \in Scoreboards : \A key \in DOMAIN scores :
       scores[key].score \in Nat /\ scores[key].enough \in BOOLEAN

VARIABLES handler,         \* per request: the handler's local variables, its pc and its context
          failoverEvents,  \* table failover_events
          requestLogs,     \* table request_logs
          upstreamErrors,  \* table upstream_error_logs
          attempts         \* history, per request: the calls made, each [id, name, kind],
                           \* kind = "" until the call is known to have failed

logVars == <<failoverEvents, requestLogs, upstreamErrors>>
requestVars == <<handler, failoverEvents, requestLogs, upstreamErrors, attempts>>

Open == {"stations", "mappings", "statuses", "choose", "attempt", "headers", "capture",
         "failing", "streaming", "logging", "exhausted"}
Closed == {"done", "lost"}    \* "lost": the process died under the request

\* The verdict is what the client has been sent: "relayed" once the headers of an
\* upstream answer are committed, "exhausted" for "all upstream stations failed",
\* "none" for a 502 without any candidate, "aborted" when nothing is sent.
Verdict == {"", "refused", "error", "none", "relayed", "exhausted", "aborted"}

NoAnswer == [err |-> "none", status |-> 0, body |-> ""]

Fresh == [pc |-> "idle", cancelled |-> FALSE, query |-> CHOOSE q \in Queries : TRUE,
          stations |-> <<>>, mappings |-> {}, statuses |-> <<>>,
          targets |-> <<>>, next |-> 1, answer |-> NoAnswer, reason |-> "",
          error |-> "", verdict |-> ""]

RequestInit ==
  /\ handler = [r \in Requests |-> Fresh]
  /\ failoverEvents = {}
  /\ requestLogs = {}
  /\ upstreamErrors = {}
  /\ attempts = [r \in Requests |-> <<>>]

-----------------------------------------------------------------------------
(* Helpers: h is the handler of the request at hand. *)

Target(h) == h.targets[h.next]
DidFailover(h) == h.next > 1

Close(h, verdict) == [h EXCEPT !.pc = "done", !.verdict = verdict, !.stations = <<>>,
                               !.mappings = {}, !.statuses = <<>>]

\* Insert a row unless the statement fails; every caller ignores the error.
Insert(table, row, h) ==
  (IF h.cancelled THEN {} ELSE {table \cup {row}}) \cup (IF MayFail(h.cancelled) THEN {table} ELSE {})

\* Mutant: names the preferred station instead of the one called last.
RequestLog_NamesFirst(r, h, status, kind) ==
  [request |-> r, station |-> h.targets[1].station.name, status |-> status,
   didFailover |-> DidFailover(h), errorKind |-> kind]

RequestLog(r, h, status, kind) ==
  [request |-> r, station |-> Target(h).station.name, status |-> status,
   didFailover |-> DidFailover(h), errorKind |-> kind]

-----------------------------------------------------------------------------
(* handleNormalizedRequest *)

Arrive(r) ==
  /\ handler[r].pc = "idle"
  /\ ~ SetupMode
  /\ \E q \in Queries : handler' = [handler EXCEPT ![r].pc = "stations", ![r].query = q]
  /\ UNCHANGED <<storeVars, logVars, attempts>>

\* 503 in setup mode, 401 for a wrong key, 400 for a malformed body.
Refuse(r) ==
  /\ handler[r].pc = "idle"
  /\ handler' = [handler EXCEPT ![r] = Close(@, "refused")]
  /\ UNCHANGED <<storeVars, logVars, attempts>>

(* proxyNormalizedRequest *)

ReadStations(r) ==
  /\ handler[r].pc = "stations"
  /\ ~ handler[r].cancelled
  /\ handler' = [handler EXCEPT ![r].pc = "mappings", ![r].stations = stations]
  /\ UNCHANGED <<storeVars, logVars, attempts>>

ReadMappings(r) ==
  /\ handler[r].pc = "mappings"
  /\ ~ handler[r].cancelled
  /\ handler' = [handler EXCEPT ![r].pc = "statuses",
                                ![r].mappings = FindMappings(handler[r].query)]
  /\ UNCHANGED <<storeVars, logVars, attempts>>

ReadStatuses(r) ==
  /\ handler[r].pc = "statuses"
  /\ ~ handler[r].cancelled
  /\ handler' = [handler EXCEPT ![r].pc = "choose", ![r].statuses = statuses]
  /\ UNCHANGED <<storeVars, logVars, attempts>>

\* Mutant: a read that fails is tried again.
ReadError_Retries(r) ==
  /\ handler[r].pc \in {"stations", "mappings", "statuses"}
  /\ MayFail(handler[r].cancelled)
  /\ UNCHANGED <<storeVars, handler, logVars, attempts>>

\* Any of the three reads fails: 500.
ReadError(r) ==
  /\ handler[r].pc \in {"stations", "mappings", "statuses"}
  /\ MayFail(handler[r].cancelled)
  /\ handler' = [handler EXCEPT ![r] = Close(@, "error")]
  /\ UNCHANGED <<storeVars, logVars, attempts>>

Choose(r) ==
  /\ handler[r].pc = "choose"
  /\ \E scores \in Scoreboards :
       \E targets \in Candidates(handler[r].query, handler[r].stations, handler[r].mappings,
                                 handler[r].statuses, scores) :
         handler' = [handler EXCEPT ![r] =
           IF targets = <<>> THEN Close(@, "none")
           ELSE [@ EXCEPT !.pc = "attempt", !.targets = targets,
                          !.stations = <<>>, !.mappings = {}]]
  /\ UNCHANGED <<storeVars, logVars, attempts>>

\* Mutant: names the first station instead of the one just left.
FailoverEvent_FromFirst(r, h) ==
  [request |-> r, from |-> h.targets[1].station.name, to |-> Target(h).station.name,
   reason |-> h.reason]

\* It names the station left, the one turned to and the kind of the failure.
FailoverEvent(r, h) ==
  [request |-> r, from |-> h.targets[h.next - 1].station.name, to |-> Target(h).station.name,
   reason |-> h.reason]

\* From the second target on a failover event is written first.  Then
\* the upstream request is built (500 if that fails) and sent.  Under a cancelled
\* context client.Do sends nothing and the handler returns without a word.
Attempt(r) ==
  LET h == handler[r]
  IN  /\ h.pc = "attempt"
      /\ failoverEvents' \in IF DidFailover(h) THEN Insert(failoverEvents, FailoverEvent(r, h), h)
                                               ELSE {failoverEvents}
      /\ \/ /\ handler' = [handler EXCEPT ![r] = Close(@, "error")]
            /\ UNCHANGED attempts
         \/ /\ h.cancelled
            /\ handler' = [handler EXCEPT ![r] = Close(@, "aborted")]
            /\ UNCHANGED attempts
         \/ /\ ~ h.cancelled
            /\ handler' = [handler EXCEPT ![r].pc = "headers"]
            /\ attempts' = [attempts EXCEPT ![r] = Append(@,
                 [id |-> Target(h).id, name |-> Target(h).station.name, kind |-> ""])]
      /\ UNCHANGED <<storeVars, requestLogs, upstreamErrors>>

\* The attempt failed: remember how, and blame the station if it was its doing.
Failing(r, answer, ownFault) ==
  LET last == Len(attempts[r])
  IN  /\ handler' = [handler EXCEPT ![r].pc = "failing", ![r].answer = answer,
                                    ![r].reason = failureKind(answer)]
      /\ attempts' = [attempts EXCEPT ![r][last].kind = failureKind(answer)]
      /\ faulted' = IF ownFault THEN faulted \cup {Target(handler[r]).id} ELSE faulted

\* writeUpstreamResponse sends the headers: the point of no return.
Commit(r, answer) ==
  /\ handler' = [handler EXCEPT ![r].pc = "streaming", ![r].answer = answer,
                                ![r].verdict = "relayed"]
  /\ UNCHANGED <<attempts, faulted>>

\* client.Do returns: an error or a status.  It times out when no headers come within
\* 15 s, but these begin only when the upstream has read the whole request.
Headers(r) ==
  /\ handler[r].pc = "headers"
  /\ \E a \in Answers :
       \/ a.err # "none" /\ Failing(r, a, TRUE)
       \/ a.err = "none" /\ a.status < 400 /\ Commit(r, a)
       \/ /\ a.err = "none" /\ a.status >= 400
          /\ handler' = [handler EXCEPT ![r].pc = "capture", ![r].answer = a]
          /\ UNCHANGED <<attempts, faulted>>
  /\ UNCHANGED <<tableVars, logVars>>

\* client.Do returns context.Canceled.
CallCancelled(r) ==
  /\ handler[r].pc = "headers"
  /\ handler[r].cancelled
  /\ handler' = [handler EXCEPT ![r] = Close(@, "aborted")]
  /\ UNCHANGED <<storeVars, logVars, attempts>>

\* captureUpstreamError reads the whole error body, and the answer is classified.
Capture(r) ==
  LET h == handler[r]
      a == h.answer
  IN  /\ h.pc = "capture"
      /\ upstreamErrors' \in
           Insert(upstreamErrors,
                  [request |-> r, station |-> Target(h).station.name, status |-> a.status,
                   errorKind |-> upstreamHTTPErrorKind(a.status, a.body)], h)
      /\ IF shouldFailover(a) THEN Failing(r, a, TRUE) ELSE Commit(r, a)
      /\ UNCHANGED <<tableVars, failoverEvents, requestLogs>>

\* Reading the error body fails, on its own or because the client left.
CaptureFails(r) ==
  /\ handler[r].pc = "capture"
  /\ Failing(r, [handler[r].answer EXCEPT !.err = "transport"], ~ handler[r].cancelled)
  /\ UNCHANGED <<tableVars, logVars>>

\* Mutant: the bound is off by one.
Advance_OffByOne(h) == IF h.next <= Len(h.targets) THEN [h EXCEPT !.pc = "attempt", !.next = @ + 1]
                                                   ELSE [h EXCEPT !.pc = "exhausted"]

\* Mutant: the last candidate is never called.
Advance_StopsShort(h) ==
  IF h.next + 1 < Len(h.targets) THEN [h EXCEPT !.pc = "attempt", !.next = @ + 1]
                                 ELSE [h EXCEPT !.pc = "exhausted"]

\* The head of the loop over the candidates.
Advance(h) == IF h.next < Len(h.targets) THEN [h EXCEPT !.pc = "attempt", !.next = @ + 1]
                                         ELSE [h EXCEPT !.pc = "exhausted"]

FailOver(r) ==
  LET h == handler[r]
      status == RecordFailure(Target(h).station, StatusOf(h.statuses, Target(h).id), now)
  IN  /\ h.pc = "failing"
      /\ SaveStationStatus(h.cancelled, Target(h).id, status)
      /\ handler' = [handler EXCEPT
           ![r] = Advance([@ EXCEPT !.statuses = Put(h.statuses, Target(h).id, status)])]
      /\ UNCHANGED <<configVars, now, logVars, attempts, faulted>>

\* The body has been copied to the client: the station recovers by one.
StreamEnds(r) ==
  LET h == handler[r]
      status == RecordSuccess(Target(h).station, StatusOf(h.statuses, Target(h).id))
  IN  /\ h.pc = "streaming"
      /\ SaveStationStatus(h.cancelled, Target(h).id, status)
      /\ handler' = [handler EXCEPT ![r].pc = "logging"]
      /\ UNCHANGED <<configVars, now, logVars, attempts, faulted>>

\* Mutant: a broken copy fails over, after the client was sent the headers.
StreamBreaks_FailsOver(r) ==
  LET h == handler[r]
      status == RecordFailure(Target(h).station, StatusOf(h.statuses, Target(h).id), now)
  IN  /\ h.pc = "streaming"
      /\ SaveStationStatus(h.cancelled, Target(h).id, status)
      /\ handler' = [handler EXCEPT ![r] = Advance(@)]
      /\ faulted' = IF h.cancelled THEN faulted ELSE faulted \cup {Target(h).id}
      /\ UNCHANGED <<configVars, now, logVars, attempts>>

\* The copy broke at the upstream's end or at the client's, which the handler cannot
\* tell apart.  io.Copy hands the body to TCPConn.ReadFrom, whose errors cancel
\* nothing, so a client that is gone may be found out here first: unless the context
\* is cancelled by the time of the write, the failure is booked, whoever broke it.
StreamBreaks(r) ==
  LET h == handler[r]
      status == RecordFailure(Target(h).station, StatusOf(h.statuses, Target(h).id), now)
  IN  /\ h.pc = "streaming"
      /\ SaveStationStatus(h.cancelled, Target(h).id, status)
      /\ handler' = [handler EXCEPT ![r].pc = "logging", ![r].error = "stream_copy_error"]
      /\ faulted' = IF h.cancelled THEN faulted ELSE faulted \cup {Target(h).id}
      /\ UNCHANGED <<configVars, now, logVars, attempts>>

\* Mutant: the insert is tried until it succeeds.
LogRequest_Retries(r) ==
  LET h == handler[r]
  IN  /\ h.pc = "logging"
      /\ ~ h.cancelled
      /\ requestLogs' = requestLogs \cup {RequestLog(r, h, h.answer.status, h.error)}
      /\ handler' = [handler EXCEPT ![r] = Close(@, "relayed")]
      /\ UNCHANGED <<storeVars, failoverEvents, upstreamErrors, attempts>>

LogRequest(r) ==
  LET h == handler[r]
  IN  /\ h.pc = "logging"
      /\ requestLogs' \in Insert(requestLogs, RequestLog(r, h, h.answer.status, h.error), h)
      /\ handler' = [handler EXCEPT ![r] = Close(@, "relayed")]
      /\ UNCHANGED <<storeVars, failoverEvents, upstreamErrors, attempts>>

\* No candidate is left: log the last attempt and answer 502.
GiveUp(r) ==
  LET h == handler[r]
  IN  /\ h.pc = "exhausted"
      /\ requestLogs' \in Insert(requestLogs, RequestLog(r, h, 502, h.reason), h)
      /\ handler' = [handler EXCEPT ![r] = Close(@, "exhausted")]
      /\ UNCHANGED <<storeVars, failoverEvents, upstreamErrors, attempts>>

\* The client disconnects: net/http cancels the request's context.
ClientLeaves(r) ==
  /\ handler[r].pc \in Open
  /\ ~ handler[r].cancelled
  /\ handler' = [handler EXCEPT ![r].cancelled = TRUE]
  /\ UNCHANGED <<storeVars, logVars, attempts>>

-----------------------------------------------------------------------------

\* Steps that need nothing from a peer.
Prompt(r) ==
  \/ ReadStations(r) \/ ReadMappings(r) \/ ReadStatuses(r) \/ ReadError(r) \/ Choose(r)
  \/ Attempt(r) \/ CallCancelled(r) \/ FailOver(r) \/ LogRequest(r) \/ GiveUp(r)

\* Steps that wait for an upstream to read the request and answer it, or to end a
\* body; nothing bounds that wait.
AwaitsUpstream(r) == \/ Headers(r) \/ Capture(r) \/ CaptureFails(r)
                     \/ StreamEnds(r) \/ StreamBreaks(r)

RequestStep(r) == Arrive(r) \/ Refuse(r) \/ ClientLeaves(r) \/ Prompt(r) \/ AwaitsUpstream(r)

\* A cancelled context closes the upstream connection and ends the wait.
RequestFairness ==
  \A r \in Requests : /\ WF_<<storeVars, requestVars>>(Prompt(r))
                      /\ WF_<<storeVars, requestVars>>(handler[r].cancelled /\ AwaitsUpstream(r))

relayVars == <<storeVars, requestVars>>

RelayInit == StoreInit /\ RequestInit

RelayNext == \/ \E r \in Requests : RequestStep(r)
             \/ Tick /\ UNCHANGED requestVars

RelaySpec == RelayInit /\ [][RelayNext]_relayVars

FairRelaySpec == RelaySpec /\ RequestFairness

-----------------------------------------------------------------------------
(* Properties *)

\* The states before the loop over the targets, those in which it is at one of
\* them, and those in which that target has been called.
Starting == {"idle", "stations", "mappings", "statuses", "choose"}
Looping == {"attempt", "headers", "capture", "failing", "streaming", "logging", "exhausted"}
Calling == {"headers", "capture", "failing", "streaming"}

HandlerOK(h) ==
  /\ h \in [pc : Open \cup Closed \cup {"idle"}, cancelled : BOOLEAN, query : Query,
            stations : {h.stations}, mappings : SUBSET Mapping, statuses : {h.statuses},
            targets : Seq(RankedEntry), next : Nat, answer : Answer,
            reason : FailureKinds \cup {""}, error : {"", "stream_copy_error"}, verdict : Verdict]
  /\ IsTable(h.stations, Station)
  /\ IsTable(h.statuses, Status)
  /\ h.pc \in Looping => h.next \in DOMAIN h.targets
  /\ h.pc \in Starting => h.next = 1

RequestTypeOK ==
  /\ handler = [r \in Requests |-> handler[r]]
  /\ \A r \in Requests : HandlerOK(handler[r])
  /\ attempts \in [Requests -> Seq([id : Ids, name : Names, kind : FailureKinds \cup {""}])]
  /\ \A r \in Requests : handler[r].pc \in Calling => attempts[r] # <<>>

RelayTypeOK == StoreTypeOK /\ RequestTypeOK

\* The failover events of a request are the hand-overs it made: from an attempt
\* that failed, in the way it failed, to the target after it; and unless a
\* statement could fail there is one for every hand-over (InsertFailoverEvent).
FailoverTrail ==
  /\ \A e \in failoverEvents :
       LET tried == attempts[e.request]
           targets == handler[e.request].targets
       IN  \E i \in DOMAIN tried :
             /\ i < Len(targets)
             /\ tried[i].kind # ""
             /\ [from |-> e.from, to |-> e.to, reason |-> e.reason] =
                [from |-> tried[i].name, to |-> targets[i + 1].station.name,
                 reason |-> tried[i].kind]
  /\ ~ DBFaults => \A r \in Requests : ~ handler[r].cancelled =>
       \A i \in DOMAIN attempts[r] : i > 1 =>
         [request |-> r, from |-> attempts[r][i - 1].name, to |-> attempts[r][i].name,
          reason |-> attempts[r][i - 1].kind] \in failoverEvents

\* A request log tells what happened: the station named is the last one called,
\* didFailover says whether there was more than one call, and the error kind is
\* empty exactly when the last call was not a failure.  At most one row per
\* request, and one for each request that called anybody, unless a statement
\* could fail, the client left or the process died (InsertRequestLog).
LogTellsTheStory ==
  /\ \A l \in requestLogs :
       LET tried == attempts[l.request]
           last == tried[Len(tried)]
       IN  /\ tried # <<>>
           /\ l.station = last.name
           /\ l.didFailover <=> Len(tried) > 1
           /\ IF l.status = 502 THEN l.errorKind = last.kind /\ last.kind # ""
                                ELSE last.kind = "" /\ l.errorKind \in {"", "stream_copy_error"}
  /\ \A l, m \in requestLogs : l.request = m.request => l = m
  /\ ~ DBFaults => \A r \in Requests :
       /\ handler[r].verdict \in {"relayed", "exhausted"}
       /\ handler[r].pc = "done"
       /\ ~ handler[r].cancelled
       => \E l \in requestLogs : l.request = r

\* "all upstream stations failed" is said only after every candidate was called,
\* in the selector's order, and every call failed; and a client is handed an
\* upstream's answer only by the station called last, after all the earlier
\* candidates failed (the loop over targets).
VerdictEarned ==
  \A r \in Requests :
    LET h == handler[r]
        tried == attempts[r]
        failed == {i \in DOMAIN tried : tried[i].kind # ""}
    IN  /\ \A i \in DOMAIN tried : tried[i].id = h.targets[i].id
        /\ h.verdict = "exhausted" => failed = DOMAIN h.targets
        /\ h.verdict = "relayed" => tried # <<>> /\ failed = 1 .. (Len(tried) - 1)

\* The relay implements RelayContract.
PhaseOf(h) ==
  CASE h.pc = "idle" -> "new"
    [] h.pc \in {"stations", "mappings", "statuses", "choose"} -> "deciding"
    [] h.pc \in {"attempt", "headers", "capture", "failing", "exhausted"} -> "trying"
    [] h.pc \in {"streaming", "logging"} -> "relaying"
    [] h.pc = "lost" -> "dropped"
    [] h.pc = "done" ->
         CASE h.verdict = "refused"   -> "refused"
           [] h.verdict = "none"      -> "none"
           [] h.verdict = "relayed"   -> "relayed"
           [] h.verdict = "exhausted" -> "gaveUp"
           [] OTHER                   -> "dropped"

UntriedBy(h) ==
  CASE h.pc = "attempt" -> {h.targets[i].id : i \in h.next .. Len(h.targets)}
    [] h.pc \in {"headers", "capture", "failing"} ->
         {h.targets[i].id : i \in (h.next + 1) .. Len(h.targets)}
    [] OTHER -> {}

CalledBy(h) ==
  IF \/ h.pc \in {"headers", "capture", "failing", "streaming", "logging"}
     \/ h.pc = "done" /\ h.verdict = "relayed"
  THEN {Target(h).id} ELSE {}

Contract == INSTANCE RelayContract
  WITH StationIds <- Nat,
       phase <- [r \in Requests |-> PhaseOf(handler[r])],
       untried <- [r \in Requests |-> UntriedBy(handler[r])],
       current <- [r \in Requests |-> CalledBy(handler[r])]

\* Every behaviour of the relay keeps the promise of RelayContract to each client
\* (proxyNormalizedRequest).
KeepsContract == Contract!Spec

\* Only an upstream can hold a request for ever: if each one it calls, or its client's
\* departure, ends the wait for headers or for a body some time, then the request is
\* answered, refused or dropped, whatever fails and however many candidates it is
\* handed on to (proxyNormalizedRequest).
RequestsMoveOn ==
  \A r \in Requests :
    []<>(handler[r].pc \notin {"headers", "capture", "streaming"})
      => (handler[r].pc \in Open ~> handler[r].pc \in Closed)

\* The steps that a request may still make: four for every candidate after the one at
\* hand, of which there are fewer than ids, and the departure of its client.
StepsLeft(h) ==
  LET after == Len(h.targets) - h.next
      all   == Cardinality(Ids)
  IN  (IF h.cancelled THEN 0 ELSE 1) +
      CASE h.pc = "idle"       -> 4 * all + 6
        [] h.pc = "stations"   -> 4 * all + 5
        [] h.pc = "mappings"   -> 4 * all + 4
        [] h.pc = "statuses"   -> 4 * all + 3
        [] h.pc = "choose"     -> 4 * all + 2
        [] h.pc = "attempt"    -> 4 * after + 5
        [] h.pc = "headers"    -> 4 * after + 4
        [] h.pc = "capture"    -> 4 * after + 3
        [] h.pc = "failing"    -> 4 * after + 2
        [] h.pc = "streaming"  -> 2
        [] h.pc \in {"logging", "exhausted"} -> 1
        [] h.pc \in Closed     -> 0

\* No request goes round in circles: whatever an upstream answers and whenever the
\* client leaves, every step of its handler leaves fewer steps to make, so that the
\* loop over the targets ends (proxyNormalizedRequest).
RequestsEnd ==
  [][\A r \in Requests :
       handler'[r] # handler[r] => StepsLeft(handler'[r]) \in 0 .. (StepsLeft(handler[r]) - 1)
    ]_requestVars

\* The goroutine of a client that left always ends, even in the middle of a body
\* that the upstream never finishes (r.Context() goes to client.Do).
LeaversAreForgotten ==
  \A r \in Requests : handler[r].cancelled ~> handler[r].pc \in Closed
=============================================================================
