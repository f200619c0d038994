---------------------------- MODULE RelayProofs ----------------------------
(***************************************************************************)
(* Theorems about RelayRequest: any number of requests, of stations and of *)
(* protocols, any snapshot, any answer.                                    *)
(***************************************************************************)
EXTENDS RelayRequest, StoreProofs

-----------------------------------------------------------------------------
(* The switches that classify an answer agree, for every status and body *)

LEMMA semanticFailoverKindType ==
  ASSUME NEW answer \in Answer
  PROVE  semanticFailoverKind(answer.status, answer.body) \in SemanticKinds \cup {""}
BY ZenonT(40) DEF Answer, semanticFailoverKind

LEMMA failureKindType ==
  ASSUME NEW answer \in Answer
  PROVE  failureKind(answer) \in FailureKinds
<1>1. semanticFailoverKind(answer.status, answer.body) \in SemanticKinds \cup {""}
  BY semanticFailoverKindType
<1>2. failureKindOfStatus(answer.status) \in FailureKinds
  BY DEF failureKindOfStatus, FailureKinds
<1>3. QED
  BY <1>1, <1>2 DEF failureKind, FailureKinds

\* The two switches over the status code agree where the gateway fails over.
LEMMA StatusKindsAgree ==
  ASSUME NEW status \in Nat, status \in {429, 408, 404} \/ status >= 500
  PROVE  /\ errorKindOfStatus(status) = failureKindOfStatus(status)
         /\ failureKindOfStatus(status) # "gateway_error"
<1>1. CASE status = 408
  BY <1>1 DEF failureKindOfStatus, errorKindOfStatus
<1>2. CASE status = 404
  BY <1>2 DEF failureKindOfStatus, errorKindOfStatus
<1>3. CASE status = 429
  BY <1>3 DEF failureKindOfStatus, errorKindOfStatus
<1>4. CASE status >= 500
  BY <1>4 DEF failureKindOfStatus, errorKindOfStatus
<1>5. QED
  BY <1>1, <1>2, <1>3, <1>4

\* An answer that fails over for its status alone has one of these.
LEMMA ErrorStatus ==
  ASSUME NEW answer \in Answer, shouldFailover(answer), answer.err = "none",
         semanticFailoverKind(answer.status, answer.body) = ""
  PROVE  answer.status \in Nat /\ (answer.status \in {429, 408, 404} \/ answer.status >= 500)
<1>1. answer.status \in Nat
  BY DEF Answer
<1>2. answer.status \in {429, 408, 404} \/ answer.status >= 500
  BY Zenon, ZenonT(40) DEF shouldFailover
<1>3. QED
  BY <1>1, <1>2

\* The catch-all kind of failureKind is never written: every answer that makes the
\* gateway try the next station has a kind of its own (shouldFailover, failureKind).
THEOREM FailuresAreNamed ==
  ASSUME NEW answer \in Answer, shouldFailover(answer)
  PROVE  failureKind(answer) # "gateway_error"
<1> DEFINE semantic == semanticFailoverKind(answer.status, answer.body)
<1>1. CASE answer.err # "none" \/ semantic # ""
  <2>1. semantic \in SemanticKinds \cup {""}
    BY semanticFailoverKindType
  <2>2. semantic # "gateway_error"
    BY <2>1 DEF SemanticKinds
  <2>3. QED
    BY <1>1, <2>2 DEF failureKind
<1>2. CASE answer.err = "none" /\ semantic = ""
  <2>1. answer.status \in Nat /\ (answer.status \in {429, 408, 404} \/ answer.status >= 500)
    BY <1>2, ErrorStatus, ZenonT(40)
  <2>2. failureKindOfStatus(answer.status) # "gateway_error"
    BY <2>1, StatusKindsAgree
  <2>3. QED
    BY <1>2, <2>2 DEF failureKind
<1>3. QED
  BY <1>1, <1>2

\* An error answer that sends the request to the next station has the same kind in
\* upstream_error_logs as in the failover event and the request log
\* (upstreamHTTPErrorKind against failureKind).
THEOREM ErrorTablesAgree ==
  ASSUME NEW answer \in Answer, shouldFailover(answer), answer.err = "none"
  PROVE  upstreamHTTPErrorKind(answer.status, answer.body) = failureKind(answer)
<1> DEFINE semantic == semanticFailoverKind(answer.status, answer.body)
<1>1. CASE semantic # ""
  BY <1>1 DEF failureKind, upstreamHTTPErrorKind
<1>2. CASE semantic = ""
  <2>1. answer.status \in Nat /\ (answer.status \in {429, 408, 404} \/ answer.status >= 500)
    BY <1>2, ErrorStatus, ZenonT(40)
  <2>2. QED
    BY <1>2, <2>1, StatusKindsAgree DEF failureKind, upstreamHTTPErrorKind
<1>3. QED
  BY <1>1, <1>2

-----------------------------------------------------------------------------
(* Type correctness *)

Attempted == [id : Ids, name : Names, kind : FailureKinds \cup {""}]

\* A step of request r: what is left to show about it.
LEMMA HandlerStepType ==
  ASSUME RelayTypeOK, StoreTypeOK', NEW r \in Requests,
         handler' = [handler EXCEPT ![r] = handler'[r]],
         HandlerOK(handler'[r]),
         attempts' \in [Requests -> Seq(Attempted)],
         \A q \in Requests \ {r} : attempts'[q] = attempts[q],
         handler'[r].pc \in Calling => attempts'[r] # <<>>
  PROVE  RelayTypeOK'
<1>1. handler' = [q \in Requests |-> handler'[q]]
  BY DEF RelayTypeOK, RequestTypeOK
<1>2. \A q \in Requests \ {r} : handler'[q] = handler[q]
  BY DEF RelayTypeOK, RequestTypeOK
<1>3. \A q \in Requests : HandlerOK(handler'[q])
  BY <1>2 DEF RelayTypeOK, RequestTypeOK
<1>4. \A q \in Requests : handler'[q].pc \in Calling => attempts'[q] # <<>>
  BY <1>2 DEF RelayTypeOK, RequestTypeOK
<1>5. QED
  BY <1>1, <1>3, <1>4 DEF RelayTypeOK, RequestTypeOK, Attempted

\* Most steps make no call.
LEMMA QuietStepType ==
  ASSUME RelayTypeOK, StoreTypeOK', NEW r \in Requests, UNCHANGED attempts,
         handler' = [handler EXCEPT ![r] = handler'[r]],
         HandlerOK(handler'[r]),
         handler'[r].pc \in Calling => handler[r].pc \in Calling
  PROVE  RelayTypeOK'
<1>1. attempts' \in [Requests -> Seq(Attempted)]
  BY DEF RelayTypeOK, RequestTypeOK, Attempted
<1>2. handler'[r].pc \in Calling => attempts'[r] # <<>>
  BY DEF RelayTypeOK, RequestTypeOK
<1>3. QED
  BY <1>1, <1>2, HandlerStepType

LEMMA CloseType ==
  ASSUME NEW h, HandlerOK(h), NEW verdict \in Verdict
  PROVE  HandlerOK(Close(h, verdict)) /\ Close(h, verdict).pc = "done"
<1>1. IsTable(<<>>, Station) /\ IsTable(<<>>, Status)
  BY DEF IsTable
<1> DEFINE g == Close(h, verdict)
<1>2. /\ g.pc = "done" /\ g.stations = <<>> /\ g.statuses = <<>>
      /\ g \in [pc : Open \cup Closed \cup {"idle"}, cancelled : BOOLEAN, query : Query,
               stations : {g.stations}, mappings : SUBSET Mapping, statuses : {g.statuses},
               targets : Seq(RankedEntry), next : Nat, answer : Answer,
               reason : FailureKinds \cup {""}, error : {"", "stream_copy_error"},
               verdict : Verdict]
  BY DEF HandlerOK, Close, Closed
<1>3. g.pc \notin Looping /\ g.pc \notin Starting
  BY <1>2 DEF Looping, Starting
<1>4. QED
  BY <1>1, <1>2, <1>3 DEF HandlerOK

LEMMA TargetType ==
  ASSUME NEW h, HandlerOK(h), h.pc \in Looping
  PROVE  /\ Target(h) \in RankedEntry
         /\ Target(h).id \in Ids
         /\ Target(h).station \in Station
         /\ Target(h).station.name \in Names
<1>a. h.targets \in Seq(RankedEntry) /\ h.next \in DOMAIN h.targets
  BY DEF HandlerOK
<1>1. Target(h) \in RankedEntry
  BY <1>a DEF Target
<1>2. Target(h).id \in Ids /\ Target(h).station \in Station
  BY <1>1 DEF RankedEntry
<1>3. QED
  BY <1>1, <1>2 DEF Station

LEMMA DecideType ==
  ASSUME RelayTypeOK, NEW r \in Requests,
         Arrive(r) \/ Refuse(r) \/ ReadStations(r) \/ ReadMappings(r) \/ ReadStatuses(r)
           \/ ReadError(r) \/ Choose(r) \/ ClientLeaves(r)
  PROVE  RelayTypeOK'
<1> DEFINE h == handler[r]
<1>1. HandlerOK(h) /\ handler = [q \in Requests |-> handler[q]]
  BY DEF RelayTypeOK, RequestTypeOK
<1>2. UNCHANGED <<storeVars, attempts>>
  BY DEF Arrive, Refuse, ReadStations, ReadMappings, ReadStatuses, ReadError, Choose, ClientLeaves
<1>3. StoreTypeOK /\ StoreTypeOK'
  BY <1>2, SameStoreType DEF RelayTypeOK, storeVars, StoreTypeOK
<1>4. IsTable(stations, Station) /\ IsTable(mappings, Mapping) /\ IsTable(statuses, Status)
  BY <1>3 DEF StoreTypeOK
<1>5. SUFFICES /\ handler' = [handler EXCEPT ![r] = handler'[r]]
               /\ HandlerOK(handler'[r])
               /\ handler'[r].pc \in Calling => handler[r].pc \in Calling
  BY <1>2, <1>3, QuietStepType DEF storeVars
<1>6. CASE Arrive(r)
  <2>1. PICK q \in Queries : handler' = [handler EXCEPT ![r].pc = "stations", ![r].query = q]
    BY <1>6 DEF Arrive
  <2>2. handler'[r] = [h EXCEPT !.pc = "stations", !.query = q]
    BY <1>1, <2>1
  <2>3. h.pc = "idle" /\ q \in Query
    BY <1>6, RequestAssumption DEF Arrive
  <2>4. HandlerOK(handler'[r]) /\ handler'[r].pc \notin Calling
    BY <1>1, <2>2, <2>3 DEF HandlerOK, Open, Looping, Starting, Calling
  <2>5. QED
    BY <1>1, <2>1, <2>4
<1>7. CASE Refuse(r)
  BY <1>1, <1>7, CloseType DEF Refuse, Verdict, Calling
<1>8. CASE ReadStations(r)
  <2>1. handler'[r] = [h EXCEPT !.pc = "mappings", !.stations = stations] /\ h.pc = "stations"
    BY <1>1, <1>8 DEF ReadStations
  <2>2. HandlerOK(handler'[r]) /\ handler'[r].pc \notin Calling
    BY <1>1, <1>4, <2>1 DEF HandlerOK, Open, Looping, Starting, Calling
  <2>3. QED
    BY <1>1, <1>8, <2>2 DEF ReadStations
<1>9. CASE ReadMappings(r)
  <2>1. /\ handler'[r] = [h EXCEPT !.pc = "statuses", !.mappings = FindMappings(h.query)]
        /\ h.pc = "mappings"
    BY <1>1, <1>9 DEF ReadMappings
  <2>2. FindMappings(h.query) \subseteq Mapping
    BY <1>4 DEF FindMappings, IsTable
  <2>3. HandlerOK(handler'[r]) /\ handler'[r].pc \notin Calling
    BY <1>1, <2>1, <2>2 DEF HandlerOK, Open, Looping, Starting, Calling
  <2>4. QED
    BY <1>1, <1>9, <2>3 DEF ReadMappings
<1>10. CASE ReadStatuses(r)
  <2>1. handler'[r] = [h EXCEPT !.pc = "choose", !.statuses = statuses] /\ h.pc = "statuses"
    BY <1>1, <1>10 DEF ReadStatuses
  <2>2. HandlerOK(handler'[r]) /\ handler'[r].pc \notin Calling
    BY <1>1, <1>4, <2>1 DEF HandlerOK, Open, Looping, Starting, Calling
  <2>3. QED
    BY <1>1, <1>10, <2>2 DEF ReadStatuses
<1>11. CASE ReadError(r)
  BY <1>1, <1>11, CloseType DEF ReadError, Verdict, Calling
<1>12. CASE Choose(r)
  <2>1. PICK scores \in Scoreboards :
          \E targets \in Candidates(h.query, h.stations, h.mappings, h.statuses, scores) :
            handler' = [handler EXCEPT ![r] =
              IF targets = <<>> THEN Close(@, "none")
              ELSE [@ EXCEPT !.pc = "attempt", !.targets = targets,
                             !.stations = <<>>, !.mappings = {}]]
    BY <1>12 DEF Choose
  <2>2. PICK targets \in Candidates(h.query, h.stations, h.mappings, h.statuses, scores) :
          handler' = [handler EXCEPT ![r] =
            IF targets = <<>> THEN Close(@, "none")
            ELSE [@ EXCEPT !.pc = "attempt", !.targets = targets,
                           !.stations = <<>>, !.mappings = {}]]
    BY <2>1
  <2>3. targets \in Seq(RankedEntry) /\ (targets # <<>> => 1 \in DOMAIN targets)
    BY <1>1, CandidatesType, RequestAssumption DEF HandlerOK
  <2>4. CASE targets = <<>>
    BY <1>1, <2>2, <2>4, CloseType DEF Verdict, Calling
  <2>5. CASE targets # <<>>
    <3>1. /\ handler'[r] = [h EXCEPT !.pc = "attempt", !.targets = targets,
                                     !.stations = <<>>, !.mappings = {}]
          /\ h.pc = "choose"
      BY <1>1, <1>12, <2>2, <2>5 DEF Choose
    <3>2. IsTable(<<>>, Station)
      BY DEF IsTable
    <3>3. h.next = 1
      BY <1>1, <3>1 DEF HandlerOK, Starting
    <3>4. HandlerOK(handler'[r]) /\ handler'[r].pc \notin Calling
      BY <1>1, <2>3, <2>5, <3>1, <3>2, <3>3, ZenonT(40) DEF HandlerOK, Open, Looping, Starting, Calling
    <3>5. QED
      BY <1>1, <2>2, <3>4
  <2>6. QED
    BY <2>4, <2>5
<1>13. CASE ClientLeaves(r)
  <2>1. handler'[r] = [h EXCEPT !.cancelled = TRUE]
    BY <1>1, <1>13 DEF ClientLeaves
  <2>2. HandlerOK(handler'[r]) /\ handler'[r].pc = h.pc
    BY <1>1, <2>1 DEF HandlerOK
  <2>3. QED
    BY <1>1, <1>13, <2>2 DEF ClientLeaves
<1>14. QED
  BY <1>6, <1>7, <1>8, <1>9, <1>10, <1>11, <1>12, <1>13

LEMMA CallType ==
  ASSUME RelayTypeOK, NEW r \in Requests,
         Attempt(r) \/ Headers(r) \/ CallCancelled(r) \/ Capture(r) \/ CaptureFails(r)
  PROVE  RelayTypeOK'
<1> DEFINE h == handler[r]
<1>1. HandlerOK(h) /\ handler = [q \in Requests |-> handler[q]]
  BY DEF RelayTypeOK, RequestTypeOK
<1>2. /\ attempts \in [Requests -> Seq(Attempted)]
      /\ h.pc \in Calling => attempts[r] # <<>>
  BY DEF RelayTypeOK, RequestTypeOK, Attempted
<1>3. h.pc \in Looping
  BY DEF Attempt, Headers, CallCancelled, Capture, CaptureFails, Looping
<1>4. Target(h).id \in Ids /\ Target(h).station.name \in Names
  BY <1>1, <1>3, TargetType
<1>5. StoreTypeOK /\ faulted \subseteq Ids
  BY DEF RelayTypeOK, StoreTypeOK
\* The three ways a call goes on.
<1>6. ASSUME NEW answer \in Answer, NEW ownFault, Failing(r, answer, ownFault),
             UNCHANGED tableVars, h.pc \in Calling
      PROVE  RelayTypeOK'
  <2> DEFINE kind == failureKind(answer)
             last == Len(attempts[r])
  <2>1. kind \in FailureKinds
    BY failureKindType
  <2>2. handler'[r] = [h EXCEPT !.pc = "failing", !.answer = answer, !.reason = kind]
    BY <1>1, <1>6 DEF Failing
  <2>3. HandlerOK(handler'[r])
    BY <1>1, <1>3, <1>6, <2>1, <2>2, ZenonT(40) DEF HandlerOK, Open, Looping, Starting
  <2>4. attempts[r] \in Seq(Attempted) /\ attempts[r] # <<>>
    BY <1>2, <1>6
  <2>5. last \in 1 .. Len(attempts[r])
    BY <2>4, EmptySeq, LenProperties
  <2>6. attempts[r][last] \in Attempted
    BY <2>4, <2>5, ElementOfSeq
  <2> DEFINE blamed == [attempts[r][last] EXCEPT !.kind = kind]
  <2>7. blamed \in Attempted
    BY <2>1, <2>6 DEF Attempted
  <2> DEFINE trail == [attempts[r] EXCEPT ![last] = blamed]
  <2>8. trail \in Seq(Attempted) /\ Len(trail) = Len(attempts[r])
    BY <2>4, <2>5, <2>7, ExceptSeq
  <2>9. attempts' = [attempts EXCEPT ![r] = trail]
    BY <1>6 DEF Failing
  <2>10. trail # <<>>
    BY <2>5, <2>8
  <2>11. /\ attempts' \in [Requests -> Seq(Attempted)]
         /\ attempts'[r] # <<>>
         /\ \A q \in Requests \ {r} : attempts'[q] = attempts[q]
    BY <1>2, <2>8, <2>9, <2>10
  <2>12. faulted' \subseteq Ids
    BY <1>4, <1>5, <1>6 DEF Failing
  <2>13. StoreTypeOK'
    BY <1>5, <1>6, <2>12, SameStoreType
  <2>14. handler' = [handler EXCEPT ![r] = handler'[r]]
    BY <1>1, <1>6 DEF Failing
  <2>15. QED
    BY <2>3, <2>11, <2>13, <2>14, HandlerStepType
<1>7. ASSUME NEW answer \in Answer, Commit(r, answer), UNCHANGED tableVars, h.pc \in Calling
      PROVE  RelayTypeOK'
  <2>1. handler'[r] = [h EXCEPT !.pc = "streaming", !.answer = answer, !.verdict = "relayed"]
    BY <1>1, <1>7 DEF Commit
  <2>2. HandlerOK(handler'[r])
    BY <1>1, <1>3, <1>7, <2>1, ZenonT(40) DEF HandlerOK, Open, Looping, Starting, Verdict
  <2>3. StoreTypeOK'
    BY <1>5, <1>7, SameStoreType DEF Commit
  <2>4. UNCHANGED attempts /\ handler' = [handler EXCEPT ![r] = handler'[r]]
    BY <1>1, <1>7 DEF Commit
  <2>5. QED
    BY <1>7, <2>2, <2>3, <2>4, QuietStepType
<1>8. ASSUME NEW verdict \in Verdict, handler' = [handler EXCEPT ![r] = Close(@, verdict)],
             UNCHANGED <<storeVars, attempts>>
      PROVE  RelayTypeOK'
  <2>1. handler'[r] = Close(h, verdict) /\ handler' = [handler EXCEPT ![r] = handler'[r]]
    BY <1>1, <1>8
  <2>2. HandlerOK(handler'[r]) /\ handler'[r].pc = "done"
    BY <1>1, <2>1, CloseType
  <2>3. StoreTypeOK'
    BY <1>5, <1>8, SameStoreType DEF storeVars
  <2>4. handler'[r].pc \notin Calling
    BY <2>2 DEF Calling
  <2>5. QED
    BY <1>8, <2>1, <2>2, <2>3, <2>4, QuietStepType
<1>9. CASE Attempt(r)
  <2>1. CASE handler' = [handler EXCEPT ![r] = Close(@, "error")] /\ UNCHANGED attempts
    BY <1>8, <1>9, <2>1 DEF Attempt, Verdict
  <2>2. CASE handler' = [handler EXCEPT ![r] = Close(@, "aborted")] /\ UNCHANGED attempts
    BY <1>8, <1>9, <2>2 DEF Attempt, Verdict
  <2>3. CASE /\ handler' = [handler EXCEPT ![r].pc = "headers"]
             /\ attempts' = [attempts EXCEPT ![r] = Append(@,
                  [id |-> Target(h).id, name |-> Target(h).station.name, kind |-> ""])]
    <3> DEFINE call == [id |-> Target(h).id, name |-> Target(h).station.name, kind |-> ""]
    <3>1. handler'[r] = [h EXCEPT !.pc = "headers"]
      BY <1>1, <2>3
    <3>2. HandlerOK(handler'[r])
      BY <1>1, <1>3, <3>1 DEF HandlerOK, Open, Looping, Starting
    <3>3. call \in Attempted
      BY <1>4 DEF Attempted
    <3>4. attempts[r] \in Seq(Attempted)
      BY <1>2
    <3>a. \A s \in Seq(Attempted), c \in Attempted :
            Append(s, c) \in Seq(Attempted) /\ Append(s, c) # <<>>
      BY AppendProperties
    <3>5. Append(attempts[r], call) \in Seq(Attempted) /\ Append(attempts[r], call) # <<>>
      BY <3>3, <3>4, <3>a
    <3>6. /\ attempts' \in [Requests -> Seq(Attempted)]
          /\ attempts'[r] # <<>>
          /\ \A q \in Requests \ {r} : attempts'[q] = attempts[q]
      BY <1>2, <2>3, <3>5
    <3>7. StoreTypeOK'
      BY <1>5, <1>9, SameStoreType DEF Attempt, storeVars
    <3>8. handler' = [handler EXCEPT ![r] = handler'[r]]
      BY <1>1, <2>3
    <3>9. QED
      BY <3>2, <3>6, <3>7, <3>8, HandlerStepType
  <2>4. QED
    BY <1>9, <2>1, <2>2, <2>3 DEF Attempt
<1>10. CASE Headers(r)
  <2>1. h.pc \in Calling /\ UNCHANGED tableVars
    BY <1>10 DEF Headers, Calling
  <2>2. PICK a \in Answers :
          \/ Failing(r, a, TRUE)
          \/ Commit(r, a)
          \/ /\ handler' = [handler EXCEPT ![r].pc = "capture", ![r].answer = a]
             /\ UNCHANGED <<attempts, faulted>>
    BY <1>10 DEF Headers
  <2>3. a \in Answer
    BY RequestAssumption
  <2>4. CASE handler' = [handler EXCEPT ![r].pc = "capture", ![r].answer = a]
             /\ UNCHANGED <<attempts, faulted>>
    <3>1. handler'[r] = [h EXCEPT !.pc = "capture", !.answer = a]
      BY <1>1, <2>4
    <3>2. HandlerOK(handler'[r])
      BY <1>1, <1>3, <2>3, <3>1 DEF HandlerOK, Open, Looping, Starting
    <3>3. StoreTypeOK'
      BY <1>5, <2>1, <2>4, SameStoreType
    <3>4. handler' = [handler EXCEPT ![r] = handler'[r]]
      BY <1>1, <2>4
    <3>5. QED
      BY <2>1, <2>4, <3>2, <3>3, <3>4, QuietStepType
  <2>5. QED
    BY <1>6, <1>7, <2>1, <2>2, <2>3, <2>4
<1>11. CASE CallCancelled(r)
  BY <1>8, <1>11 DEF CallCancelled, Verdict
<1>12. CASE Capture(r)
  <2>1. h.answer \in Answer /\ h.pc \in Calling /\ UNCHANGED tableVars
    BY <1>1, <1>12 DEF Capture, HandlerOK, Calling
  <2>2. Failing(r, h.answer, TRUE) \/ Commit(r, h.answer)
    BY <1>12 DEF Capture
  <2>3. QED
    BY <1>6, <1>7, <2>1, <2>2
<1>13. CASE CaptureFails(r)
  <2> DEFINE broken == [h.answer EXCEPT !.err = "transport"]
  <2>1. h.answer \in Answer
    BY <1>1 DEF HandlerOK
  <2>2. broken \in Answer
    BY <2>1 DEF Answer
  <2>3. h.pc \in Calling /\ UNCHANGED tableVars /\ Failing(r, broken, ~ h.cancelled)
    BY <1>13 DEF CaptureFails, Calling
  <2>4. QED
    BY <1>6, <2>2, <2>3
<1>14. QED
  BY <1>9, <1>10, <1>11, <1>12, <1>13

LEMMA OutcomeType ==
  ASSUME RelayTypeOK, NEW r \in Requests,
         FailOver(r) \/ StreamEnds(r) \/ StreamBreaks(r) \/ LogRequest(r) \/ GiveUp(r)
  PROVE  RelayTypeOK'
<1> DEFINE h == handler[r]
           failed == RecordFailure(Target(h).station, StatusOf(h.statuses, Target(h).id), now)
           served == RecordSuccess(Target(h).station, StatusOf(h.statuses, Target(h).id))
<1>1. HandlerOK(h) /\ handler = [q \in Requests |-> handler[q]]
  BY DEF RelayTypeOK, RequestTypeOK
<1>2. h.pc \in Looping /\ UNCHANGED attempts
  BY DEF FailOver, StreamEnds, StreamBreaks, LogRequest, GiveUp, Looping
<1>3. Target(h).id \in Ids /\ Target(h).station \in Station
  BY <1>1, <1>2, TargetType
<1>4. StoreTypeOK /\ faulted \subseteq Ids /\ now \in Nat
  BY DEF RelayTypeOK, StoreTypeOK
<1>5. IsTable(h.statuses, Status)
  BY <1>1 DEF HandlerOK
<1>6. failed \in Status /\ served \in Status
  BY <1>3, <1>4, <1>5, StatusOfType, RecordFailureType, RecordSuccessType
<1> HIDE DEF failed, served
<1>7. CASE FailOver(r)
  <2>1. SaveStationStatus(h.cancelled, Target(h).id, failed) /\ UNCHANGED <<configVars, now, faulted>>
    BY <1>7 DEF FailOver, failed
  <2>2. StoreTypeOK'
    BY <1>3, <1>4, <1>6, <2>1, SaveType
  <2>4. IsTable(Put(h.statuses, Target(h).id, failed), Status)
    BY <1>3, <1>5, <1>6, PutType
  <2>5. /\ h.next \in Nat /\ h.next \in DOMAIN h.targets
        /\ h.targets \in Seq(RankedEntry)
    BY <1>1, <1>2 DEF HandlerOK
  <2>6. h.next < Len(h.targets) => h.next + 1 \in DOMAIN h.targets
    BY <2>5, LenProperties
  <2> DEFINE g == [h EXCEPT !.statuses = Put(h.statuses, Target(h).id, failed)]
  <2>3. handler'[r] = Advance(g)
    BY <1>1, <1>7 DEF FailOver, failed
  <2>a. HandlerOK(g) /\ g.next = h.next /\ g.targets = h.targets
    BY <1>1, <2>4 DEF HandlerOK
  <2> HIDE DEF g
  <2>7. HandlerOK(Advance(g)) /\ Advance(g).pc \notin Calling
    <3>1. CASE g.next < Len(g.targets)
      <4>1. Advance(g) = [g EXCEPT !.pc = "attempt", !.next = g.next + 1]
        BY <3>1 DEF Advance
      <4>2. QED
        <5>1. g.next + 1 \in Nat /\ g.next + 1 \in DOMAIN g.targets
          BY <2>5, <2>6, <2>a, <3>1
        <5>2. QED
          BY <2>a, <4>1, <5>1, ZenonT(40) DEF HandlerOK, Open, Looping, Starting, Calling
    <3>2. CASE ~ g.next < Len(g.targets)
      <4>1. Advance(g) = [g EXCEPT !.pc = "exhausted"]
        BY <3>2 DEF Advance
      <4>2. QED
        BY <2>5, <2>a, <4>1 DEF HandlerOK, Open, Looping, Starting, Calling
    <3>3. QED
      BY <3>1, <3>2
  <2>8. handler' = [handler EXCEPT ![r] = handler'[r]]
    BY <1>1, <1>7 DEF FailOver
  <2>9. QED
    BY <1>2, <2>2, <2>3, <2>7, <2>8, QuietStepType
<1>8. CASE StreamEnds(r) \/ StreamBreaks(r)
  <2>1. PICK row \in Status : SaveStationStatus(h.cancelled, Target(h).id, row)
    BY <1>6, <1>8 DEF StreamEnds, StreamBreaks, failed, served
  <2>2. UNCHANGED <<configVars, now>> /\ faulted' \subseteq Ids
    BY <1>3, <1>4, <1>8 DEF StreamEnds, StreamBreaks
  <2>3. StoreTypeOK'
    BY <1>3, <1>4, <2>1, <2>2, SaveType
  <2>4. \/ handler'[r] = [h EXCEPT !.pc = "logging"]
        \/ handler'[r] = [h EXCEPT !.pc = "logging", !.error = "stream_copy_error"]
    BY <1>1, <1>8 DEF StreamEnds, StreamBreaks
  <2>5. HandlerOK(handler'[r]) /\ handler'[r].pc \notin Calling
    BY <1>1, <1>2, <2>4, ZenonT(40) DEF HandlerOK, Open, Looping, Starting, Calling
  <2>6. handler' = [handler EXCEPT ![r] = handler'[r]]
    BY <1>1, <1>8 DEF StreamEnds, StreamBreaks
  <2>7. QED
    BY <1>2, <2>3, <2>5, <2>6, QuietStepType
<1>9. CASE LogRequest(r) \/ GiveUp(r)
  <2>1. PICK verdict \in Verdict : handler' = [handler EXCEPT ![r] = Close(@, verdict)]
    BY <1>9 DEF LogRequest, GiveUp, Verdict
  <2>2. handler'[r] = Close(h, verdict) /\ handler' = [handler EXCEPT ![r] = handler'[r]]
    BY <1>1, <2>1
  <2>3. HandlerOK(handler'[r]) /\ handler'[r].pc \notin Calling
    BY <1>1, <2>2, CloseType DEF Calling
  <2>4. StoreTypeOK'
    BY <1>4, <1>9, SameStoreType DEF LogRequest, GiveUp, storeVars
  <2>5. QED
    BY <1>2, <2>2, <2>3, <2>4, QuietStepType
<1>10. QED
  BY <1>7, <1>8, <1>9

LEMMA RelayInitType ==
  ASSUME RelayInit
  PROVE  RelayTypeOK
<1>1. StoreTypeOK
  BY StoreInitType DEF RelayInit
<1> DEFINE query == CHOOSE q \in Queries : TRUE
<1>2. query \in Query
  BY RequestAssumption
<1>3. IsTable(<<>>, Station) /\ IsTable(<<>>, Status)
  BY DEF IsTable
<1>4. NoAnswer \in Answer
  BY DEF NoAnswer, Answer
<1>5. <<>> \in Seq(RankedEntry) /\ <<>> \in Seq(Attempted)
  BY EmptySeq
<1>6. HandlerOK(Fresh)
  <2> HIDE DEF query
  <2>1. Fresh = [pc |-> "idle", cancelled |-> FALSE, query |-> query,
                 stations |-> <<>>, mappings |-> {}, statuses |-> <<>>,
                 targets |-> <<>>, next |-> 1, answer |-> NoAnswer, reason |-> "",
                 error |-> "", verdict |-> ""]
    BY DEF Fresh, query
  <2>2. QED
    BY <1>2, <1>3, <1>4, <1>5, <2>1 DEF HandlerOK, Looping, Starting, Verdict
<1>7. Fresh.pc = "idle"
  BY DEF Fresh
<1>8. /\ handler = [r \in Requests |-> handler[r]]
      /\ \A r \in Requests : HandlerOK(handler[r]) /\ handler[r].pc \notin Calling
  BY <1>6, <1>7 DEF RelayInit, RequestInit, Calling
<1>9. attempts \in [Requests -> Seq(Attempted)]
  BY <1>5 DEF RelayInit, RequestInit
<1>10. QED
  BY <1>1, <1>8, <1>9 DEF RelayTypeOK, RequestTypeOK, Attempted

LEMMA RelayNextType ==
  ASSUME RelayTypeOK, [RelayNext]_relayVars
  PROVE  RelayTypeOK'
<1>1. CASE \E r \in Requests : RequestStep(r)
  <2>1. PICK r \in Requests : RequestStep(r)
    BY <1>1
  <2>2. QED
    BY <2>1, DecideType, CallType, OutcomeType DEF RequestStep, Prompt, AwaitsUpstream
<1>2. CASE Tick /\ UNCHANGED requestVars
  <2>1. StoreTypeOK'
    BY <1>2, TickType DEF RelayTypeOK
  <2>2. QED
    BY <1>2, <2>1 DEF RelayTypeOK, RequestTypeOK, requestVars
<1>3. CASE UNCHANGED relayVars
  <2>1. UNCHANGED <<tableVars, faulted>>
    BY <1>3 DEF relayVars, storeVars
  <2>2. StoreTypeOK'
    BY <2>1, SameStoreType DEF RelayTypeOK, StoreTypeOK
  <2>3. QED
    BY <1>3, <2>2 DEF RelayTypeOK, RequestTypeOK, relayVars, requestVars
<1>4. QED
  BY <1>1, <1>2, <1>3 DEF RelayNext

\* Every handler keeps its shape whatever the others do: the loop over the targets
\* never runs past the last one, an answer is always that of a call made, and the
\* rows written back are status rows (proxyNormalizedRequest).
THEOREM RelayTypeCorrect == RelaySpec => []RelayTypeOK
<1>1. RelayInit => RelayTypeOK
  BY RelayInitType
<1>2. RelayTypeOK /\ [RelayNext]_relayVars => RelayTypeOK'
  BY RelayNextType
<1>3. QED
  BY <1>1, <1>2, PTL DEF RelaySpec

-----------------------------------------------------------------------------
(* A cancelled context costs no station anything *)

\* The property is not inductive: a handler writes back rows of the snapshot it
\* read, and blames the target of an attempt that failed a few steps ago.  What
\* either would put in the table must be accounted for already, unless the client
\* left, in which case nothing can be written any more.
Owned(h, blamed) ==
  \/ h.cancelled
  \/ /\ \A id \in DOMAIN h.statuses : HoldsFailure(h.statuses[id]) => id \in blamed
     /\ h.pc = "failing" => Target(h).id \in blamed

FaultsOwned ==
  /\ RelayTypeOK
  /\ CancellationIsNoFault
  /\ \A r \in Requests : Owned(handler[r], faulted)

LEMMA OwnedStep ==
  ASSUME FaultsOwned, RelayTypeOK', NEW r \in Requests,
         handler' = [handler EXCEPT ![r] = handler'[r]],
         faulted \subseteq faulted',
         Owned(handler'[r], faulted'),
         CancellationIsNoFault'
  PROVE  FaultsOwned'
<1>1. \A q \in Requests \ {r} : handler'[q] = handler[q]
  BY DEF FaultsOwned, RelayTypeOK, RequestTypeOK
<1>2. \A q \in Requests \ {r} : Owned(handler[q], faulted')
  BY DEF FaultsOwned, Owned
<1>3. QED
  BY <1>1, <1>2 DEF FaultsOwned

LEMMA SaveOwned ==
  ASSUME CancellationIsNoFault, NEW cancelled, NEW id, NEW status,
         SaveStationStatus(cancelled, id, status),
         faulted \subseteq faulted',
         ~ cancelled /\ HoldsFailure(status) => id \in faulted'
  PROVE  CancellationIsNoFault'
<1>1. CASE ~ cancelled /\ statuses' = Put(statuses, id, status)
  BY <1>1 DEF CancellationIsNoFault, Put
<1>2. CASE UNCHANGED statuses
  BY <1>2 DEF CancellationIsNoFault
<1>3. QED
  BY <1>1, <1>2 DEF SaveStationStatus

\* A success is written for a station in cooldown only if the row it was computed
\* from already showed the failure.
LEMMA SuccessHoldsNoNewFailure ==
  ASSUME NEW table, IsTable(table, Status), NEW id \in Ids, NEW station \in Station,
         HoldsFailure(RecordSuccess(station, StatusOf(table, id)))
  PROVE  id \in DOMAIN table /\ HoldsFailure(table[id])
<1> DEFINE status == StatusOf(table, id)
           recovered == [status EXCEPT !.failures = 0, !.recoveries = Bump(@)]
           healed == [recovered EXCEPT !.state = "healthy", !.cooldownUntil = 0]
<1>1. status \in Status
  BY StatusOfType
<1>2. recovered.failures = 0 /\ recovered.state = status.state
  BY <1>1 DEF Status
<1>3. healed.failures = 0 /\ healed.state = "healthy"
  BY <1>1 DEF Status
<1>4. RecordSuccess(station, status).failures = 0
  BY <1>2, <1>3 DEF RecordSuccess
<1>5. RecordSuccess(station, status).state = "cooldown" => status.state = "cooldown"
  BY <1>2, <1>3 DEF RecordSuccess
<1>6. status.state = "cooldown"
  BY <1>4, <1>5 DEF HoldsFailure
<1>7. QED
  BY <1>6 DEF StatusOf, NoStatus, HoldsFailure

LEMMA OwnedNextRequest ==
  ASSUME FaultsOwned, NEW r \in Requests, RequestStep(r)
  PROVE  FaultsOwned'
<1> DEFINE h == handler[r]
<1>1. RelayTypeOK /\ CancellationIsNoFault /\ Owned(h, faulted)
  BY DEF FaultsOwned
<1>2. RelayTypeOK'
  BY <1>1, DecideType, CallType, OutcomeType DEF RequestStep, Prompt, AwaitsUpstream
<1>3. handler = [q \in Requests |-> handler[q]] /\ HandlerOK(h) /\ StoreTypeOK
  BY <1>1 DEF RelayTypeOK, RequestTypeOK
\* Steps that write no status row and blame nobody.
<1>4. ASSUME UNCHANGED <<statuses, faulted>>, handler' = [handler EXCEPT ![r] = handler'[r]],
             Owned(handler'[r], faulted)
      PROVE  FaultsOwned'
  <2>1. CancellationIsNoFault'
    BY <1>1, <1>4 DEF CancellationIsNoFault
  <2>2. QED
    BY <1>2, <1>4, <2>1, OwnedStep
<1>5. ASSUME NEW verdict, handler' = [handler EXCEPT ![r] = Close(@, verdict)],
             UNCHANGED <<statuses, faulted>>
      PROVE  FaultsOwned'
  <2>1. handler'[r] = Close(h, verdict) /\ handler' = [handler EXCEPT ![r] = handler'[r]]
    BY <1>3, <1>5
  <2>2. Close(h, verdict).pc = "done" /\ Close(h, verdict).statuses = <<>>
    BY <1>3 DEF Close, HandlerOK
  <2>3. QED
    BY <1>4, <1>5, <2>1, <2>2 DEF Owned
<1>6. ASSUME UNCHANGED <<statuses, faulted>>, handler' = [handler EXCEPT ![r] = handler'[r]],
             handler'[r].pc # "failing", handler'[r].statuses = h.statuses,
             handler'[r].cancelled = h.cancelled
      PROVE  FaultsOwned'
  BY <1>1, <1>4, <1>6 DEF Owned
<1>7. CASE Arrive(r) \/ ReadStations(r) \/ ReadMappings(r)
  <2>1. /\ handler'[r].pc # "failing" /\ handler'[r].statuses = h.statuses
        /\ handler'[r].cancelled = h.cancelled
    <3>1. CASE Arrive(r)
      <4>1. PICK q \in Queries : handler' = [handler EXCEPT ![r].pc = "stations", ![r].query = q]
        BY <3>1 DEF Arrive
      <4>2. QED
        BY <1>3, <4>1 DEF HandlerOK
    <3>2. CASE ReadStations(r)
      BY <1>3, <3>2 DEF ReadStations, HandlerOK
    <3>3. CASE ReadMappings(r)
      BY <1>3, <3>3 DEF ReadMappings, HandlerOK
    <3>4. QED
      BY <1>7, <3>1, <3>2, <3>3
  <2>2. handler' = [handler EXCEPT ![r] = handler'[r]] /\ UNCHANGED <<statuses, faulted>>
    BY <1>3, <1>7 DEF Arrive, ReadStations, ReadMappings, storeVars, tableVars
  <2>3. QED
    BY <1>6, <2>1, <2>2
<1>8. CASE ReadStatuses(r)
  <2>1. handler'[r].pc # "failing" /\ handler'[r].statuses = statuses
    BY <1>3, <1>8 DEF ReadStatuses, HandlerOK
  <2>2. Owned(handler'[r], faulted)
    BY <1>1, <2>1 DEF Owned, CancellationIsNoFault
  <2>3. handler' = [handler EXCEPT ![r] = handler'[r]] /\ UNCHANGED <<statuses, faulted>>
    BY <1>3, <1>8 DEF ReadStatuses, storeVars, tableVars
  <2>4. QED
    BY <1>4, <2>2, <2>3
<1>9. CASE Refuse(r) \/ ReadError(r) \/ CallCancelled(r) \/ LogRequest(r) \/ GiveUp(r)
  <2>1. PICK verdict \in Verdict : handler' = [handler EXCEPT ![r] = Close(@, verdict)]
    BY <1>9 DEF Refuse, ReadError, CallCancelled, LogRequest, GiveUp, Verdict
  <2>2. UNCHANGED <<statuses, faulted>>
    BY <1>9 DEF Refuse, ReadError, CallCancelled, LogRequest, GiveUp, storeVars, tableVars
  <2>3. QED
    BY <1>5, <2>1, <2>2
<1>10. CASE Choose(r)
  <2>1. UNCHANGED <<statuses, faulted>>
    BY <1>10 DEF Choose, storeVars, tableVars
  <2>2. PICK targets : handler' = [handler EXCEPT ![r] =
          IF targets = <<>> THEN Close(@, "none")
          ELSE [@ EXCEPT !.pc = "attempt", !.targets = targets,
                         !.stations = <<>>, !.mappings = {}]]
    BY <1>10 DEF Choose
  <2>3. CASE targets = <<>>
    BY <1>5, <2>1, <2>2, <2>3
  <2>4. CASE targets # <<>>
    <3>1. handler'[r] = [h EXCEPT !.pc = "attempt", !.targets = targets,
                                 !.stations = <<>>, !.mappings = {}]
      BY <1>3, <2>2, <2>4
    <3>2. /\ handler'[r].pc = "attempt" /\ handler'[r].statuses = h.statuses
          /\ handler'[r].cancelled = h.cancelled
      BY <1>3, <3>1 DEF HandlerOK
    <3>3. handler' = [handler EXCEPT ![r] = handler'[r]]
      BY <1>3, <2>2
    <3>4. QED
      BY <1>6, <2>1, <3>2, <3>3
  <2>5. QED
    BY <2>3, <2>4
<1>11. CASE ClientLeaves(r)
  <2>1. handler'[r].cancelled /\ handler' = [handler EXCEPT ![r] = handler'[r]]
    BY <1>3, <1>11 DEF ClientLeaves, HandlerOK
  <2>2. UNCHANGED <<statuses, faulted>>
    BY <1>11 DEF ClientLeaves, storeVars, tableVars
  <2>3. QED
    BY <1>4, <2>1, <2>2 DEF Owned
<1>12. CASE Attempt(r)
  <2>1. UNCHANGED <<statuses, faulted>>
    BY <1>12 DEF Attempt, storeVars, tableVars
  <2>2. CASE handler' = [handler EXCEPT ![r].pc = "headers"]
    <3>1. /\ handler'[r].pc = "headers" /\ handler'[r].statuses = h.statuses
          /\ handler'[r].cancelled = h.cancelled
      BY <1>3, <2>2 DEF HandlerOK
    <3>2. handler' = [handler EXCEPT ![r] = handler'[r]]
      BY <1>3, <2>2
    <3>3. QED
      BY <1>6, <2>1, <3>1, <3>2
  <2>3. QED
    BY <1>5, <1>12, <2>1, <2>2 DEF Attempt
<1>13. ASSUME NEW answer, NEW ownFault, Failing(r, answer, ownFault), UNCHANGED statuses,
              ownFault \/ h.cancelled
       PROVE  FaultsOwned'
  <2>1. handler'[r] = [h EXCEPT !.pc = "failing", !.answer = answer, !.reason = failureKind(answer)]
    BY <1>3, <1>13 DEF Failing
  <2>2. /\ handler'[r].statuses = h.statuses /\ handler'[r].cancelled = h.cancelled
        /\ handler'[r].targets = h.targets /\ handler'[r].next = h.next
    BY <1>3, <2>1 DEF HandlerOK
  <2>3. faulted \subseteq faulted' /\ (ownFault => Target(h).id \in faulted')
    BY <1>13 DEF Failing
  <2>4. Owned(handler'[r], faulted')
    BY <1>1, <1>13, <2>2, <2>3 DEF Owned, Target
  <2>5. CancellationIsNoFault'
    BY <1>1, <1>13, <2>3 DEF CancellationIsNoFault
  <2>6. handler' = [handler EXCEPT ![r] = handler'[r]]
    BY <1>3, <1>13 DEF Failing
  <2>7. QED
    BY <1>2, <2>3, <2>4, <2>5, <2>6, OwnedStep
<1>14. ASSUME NEW answer, Commit(r, answer), UNCHANGED statuses
       PROVE  FaultsOwned'
  <2>1. /\ handler'[r].pc = "streaming" /\ handler'[r].statuses = h.statuses
        /\ handler'[r].cancelled = h.cancelled
    BY <1>3, <1>14 DEF Commit, HandlerOK
  <2>2. handler' = [handler EXCEPT ![r] = handler'[r]] /\ UNCHANGED faulted
    BY <1>3, <1>14 DEF Commit
  <2>3. QED
    BY <1>6, <1>14, <2>1, <2>2
<1>15. CASE Headers(r)
  <2>1. UNCHANGED statuses
    BY <1>15 DEF Headers, tableVars
  <2>2. PICK a \in Answers :
          \/ Failing(r, a, TRUE)
          \/ Commit(r, a)
          \/ /\ handler' = [handler EXCEPT ![r].pc = "capture", ![r].answer = a]
             /\ UNCHANGED <<attempts, faulted>>
    BY <1>15 DEF Headers
  <2>3. CASE /\ handler' = [handler EXCEPT ![r].pc = "capture", ![r].answer = a]
             /\ UNCHANGED <<attempts, faulted>>
    <3>1. /\ handler'[r].pc = "capture" /\ handler'[r].statuses = h.statuses
          /\ handler'[r].cancelled = h.cancelled
      BY <1>3, <2>3 DEF HandlerOK
    <3>2. handler' = [handler EXCEPT ![r] = handler'[r]]
      BY <1>3, <2>3
    <3>3. QED
      BY <1>6, <2>1, <2>3, <3>1, <3>2
  <2>4. QED
    BY <1>13, <1>14, <2>1, <2>2, <2>3
<1>16. CASE Capture(r)
  <2>1. UNCHANGED statuses
    BY <1>16 DEF Capture, tableVars
  <2>2. Failing(r, h.answer, TRUE) \/ Commit(r, h.answer)
    BY <1>16 DEF Capture
  <2>3. QED
    BY <1>13, <1>14, <2>1, <2>2
<1>17. CASE CaptureFails(r)
  <2>1. UNCHANGED statuses
    BY <1>17 DEF CaptureFails, tableVars
  <2>2. PICK answer : Failing(r, answer, ~ h.cancelled)
    BY <1>17 DEF CaptureFails
  <2>3. QED
    BY <1>13, <2>1, <2>2
<1> DEFINE failed == RecordFailure(Target(h).station, StatusOf(h.statuses, Target(h).id), now)
           served == RecordSuccess(Target(h).station, StatusOf(h.statuses, Target(h).id))
<1>18. CASE FailOver(r)
  <2>1. /\ h.pc = "failing" /\ UNCHANGED faulted
        /\ SaveStationStatus(h.cancelled, Target(h).id, failed)
    BY <1>18 DEF FailOver
  <2>2. h.cancelled \/ Target(h).id \in faulted
    BY <1>1, <2>1 DEF Owned
  <2> HIDE DEF failed
  <2>3. CancellationIsNoFault'
    BY <1>1, <2>1, <2>2, SaveOwned
  <2> DEFINE g == [h EXCEPT !.statuses = Put(h.statuses, Target(h).id, failed)]
  <2>4. handler'[r] = Advance(g) /\ handler' = [handler EXCEPT ![r] = handler'[r]]
    BY <1>3, <1>18 DEF FailOver, failed
  <2>5. g.statuses = Put(h.statuses, Target(h).id, failed) /\ g.cancelled = h.cancelled
    BY <1>3 DEF HandlerOK
  <2>6. /\ Advance(g).pc # "failing" /\ Advance(g).statuses = g.statuses
        /\ Advance(g).cancelled = g.cancelled
    BY <1>3 DEF Advance, HandlerOK
  <2>7. Owned(Advance(g), faulted)
    BY <1>1, <2>2, <2>5, <2>6 DEF Owned, Put
  <2>8. QED
    BY <1>2, <2>1, <2>3, <2>4, <2>7, OwnedStep
<1>19. CASE StreamEnds(r)
  <2>1. /\ h.pc \in Looping /\ UNCHANGED faulted
        /\ SaveStationStatus(h.cancelled, Target(h).id, served)
    BY <1>19 DEF StreamEnds, Looping
  <2>2. Target(h).id \in Ids /\ Target(h).station \in Station /\ IsTable(h.statuses, Status)
    BY <1>3, <2>1, TargetType DEF HandlerOK
  <2>3. ~ h.cancelled /\ HoldsFailure(served) => Target(h).id \in faulted
    BY <1>1, <2>2, SuccessHoldsNoNewFailure DEF Owned
  <2> HIDE DEF served
  <2>4. CancellationIsNoFault'
    BY <1>1, <2>1, <2>3, SaveOwned
  <2>5. /\ handler'[r].pc = "logging" /\ handler'[r].statuses = h.statuses
        /\ handler'[r].cancelled = h.cancelled
        /\ handler' = [handler EXCEPT ![r] = handler'[r]]
    BY <1>3, <1>19 DEF StreamEnds, HandlerOK
  <2>6. Owned(handler'[r], faulted)
    BY <1>1, <2>5 DEF Owned
  <2>7. QED
    BY <1>2, <2>1, <2>4, <2>5, <2>6, OwnedStep
<1>20. CASE StreamBreaks(r)
  <2>1. /\ SaveStationStatus(h.cancelled, Target(h).id, failed)
        /\ faulted' = IF h.cancelled THEN faulted ELSE faulted \cup {Target(h).id}
    BY <1>20 DEF StreamBreaks
  <2> HIDE DEF failed
  <2>2. CancellationIsNoFault'
    BY <1>1, <2>1, SaveOwned
  <2>3. /\ handler'[r].pc = "logging" /\ handler'[r].statuses = h.statuses
        /\ handler'[r].cancelled = h.cancelled
        /\ handler' = [handler EXCEPT ![r] = handler'[r]]
    BY <1>3, <1>20 DEF StreamBreaks, HandlerOK
  <2>4. Owned(handler'[r], faulted') /\ faulted \subseteq faulted'
    BY <1>1, <2>1, <2>3 DEF Owned
  <2>5. QED
    BY <1>2, <2>2, <2>3, <2>4, OwnedStep
<1>21. QED
  BY <1>7, <1>8, <1>9, <1>10, <1>11, <1>12, <1>15, <1>16, <1>17, <1>18, <1>19, <1>20
     DEF RequestStep, Prompt, AwaitsUpstream

LEMMA OwnedInit ==
  ASSUME RelayInit
  PROVE  FaultsOwned
<1>1. CancellationIsNoFault
  BY DEF RelayInit, StoreInit, CancellationIsNoFault
<1>2. Fresh.statuses = <<>> /\ Fresh.pc = "idle"
  BY DEF Fresh
<1>3. \A r \in Requests : handler[r] = Fresh
  BY DEF RelayInit, RequestInit
<1>4. Owned(Fresh, faulted)
  BY <1>2 DEF Owned
<1>5. QED
  BY <1>1, <1>3, <1>4, RelayInitType DEF FaultsOwned

\* No request takes blame back.
LEMMA RequestBlames ==
  ASSUME NEW r \in Requests, RequestStep(r)
  PROVE  faulted \subseteq faulted'
<1>1. CASE Arrive(r) \/ Refuse(r) \/ ClientLeaves(r) \/ Prompt(r)
  BY <1>1 DEF Arrive, Refuse, ClientLeaves, Prompt, ReadStations, ReadMappings, ReadStatuses,
       ReadError, Choose, Attempt, CallCancelled, FailOver, LogRequest, GiveUp, storeVars
<1>2. CASE AwaitsUpstream(r)
  BY <1>2 DEF AwaitsUpstream, Headers, Failing, Commit, Capture, CaptureFails, StreamEnds, StreamBreaks
<1>3. QED
  BY <1>1, <1>2 DEF RequestStep

-----------------------------------------------------------------------------
(* Coherence of the status rows *)

\* StatusCoherent is not inductive: rows reach the table from the snapshots of whoever
\* writes them, and are computed with the station as the writer read it.  So the
\* snapshots must be coherent too, and every copy of a station must have the
\* thresholds that govern the row: "law" gives them, per id of a station that is or was.
SameThresholds(s, t) == /\ s.failureThreshold = t.failureThreshold
                        /\ s.recoveryThreshold = t.recoveryThreshold

Follow(table, law) ==
  \A id \in DOMAIN table : id \in DOMAIN law /\ SameThresholds(table[id], law[id])

RowsAgree(table, law) ==
  \A id \in DOMAIN table : id \in DOMAIN law /\ RowCoherent(table[id], law[id])

HandlerAgrees(h, law) ==
  /\ Follow(h.stations, law)
  /\ RowsAgree(h.statuses, law)
  /\ \A i \in DOMAIN h.targets :
       /\ h.targets[i].id \in DOMAIN law
       /\ SameThresholds(h.targets[i].station, law[h.targets[i].id])

AllAgree(law) ==
  /\ RelayTypeOK
  /\ Follow(stations, law)
  /\ now # 0
  /\ RowsAgree(statuses, law)
  /\ \A r \in Requests : HandlerAgrees(handler[r], law)

\* Of a station, coherence looks at the thresholds only.
LEMMA ThresholdsDecide ==
  ASSUME NEW row, NEW s, NEW t, SameThresholds(s, t)
  PROVE  RowCoherent(row, s) <=> RowCoherent(row, t)
BY DEF SameThresholds, RowCoherent, EffectiveFailureThreshold

LEMMA PutAgrees ==
  ASSUME NEW law, NEW table, RowsAgree(table, law), NEW id \in DOMAIN law, NEW row,
         RowCoherent(row, law[id])
  PROVE  RowsAgree(Put(table, id, row), law)
BY DEF RowsAgree, Put

LEMMA SaveAgrees ==
  ASSUME NEW law, RowsAgree(statuses, law), NEW cancelled, NEW id \in DOMAIN law, NEW row,
         RowCoherent(row, law[id]), SaveStationStatus(cancelled, id, row)
  PROVE  RowsAgree(statuses', law)
<1>1. CASE statuses' = Put(statuses, id, row)
  BY <1>1, PutAgrees
<1>2. CASE UNCHANGED statuses
  BY <1>2 DEF RowsAgree
<1>3. QED
  BY <1>1, <1>2 DEF SaveStationStatus

\* The row computed from a coherent snapshot is coherent, whatever the outcome.
LEMMA OutcomesAgree ==
  ASSUME NEW law, NEW table, IsTable(table, Status), RowsAgree(table, law), NEW id \in DOMAIN law,
         NEW station \in Station, SameThresholds(station, law[id]), NEW time \in Nat \ {0}
  PROVE  /\ RowCoherent(RecordFailure(station, StatusOf(table, id), time), law[id])
         /\ RowCoherent(RecordSuccess(station, StatusOf(table, id)), law[id])
<1>1. StatusOf(table, id) \in Status
  BY StatusOfType
<1>2. RowCoherent(NoStatus, station)
  BY <1>1, OutcomesMakeRowsCoherent
<1>3. RowCoherent(NoStatus, law[id])
  BY <1>2, ThresholdsDecide
<1>4. RowCoherent(StatusOf(table, id), law[id])
  BY <1>3 DEF StatusOf, RowsAgree
<1>5. Stamped(StatusOf(table, id))
  BY <1>4 DEF RowCoherent, Stamped
<1>6. /\ RowCoherent(RecordFailure(station, StatusOf(table, id), time), station)
      /\ RowCoherent(RecordSuccess(station, StatusOf(table, id)), station)
  BY <1>1, <1>5, OutcomesMakeRowsCoherent
<1>7. QED
  BY <1>6, ThresholdsDecide

LEMMA AgreeStep ==
  ASSUME NEW law, AllAgree(law), RelayTypeOK', NEW r \in Requests, UNCHANGED <<stations, now>>,
         handler' = [handler EXCEPT ![r] = handler'[r]],
         HandlerAgrees(handler'[r], law), RowsAgree(statuses', law)
  PROVE  AllAgree(law)'
<1>1. \A q \in Requests \ {r} : handler'[q] = handler[q]
  BY DEF AllAgree, RelayTypeOK, RequestTypeOK
<1>2. QED
  BY <1>1 DEF AllAgree

LEMMA AgreeNextRequest ==
  ASSUME NEW law, AllAgree(law), NEW r \in Requests, RequestStep(r)
  PROVE  AllAgree(law)'
<1> DEFINE h == handler[r]
           failed == RecordFailure(Target(h).station, StatusOf(h.statuses, Target(h).id), now)
           served == RecordSuccess(Target(h).station, StatusOf(h.statuses, Target(h).id))
<1>1. RelayTypeOK /\ RowsAgree(statuses, law) /\ HandlerAgrees(h, law) /\ Follow(stations, law)
  BY DEF AllAgree
<1>2. RelayTypeOK'
  BY <1>1, DecideType, CallType, OutcomeType DEF RequestStep, Prompt, AwaitsUpstream
<1>3. handler = [q \in Requests |-> handler[q]] /\ HandlerOK(h) /\ StoreTypeOK
  BY <1>1 DEF RelayTypeOK, RequestTypeOK
\* Steps that write no row and keep the snapshots, or drop them.
<1>4. ASSUME UNCHANGED <<stations, statuses, now>>,
             handler' = [handler EXCEPT ![r] = handler'[r]],
             handler'[r].stations \in {h.stations, <<>>},
             handler'[r].statuses \in {h.statuses, <<>>},
             handler'[r].targets = h.targets
      PROVE  AllAgree(law)'
  <2>1. HandlerAgrees(handler'[r], law)
    BY <1>1, <1>4 DEF HandlerAgrees, RowsAgree, Follow
  <2>2. RowsAgree(statuses', law)
    BY <1>1, <1>4
  <2>3. QED
    BY <1>2, <1>4, <2>1, <2>2, AgreeStep
<1>5. ASSUME NEW verdict, handler' = [handler EXCEPT ![r] = Close(@, verdict)],
             UNCHANGED <<stations, statuses, now>>
      PROVE  AllAgree(law)'
  <2>1. handler'[r] = Close(h, verdict) /\ handler' = [handler EXCEPT ![r] = handler'[r]]
    BY <1>3, <1>5
  <2>2. /\ Close(h, verdict).stations = <<>> /\ Close(h, verdict).statuses = <<>>
        /\ Close(h, verdict).targets = h.targets
    BY <1>3 DEF Close, HandlerOK
  <2>3. QED
    BY <1>4, <1>5, <2>1, <2>2
<1>6. CASE Refuse(r) \/ ReadError(r) \/ CallCancelled(r) \/ LogRequest(r) \/ GiveUp(r)
  <2>1. PICK verdict \in Verdict : handler' = [handler EXCEPT ![r] = Close(@, verdict)]
    BY <1>6 DEF Refuse, ReadError, CallCancelled, LogRequest, GiveUp, Verdict
  <2>2. UNCHANGED <<stations, statuses, now>>
    BY <1>6 DEF Refuse, ReadError, CallCancelled, LogRequest, GiveUp, storeVars, tableVars
  <2>3. QED
    BY <1>5, <2>1, <2>2
<1> DEFINE Keeps == /\ handler' = [handler EXCEPT ![r] = handler'[r]]
                    /\ handler'[r].stations = h.stations /\ handler'[r].statuses = h.statuses
                    /\ handler'[r].targets = h.targets
<1>7. ASSUME Keeps, UNCHANGED <<stations, statuses, now>>
      PROVE  AllAgree(law)'
  BY <1>4, <1>7
<1>8. CASE Arrive(r) \/ ReadMappings(r) \/ ClientLeaves(r)
  <2>1. UNCHANGED <<stations, statuses, now>>
    BY <1>8 DEF Arrive, ReadMappings, ClientLeaves, storeVars, tableVars
  <2>2. CASE Arrive(r)
    <3>1. PICK q \in Queries : handler' = [handler EXCEPT ![r].pc = "stations", ![r].query = q]
      BY <2>2 DEF Arrive
    <3>2. Keeps
      BY <1>3, <3>1 DEF HandlerOK
    <3>3. QED
      BY <1>7, <2>1, <3>2
  <2>3. CASE ReadMappings(r) \/ ClientLeaves(r)
    <3>1. Keeps
      <4>1. CASE ReadMappings(r)
        BY <1>3, <4>1 DEF ReadMappings, HandlerOK
      <4>2. CASE ClientLeaves(r)
        BY <1>3, <4>2 DEF ClientLeaves, HandlerOK
      <4>3. QED
        BY <2>3, <4>1, <4>2
    <3>2. QED
      BY <1>7, <2>1, <3>1
  <2>4. QED
    BY <1>8, <2>2, <2>3
<1>9. CASE Headers(r) \/ Capture(r) \/ CaptureFails(r)
  <2>1. UNCHANGED <<stations, statuses, now>>
    BY <1>9 DEF Headers, Capture, CaptureFails, tableVars
  <2>2. ASSUME NEW answer, NEW ownFault, Failing(r, answer, ownFault)
        PROVE  Keeps
    BY <1>3, <2>2 DEF Failing, HandlerOK
  <2>3. ASSUME NEW answer, Commit(r, answer)
        PROVE  Keeps
    BY <1>3, <2>3 DEF Commit, HandlerOK
  <2>4. ASSUME NEW answer, handler' = [handler EXCEPT ![r].pc = "capture", ![r].answer = answer]
        PROVE  Keeps
    BY <1>3, <2>4 DEF HandlerOK
  <2> HIDE DEF Keeps
  <2>5. Keeps
    BY <1>9, <2>2, <2>3, <2>4 DEF Headers, Capture, CaptureFails
  <2>6. QED
    BY <1>7, <2>1, <2>5
<1>10. CASE ReadStations(r)
  <2>1. /\ handler' = [handler EXCEPT ![r] = handler'[r]] /\ handler'[r].stations = stations
        /\ handler'[r].statuses = h.statuses /\ handler'[r].targets = h.targets
    BY <1>3, <1>10 DEF ReadStations, HandlerOK
  <2>2. UNCHANGED <<stations, statuses, now>>
    BY <1>10 DEF ReadStations, storeVars, tableVars
  <2>3. HandlerAgrees(handler'[r], law) /\ RowsAgree(statuses', law)
    BY <1>1, <2>1, <2>2 DEF HandlerAgrees
  <2>4. QED
    BY <1>2, <2>1, <2>2, <2>3, AgreeStep
<1>11. CASE ReadStatuses(r)
  <2>1. /\ handler' = [handler EXCEPT ![r] = handler'[r]] /\ handler'[r].stations = h.stations
        /\ handler'[r].statuses = statuses /\ handler'[r].targets = h.targets
    BY <1>3, <1>11 DEF ReadStatuses, HandlerOK
  <2>2. UNCHANGED <<stations, statuses, now>>
    BY <1>11 DEF ReadStatuses, storeVars, tableVars
  <2>3. HandlerAgrees(handler'[r], law) /\ RowsAgree(statuses', law)
    BY <1>1, <2>1, <2>2 DEF HandlerAgrees
  <2>4. QED
    BY <1>2, <2>1, <2>2, <2>3, AgreeStep
<1>12. CASE Choose(r)
  <2>1. UNCHANGED <<stations, statuses, now>>
    BY <1>12 DEF Choose, storeVars, tableVars
  <2>2. PICK scores \in Scoreboards :
          \E targets \in Candidates(h.query, h.stations, h.mappings, h.statuses, scores) :
            handler' = [handler EXCEPT ![r] =
              IF targets = <<>> THEN Close(@, "none")
              ELSE [@ EXCEPT !.pc = "attempt", !.targets = targets,
                             !.stations = <<>>, !.mappings = {}]]
    BY <1>12 DEF Choose
  <2>3. PICK targets \in Candidates(h.query, h.stations, h.mappings, h.statuses, scores) :
          handler' = [handler EXCEPT ![r] =
            IF targets = <<>> THEN Close(@, "none")
            ELSE [@ EXCEPT !.pc = "attempt", !.targets = targets,
                           !.stations = <<>>, !.mappings = {}]]
    BY <2>2
  <2>4. \A i \in DOMAIN targets :
          /\ targets[i].id \in DOMAIN h.stations
          /\ targets[i].station = h.stations[targets[i].id]
    <3>1. IsTable(h.stations, Station)
      BY <1>3 DEF HandlerOK
    <3>2. \A key \in DOMAIN scores : scores[key].score \in Nat /\ scores[key].enough \in BOOLEAN
      BY RequestAssumption
    <3>3. \A i \in DOMAIN targets :
            /\ targets[i].id \in DOMAIN h.stations
            /\ targets[i].station = h.stations[targets[i].id]
            /\ Eligible(targets[i].id, h.query, h.stations, h.mappings, h.statuses)
      BY <3>1, <3>2, CandidatesType
    <3>4. QED
      BY <3>3
  <2>5. CASE targets = <<>>
    BY <1>5, <2>1, <2>3, <2>5
  <2>6. CASE targets # <<>>
    <3>1. handler'[r] = [h EXCEPT !.pc = "attempt", !.targets = targets,
                                 !.stations = <<>>, !.mappings = {}]
      BY <1>3, <2>3, <2>6
    <3>2. /\ handler'[r].stations = <<>> /\ handler'[r].statuses = h.statuses
          /\ handler'[r].targets = targets
      BY <1>3, <3>1 DEF HandlerOK
    <3>3. HandlerAgrees(handler'[r], law)
      BY <1>1, <2>4, <3>2 DEF HandlerAgrees, Follow
    <3>4. handler' = [handler EXCEPT ![r] = handler'[r]] /\ RowsAgree(statuses', law)
      BY <1>1, <1>3, <2>1, <2>3
    <3>5. QED
      BY <1>2, <2>1, <3>3, <3>4, AgreeStep
  <2>7. QED
    BY <2>5, <2>6
<1>13. CASE Attempt(r)
  <2>1. UNCHANGED <<stations, statuses, now>>
    BY <1>13 DEF Attempt, storeVars, tableVars
  <2>2. CASE handler' = [handler EXCEPT ![r].pc = "headers"]
    <3>1. Keeps
      BY <1>3, <2>2 DEF HandlerOK
    <3>2. QED
      BY <1>7, <2>1, <3>1
  <2>3. QED
    BY <1>5, <1>13, <2>1, <2>2 DEF Attempt
\* The three steps that write a row: the target has the thresholds of the law.
<1>14. ASSUME h.pc \in Looping
       PROVE  /\ Target(h).id \in DOMAIN law
              /\ RowCoherent(failed, law[Target(h).id])
              /\ RowCoherent(served, law[Target(h).id])
  <2>1. h.next \in DOMAIN h.targets /\ IsTable(h.statuses, Status)
    BY <1>3, <1>14 DEF HandlerOK
  <2>2. Target(h).id \in DOMAIN law /\ SameThresholds(Target(h).station, law[Target(h).id])
    BY <1>1, <2>1 DEF HandlerAgrees, Target
  <2>3. now \in Nat \ {0} /\ RowsAgree(h.statuses, law)
    BY <1>1, <1>3 DEF AllAgree, StoreTypeOK, HandlerAgrees
  <2>4. Target(h).station \in Station
    BY <1>3, <1>14, TargetType
  <2>5. QED
    BY <2>1, <2>2, <2>3, <2>4, OutcomesAgree
<1> HIDE DEF failed, served
<1>15. CASE StreamEnds(r) \/ StreamBreaks(r)
  <2>1. h.pc \in Looping /\ UNCHANGED <<stations, now>>
    BY <1>15 DEF StreamEnds, StreamBreaks, Looping, configVars
  <2>2. PICK row \in {failed, served} : SaveStationStatus(h.cancelled, Target(h).id, row)
    BY <1>15 DEF StreamEnds, StreamBreaks, failed, served
  <2>3. RowsAgree(statuses', law)
    BY <1>1, <1>14, <2>1, <2>2, SaveAgrees
  <2>4. Keeps
    <3>1. CASE StreamEnds(r)
      BY <1>3, <3>1 DEF StreamEnds, HandlerOK
    <3>2. CASE StreamBreaks(r)
      BY <1>3, <3>2 DEF StreamBreaks, HandlerOK
    <3>3. QED
      BY <1>15, <3>1, <3>2
  <2>5. HandlerAgrees(handler'[r], law)
    BY <1>1, <2>4 DEF HandlerAgrees
  <2>6. QED
    BY <1>2, <2>1, <2>3, <2>4, <2>5, AgreeStep
<1>16. CASE FailOver(r)
  <2>1. /\ h.pc \in Looping /\ UNCHANGED <<stations, now>>
        /\ SaveStationStatus(h.cancelled, Target(h).id, failed)
    BY <1>16 DEF FailOver, Looping, configVars, failed
  <2>2. RowsAgree(statuses', law) /\ RowsAgree(Put(h.statuses, Target(h).id, failed), law)
    BY <1>1, <1>14, <2>1, SaveAgrees, PutAgrees DEF HandlerAgrees
  <2> DEFINE g == [h EXCEPT !.statuses = Put(h.statuses, Target(h).id, failed)]
  <2>3. handler'[r] = Advance(g) /\ handler' = [handler EXCEPT ![r] = handler'[r]]
    BY <1>3, <1>16 DEF FailOver, failed
  <2> DEFINE k == handler'[r]
  <2>4. /\ k.statuses = Put(h.statuses, Target(h).id, failed)
        /\ k.stations = h.stations /\ k.targets = h.targets
    BY <1>3, <2>3 DEF Advance, HandlerOK
  <2> HIDE DEF k
  <2>5. HandlerAgrees(k, law)
    BY <1>1, <2>2, <2>4 DEF HandlerAgrees
  <2>6. QED
    BY <1>2, <2>1, <2>2, <2>3, <2>5, AgreeStep DEF k
<1>17. QED
  BY <1>6, <1>8, <1>9, <1>10, <1>11, <1>12, <1>13, <1>15, <1>16
     DEF RequestStep, Prompt, AwaitsUpstream

LEMMA AgreeInit ==
  ASSUME NEW law, Follow(SeedStations, law), RowsAgree(SeedStatuses, law), RelayInit
  PROVE  AllAgree(law)
<1>1. stations = SeedStations /\ now # 0 /\ statuses = SeedStatuses
  BY DEF RelayInit, StoreInit
<1>2. Fresh.statuses = <<>> /\ Fresh.stations = <<>> /\ Fresh.targets = <<>>
  BY DEF Fresh
<1>3. HandlerAgrees(Fresh, law)
  BY <1>2 DEF HandlerAgrees, RowsAgree, Follow
<1>4. \A r \in Requests : handler[r] = Fresh
  BY DEF RelayInit, RequestInit
<1>5. QED
  BY <1>1, <1>3, <1>4, RelayInitType DEF AllAgree

LEMMA AgreedRows ==
  ASSUME NEW law, Follow(stations, law), RowsAgree(statuses, law)
  PROVE  StatusCoherent
BY ThresholdsDecide DEF Follow, RowsAgree, StatusCoherent

\* If the rows the process starts with are coherent, every row it ever writes is:
\* a row computed from a stale snapshot loses outcomes, but never contradicts the
\* thresholds (FailOver, StreamEnds, StreamBreaks).
THEOREM StatusCoherentHolds ==
  ASSUME \A id \in DOMAIN SeedStatuses : RowCoherent(SeedStatuses[id], SeedStations[id])
  PROVE  RelaySpec => []StatusCoherent
<1> DEFINE law == SeedStations
<1>1. Follow(SeedStations, law)
  BY DEF Follow, SameThresholds
<1>2. RowsAgree(SeedStatuses, law)
  BY SeedAssumption DEF RowsAgree
<1> HIDE DEF law
<1>3. RelayInit => AllAgree(law)
  BY <1>1, <1>2, AgreeInit
<1>4. AllAgree(law) /\ [RelayNext]_relayVars => AllAgree(law)'
  <2> SUFFICES ASSUME AllAgree(law), [RelayNext]_relayVars PROVE AllAgree(law)'
    OBVIOUS
  <2>1. CASE \E r \in Requests : RequestStep(r)
    BY <2>1, AgreeNextRequest
  <2>2. CASE UNCHANGED <<stations, statuses, handler>> /\ (Tick \/ UNCHANGED now)
    <3>1. RelayTypeOK'
      BY RelayNextType DEF AllAgree
    <3>2. now' # 0
      BY <2>2 DEF AllAgree, Tick, RelayTypeOK, StoreTypeOK
    <3>3. QED
      BY <2>2, <3>1, <3>2 DEF AllAgree
  <2>3. QED
    BY <2>1, <2>2 DEF RelayNext, Tick, configVars, relayVars, requestVars, storeVars, tableVars
<1>5. AllAgree(law) => StatusCoherent
  BY AgreedRows DEF AllAgree
<1>6. QED
  BY <1>3, <1>4, <1>5, PTL DEF RelaySpec

-----------------------------------------------------------------------------
(* What a step does to a request: h and g are the handler before and after it, *)
(* t and u the calls made                                                      *)

Same(h, g) == g.targets = h.targets /\ g.next = h.next /\ g.verdict = h.verdict

Reads(h, g, t, u) == /\ h.pc \in Starting /\ g.pc \in Starting \ {"idle"}
                     /\ Same(h, g) /\ u = t

Leaves(h, g, t, u) == /\ g.pc = h.pc /\ g.reason = h.reason /\ g.answer = h.answer
                      /\ g.cancelled /\ ~ h.cancelled /\ h.pc \in Open
                      /\ Same(h, g) /\ u = t

Ends(h, g, t, u) ==
  /\ \/ h.pc = "idle" /\ g.verdict = "refused"
     \/ h.pc \in Starting \ {"idle"} /\ g.verdict = "error"
     \/ h.pc = "choose" /\ g.verdict = "none"
     \/ h.pc = "attempt" /\ g.verdict \in {"error", "aborted"}
     \/ h.pc = "headers" /\ g.verdict = "aborted"
     \/ h.pc = "logging" /\ g.verdict = "relayed"
     \/ h.pc = "exhausted" /\ g.verdict = "exhausted"
  /\ g.pc = "done" /\ g.targets = h.targets /\ g.next = h.next /\ g.reason = h.reason /\ u = t

Differ(targets) == \A i, j \in DOMAIN targets : targets[i].id = targets[j].id => i = j

Chooses(h, g, t, u) == /\ h.pc = "choose" /\ g.pc = "attempt"
                       /\ g.targets # <<>> /\ Differ(g.targets)
                       /\ g.next = h.next /\ g.verdict = h.verdict /\ u = t

Called(h) == [id |-> Target(h).id, name |-> Target(h).station.name, kind |-> ""]

Calls(h, g, t, u) == /\ h.pc = "attempt" /\ g.pc = "headers"
                     /\ Same(h, g) /\ u = Append(t, Called(h))

Waits(h, g, t, u) == h.pc = "headers" /\ g.pc = "capture" /\ Same(h, g) /\ u = t

Blame(t, kind) == [t EXCEPT ![Len(t)].kind = kind]

Fails(h, g, t, u) == /\ h.pc \in {"headers", "capture"} /\ g.pc = "failing"
                     /\ g.reason \in FailureKinds
                     /\ Same(h, g) /\ u = Blame(t, g.reason)

Commits(h, g, t, u) == /\ h.pc \in {"headers", "capture"} /\ g.pc = "streaming"
                       /\ g.answer.status # 502 /\ g.verdict = "relayed"
                       /\ g.targets = h.targets /\ g.next = h.next /\ u = t

Advances(h, g, t, u) ==
  /\ h.pc = "failing"
  /\ \/ h.next < Len(h.targets) /\ g.pc = "attempt" /\ g.next = h.next + 1
     \/ ~ h.next < Len(h.targets) /\ g.pc = "exhausted" /\ g.next = h.next
  /\ g.targets = h.targets /\ g.verdict = h.verdict /\ g.reason = h.reason /\ u = t

Streams(h, g, t, u) == /\ h.pc = "streaming" /\ g.pc = "logging" /\ g.answer = h.answer
                       /\ Same(h, g) /\ u = t

Moves(h, g, t, u) ==
  \/ Reads(h, g, t, u) \/ Leaves(h, g, t, u) \/ Ends(h, g, t, u) \/ Chooses(h, g, t, u)
  \/ Calls(h, g, t, u) \/ Waits(h, g, t, u) \/ Fails(h, g, t, u) \/ Commits(h, g, t, u)
  \/ Advances(h, g, t, u) \/ Streams(h, g, t, u)

LEMMA CloseKeeps ==
  ASSUME NEW h, HandlerOK(h), NEW verdict
  PROVE  LET g == Close(h, verdict)
         IN  /\ g.pc = "done" /\ g.verdict = verdict /\ g.targets = h.targets
             /\ g.next = h.next /\ g.reason = h.reason
BY DEF Close, HandlerOK

\* Every step of a request is one of these, and touches no other request.
LEMMA RequestMoves ==
  ASSUME RelayTypeOK, NEW r \in Requests, RequestStep(r)
  PROVE  /\ Moves(handler[r], handler'[r], attempts[r], attempts'[r])
         /\ \A q \in Requests \ {r} : handler'[q] = handler[q] /\ attempts'[q] = attempts[q]
<1> DEFINE h == handler[r]
           g == handler'[r]
           t == attempts[r]
           u == attempts'[r]
<1>1. /\ handler = [q \in Requests |-> handler[q]] /\ HandlerOK(h)
      /\ attempts \in [Requests -> Seq(Attempted)] /\ t \in Seq(Attempted)
  BY DEF RelayTypeOK, RequestTypeOK, Attempted
<1>2. ASSUME handler' = [handler EXCEPT ![r] = g], attempts' = [attempts EXCEPT ![r] = u],
             Moves(h, g, t, u)
      PROVE  /\ Moves(h, g, t, u)
             /\ \A q \in Requests \ {r} : handler'[q] = handler[q] /\ attempts'[q] = attempts[q]
  BY <1>1, <1>2
<1>3. ASSUME NEW verdict, handler' = [handler EXCEPT ![r] = Close(@, verdict)],
             UNCHANGED attempts
      PROVE  /\ g.pc = "done" /\ g.verdict = verdict /\ g.targets = h.targets
             /\ g.next = h.next /\ g.reason = h.reason
             /\ handler' = [handler EXCEPT ![r] = g] /\ attempts' = [attempts EXCEPT ![r] = u]
             /\ u = t
  BY <1>1, <1>3, CloseKeeps
<1> SUFFICES /\ handler' = [handler EXCEPT ![r] = g] /\ attempts' = [attempts EXCEPT ![r] = u]
             /\ Moves(h, g, t, u)
  BY <1>2
<1>4. CASE Refuse(r)
  BY <1>3, <1>4 DEF Refuse, Ends, Moves
<1>5. CASE ReadError(r)
  BY <1>3, <1>5 DEF ReadError, Ends, Moves, Starting
<1>6. CASE CallCancelled(r)
  BY <1>3, <1>6 DEF CallCancelled, Ends, Moves
<1>7. CASE LogRequest(r)
  BY <1>3, <1>7 DEF LogRequest, Ends, Moves
<1>8. CASE GiveUp(r)
  BY <1>3, <1>8 DEF GiveUp, Ends, Moves
<1>9. CASE Arrive(r) \/ ReadStations(r) \/ ReadMappings(r) \/ ReadStatuses(r)
  <2>1. u = t /\ attempts' = [attempts EXCEPT ![r] = u]
    BY <1>1, <1>9 DEF Arrive, ReadStations, ReadMappings, ReadStatuses
  <2>2. /\ h.pc \in Starting /\ g.pc \in Starting \ {"idle"} /\ Same(h, g)
        /\ handler' = [handler EXCEPT ![r] = g]
    <3>1. CASE Arrive(r)
      <4>1. PICK q \in Queries : handler' = [handler EXCEPT ![r].pc = "stations", ![r].query = q]
        BY <3>1 DEF Arrive
      <4>2. QED
        BY <1>1, <3>1, <4>1 DEF Arrive, HandlerOK, Starting, Same
    <3>2. CASE ReadStations(r)
      BY <1>1, <3>2 DEF ReadStations, HandlerOK, Starting, Same
    <3>3. CASE ReadMappings(r)
      BY <1>1, <3>3 DEF ReadMappings, HandlerOK, Starting, Same
    <3>4. CASE ReadStatuses(r)
      BY <1>1, <3>4 DEF ReadStatuses, HandlerOK, Starting, Same
    <3>5. QED
      BY <1>9, <3>1, <3>2, <3>3, <3>4
  <2>3. QED
    BY <2>1, <2>2 DEF Reads, Moves
<1>10. CASE Choose(r)
  <2>1. PICK scores \in Scoreboards :
          \E targets \in Candidates(h.query, h.stations, h.mappings, h.statuses, scores) :
            handler' = [handler EXCEPT ![r] =
              IF targets = <<>> THEN Close(@, "none")
              ELSE [@ EXCEPT !.pc = "attempt", !.targets = targets,
                             !.stations = <<>>, !.mappings = {}]]
    BY <1>10 DEF Choose
  <2>2. PICK targets \in Candidates(h.query, h.stations, h.mappings, h.statuses, scores) :
          handler' = [handler EXCEPT ![r] =
            IF targets = <<>> THEN Close(@, "none")
            ELSE [@ EXCEPT !.pc = "attempt", !.targets = targets,
                           !.stations = <<>>, !.mappings = {}]]
    BY <2>1
  <2>3. h.pc = "choose" /\ UNCHANGED attempts
    BY <1>10 DEF Choose
  <2>4. CASE targets = <<>>
    BY <1>3, <2>2, <2>3, <2>4 DEF Ends, Moves
  <2>5. CASE targets # <<>>
    <3>1. g = [h EXCEPT !.pc = "attempt", !.targets = targets, !.stations = <<>>, !.mappings = {}]
      BY <1>1, <2>2, <2>5
    <3>2. \A key \in DOMAIN scores : scores[key].score \in Nat /\ scores[key].enough \in BOOLEAN
      BY RequestAssumption
    <3>a. IsTable(h.stations, Station)
      BY <1>1 DEF HandlerOK
    <3>b. \A i, j \in DOMAIN targets : targets[i].id = targets[j].id => i = j
      BY <3>2, <3>a, CandidatesDiffer
    <3>3. Differ(targets)
      BY <3>b DEF Differ
    <3>4. Chooses(h, g, t, u)
      BY <1>1, <2>3, <2>5, <3>1, <3>3 DEF Chooses, HandlerOK
    <3>5. QED
      BY <1>1, <2>2, <2>3, <3>4 DEF Moves
  <2>6. QED
    BY <2>4, <2>5
<1>11. CASE ClientLeaves(r)
  <2>1. Leaves(h, g, t, u)
    BY <1>1, <1>11 DEF ClientLeaves, HandlerOK, Leaves, Same
  <2>2. QED
    BY <1>1, <1>11, <2>1 DEF ClientLeaves, Moves
<1>12. CASE Attempt(r)
  <2>1. CASE \E verdict \in {"error", "aborted"} :
               handler' = [handler EXCEPT ![r] = Close(@, verdict)] /\ UNCHANGED attempts
    BY <1>3, <1>12, <2>1 DEF Attempt, Ends, Moves
  <2>2. CASE /\ handler' = [handler EXCEPT ![r].pc = "headers"]
             /\ attempts' = [attempts EXCEPT ![r] = Append(@, Called(h))]
    <3>1. Calls(h, g, t, u)
      BY <1>1, <1>12, <2>2 DEF Attempt, HandlerOK, Calls, Same
    <3>2. QED
      BY <1>1, <2>2, <3>1 DEF Moves
  <2>3. QED
    BY <1>12, <2>1, <2>2 DEF Attempt, Called
\* The three ways a call goes on.
<1>13. ASSUME NEW answer \in Answer, NEW ownFault, Failing(r, answer, ownFault),
              h.pc \in {"headers", "capture"}
       PROVE  /\ handler' = [handler EXCEPT ![r] = g] /\ attempts' = [attempts EXCEPT ![r] = u]
              /\ Moves(h, g, t, u)
  <2>1. g = [h EXCEPT !.pc = "failing", !.answer = answer, !.reason = failureKind(answer)]
    BY <1>1, <1>13 DEF Failing
  <2>2. u = [t EXCEPT ![Len(t)].kind = failureKind(answer)]
    BY <1>1, <1>13 DEF Failing
  <2>3. failureKind(answer) \in FailureKinds
    BY failureKindType
  <2>4. Fails(h, g, t, u)
    BY <1>1, <1>13, <2>1, <2>2, <2>3 DEF Fails, Blame, HandlerOK, Same
  <2>5. handler' = [handler EXCEPT ![r] = g] /\ attempts' = [attempts EXCEPT ![r] = u]
    BY <1>1, <1>13 DEF Failing
  <2>6. QED
    BY <2>4, <2>5 DEF Moves
<1>14. ASSUME NEW answer \in Answer, Commit(r, answer), answer.status # 502,
              h.pc \in {"headers", "capture"}
       PROVE  /\ handler' = [handler EXCEPT ![r] = g] /\ attempts' = [attempts EXCEPT ![r] = u]
              /\ Moves(h, g, t, u)
  <2>1. Commits(h, g, t, u)
    BY <1>1, <1>14, ZenonT(40) DEF Commit, HandlerOK, Commits
  <2>2. QED
    BY <1>1, <1>14, <2>1, ZenonT(40) DEF Commit, Moves
<1>15. CASE Headers(r)
  <2>1. PICK a \in Answers :
          \/ Failing(r, a, TRUE)
          \/ a.status < 400 /\ Commit(r, a)
          \/ /\ handler' = [handler EXCEPT ![r].pc = "capture", ![r].answer = a]
             /\ UNCHANGED <<attempts, faulted>>
    BY <1>15 DEF Headers
  <2>2. a \in Answer /\ h.pc = "headers"
    BY <1>15, RequestAssumption DEF Headers
  <2>3. CASE a.status < 400 /\ Commit(r, a)
    <3>a. a.status \in Nat
      BY <2>2 DEF Answer
    <3>1. a.status # 502
      BY <2>3, <3>a
    <3>2. QED
      BY <1>14, <2>2, <2>3, <3>1
  <2>4. CASE /\ handler' = [handler EXCEPT ![r].pc = "capture", ![r].answer = a]
             /\ UNCHANGED <<attempts, faulted>>
    <3>1. Waits(h, g, t, u)
      BY <1>1, <2>2, <2>4 DEF HandlerOK, Waits, Same
    <3>2. QED
      BY <1>1, <2>4, <3>1 DEF Moves
  <2>5. QED
    BY <1>13, <2>1, <2>2, <2>3, <2>4
<1>16. CASE Capture(r)
  <2>1. h.pc = "capture" /\ h.answer \in Answer
    BY <1>1, <1>16 DEF Capture, HandlerOK
  <2>2. CASE Failing(r, h.answer, TRUE)
    BY <1>13, <2>1, <2>2
  <2>3. CASE ~ shouldFailover(h.answer) /\ Commit(r, h.answer)
    <3>a. h.answer.status \in Nat
      BY <2>1 DEF Answer
    <3>b. ~ h.answer.status >= 500
      BY <2>3, Zenon DEF shouldFailover
    <3>1. h.answer.status # 502
      BY <3>a, <3>b
    <3>2. QED
      BY <1>14, <2>1, <2>3, <3>1
  <2>4. QED
    BY <1>16, <2>2, <2>3 DEF Capture
<1>17. CASE CaptureFails(r)
  <2> DEFINE broken == [h.answer EXCEPT !.err = "transport"]
  <2>1. h.pc = "capture" /\ h.answer \in Answer
    BY <1>1, <1>17 DEF CaptureFails, HandlerOK
  <2>2. broken \in Answer
    BY <2>1 DEF Answer
  <2>3. QED
    BY <1>13, <1>17, <2>1, <2>2 DEF CaptureFails
<1>18. CASE FailOver(r)
  <2> DEFINE status == RecordFailure(Target(h).station, StatusOf(h.statuses, Target(h).id), now)
             k == [h EXCEPT !.statuses = Put(h.statuses, Target(h).id, status)]
  <2>1. /\ h.pc = "failing" /\ UNCHANGED attempts /\ g = Advance(k)
        /\ handler' = [handler EXCEPT ![r] = g]
    BY <1>1, <1>18 DEF FailOver
  <2>2. /\ k.targets = h.targets /\ k.next = h.next /\ k.verdict = h.verdict
        /\ k.reason = h.reason /\ k = [f \in DOMAIN h |-> k[f]]
        /\ {"pc", "targets", "next", "verdict", "reason"} \subseteq DOMAIN k
    BY <1>1 DEF HandlerOK
  <2> HIDE DEF k
  <2>3. Advances(h, g, t, u)
    BY <1>1, <2>1, <2>2 DEF Advance, Advances
  <2>4. QED
    BY <1>1, <2>1, <2>3 DEF Moves
<1>19. CASE StreamEnds(r) \/ StreamBreaks(r)
  <2>1. /\ h.pc = "streaming" /\ UNCHANGED attempts /\ handler' = [handler EXCEPT ![r] = g]
        /\ \/ g = [h EXCEPT !.pc = "logging"]
           \/ g = [h EXCEPT !.pc = "logging", !.error = "stream_copy_error"]
    BY <1>1, <1>19 DEF StreamEnds, StreamBreaks
  <2>2. Streams(h, g, t, u)
    BY <1>1, <2>1 DEF HandlerOK, Streams, Same
  <2>3. QED
    BY <1>1, <2>1, <2>2 DEF Moves
<1>20. QED
  BY <1>4, <1>5, <1>6, <1>7, <1>8, <1>9, <1>10, <1>11, <1>12, <1>15, <1>16, <1>17, <1>18, <1>19
     DEF RequestStep, Prompt, AwaitsUpstream

-----------------------------------------------------------------------------
(* What a client has been told was earned *)

AllFailed(t) == \A i \in DOMAIN t : t[i].kind # ""

OneOpen(t) == t # <<>> /\ \A i \in DOMAIN t : t[i].kind = "" <=> i = Len(t)

Trail(h, t) == \A i \in DOMAIN t : /\ i \in DOMAIN h.targets
                                   /\ t[i].id = h.targets[i].id
                                   /\ t[i].name = h.targets[i].station.name

\* Where the handler stands in the loop says which calls were made and how they ended.
Story(h, t) ==
  /\ Trail(h, t)
  /\ h.pc \in Starting => t = <<>> /\ h.verdict = ""
  /\ h.pc = "attempt" => /\ AllFailed(t) /\ h.next = Len(t) + 1
                         /\ t # <<>> => h.reason = t[Len(t)].kind
  /\ h.pc \in {"headers", "capture"} => OneOpen(t) /\ h.next = Len(t)
  /\ h.pc \in {"failing", "exhausted"} => /\ AllFailed(t) /\ h.next = Len(t)
                                         /\ h.reason = t[Len(t)].kind
  /\ h.pc = "exhausted" \/ h.verdict = "exhausted" => AllFailed(t) /\ Len(t) = Len(h.targets)
  /\ h.pc \in {"attempt", "headers", "capture", "failing", "exhausted"} => h.verdict = ""
  /\ h.pc \in {"streaming", "logging"} => h.verdict = "relayed" /\ h.answer.status # 502
  /\ h.verdict = "relayed" => OneOpen(t) /\ h.next = Len(t)

LEMMA OneMore ==
  ASSUME NEW k \in Nat
  PROVE  /\ k + 1 \in 1 .. (k + 1)
         /\ \A i \in 1 .. (k + 1) : i # k + 1 => i \in 1 .. k
         /\ \A i \in 1 .. k : i # k + 1
OBVIOUS

LEMMA OneLess ==
  ASSUME NEW k \in Nat
  PROVE  {i \in 1 .. k : i # k} = 1 .. (k - 1)
OBVIOUS

LEMMA EmptyDomain == DOMAIN <<>> = {} /\ Len(<<>>) = 0
OBVIOUS

LEMMA AppendCall ==
  ASSUME NEW t \in Seq(Attempted), NEW call \in Attempted
  PROVE  /\ Append(t, call) \in Seq(Attempted)
         /\ Len(Append(t, call)) = Len(t) + 1
         /\ Append(t, call)[Len(t) + 1] = call
         /\ \A i \in 1 .. Len(t) : Append(t, call)[i] = t[i]
BY AppendProperties

\* One more call.
LEMMA CallOpens ==
  ASSUME NEW t \in Seq(Attempted), AllFailed(t), NEW call \in Attempted, call.kind = "",
         NEW u \in Seq(Attempted), Len(u) = Len(t) + 1, u[Len(t) + 1] = call,
         \A i \in 1 .. Len(t) : u[i] = t[i]
  PROVE  /\ OneOpen(u) /\ u[Len(u)] = call
         /\ \A i \in DOMAIN u : i # Len(u) => i \in DOMAIN t /\ u[i] = t[i]
<1> DEFINE k == Len(t)
<1>1. k \in Nat /\ DOMAIN t = 1 .. k
  BY LenProperties
<1>2. DOMAIN u = 1 .. (k + 1)
  BY LenProperties
<1>3. /\ k + 1 \in DOMAIN u
      /\ \A i \in DOMAIN u : i # k + 1 => i \in DOMAIN t
  BY <1>1, <1>2, OneMore
<1>4. \A i \in DOMAIN t : i # k + 1 /\ u[i] = t[i]
  BY <1>1, OneMore
<1>5. \A i \in DOMAIN u : u[i].kind = "" <=> i = k + 1
  BY <1>3, <1>4, Zenon DEF AllFailed
<1>6. u # <<>>
  BY <1>3, EmptyDomain, Zenon
<1>7. OneOpen(u)
  BY <1>5, <1>6, Zenon DEF OneOpen
<1>8. QED
  BY <1>3, <1>4, <1>7, Zenon

Blamed(t, u, kind) ==
  /\ AllFailed(u) /\ Len(u) = Len(t) /\ u[Len(u)].kind = kind /\ DOMAIN u = DOMAIN t
  /\ \A i \in DOMAIN t : u[i].id = t[i].id /\ u[i].name = t[i].name
  /\ \A i \in DOMAIN t : t[i].kind # "" => u[i] = t[i]

\* The kind of the last call becomes known.
LEMMA FailureCloses ==
  ASSUME NEW t \in Seq(Attempted), OneOpen(t), NEW kind \in FailureKinds,
         NEW u, u = Blame(t, kind)
  PROVE  Blamed(t, u, kind)
<1> DEFINE n == Len(t)
           blamed == [t[n] EXCEPT !.kind = kind]
<1>1. t # <<>>
  BY DEF OneOpen
<1>2. n \in DOMAIN t
  BY <1>1, LenProperties
<1>3. t[n] \in Attempted
  BY <1>2, ElementOfSeq
<1>4. kind # ""
  BY DEF FailureKinds, SemanticKinds
<1>5. /\ blamed \in Attempted /\ blamed.kind = kind /\ blamed.id = t[n].id
      /\ blamed.name = t[n].name
  BY <1>3 DEF Attempted
<1>6. u = [t EXCEPT ![n] = blamed]
  BY Zenon DEF Blame
<1>7. \A i \in DOMAIN t : t[i].kind = "" <=> i = n
  BY DEF OneOpen
<1> HIDE DEF blamed
<1>8. u \in Seq(Attempted) /\ Len(u) = n /\ \A i \in DOMAIN t : u[i] = IF i = n THEN blamed ELSE t[i]
  BY <1>2, <1>5, <1>6, ExceptSeq
<1>9. DOMAIN t = 1 .. n
  BY LenProperties
<1>10. DOMAIN u = 1 .. Len(u)
  BY <1>8, LenProperties
<1> HIDE DEF n
<1>11. DOMAIN u = DOMAIN t
  BY <1>8, <1>9, <1>10
<1>12. AllFailed(u)
  BY <1>4, <1>5, <1>7, <1>8, <1>11 DEF AllFailed
<1>13. u[n].kind = kind
  BY <1>2, <1>5, <1>8
<1>14. \A i \in DOMAIN t : u[i].id = t[i].id /\ u[i].name = t[i].name
  BY <1>5, <1>8
<1>15. \A i \in DOMAIN t : t[i].kind # "" => u[i] = t[i]
  BY <1>7, <1>8
<1>16. QED
  BY <1>8, <1>11, <1>12, <1>13, <1>14, <1>15 DEF n, Blamed

LEMMA TrailKept ==
  ASSUME NEW h, NEW g, NEW t, Trail(h, t), g.targets = h.targets
  PROVE  Trail(g, t)
BY DEF Trail

LEMMA CalledType ==
  ASSUME NEW h, HandlerOK(h), h.pc \in Looping
  PROVE  /\ Called(h) \in Attempted /\ Called(h).kind = ""
         /\ Called(h).id = h.targets[h.next].id
         /\ Called(h).name = h.targets[h.next].station.name
<1>1. Target(h).id \in Ids /\ Target(h).station.name \in Names
  BY TargetType
<1>2. QED
  BY <1>1 DEF Called, Attempted, Target

LEMMA CallStory ==
  ASSUME NEW h, NEW g, HandlerOK(h), NEW t \in Seq(Attempted), NEW u,
         Calls(h, g, t, u), Story(h, t)
  PROVE  Story(g, u)
<1>1. /\ AllFailed(t) /\ h.next = Len(t) + 1 /\ Trail(h, t)
      /\ h.verdict = "" /\ h.pc \in Looping
  BY DEF Calls, Story, Looping
<1>2. /\ u = Append(t, Called(h)) /\ g.pc = "headers" /\ g.targets = h.targets
      /\ g.next = h.next /\ g.verdict = h.verdict
  BY DEF Calls, Same
<1>3. h.next \in DOMAIN h.targets
  BY <1>1 DEF HandlerOK
<1>4. /\ Called(h) \in Attempted /\ Called(h).kind = ""
      /\ Called(h).id = h.targets[h.next].id
      /\ Called(h).name = h.targets[h.next].station.name
  BY <1>1, CalledType
<1>a. /\ u \in Seq(Attempted) /\ Len(u) = Len(t) + 1 /\ u[Len(t) + 1] = Called(h)
      /\ \A i \in 1 .. Len(t) : u[i] = t[i]
  BY <1>2, <1>4, AppendCall, Zenon
<1>5. /\ OneOpen(u) /\ Len(u) = Len(t) + 1 /\ u[Len(u)] = Called(h)
      /\ \A i \in DOMAIN u : i # Len(u) => i \in DOMAIN t /\ u[i] = t[i]
  BY <1>1, <1>4, <1>a, CallOpens, ZenonT(40)
<1>6. Len(u) = h.next
  BY <1>1, <1>5
<1>7. \A i \in DOMAIN u : /\ i \in DOMAIN h.targets
                          /\ u[i].id = h.targets[i].id
                          /\ u[i].name = h.targets[i].station.name
  BY <1>1, <1>3, <1>4, <1>5, <1>6, Zenon DEF Trail
<1>8. Trail(g, u)
  BY <1>2, <1>7 DEF Trail
<1>9. QED
  BY <1>1, <1>2, <1>5, <1>6, <1>8 DEF Story, Starting

LEMMA FailStory ==
  ASSUME NEW h, NEW g, NEW t \in Seq(Attempted), NEW u, Fails(h, g, t, u), Story(h, t)
  PROVE  Story(g, u)
<1>1. OneOpen(t) /\ h.next = Len(t) /\ Trail(h, t) /\ h.verdict = ""
  BY DEF Fails, Story
<1>2. /\ u = Blame(t, g.reason) /\ g.pc = "failing" /\ g.targets = h.targets
      /\ g.next = h.next /\ g.verdict = h.verdict
  BY DEF Fails, Same
<1>3. PICK kind \in FailureKinds : g.reason = kind
  BY DEF Fails
<1>4. u = Blame(t, kind)
  BY <1>2, <1>3, Zenon
<1>5. /\ AllFailed(u) /\ Len(u) = Len(t) /\ u[Len(u)].kind = kind /\ DOMAIN u = DOMAIN t
      /\ \A i \in DOMAIN t : u[i].id = t[i].id /\ u[i].name = t[i].name
  <2>1. Blamed(t, u, kind)
    BY <1>1, <1>4, FailureCloses, Zenon
  <2>2. QED
    BY <2>1 DEF Blamed
<1>6. Trail(g, u)
  BY <1>1, <1>2, <1>5, Zenon DEF Trail
<1>7. QED
  BY <1>1, <1>2, <1>3, <1>5, <1>6 DEF Story, Starting

LEMMA AdvanceStory ==
  ASSUME NEW h, NEW g, HandlerOK(h), NEW t \in Seq(Attempted), NEW u,
         Advances(h, g, t, u), Story(h, t)
  PROVE  Story(g, u)
<1>1. h.targets \in Seq(RankedEntry) /\ h.next \in DOMAIN h.targets
  BY DEF HandlerOK, Advances, Looping
<1>2. /\ AllFailed(t) /\ h.next = Len(t) /\ h.reason = t[Len(t)].kind
      /\ h.verdict = "" /\ Trail(h, t)
  BY DEF Advances, Story
<1>3. /\ g.targets = h.targets /\ g.verdict = "" /\ g.reason = h.reason /\ u = t
      /\ Trail(g, u)
  BY <1>2, TrailKept DEF Advances
<1>4. CASE g.pc = "attempt" /\ g.next = h.next + 1
  BY <1>2, <1>3, <1>4 DEF Story, Starting
<1>5. CASE ~ h.next < Len(h.targets) /\ g.pc = "exhausted" /\ g.next = h.next
  <2>1. Len(h.targets) \in Nat /\ DOMAIN h.targets = 1 .. Len(h.targets)
    BY <1>1, LenProperties
  <2>2. h.next = Len(h.targets)
    BY <1>1, <1>5, <2>1
  <2>3. QED
    BY <1>2, <1>3, <1>5, <2>2 DEF Story, Starting
<1>6. QED
  BY <1>4, <1>5 DEF Advances

LEMMA NoneOpen ==
  ASSUME NEW g, g.pc \in Starting, g.verdict = "", NEW u, u = <<>>, Trail(g, u)
  PROVE  Story(g, u)
BY DEF Story, Starting

LEMMA StoryStep ==
  ASSUME NEW h, NEW g, HandlerOK(h), NEW t \in Seq(Attempted), NEW u,
         Moves(h, g, t, u), Story(h, t)
  PROVE  Story(g, u)
<1>1. g.targets = h.targets => Trail(g, t)
  BY TrailKept DEF Story
<1>2. CASE Reads(h, g, t, u)
  <2>1. g.targets = h.targets /\ g.verdict = h.verdict /\ u = t
    BY <1>2 DEF Reads, Same
  <2>2. h.pc \in Starting /\ g.pc \in Starting
    BY <1>2 DEF Reads
  <2>3. t = <<>> /\ h.verdict = ""
    BY <2>2 DEF Story
  <2>4. Trail(g, u)
    BY <1>1, <2>1
  <2>5. QED
    BY <2>1, <2>2, <2>3, <2>4, NoneOpen, Zenon
<1>3. CASE Leaves(h, g, t, u)
  <2>1. /\ g.pc = h.pc /\ g.reason = h.reason /\ g.answer = h.answer /\ u = t
        /\ g.targets = h.targets /\ g.next = h.next /\ g.verdict = h.verdict
    BY <1>3 DEF Leaves, Same
  <2>2. Trail(g, t)
    BY <1>1, <2>1
  <2>3. Story(g, t)
    <3>1. /\ g.pc \in Starting => t = <<>> /\ g.verdict = ""
          /\ g.pc = "attempt" => /\ AllFailed(t) /\ g.next = Len(t) + 1
                                 /\ t # <<>> => g.reason = t[Len(t)].kind
          /\ g.pc \in {"headers", "capture"} => OneOpen(t) /\ g.next = Len(t)
      BY <1>1, <2>1, Zenon DEF Story
    <3>2. /\ g.pc \in {"failing", "exhausted"} => /\ AllFailed(t) /\ g.next = Len(t)
                                                  /\ g.reason = t[Len(t)].kind
          /\ g.pc = "exhausted" \/ g.verdict = "exhausted"
             => AllFailed(t) /\ Len(t) = Len(g.targets)
      BY <1>1, <2>1, Zenon DEF Story
    <3>3. g.pc \in {"attempt", "headers", "capture", "failing", "exhausted"}
             => g.verdict = ""
      BY <2>1, Zenon DEF Story
    <3>4. ASSUME g.pc \in {"streaming", "logging"}
          PROVE  g.verdict = "relayed" /\ g.answer.status # 502
      <4>1. h.pc \in {"streaming", "logging"} => h.verdict = "relayed" /\ h.answer.status # 502
        BY Zenon DEF Story
      <4>2. QED
        BY <2>1, <3>4, <4>1
    <3>5. g.verdict = "relayed" => OneOpen(t) /\ g.next = Len(t)
      BY <2>1, Zenon DEF Story
    <3>6. QED
      BY <2>2, <3>1, <3>2, <3>3, <3>4, <3>5, Zenon DEF Story
  <2>4. QED
    BY <2>1, <2>3, Zenon
<1>4. CASE Ends(h, g, t, u)
  <2>1. g.pc = "done" /\ g.targets = h.targets /\ g.next = h.next /\ u = t
    BY <1>4 DEF Ends
  <2>2. g.verdict = "relayed" => OneOpen(u) /\ g.next = Len(u)
    BY <1>4, <2>1, ZenonT(40) DEF Ends, Story
  <2>3. g.verdict = "exhausted" => AllFailed(u) /\ Len(u) = Len(g.targets)
    BY <1>4, <2>1 DEF Ends, Story
  <2>4. QED
    BY <1>1, <2>1, <2>2, <2>3 DEF Story, Starting
<1>5. CASE Chooses(h, g, t, u)
  <2>1. h.pc \in Starting /\ g.pc = "attempt"
    BY <1>5 DEF Chooses, Starting
  <2>2. h.next = 1 /\ t = <<>> /\ h.verdict = ""
    BY <2>1 DEF HandlerOK, Story
  <2>3. u = <<>> /\ g.next = 1 /\ g.verdict = ""
    BY <1>5, <2>2 DEF Chooses
  <2>a. Len(u) = 0 /\ DOMAIN u = {}
    BY <2>3, EmptyDomain, Zenon
  <2>4. Len(u) + 1 = 1 /\ DOMAIN u = {}
    BY <2>a
  <2>5. AllFailed(u) /\ Trail(g, u)
    BY <2>4 DEF AllFailed, Trail
  <2>6. QED
    BY <2>1, <2>3, <2>4, <2>5 DEF Story, Starting
<1>6. CASE Waits(h, g, t, u)
  BY <1>1, <1>6 DEF Waits, Same, Story, Starting
<1>7. CASE Commits(h, g, t, u)
  BY <1>1, <1>7, ZenonT(40) DEF Commits, Story, Starting
<1>8. CASE Streams(h, g, t, u)
  BY <1>1, <1>8 DEF Streams, Same, Story, Starting
<1>9. QED
  BY <1>2, <1>3, <1>4, <1>5, <1>6, <1>7, <1>8, CallStory, FailStory, AdvanceStory DEF Moves

LEMMA StoryEarns ==
  ASSUME NEW h, HandlerOK(h), NEW t \in Seq(Attempted), Story(h, t)
  PROVE  LET failed == {i \in DOMAIN t : t[i].kind # ""}
         IN  /\ \A i \in DOMAIN t : t[i].id = h.targets[i].id
             /\ h.verdict = "exhausted" => failed = DOMAIN h.targets
             /\ h.verdict = "relayed" => t # <<>> /\ failed = 1 .. (Len(t) - 1)
<1> DEFINE failed == {i \in DOMAIN t : t[i].kind # ""}
<1>1. h.targets \in Seq(RankedEntry)
  BY DEF HandlerOK
<1>2. DOMAIN h.targets = 1 .. Len(h.targets) /\ DOMAIN t = 1 .. Len(t) /\ Len(t) \in Nat
  BY <1>1, LenProperties
<1>3. ASSUME h.verdict = "exhausted" PROVE failed = DOMAIN h.targets
  <2>1. AllFailed(t) /\ Len(t) = Len(h.targets)
    BY <1>3 DEF Story
  <2>2. DOMAIN t = DOMAIN h.targets
    BY <1>2, <2>1
  <2>3. QED
    BY <2>1, <2>2 DEF AllFailed
<1>4. ASSUME h.verdict = "relayed" PROVE t # <<>> /\ failed = 1 .. (Len(t) - 1)
  <2>1. OneOpen(t)
    BY <1>4 DEF Story
  <2>2. failed = {i \in DOMAIN t : i # Len(t)}
    BY <2>1 DEF OneOpen
  <2>3. {i \in 1 .. Len(t) : i # Len(t)} = 1 .. (Len(t) - 1)
    BY <1>2, OneLess
  <2>4. QED
    BY <1>2, <2>1, <2>2, <2>3, Zenon DEF OneOpen
<1>5. QED
  BY <1>3, <1>4 DEF Story, Trail

Stories == RelayTypeOK /\ \A r \in Requests : Story(handler[r], attempts[r])

LEMMA StoriesInit == RelayInit => Stories
<1> SUFFICES ASSUME RelayInit PROVE Stories
  OBVIOUS
<1>1. Fresh.pc = "idle" /\ Fresh.verdict = ""
  BY DEF Fresh
<1>a. Trail(Fresh, <<>>)
  BY DEF Trail
<1>2. Story(Fresh, <<>>)
  BY <1>1, <1>a DEF Story, Starting
<1>3. \A r \in Requests : handler[r] = Fresh /\ attempts[r] = <<>>
  BY DEF RelayInit, RequestInit
<1>4. QED
  BY <1>2, <1>3, RelayInitType DEF Stories

LEMMA RelayStepType ==
  ASSUME RelayTypeOK, NEW r \in Requests, RequestStep(r)
  PROVE  RelayTypeOK'
BY DecideType, CallType, OutcomeType DEF RequestStep, Prompt, AwaitsUpstream

LEMMA StoriesStep ==
  ASSUME Stories, NEW r \in Requests, RequestStep(r)
  PROVE  Stories'
<1>1. RelayTypeOK /\ RelayTypeOK'
  BY RelayStepType DEF Stories
<1>2. /\ HandlerOK(handler[r]) /\ HandlerOK(handler'[r])
      /\ attempts[r] \in Seq(Attempted) /\ attempts'[r] \in Seq(Attempted)
  BY <1>1 DEF RelayTypeOK, RequestTypeOK, Attempted
<1>3. Story(handler'[r], attempts'[r])
  BY <1>1, <1>2, RequestMoves, StoryStep DEF Stories
<1>4. \A q \in Requests \ {r} : Story(handler'[q], attempts'[q])
  BY <1>1, RequestMoves DEF Stories
<1>5. QED
  BY <1>1, <1>3, <1>4 DEF Stories

LEMMA StoriesNext == Stories /\ [RelayNext]_relayVars => Stories'
<1> SUFFICES ASSUME Stories, [RelayNext]_relayVars PROVE Stories'
  OBVIOUS
<1>1. CASE \E r \in Requests : RequestStep(r)
  BY <1>1, StoriesStep
<1>2. CASE UNCHANGED <<handler, attempts>>
  BY <1>2, RelayNextType DEF Stories
<1>3. QED
  BY <1>1, <1>2 DEF RelayNext, relayVars, requestVars

LEMMA StoriesHold == RelaySpec => []Stories
BY StoriesInit, StoriesNext, PTL DEF RelaySpec

LEMMA StoriesEarn == Stories => VerdictEarned
BY StoryEarns DEF Stories, RelayTypeOK, RequestTypeOK, Attempted, VerdictEarned

\* For any number of requests and candidates: nobody is told that all stations failed
\* before every candidate was called in turn, and an upstream's answer is that of the
\* station called last, after all the earlier ones failed (proxyNormalizedRequest).
THEOREM VerdictEarnedHolds == RelaySpec => []VerdictEarned
BY StoriesEarn, StoriesHold, PTL

-----------------------------------------------------------------------------
(* The request logs *)

Told(l, tried) ==
  LET last == tried[Len(tried)]
  IN  /\ tried # <<>>
      /\ l.station = last.name
      /\ l.didFailover <=> Len(tried) > 1
      /\ IF l.status = 502 THEN l.errorKind = last.kind /\ last.kind # ""
                           ELSE last.kind = "" /\ l.errorKind \in {"", "stream_copy_error"}

\* A request that ended where a row is due.
Loggable(h) == h.verdict \in {"relayed", "exhausted"} /\ h.pc = "done" /\ ~ h.cancelled

\* A request is logged when it ends, so its calls stay as they were.
LogInv ==
  /\ \A l \in requestLogs : /\ l.request \in Requests
                            /\ handler[l.request].pc = "done"
                            /\ Told(l, attempts[l.request])
  /\ \A l, m \in requestLogs : l.request = m.request => l = m
  /\ ~ DBFaults => \A r \in Requests : Loggable(handler[r]) => \E l \in requestLogs : l.request = r

LEMMA MovesOpen ==
  ASSUME NEW h, NEW g, NEW t, NEW u, Moves(h, g, t, u)
  PROVE  h.pc # "done"
BY DEF Moves, Reads, Leaves, Ends, Chooses, Calls, Waits, Fails, Commits, Advances, Streams,
       Starting, Open

LEMMA InsertGives ==
  ASSUME NEW table, NEW row, NEW h, NEW result \in Insert(table, row, h)
  PROVE  \/ result = table \cup {row} /\ ~ h.cancelled
         \/ result = table /\ (h.cancelled \/ DBFaults)
BY DEF Insert, MayFail

\* The name of the last station called.
LEMMA LastNamed ==
  ASSUME NEW h, HandlerOK(h), NEW t \in Seq(Attempted), Trail(h, t), h.next = Len(t),
         h.next \in DOMAIN h.targets
  PROVE  t # <<>> /\ t[Len(t)].name = Target(h).station.name
<1>1. h.targets \in Seq(RankedEntry)
  BY DEF HandlerOK
<1>2. DOMAIN h.targets = 1 .. Len(h.targets) /\ Len(h.targets) \in Nat
  BY <1>1, LenProperties
<1>3. DOMAIN t = 1 .. Len(t) /\ Len(t) \in Nat
  BY LenProperties
<1>4. Len(t) >= 1
  BY <1>2
<1>5. Len(t) \in DOMAIN t
  BY <1>3, <1>4
<1>6. t # <<>>
  BY <1>5, EmptyDomain, Zenon
<1>7. t[Len(t)].name = h.targets[h.next].station.name
  BY <1>5, Zenon DEF Trail
<1>8. QED
  BY <1>6, <1>7, Zenon DEF Target

LEMMA RowTells ==
  ASSUME NEW r, NEW h, HandlerOK(h), NEW t \in Seq(Attempted), Story(h, t)
  PROVE  /\ h.pc = "logging" => Told(RequestLog(r, h, h.answer.status, h.error), t)
         /\ h.pc = "exhausted" => Told(RequestLog(r, h, 502, h.reason), t)
<1>1. ASSUME h.pc = "logging" PROVE Told(RequestLog(r, h, h.answer.status, h.error), t)
  <2> DEFINE l == RequestLog(r, h, h.answer.status, h.error)
  <2>1. /\ OneOpen(t) /\ h.next = Len(t) /\ h.answer.status # 502 /\ Trail(h, t)
    BY <1>1 DEF Story
  <2>2. h.next \in DOMAIN h.targets
    BY <1>1 DEF HandlerOK, Looping
  <2>3. t # <<>> /\ t[Len(t)].name = Target(h).station.name
    BY <2>1, <2>2, LastNamed
  <2>4. h.error \in {"", "stream_copy_error"}
    BY DEF HandlerOK
  <2>5. /\ l.station = Target(h).station.name /\ l.status = h.answer.status
        /\ l.didFailover = (h.next > 1) /\ l.errorKind = h.error
    BY DEF RequestLog, DidFailover
  <2>6. Len(t) \in DOMAIN t
    BY <2>3, LenProperties
  <2>7. t[Len(t)].kind = ""
    BY <2>1, <2>6, ZenonT(40) DEF OneOpen
  <2> HIDE DEF l
  <2>8. l.status # 502 /\ l.station = t[Len(t)].name /\ l.didFailover = (Len(t) > 1)
    <3>1. l.status # 502
      BY <2>1, <2>5
    <3>2. l.station = t[Len(t)].name
      BY <2>3, <2>5
    <3>3. l.didFailover = (Len(t) > 1)
      BY <2>1, <2>5
    <3>4. QED
      BY <3>1, <3>2, <3>3
  <2>9. l.errorKind \in {"", "stream_copy_error"}
    BY <2>4, <2>5
  <2>10. Told(l, t)
    BY <2>3, <2>7, <2>8, <2>9, ZenonT(40) DEF Told
  <2>11. QED
    BY <2>10 DEF l
<1>2. ASSUME h.pc = "exhausted" PROVE Told(RequestLog(r, h, 502, h.reason), t)
  <2> DEFINE l == RequestLog(r, h, 502, h.reason)
  <2>1. /\ AllFailed(t) /\ h.next = Len(t) /\ h.reason = t[Len(t)].kind /\ Trail(h, t)
    BY <1>2 DEF Story
  <2>2. h.next \in DOMAIN h.targets
    BY <1>2 DEF HandlerOK, Looping
  <2>3. t # <<>> /\ t[Len(t)].name = Target(h).station.name
    BY <2>1, <2>2, LastNamed
  <2>5. /\ l.station = Target(h).station.name /\ l.status = 502
        /\ l.didFailover = (h.next > 1) /\ l.errorKind = h.reason
    BY DEF RequestLog, DidFailover
  <2>6. Len(t) \in DOMAIN t
    BY <2>3, LenProperties
  <2>7. t[Len(t)].kind # ""
    BY <2>1, <2>6 DEF AllFailed
  <2> HIDE DEF l
  <2>8. Told(l, t)
    BY <2>1, <2>3, <2>5, <2>7, ZenonT(40) DEF Told
  <2>9. QED
    BY <2>8 DEF l
<1>3. QED
  BY <1>1, <1>2

\* Most steps write no row, and do not end a request where one is due.
LEMMA LogMoves ==
  ASSUME Stories, NEW r \in Requests, RequestStep(r)
  PROVE  \/ requestLogs' = requestLogs /\ (Loggable(handler'[r]) => DBFaults)
         \/ \E l : /\ requestLogs' = requestLogs \cup {l}
                   /\ l.request = r /\ Told(l, attempts[r])
                   /\ handler'[r].pc = "done" /\ attempts' = attempts
<1> DEFINE h == handler[r]
           g == handler'[r]
           t == attempts[r]
           u == attempts'[r]
<1>1. /\ HandlerOK(h) /\ t \in Seq(Attempted) /\ Story(h, t)
      /\ handler = [q \in Requests |-> handler[q]]
  BY DEF Stories, RelayTypeOK, RequestTypeOK, Attempted
<1>2. ASSUME NEW row, NEW verdict, row.request = r, Told(row, t),
             requestLogs' \in Insert(requestLogs, row, h),
             handler' = [handler EXCEPT ![r] = Close(@, verdict)], UNCHANGED attempts
      PROVE  \/ requestLogs' = requestLogs /\ (Loggable(g) => DBFaults)
             \/ \E l : /\ requestLogs' = requestLogs \cup {l}
                       /\ l.request = r /\ Told(l, t)
                       /\ g.pc = "done" /\ attempts' = attempts
  <2>1. g = Close(h, verdict)
    BY <1>1, <1>2
  <2>2. g.pc = "done" /\ g.cancelled = h.cancelled
    BY <1>1, <2>1 DEF Close, HandlerOK
  <2>3. \/ requestLogs' = requestLogs \cup {row} /\ ~ h.cancelled
        \/ requestLogs' = requestLogs /\ (h.cancelled \/ DBFaults)
    BY <1>2, InsertGives, Zenon
  <2>4. QED
    BY <1>2, <2>2, <2>3, Zenon DEF Loggable
<1>3. CASE LogRequest(r)
  <2> DEFINE row == RequestLog(r, h, h.answer.status, h.error)
  <2>1. row.request = r
    BY DEF RequestLog
  <2>2. Told(row, t)
    BY <1>1, <1>3, RowTells DEF LogRequest
  <2> HIDE DEF row
  <2>3. /\ requestLogs' \in Insert(requestLogs, row, h) /\ UNCHANGED attempts
        /\ handler' = [handler EXCEPT ![r] = Close(@, "relayed")]
    BY <1>3, Zenon DEF LogRequest, row
  <2>4. QED
    BY <1>2, <2>1, <2>2, <2>3, Zenon
<1>4. CASE GiveUp(r)
  <2> DEFINE row == RequestLog(r, h, 502, h.reason)
  <2>1. row.request = r
    BY DEF RequestLog
  <2>2. Told(row, t)
    BY <1>1, <1>4, RowTells, ZenonT(40) DEF GiveUp
  <2> HIDE DEF row
  <2>3. /\ requestLogs' \in Insert(requestLogs, row, h) /\ UNCHANGED attempts
        /\ handler' = [handler EXCEPT ![r] = Close(@, "exhausted")]
    BY <1>4, Zenon DEF GiveUp, row
  <2>4. QED
    BY <1>2, <2>1, <2>2, <2>3, Zenon
<1>5. CASE ~ LogRequest(r) /\ ~ GiveUp(r)
  <2>1. Moves(h, g, t, u)
    BY RequestMoves DEF Stories
  <2>2. requestLogs' = requestLogs
    BY <1>5 DEF RequestStep, Prompt, AwaitsUpstream, logVars, Arrive, Refuse, ClientLeaves, ReadStations,
       ReadMappings, ReadStatuses, ReadError, Choose, Attempt, Headers, CallCancelled, FailOver,
       Capture, CaptureFails, StreamEnds, StreamBreaks
  <2>3. h.pc \notin {"logging", "exhausted"} \/ g.pc # "done"
    <3>1. CASE ClientLeaves(r)
      <4>1. g.pc = h.pc /\ h.pc \in Open
        BY <1>1, <3>1 DEF ClientLeaves, HandlerOK
      <4>2. QED
        BY <4>1 DEF Open
    <3>2. CASE ~ ClientLeaves(r)
      BY <1>5, <3>2 DEF RequestStep, Prompt, AwaitsUpstream, Arrive, Refuse, ReadStations,
       ReadMappings, ReadStatuses, ReadError, Choose, Attempt, Headers, CallCancelled, FailOver,
       Capture, CaptureFails, StreamEnds, StreamBreaks
    <3>3. QED
      BY <3>1, <3>2
  <2>4. ~ Loggable(g)
    <3>1. CASE Ends(h, g, t, u)
      <4>1. g.verdict \notin {"relayed", "exhausted"}
        BY <2>3, <3>1 DEF Ends
      <4>2. QED
        BY <4>1, Zenon DEF Loggable
    <3>2. CASE ~ Ends(h, g, t, u)
      <4>1. g.pc # "done"
        BY <2>1, <3>2 DEF Moves, Reads, Leaves, Chooses, Calls, Waits, Fails, Commits, Advances,
           Streams, Starting, Open
      <4>2. QED
        BY <4>1, Zenon DEF Loggable
    <3>3. QED
      BY <3>1, <3>2
  <2>5. QED
    BY <2>2, <2>4
<1>6. QED
  BY <1>3, <1>4, <1>5

LEMMA LogStep ==
  ASSUME Stories, LogInv, NEW r \in Requests, RequestStep(r)
  PROVE  LogInv'
<1>1. handler[r].pc # "done"
  BY RequestMoves, MovesOpen DEF Stories
<1>2. \A q \in Requests \ {r} : handler'[q] = handler[q] /\ attempts'[q] = attempts[q]
  BY RequestMoves DEF Stories
<1>3. \A l \in requestLogs : l.request \in Requests \ {r}
  BY <1>1 DEF LogInv
<1>4. \A l \in requestLogs : /\ l.request \in Requests
                             /\ handler'[l.request].pc = "done"
                             /\ Told(l, attempts'[l.request])
  BY <1>2, <1>3 DEF LogInv
<1>5. CASE requestLogs' = requestLogs /\ (Loggable(handler'[r]) => DBFaults)
  <2>1. ASSUME ~ DBFaults, NEW q \in Requests, Loggable(handler'[q])
        PROVE  \E l \in requestLogs' : l.request = q
    <3>1. q # r
      BY <1>5, <2>1
    <3>2. handler'[q] = handler[q]
      BY <1>2, <3>1
    <3>3. \E l \in requestLogs : l.request = q
      BY <2>1, <3>2 DEF LogInv
    <3>4. QED
      BY <1>5, <3>3
  <2>2. \A l, m \in requestLogs' : l.request = m.request => l = m
    BY <1>5 DEF LogInv
  <2>3. QED
    BY <1>4, <1>5, <2>1, <2>2, Zenon DEF LogInv
<1>6. ASSUME NEW l, requestLogs' = requestLogs \cup {l}, l.request = r, Told(l, attempts[r]),
             handler'[r].pc = "done", attempts' = attempts
      PROVE  LogInv'
  <2>1. ASSUME ~ DBFaults, NEW q \in Requests, Loggable(handler'[q])
        PROVE  \E m \in requestLogs' : m.request = q
    <3>1. CASE q = r
      BY <1>6, <3>1
    <3>2. CASE q # r
      <4>1. handler'[q] = handler[q]
        BY <1>2, <3>2
      <4>2. \E m \in requestLogs : m.request = q
        BY <2>1, <4>1 DEF LogInv
      <4>3. QED
        BY <1>6, <4>2
    <3>3. QED
      BY <3>1, <3>2
  <2>2. \A m, k \in requestLogs' : m.request = k.request => m = k
    BY <1>3, <1>6 DEF LogInv
  <2>3. \A m \in requestLogs' : /\ m.request \in Requests
                                /\ handler'[m.request].pc = "done"
                                /\ Told(m, attempts'[m.request])
    BY <1>4, <1>6
  <2>4. QED
    BY <2>1, <2>2, <2>3, Zenon DEF LogInv
<1>7. QED
  BY <1>5, <1>6, LogMoves, Zenon

LEMMA LogNext == Stories /\ LogInv /\ [RelayNext]_relayVars => LogInv'
<1> SUFFICES ASSUME Stories, LogInv, [RelayNext]_relayVars PROVE LogInv'
  OBVIOUS
<1>1. CASE \E r \in Requests : RequestStep(r)
  BY <1>1, LogStep
<1>2. CASE UNCHANGED <<handler, attempts, requestLogs>>
  BY <1>2 DEF LogInv
<1>3. QED
  BY <1>1, <1>2 DEF RelayNext, relayVars, requestVars

LEMMA LogInit == RelayInit => LogInv
<1> SUFFICES ASSUME RelayInit PROVE LogInv
  OBVIOUS
<1>1. requestLogs = {} /\ \A r \in Requests : handler[r] = Fresh
  BY DEF RelayInit, RequestInit
<1>2. Fresh.pc # "done"
  BY DEF Fresh
<1>3. \A r \in Requests : ~ Loggable(handler[r])
  BY <1>1, <1>2 DEF Loggable
<1>4. QED
  BY <1>1, <1>3, Zenon DEF LogInv

LEMMA LogsTell == LogInv => LogTellsTheStory
<1> SUFFICES ASSUME LogInv PROVE LogTellsTheStory
  OBVIOUS
<1>1. \A l \in requestLogs : Told(l, attempts[l.request])
  BY DEF LogInv
<1>2. \A l, m \in requestLogs : l.request = m.request => l = m
  BY DEF LogInv
<1>3. ~ DBFaults => \A r \in Requests : Loggable(handler[r]) => \E l \in requestLogs : l.request = r
  BY DEF LogInv
<1>4. QED
  BY <1>1, <1>2, <1>3, Zenon DEF LogTellsTheStory, Told, Loggable

\* For any number of requests and candidates: a request log names the station called
\* last and how that call ended, no request has two, and, while statements cannot fail,
\* each request that called anybody has one unless its client left (InsertRequestLog).
THEOREM LogTellsTheStoryHolds == RelaySpec => []LogTellsTheStory
<1>1. RelaySpec => []LogInv
  BY LogInit, LogNext, StoriesHold, PTL DEF RelaySpec
<1>2. QED
  BY <1>1, LogsTell, PTL

-----------------------------------------------------------------------------
(* The failover events *)

HandedOver(e, targets, tried) ==
  \E i \in DOMAIN tried :
    /\ i < Len(targets)
    /\ tried[i].kind # ""
    /\ [from |-> e.from, to |-> e.to, reason |-> e.reason] =
       [from |-> tried[i].name, to |-> targets[i + 1].station.name, reason |-> tried[i].kind]

HandOver(r, tried, i) == [request |-> r, from |-> tried[i - 1].name, to |-> tried[i].name,
                          reason |-> tried[i - 1].kind]

EventInv ==
  /\ \A e \in failoverEvents : /\ e.request \in Requests
                               /\ HandedOver(e, handler[e.request].targets, attempts[e.request])
  /\ ~ DBFaults => \A r \in Requests : ~ handler[r].cancelled =>
       \A i \in DOMAIN attempts[r] : i > 1 => HandOver(r, attempts[r], i) \in failoverEvents

\* A request that was cancelled stays so.
LEMMA CancelledStays ==
  ASSUME RelayTypeOK, NEW r \in Requests, RequestStep(r), ~ handler'[r].cancelled
  PROVE  ~ handler[r].cancelled
<1> DEFINE h == handler[r]
<1>1. HandlerOK(h) /\ handler = [q \in Requests |-> handler[q]]
  BY DEF RelayTypeOK, RequestTypeOK
<1>2. ASSUME NEW verdict, handler' = [handler EXCEPT ![r] = Close(@, verdict)]
      PROVE  handler'[r].cancelled = h.cancelled
  BY <1>1, <1>2 DEF Close, HandlerOK
<1>3. CASE Refuse(r) \/ ReadError(r) \/ CallCancelled(r) \/ LogRequest(r) \/ GiveUp(r)
  BY <1>2, <1>3 DEF Refuse, ReadError, CallCancelled, LogRequest, GiveUp
<1>4. CASE Arrive(r)
  BY <1>1, <1>4, ZenonT(40) DEF Arrive, HandlerOK
<1>5. CASE ReadStations(r) \/ ReadMappings(r) \/ ReadStatuses(r)
  BY <1>1, <1>5 DEF ReadStations, ReadMappings, ReadStatuses, HandlerOK
<1>6. CASE Choose(r)
  <2>1. PICK targets :
          handler' = [handler EXCEPT ![r] =
            IF targets = <<>> THEN Close(@, "none")
            ELSE [@ EXCEPT !.pc = "attempt", !.targets = targets,
                           !.stations = <<>>, !.mappings = {}]]
    BY <1>6 DEF Choose
  <2>2. CASE targets = <<>>
    BY <1>2, <2>1, <2>2
  <2>3. CASE targets # <<>>
    <3>1. handler'[r] = [h EXCEPT !.pc = "attempt", !.targets = targets,
                                  !.stations = <<>>, !.mappings = {}]
      BY <1>1, <2>1, <2>3
    <3>2. QED
      BY <1>1, <3>1 DEF HandlerOK
  <2>4. QED
    BY <2>2, <2>3
<1>7. CASE Attempt(r)
  <2>1. CASE \E verdict : handler' = [handler EXCEPT ![r] = Close(@, verdict)]
    BY <1>2, <2>1
  <2>2. CASE handler' = [handler EXCEPT ![r].pc = "headers"]
    BY <1>1, <2>2 DEF HandlerOK
  <2>3. QED
    BY <1>7, <2>1, <2>2 DEF Attempt
<1>8. ASSUME NEW answer, NEW fault, Failing(r, answer, fault)
      PROVE  handler'[r].cancelled = h.cancelled
  BY <1>1, <1>8 DEF Failing, HandlerOK
<1>9. ASSUME NEW answer, Commit(r, answer)
      PROVE  handler'[r].cancelled = h.cancelled
  BY <1>1, <1>9 DEF Commit, HandlerOK
<1>10. CASE Headers(r)
  <2>1. PICK a \in Answers :
          \/ Failing(r, a, TRUE)
          \/ Commit(r, a)
          \/ handler' = [handler EXCEPT ![r].pc = "capture", ![r].answer = a]
    BY <1>10 DEF Headers
  <2>2. CASE handler' = [handler EXCEPT ![r].pc = "capture", ![r].answer = a]
    BY <1>1, <2>2 DEF HandlerOK
  <2>3. QED
    BY <1>8, <1>9, <2>1, <2>2
<1>11. CASE Capture(r) \/ CaptureFails(r)
  BY <1>8, <1>9, <1>11 DEF Capture, CaptureFails
<1>12. CASE FailOver(r)
  <2> DEFINE status == RecordFailure(Target(h).station, StatusOf(h.statuses, Target(h).id), now)
             k == [h EXCEPT !.statuses = Put(h.statuses, Target(h).id, status)]
  <2>1. handler'[r] = Advance(k)
    BY <1>1, <1>12 DEF FailOver
  <2>2. k.cancelled = h.cancelled /\ k = [f \in DOMAIN h |-> k[f]] /\ "cancelled" \in DOMAIN k
    BY <1>1 DEF HandlerOK
  <2> HIDE DEF k
  <2>3. Advance(k).cancelled = k.cancelled
    BY <2>2 DEF Advance
  <2>4. QED
    BY <2>1, <2>2, <2>3
<1>13. CASE StreamEnds(r) \/ StreamBreaks(r)
  <2>1. CASE StreamEnds(r)
    BY <1>1, <2>1, ZenonT(40) DEF StreamEnds, HandlerOK
  <2>2. CASE StreamBreaks(r)
    BY <1>1, <2>2, ZenonT(40) DEF StreamBreaks, HandlerOK
  <2>3. QED
    BY <1>13, <2>1, <2>2
<1>14. CASE ClientLeaves(r)
  BY <1>14 DEF ClientLeaves
<1>15. QED
  BY <1>3, <1>4, <1>5, <1>6, <1>7, <1>10, <1>11, <1>12, <1>13, <1>14
     DEF RequestStep, Prompt, AwaitsUpstream

LEMMA CallGrows ==
  ASSUME NEW h, NEW g, HandlerOK(h), NEW t \in Seq(Attempted), NEW u, Calls(h, g, t, u)
  PROVE  Len(u) = Len(t) + 1
<1>1. u = Append(t, Called(h)) /\ h.pc \in Looping
  BY DEF Calls, Looping
<1>2. Called(h) \in Attempted
  BY <1>1, CalledType
<1>3. QED
  BY <1>1, <1>2, AppendCall, Zenon

KnownStays(t, u) == /\ \A i \in DOMAIN t : i \in DOMAIN u /\ u[i].name = t[i].name
                    /\ \A i \in DOMAIN t : t[i].kind # "" => u[i] = t[i]

\* What is known of a call that failed stays known.
LEMMA FailuresStay ==
  ASSUME NEW h, NEW g, HandlerOK(h), NEW t \in Seq(Attempted), NEW u,
         Moves(h, g, t, u), Story(h, t)
  PROVE  KnownStays(t, u)
<1>1. CASE Calls(h, g, t, u)
  <2>1. u = Append(t, Called(h)) /\ h.pc \in Looping
    BY <1>1 DEF Calls, Looping
  <2>2. Called(h) \in Attempted
    BY <2>1, CalledType
  <2>3. /\ u \in Seq(Attempted) /\ Len(u) = Len(t) + 1
        /\ \A i \in 1 .. Len(t) : u[i] = t[i]
    BY <2>1, <2>2, AppendCall, Zenon
  <2>4. DOMAIN t = 1 .. Len(t) /\ DOMAIN u = 1 .. Len(u) /\ Len(t) \in Nat
    BY <2>3, LenProperties
  <2>5. DOMAIN t \subseteq DOMAIN u
    BY <2>3, <2>4
  <2>6. QED
    BY <2>3, <2>4, <2>5, Zenon DEF KnownStays
<1>2. CASE Fails(h, g, t, u)
  <2>1. OneOpen(t)
    BY <1>2 DEF Fails, Story
  <2>2. PICK kind \in FailureKinds : g.reason = kind
    BY <1>2 DEF Fails
  <2>3. u = Blame(t, kind)
    BY <1>2, <2>2, Zenon DEF Fails
  <2>4. Blamed(t, u, kind)
    BY <2>1, <2>3, FailureCloses, Zenon
  <2>5. QED
    BY <2>4 DEF Blamed, KnownStays
<1>3. CASE u = t
  BY <1>3 DEF KnownStays
<1>4. QED
  BY <1>1, <1>2, <1>3 DEF Moves, Reads, Leaves, Ends, Chooses, Waits, Commits, Advances, Streams

\* Nobody is called a second time without an event, unless the insert could fail.
LEMMA EventMoves ==
  ASSUME RelayTypeOK, NEW r \in Requests, RequestStep(r)
  PROVE  LET h == handler[r]
         IN  \/ /\ failoverEvents' = failoverEvents
                /\ Calls(h, handler'[r], attempts[r], attempts'[r]) =>
                     ~ DidFailover(h) \/ h.cancelled \/ DBFaults
             \/ /\ failoverEvents' = failoverEvents \cup {FailoverEvent(r, h)}
                /\ h.pc = "attempt" /\ DidFailover(h)
<1> DEFINE h == handler[r]
           g == handler'[r]
<1>1. HandlerOK(h) /\ handler = [q \in Requests |-> handler[q]]
  BY DEF RelayTypeOK, RequestTypeOK
<1>2. CASE Attempt(r)
  <2>1. CASE ~ DidFailover(h)
    <3>1. failoverEvents' = failoverEvents
      BY <1>2, <2>1 DEF Attempt
    <3>2. QED
      BY <2>1, <3>1
  <2>2. CASE DidFailover(h)
    <3>1. failoverEvents' \in Insert(failoverEvents, FailoverEvent(r, h), h) /\ h.pc = "attempt"
      BY <1>2, <2>2, Zenon DEF Attempt
    <3>2. \/ failoverEvents' = failoverEvents \cup {FailoverEvent(r, h)} /\ ~ h.cancelled
          \/ failoverEvents' = failoverEvents /\ (h.cancelled \/ DBFaults)
      BY <3>1, InsertGives, Zenon
    <3>3. QED
      BY <2>2, <3>1, <3>2, Zenon
  <2>3. QED
    BY <2>1, <2>2
<1>3. CASE ~ Attempt(r)
  <2>1. failoverEvents' = failoverEvents
    BY <1>3 DEF RequestStep, Prompt, AwaitsUpstream, logVars, Arrive, Refuse, ClientLeaves,
       ReadStations, ReadMappings, ReadStatuses, ReadError, Choose, Headers, CallCancelled,
       FailOver, Capture, CaptureFails, StreamEnds, StreamBreaks, LogRequest, GiveUp
  <2>2. ~ (h.pc = "attempt" /\ g.pc = "headers")
    <3>1. CASE ClientLeaves(r)
      <4>1. g.pc = h.pc
        BY <1>1, <3>1 DEF ClientLeaves, HandlerOK
      <4>2. QED
        BY <4>1
    <3>2. CASE ~ ClientLeaves(r) /\ ~ Refuse(r)
      BY <1>3, <3>2 DEF RequestStep, Prompt, AwaitsUpstream, Arrive,
         ReadStations, ReadMappings, ReadStatuses, ReadError, Choose, Headers, CallCancelled,
         FailOver, Capture, CaptureFails, StreamEnds, StreamBreaks, LogRequest, GiveUp
    <3>3. CASE Refuse(r)
      BY <3>3 DEF Refuse
    <3>4. QED
      BY <3>1, <3>2, <3>3
  <2>3. QED
    BY <2>1, <2>2 DEF Calls
<1>4. QED
  BY <1>2, <1>3

\* The event names the station left and the one turned to.
LEMMA EventTells ==
  ASSUME NEW r, NEW h, HandlerOK(h), h.pc = "attempt", DidFailover(h),
         NEW t \in Seq(Attempted), Story(h, t)
  PROVE  /\ HandedOver(FailoverEvent(r, h), h.targets, t)
         /\ Len(t) \in DOMAIN t /\ h.next = Len(t) + 1
         /\ FailoverEvent(r, h) = [request |-> r, from |-> t[Len(t)].name,
                                   to |-> Target(h).station.name, reason |-> t[Len(t)].kind]
<1> DEFINE k == Len(t)
           e == FailoverEvent(r, h)
<1>1. k \in Nat /\ DOMAIN t = 1 .. k
  BY LenProperties
<1>2. h.next = k + 1 /\ h.next \in DOMAIN h.targets /\ Trail(h, t) /\ AllFailed(t)
  BY DEF HandlerOK, Story, Looping
<1>3. h.targets \in Seq(RankedEntry)
  BY DEF HandlerOK
<1>4. DOMAIN h.targets = 1 .. Len(h.targets) /\ Len(h.targets) \in Nat
  BY <1>3, LenProperties
<1>5. k \in DOMAIN t /\ h.next - 1 = k /\ k < Len(h.targets)
  <2>1. h.next > 1
    BY DEF DidFailover
  <2>a. k + 1 > 1 /\ k + 1 \in 1 .. Len(h.targets)
    BY <1>2, <1>4, <2>1
  <2> HIDE DEF k
  <2>2. k >= 1 /\ (k + 1) - 1 = k /\ k < Len(h.targets)
    BY <1>1, <1>4, <2>a
  <2>3. QED
    BY <1>1, <1>2, <2>2
<1>6. t # <<>>
  BY <1>5, EmptyDomain, Zenon
<1>7. h.reason = t[k].kind /\ t[k].kind # "" /\ t[k].name = h.targets[k].station.name
  BY <1>2, <1>5, <1>6, Zenon DEF Story, AllFailed, Trail
<1>8. e = [request |-> r, from |-> h.targets[h.next - 1].station.name,
           to |-> h.targets[h.next].station.name, reason |-> h.reason]
  BY Zenon DEF FailoverEvent, Target
<1>9. e = [request |-> r, from |-> t[k].name, to |-> h.targets[k + 1].station.name,
           reason |-> t[k].kind]
  BY <1>2, <1>5, <1>7, <1>8, Zenon
<1> HIDE DEF e, k
<1>10. /\ e.from = t[k].name /\ e.to = h.targets[k + 1].station.name
       /\ e.reason = t[k].kind
  BY <1>9
<1>11. HandedOver(e, h.targets, t)
  BY <1>5, <1>7, <1>10, Zenon DEF HandedOver
<1>12. h.targets[k + 1].station.name = Target(h).station.name
  BY <1>2, Zenon DEF Target
<1>13. QED
  BY <1>2, <1>5, <1>9, <1>11, <1>12, Zenon DEF e, k

LEMMA HandedOverStays ==
  ASSUME NEW h, NEW g, HandlerOK(h), NEW t \in Seq(Attempted), NEW u,
         Moves(h, g, t, u), Story(h, t), NEW e, HandedOver(e, h.targets, t)
  PROVE  HandedOver(e, g.targets, u)
<1>1. PICK i \in DOMAIN t :
        /\ i < Len(h.targets)
        /\ t[i].kind # ""
        /\ [from |-> e.from, to |-> e.to, reason |-> e.reason] =
           [from |-> t[i].name, to |-> h.targets[i + 1].station.name, reason |-> t[i].kind]
  BY DEF HandedOver
<1>a. /\ \A j \in DOMAIN t : j \in DOMAIN u /\ u[j].name = t[j].name
      /\ \A j \in DOMAIN t : t[j].kind # "" => u[j] = t[j]
  <2>1. KnownStays(t, u)
    BY FailuresStay, Zenon
  <2>2. QED
    BY <2>1, Zenon DEF KnownStays
<1>b. t[i].kind # ""
  BY <1>1
<1>2. i \in DOMAIN u /\ u[i] = t[i]
  BY <1>a, <1>b, Zenon
<1>3. g.targets = h.targets
  <2>1. CASE Chooses(h, g, t, u)
    <3>1. t = <<>>
      BY <2>1 DEF Chooses, Story, Starting
    <3>2. QED
      BY <1>1, <3>1, EmptyDomain
  <2>2. CASE ~ Chooses(h, g, t, u)
    BY <2>2 DEF Moves, Reads, Leaves, Ends, Calls, Waits, Fails, Commits, Advances, Streams, Same
  <2>3. QED
    BY <2>1, <2>2
<1>4. QED
  BY <1>1, <1>2, <1>3, Zenon DEF HandedOver

LEMMA OneBefore ==
  ASSUME NEW k \in Nat, NEW i \in 1 .. k, i > 1
  PROVE  i - 1 \in 1 .. k /\ i - 1 # k
OBVIOUS

\* The hand-overs among the calls already made are the same after the step.
LEMMA HandOversStay ==
  ASSUME NEW h, NEW g, HandlerOK(h), NEW t \in Seq(Attempted), NEW u,
         Moves(h, g, t, u), Story(h, t), NEW r,
         NEW i \in DOMAIN t, i > 1
  PROVE  HandOver(r, u, i) = HandOver(r, t, i)
<1>1. DOMAIN t = 1 .. Len(t) /\ Len(t) \in Nat
  BY LenProperties
<1>2. i - 1 \in DOMAIN t /\ i - 1 # Len(t)
  <2>1. i \in 1 .. Len(t)
    BY <1>1, Zenon
  <2>2. QED
    BY <1>1, <2>1, OneBefore, Zenon
<1>a. /\ \A j \in DOMAIN t : j \in DOMAIN u /\ u[j].name = t[j].name
      /\ \A j \in DOMAIN t : t[j].kind # "" => u[j] = t[j]
  <2>1. KnownStays(t, u)
    BY FailuresStay, Zenon
  <2>2. QED
    BY <2>1, Zenon DEF KnownStays
<1>3. u[i].name = t[i].name /\ u[i - 1].name = t[i - 1].name
  BY <1>2, <1>a, Zenon
<1>4. u[i - 1].kind = t[i - 1].kind
  <2>1. CASE u = t
    BY <2>1
  <2>2. CASE t[i - 1].kind # ""
    BY <1>2, <1>a, <2>2, Zenon
  <2>3. CASE u # t
    <3>1. AllFailed(t) \/ OneOpen(t)
      BY <2>3 DEF Moves, Reads, Leaves, Ends, Chooses, Calls, Waits, Fails, Commits, Advances,
         Streams, Story
    <3>2. t[i - 1].kind # ""
      BY <1>2, <3>1, Zenon DEF AllFailed, OneOpen
    <3>3. QED
      BY <2>2, <3>2
  <2>4. QED
    BY <2>1, <2>3
<1>5. QED
  BY <1>3, <1>4 DEF HandOver

LEMMA NewHandOver ==
  ASSUME NEW h, NEW g, HandlerOK(h), NEW t \in Seq(Attempted), NEW u, Story(h, t), NEW r,
         Calls(h, g, t, u), DidFailover(h)
  PROVE  HandOver(r, u, Len(t) + 1) = FailoverEvent(r, h)
<1> DEFINE k == Len(t)
<1>1. u = Append(t, Called(h)) /\ h.pc = "attempt"
  BY DEF Calls
<1>2. Called(h) \in Attempted /\ Called(h).name = h.targets[h.next].station.name
  BY <1>1, CalledType DEF Looping
<1>3. u[k + 1] = Called(h) /\ \A i \in 1 .. k : u[i] = t[i]
  BY <1>1, <1>2, AppendCall, Zenon
<1>4. /\ k \in DOMAIN t
      /\ FailoverEvent(r, h) = [request |-> r, from |-> t[k].name,
                                to |-> Target(h).station.name, reason |-> t[k].kind]
  BY <1>1, EventTells, Zenon
<1>5. DOMAIN t = 1 .. k /\ k \in Nat
  BY LenProperties
<1> HIDE DEF k
<1>6. (k + 1) - 1 = k
  BY <1>5
<1>7. u[k] = t[k] /\ u[k + 1].name = Target(h).station.name
  BY <1>2, <1>3, <1>4, <1>5, Zenon DEF Target
<1>8. QED
  BY <1>4, <1>6, <1>7, Zenon DEF HandOver, k

LEMMA EventStep ==
  ASSUME Stories, EventInv, NEW r \in Requests, RequestStep(r)
  PROVE  EventInv'
<1> DEFINE h == handler[r]
           g == handler'[r]
           t == attempts[r]
           u == attempts'[r]
<1>1. /\ HandlerOK(h) /\ t \in Seq(Attempted) /\ Story(h, t)
  BY DEF Stories, RelayTypeOK, RequestTypeOK, Attempted
<1>2. /\ Moves(h, g, t, u)
      /\ \A q \in Requests \ {r} : handler'[q] = handler[q] /\ attempts'[q] = attempts[q]
  BY RequestMoves DEF Stories
<1>3. u \in Seq(Attempted)
  <2>1. RelayTypeOK'
    BY RelayStepType DEF Stories
  <2>2. QED
    BY <2>1 DEF RelayTypeOK, RequestTypeOK, Attempted
<1>4. \/ /\ failoverEvents' = failoverEvents
         /\ Calls(h, g, t, u) => ~ DidFailover(h) \/ h.cancelled \/ DBFaults
      \/ /\ failoverEvents' = failoverEvents \cup {FailoverEvent(r, h)}
         /\ h.pc = "attempt" /\ DidFailover(h)
  BY EventMoves, Zenon DEF Stories
<1>5. failoverEvents \subseteq failoverEvents'
  BY <1>4
<1>6. ASSUME NEW e \in failoverEvents'
      PROVE  /\ e.request \in Requests
             /\ HandedOver(e, handler'[e.request].targets, attempts'[e.request])
  <2>1. ASSUME e.request \in Requests, HandedOver(e, handler[e.request].targets, attempts[e.request])
        PROVE  HandedOver(e, handler'[e.request].targets, attempts'[e.request])
    <3>1. CASE e.request = r
      <4>1. HandedOver(e, h.targets, t)
        BY <2>1, <3>1
      <4>2. HandedOver(e, g.targets, u)
        BY <1>1, <1>2, <4>1, HandedOverStays, Zenon
      <4>3. QED
        BY <3>1, <4>2
    <3>2. CASE e.request # r
      BY <1>2, <2>1, <3>2
    <3>3. QED
      BY <3>1, <3>2
  <2>2. CASE e \in failoverEvents
    BY <2>1, <2>2 DEF EventInv
  <2>3. CASE e = FailoverEvent(r, h) /\ h.pc = "attempt" /\ DidFailover(h)
    <3>1. HandedOver(e, h.targets, t)
      BY <1>1, <2>3, EventTells, Zenon
    <3>2. e.request = r
      BY <2>3 DEF FailoverEvent
    <3>3. QED
      BY <2>1, <3>1, <3>2
  <2>4. QED
    BY <1>4, <2>2, <2>3
<1>7. ASSUME ~ DBFaults, NEW q \in Requests, ~ handler'[q].cancelled,
             NEW i \in DOMAIN attempts'[q], i > 1
      PROVE  HandOver(q, attempts'[q], i) \in failoverEvents'
  <2>1. CASE q # r
    <3>1. handler'[q] = handler[q] /\ attempts'[q] = attempts[q]
      BY <1>2, <2>1
    <3>2. HandOver(q, attempts[q], i) \in failoverEvents
      BY <1>7, <3>1 DEF EventInv
    <3>3. QED
      BY <1>5, <3>1, <3>2
  <2>2. CASE q = r
    <3>1. ~ h.cancelled
      BY <1>7, <2>2, CancelledStays DEF Stories
    <3>2. CASE i \in DOMAIN t
      <4>1. HandOver(r, t, i) \in failoverEvents
        BY <1>7, <3>1, <3>2 DEF EventInv
      <4>2. HandOver(r, u, i) = HandOver(r, t, i)
        BY <1>1, <1>2, <1>3, <1>7, <3>2, HandOversStay
      <4>3. QED
        BY <1>5, <2>2, <4>1, <4>2
    <3>3. CASE i \notin DOMAIN t
      <4>1. Calls(h, g, t, u)
        <5>1. CASE Fails(h, g, t, u)
          <6>1. DOMAIN u = DOMAIN t
            BY <5>1 DEF Fails, Blame
          <6>2. QED
            BY <1>7, <2>2, <3>3, <6>1
        <5>2. CASE u = t
          BY <1>7, <2>2, <3>3, <5>2
        <5>3. QED
          BY <1>2, <5>1, <5>2 DEF Moves, Reads, Leaves, Ends, Chooses, Waits, Commits, Advances,
             Streams
      <4>4. Len(u) = Len(t) + 1
        BY <1>1, <4>1, CallGrows, Zenon
      <4>5. DOMAIN t = 1 .. Len(t) /\ DOMAIN u = 1 .. Len(u) /\ Len(t) \in Nat
        BY <1>1, <1>3, LenProperties
      <4>6. i \in 1 .. (Len(t) + 1) /\ i \notin 1 .. Len(t)
        BY <1>7, <2>2, <3>3, <4>4, <4>5, Zenon
      <4>7. i = Len(t) + 1
        BY <4>5, <4>6, OneMore, Zenon
      <4>8. h.next = Len(t) + 1
        BY <1>1, <4>1 DEF Calls, Story
      <4>9. DidFailover(h)
        BY <1>7, <4>7, <4>8 DEF DidFailover
      <4>10. FailoverEvent(r, h) \in failoverEvents'
        BY <1>4, <1>7, <3>1, <4>1, <4>9
      <4>11. HandOver(r, u, Len(t) + 1) = FailoverEvent(r, h)
        BY <1>1, <4>1, <4>9, NewHandOver, SMT
      <4>12. QED
        BY <2>2, <4>7, <4>10, <4>11, Zenon
    <3>4. QED
      BY <3>2, <3>3
  <2>3. QED
    BY <2>1, <2>2
<1>8. QED
  BY <1>6, <1>7, Zenon DEF EventInv

LEMMA EventNext == Stories /\ EventInv /\ [RelayNext]_relayVars => EventInv'
<1> SUFFICES ASSUME Stories, EventInv, [RelayNext]_relayVars PROVE EventInv'
  OBVIOUS
<1>1. CASE \E r \in Requests : RequestStep(r)
  BY <1>1, EventStep
<1>2. CASE UNCHANGED <<handler, attempts, failoverEvents>>
  BY <1>2 DEF EventInv
<1>3. QED
  BY <1>1, <1>2 DEF RelayNext, relayVars, requestVars

LEMMA EventInit == RelayInit => EventInv
<1> SUFFICES ASSUME RelayInit PROVE EventInv
  OBVIOUS
<1>1. failoverEvents = {} /\ \A r \in Requests : attempts[r] = <<>>
  BY DEF RelayInit, RequestInit
<1>2. \A r \in Requests : DOMAIN attempts[r] = {}
  BY <1>1, EmptyDomain
<1>3. QED
  BY <1>1, <1>2 DEF EventInv

LEMMA EventsTrail == EventInv => FailoverTrail
<1> SUFFICES ASSUME EventInv PROVE FailoverTrail
  OBVIOUS
<1>1. \A e \in failoverEvents : HandedOver(e, handler[e.request].targets, attempts[e.request])
  BY DEF EventInv
<1>2. ~ DBFaults => \A r \in Requests : ~ handler[r].cancelled =>
        \A i \in DOMAIN attempts[r] : i > 1 => HandOver(r, attempts[r], i) \in failoverEvents
  BY DEF EventInv
<1>3. QED
  BY <1>1, <1>2, Zenon DEF FailoverTrail, HandedOver, HandOver

\* For any number of requests and candidates: each failover event is a hand-over that was
\* made after the failure it names, and, while statements cannot fail, none is missing
\* (InsertFailoverEvent).
THEOREM FailoverTrailHolds == RelaySpec => []FailoverTrail
<1>1. RelaySpec => []EventInv
  BY EventInit, EventNext, StoriesHold, PTL DEF RelaySpec
<1>2. QED
  BY <1>1, EventsTrail, PTL

-----------------------------------------------------------------------------
(* The relay implements its contract *)

Phases == [r \in Requests |-> PhaseOf(handler[r])]
Untrieds == [r \in Requests |-> UntriedBy(handler[r])]
Currents == [r \in Requests |-> CalledBy(handler[r])]

\* What a step of the contract does to the request it is about.
Promised(phase, untried, current, phase2, untried2, current2) ==
  \/ /\ \/ <<phase, phase2>> \in {<<"new", "deciding">>, <<"new", "refused">>,
                                  <<"deciding", "none">>, <<"relaying", "relayed">>}
        \/ phase = "trying" /\ phase2 = "gaveUp" /\ untried = {} /\ current = {}
        \/ phase2 = phase
     /\ untried2 = untried /\ current2 = current
  \/ /\ phase = "deciding" /\ phase2 = "trying"
     /\ untried2 \subseteq Nat /\ untried2 # {} /\ current2 = current
  \/ /\ phase = "trying" /\ phase2 = "trying" /\ current = {}
     /\ \E id \in untried : current2 = {id} /\ untried2 = untried \ {id}
  \/ /\ phase = "trying" /\ phase2 = "trying" /\ current # {}
     /\ current2 = {} /\ untried2 = untried
  \/ /\ phase = "trying" /\ phase2 = "relaying" /\ current # {}
     /\ untried2 = {} /\ current2 = current
  \/ /\ phase \in {"deciding", "trying", "relaying"} /\ phase2 = "dropped"
     /\ untried2 = {} /\ current2 = {}

LEMMA OnlyOneMoves ==
  ASSUME NEW r \in Requests, \A q \in Requests \ {r} : handler'[q] = handler[q]
  PROVE  /\ Phases' = [Phases EXCEPT ![r] = PhaseOf(handler'[r])]
         /\ Untrieds' = [Untrieds EXCEPT ![r] = UntriedBy(handler'[r])]
         /\ Currents' = [Currents EXCEPT ![r] = CalledBy(handler'[r])]
BY DEF Phases, Untrieds, Currents

LEMMA PromiseKept ==
  ASSUME NEW r \in Requests, \A q \in Requests \ {r} : handler'[q] = handler[q],
         Promised(PhaseOf(handler[r]), UntriedBy(handler[r]), CalledBy(handler[r]),
                  PhaseOf(handler'[r]), UntriedBy(handler'[r]), CalledBy(handler'[r]))
  PROVE  Contract!Step(r) \/ UNCHANGED Contract!vars
<1> DEFINE p == PhaseOf(handler[r])
           n == UntriedBy(handler[r])
           c == CalledBy(handler[r])
           p2 == PhaseOf(handler'[r])
           n2 == UntriedBy(handler'[r])
           c2 == CalledBy(handler'[r])
<1>1. /\ Phases' = [Phases EXCEPT ![r] = p2]
      /\ Untrieds' = [Untrieds EXCEPT ![r] = n2]
      /\ Currents' = [Currents EXCEPT ![r] = c2]
  BY OnlyOneMoves
<1>2. /\ Phases[r] = p /\ Untrieds[r] = n /\ Currents[r] = c
      /\ Phases'[r] = p2 /\ Untrieds'[r] = n2 /\ Currents'[r] = c2
  BY DEF Phases, Untrieds, Currents
<1>3. /\ n2 = n => Untrieds' = Untrieds
      /\ c2 = c => Currents' = Currents
      /\ p2 = p => Phases' = Phases
  BY <1>1 DEF Phases, Untrieds, Currents
<1> HIDE DEF p, n, c, p2, n2, c2
<1>4. Promised(p, n, c, p2, n2, c2)
  BY DEF p, n, c, p2, n2, c2
<1>5. CASE p2 = p /\ n2 = n /\ c2 = c
  <2>1. Phases' = Phases /\ Untrieds' = Untrieds /\ Currents' = Currents
    BY <1>3, <1>5
  <2>2. QED
    BY <2>1 DEF Contract!vars, Phases, Untrieds, Currents
<1>6. CASE /\ n2 = n /\ c2 = c
           /\ \/ <<p, p2>> \in {<<"new", "deciding">>, <<"new", "refused">>,
                                <<"deciding", "none">>, <<"relaying", "relayed">>}
              \/ p = "trying" /\ p2 = "gaveUp" /\ n = {} /\ c = {}
  <2>1. Untrieds' = Untrieds /\ Currents' = Currents
    BY <1>3, <1>6
  <2>2. CASE p = "new" /\ p2 = "deciding"
    <3>1. Contract!Accept(r)
      BY <1>1, <1>2, <2>1, <2>2 DEF Contract!Accept, Contract!Move, Phases, Untrieds, Currents
    <3>2. QED
      BY <3>1 DEF Contract!Step
  <2>3. CASE p = "new" /\ p2 = "refused"
    <3>1. Contract!Refuse(r)
      BY <1>1, <1>2, <2>1, <2>3 DEF Contract!Refuse, Contract!Move, Phases, Untrieds, Currents
    <3>2. QED
      BY <3>1 DEF Contract!Step
  <2>4. CASE p = "deciding" /\ p2 = "none"
    <3>1. Contract!NoStation(r)
      BY <1>1, <1>2, <2>1, <2>4 DEF Contract!NoStation, Contract!Move, Phases, Untrieds, Currents
    <3>2. QED
      BY <3>1 DEF Contract!Step
  <2>5. CASE p = "relaying" /\ p2 = "relayed"
    <3>1. Contract!Finish(r)
      BY <1>1, <1>2, <2>1, <2>5 DEF Contract!Finish, Contract!Move, Phases, Untrieds, Currents
    <3>2. QED
      BY <3>1 DEF Contract!Step
  <2>6. CASE p = "trying" /\ p2 = "gaveUp" /\ n = {} /\ c = {}
    <3>1. Contract!GiveUp(r)
      BY <1>1, <1>2, <2>1, <2>6 DEF Contract!GiveUp, Contract!Move, Phases, Untrieds, Currents
    <3>2. QED
      BY <3>1 DEF Contract!Step
  <2>7. QED
    BY <1>6, <2>2, <2>3, <2>4, <2>5, <2>6
<1>7. CASE /\ p = "deciding" /\ p2 = "trying"
           /\ n2 \subseteq Nat /\ n2 # {} /\ c2 = c
  <2>1. Currents' = Currents
    BY <1>3, <1>7
  <2>2. Contract!Begin(r)
    BY <1>1, <1>2, <1>7, <2>1 DEF Contract!Begin, Contract!Move, Phases, Untrieds, Currents
  <2>3. QED
    BY <2>2 DEF Contract!Step
<1>8. CASE /\ p = "trying" /\ p2 = "trying" /\ c = {}
           /\ \E id \in n : c2 = {id} /\ n2 = n \ {id}
  <2>1. Phases' = Phases
    BY <1>3, <1>8
  <2>2. Contract!Call(r)
    BY <1>1, <1>2, <1>8, <2>1, ZenonT(40) DEF Contract!Call, Phases, Untrieds, Currents
  <2>3. QED
    BY <2>2 DEF Contract!Step
<1>9. CASE /\ p = "trying" /\ p2 = "trying" /\ c # {}
           /\ c2 = {} /\ n2 = n
  <2>1. Phases' = Phases /\ Untrieds' = Untrieds
    BY <1>3, <1>9
  <2>2. Contract!Fail(r)
    BY <1>1, <1>2, <1>9, <2>1 DEF Contract!Fail, Phases, Untrieds, Currents
  <2>3. QED
    BY <2>2 DEF Contract!Step
<1>10. CASE /\ p = "trying" /\ p2 = "relaying" /\ c # {}
            /\ n2 = {} /\ c2 = c
  <2>1. Currents' = Currents
    BY <1>3, <1>10
  <2>2. Contract!Relay(r)
    BY <1>1, <1>2, <1>10, <2>1 DEF Contract!Relay, Contract!Move, Phases, Untrieds, Currents
  <2>3. QED
    BY <2>2 DEF Contract!Step
<1>11. CASE /\ p \in {"deciding", "trying", "relaying"} /\ p2 = "dropped"
            /\ n2 = {} /\ c2 = {}
  <2>1. Contract!Drop(r)
    BY <1>1, <1>2, <1>11 DEF Contract!Drop, Phases, Untrieds, Currents
  <2>2. QED
    BY <2>1 DEF Contract!Step
<1>12. QED
  BY <1>4, <1>5, <1>6, <1>7, <1>8, <1>9, <1>10, <1>11 DEF Promised

LEMMA PhaseTable ==
  ASSUME NEW h
  PROVE  /\ h.pc = "idle" => PhaseOf(h) = "new"
         /\ h.pc \in Starting \ {"idle"} => PhaseOf(h) = "deciding"
         /\ h.pc \in {"attempt", "headers", "capture", "failing", "exhausted"} =>
              PhaseOf(h) = "trying"
         /\ h.pc \in {"streaming", "logging"} => PhaseOf(h) = "relaying"
         /\ h.pc = "done" =>
              /\ h.verdict = "refused" => PhaseOf(h) = "refused"
              /\ h.verdict = "none" => PhaseOf(h) = "none"
              /\ h.verdict = "relayed" => PhaseOf(h) = "relayed"
              /\ h.verdict = "exhausted" => PhaseOf(h) = "gaveUp"
              /\ h.verdict \in {"error", "aborted"} => PhaseOf(h) = "dropped"
<1>1. /\ h.pc = "idle" => PhaseOf(h) = "new"
      /\ h.pc \in Starting \ {"idle"} => PhaseOf(h) = "deciding"
      /\ h.pc \in {"attempt", "headers", "capture", "failing", "exhausted"} =>
           PhaseOf(h) = "trying"
      /\ h.pc \in {"streaming", "logging"} => PhaseOf(h) = "relaying"
  BY DEF PhaseOf, Starting
<1>2. ASSUME h.pc = "done"
      PROVE  PhaseOf(h) = CASE h.verdict = "refused"   -> "refused"
                            [] h.verdict = "none"      -> "none"
                            [] h.verdict = "relayed"   -> "relayed"
                            [] h.verdict = "exhausted" -> "gaveUp"
                            [] OTHER                   -> "dropped"
  BY <1>2 DEF PhaseOf
<1>3. QED
  BY <1>1, <1>2

LEMMA StationTable ==
  ASSUME NEW h
  PROVE  /\ h.pc \in Starting \cup {"attempt", "exhausted"} => CalledBy(h) = {}
         /\ h.pc = "done" /\ h.verdict # "relayed" => CalledBy(h) = {}
         /\ h.pc = "done" /\ h.verdict = "relayed" => CalledBy(h) = {Target(h).id}
         /\ h.pc \in {"headers", "capture", "failing", "streaming", "logging"} =>
              CalledBy(h) = {Target(h).id}
         /\ h.pc \notin {"attempt", "headers", "capture", "failing"} => UntriedBy(h) = {}
BY DEF CalledBy, UntriedBy, Starting

Rest(h, n) == {h.targets[i].id : i \in n .. Len(h.targets)}

LEMMA UntriedTable ==
  ASSUME NEW h
  PROVE  /\ h.pc = "attempt" => UntriedBy(h) = Rest(h, h.next)
         /\ h.pc \in {"headers", "capture", "failing"} => UntriedBy(h) = Rest(h, h.next + 1)
BY DEF UntriedBy, Rest

LEMMA RestSplits ==
  ASSUME NEW h, HandlerOK(h), Differ(h.targets), h.next \in DOMAIN h.targets
  PROVE  /\ Target(h).id \in Rest(h, h.next)
         /\ Rest(h, h.next + 1) = Rest(h, h.next) \ {Target(h).id}
<1> DEFINE m == Len(h.targets)
           n == h.next
<1>1. h.targets \in Seq(RankedEntry)
  BY DEF HandlerOK
<1>2. DOMAIN h.targets = 1 .. m /\ m \in Nat
  BY <1>1, LenProperties
<1>3. n \in 1 .. m
  BY <1>2
<1> HIDE DEF m, n
<1>4. n \in n .. m /\ \A i \in n .. m : i \in 1 .. m
  BY <1>2, <1>3
<1>5. \A i \in n .. m : i # n <=> i \in (n + 1) .. m
  BY <1>2, <1>3
<1>6. \A i \in (n + 1) .. m : i \in n .. m
  BY <1>2, <1>3
<1>7. \A i, j \in 1 .. m : h.targets[i].id = h.targets[j].id => i = j
  BY <1>2 DEF Differ
<1>8. Target(h).id = h.targets[n].id
  BY Zenon DEF Target, n
<1>9. Rest(h, n) = {h.targets[i].id : i \in n .. m}
  BY DEF Rest, m
<1>10. Rest(h, n + 1) = {h.targets[i].id : i \in (n + 1) .. m}
  BY DEF Rest, m
<1>11. Target(h).id \in Rest(h, n)
  BY <1>4, <1>8, <1>9
<1>12. ASSUME NEW id PROVE id \in Rest(h, n + 1) <=> id \in Rest(h, n) /\ id # Target(h).id
  <2>1. ASSUME id \in Rest(h, n + 1) PROVE id \in Rest(h, n) /\ id # Target(h).id
    <3>1. PICK i \in (n + 1) .. m : id = h.targets[i].id
      BY <1>10, <2>1, Zenon
    <3>2. i \in n .. m /\ i # n
      BY <1>5, <1>6, <3>1, Zenon
    <3>3. id # h.targets[n].id
      BY <1>3, <1>4, <1>7, <3>1, <3>2, Zenon
    <3>4. QED
      BY <1>8, <1>9, <3>1, <3>2, <3>3, Zenon
  <2>2. ASSUME id \in Rest(h, n), id # Target(h).id PROVE id \in Rest(h, n + 1)
    <3>1. PICK i \in n .. m : id = h.targets[i].id
      BY <1>9, <2>2, Zenon
    <3>2. i # n
      BY <1>8, <2>2, <3>1, Zenon
    <3>3. i \in (n + 1) .. m
      BY <1>5, <3>1, <3>2, Zenon
    <3>4. QED
      BY <1>10, <3>1, <3>3, Zenon
  <2>3. QED
    BY <2>1, <2>2
<1>13. Rest(h, n + 1) = Rest(h, n) \ {Target(h).id}
  BY <1>12, Zenon
<1>14. QED
  BY <1>11, <1>13, Zenon DEF n

LEMMA RestOfAll ==
  ASSUME NEW h, HandlerOK(h), h.targets # <<>>, h.next = 1
  PROVE  Rest(h, h.next) \subseteq Nat /\ Rest(h, h.next) # {}
<1>1. h.targets \in Seq(RankedEntry)
  BY DEF HandlerOK
<1>2. DOMAIN h.targets = 1 .. Len(h.targets) /\ Len(h.targets) \in Nat
  BY <1>1, LenProperties
<1>3. Len(h.targets) >= 1
  BY <1>1, LenProperties
<1>4. 1 \in 1 .. Len(h.targets)
  BY <1>2, <1>3
<1>5. \A i \in 1 .. Len(h.targets) : h.targets[i].id \in Nat
  <2> TAKE i \in 1 .. Len(h.targets)
  <2>1. h.targets[i] \in RankedEntry
    BY <1>1, <1>2, ElementOfSeq
  <2>2. h.targets[i].id \in Ids
    BY <2>1 DEF RankedEntry
  <2>3. QED
    BY <2>2, IdsAssumption
<1>6. Rest(h, 1) = {h.targets[i].id : i \in 1 .. Len(h.targets)}
  BY DEF Rest
<1>7. QED
  BY <1>4, <1>5, <1>6, ZenonT(40)

LEMMA NoneAfter ==
  ASSUME NEW m \in Nat, NEW n \in 1 .. m, ~ n < m
  PROVE  (n + 1) .. m = {}
OBVIOUS

\* Every step of a request is one of the contract's, or none.
LEMMA MovesKeepPromise ==
  ASSUME NEW h, NEW g, NEW t, NEW u, HandlerOK(h), HandlerOK(g), Differ(h.targets),
         Moves(h, g, t, u)
  PROVE  Promised(PhaseOf(h), UntriedBy(h), CalledBy(h), PhaseOf(g), UntriedBy(g), CalledBy(g))
<1>1. CASE Reads(h, g, t, u)
  <2>1. h.pc \in Starting /\ g.pc \in Starting \ {"idle"}
    BY <1>1 DEF Reads
  <2>2. /\ PhaseOf(h) \in {"new", "deciding"} /\ PhaseOf(g) = "deciding"
    BY <2>1, PhaseTable
  <2>3. /\ UntriedBy(h) = {} /\ UntriedBy(g) = {} /\ CalledBy(h) = {} /\ CalledBy(g) = {}
    BY <2>1, StationTable DEF Starting
  <2>4. QED
    BY <2>2, <2>3 DEF Promised
<1>2. CASE Leaves(h, g, t, u) \/ Waits(h, g, t, u) \/ Fails(h, g, t, u) \/ Streams(h, g, t, u)
  <2>1. g.targets = h.targets /\ g.next = h.next /\ g.verdict = h.verdict
    BY <1>2 DEF Leaves, Waits, Fails, Streams, Same
  <2>2. Target(g) = Target(h) /\ \A n : Rest(g, n) = Rest(h, n)
    BY <2>1 DEF Target, Rest
  <2>3. CASE g.pc = h.pc
    <3>1. PhaseOf(g) = PhaseOf(h) /\ UntriedBy(g) = UntriedBy(h) /\ CalledBy(g) = CalledBy(h)
      BY <2>1, <2>2, <2>3, Zenon DEF PhaseOf, UntriedBy, CalledBy
    <3>2. QED
      BY <3>1 DEF Promised
  <2>4. CASE h.pc \in {"headers", "capture"} /\ g.pc \in {"capture", "failing"}
    <3>1. PhaseOf(h) = "trying" /\ PhaseOf(g) = "trying"
      BY <2>4, PhaseTable
    <3>2. CalledBy(h) = {Target(h).id} /\ CalledBy(g) = {Target(g).id}
      BY <2>4, StationTable
    <3>3. UntriedBy(h) = Rest(h, h.next + 1) /\ UntriedBy(g) = Rest(g, g.next + 1)
      BY <2>4, UntriedTable
    <3>4. UntriedBy(h) = UntriedBy(g) /\ CalledBy(h) = CalledBy(g)
      BY <2>1, <2>2, <3>2, <3>3, Zenon
    <3>5. QED
      BY <3>1, <3>4 DEF Promised
  <2>5. CASE h.pc = "streaming" /\ g.pc = "logging"
    <3>1. PhaseOf(h) = "relaying" /\ PhaseOf(g) = "relaying"
      BY <2>5, PhaseTable
    <3>2. CalledBy(h) = {Target(h).id} /\ CalledBy(g) = {Target(g).id}
      BY <2>5, StationTable
    <3>3. UntriedBy(h) = {} /\ UntriedBy(g) = {}
      BY <2>5, StationTable
    <3>4. QED
      BY <2>2, <3>1, <3>2, <3>3 DEF Promised
  <2>6. QED
    BY <1>2, <2>3, <2>4, <2>5 DEF Leaves, Waits, Fails, Streams
<1>3. CASE Ends(h, g, t, u)
  <2>1. g.pc = "done" /\ g.targets = h.targets /\ g.next = h.next
    BY <1>3 DEF Ends
  <2>2. UntriedBy(g) = {} /\ (g.verdict # "relayed" => CalledBy(g) = {})
    BY <2>1, StationTable
  <2>3. CASE h.pc \in Starting /\ g.verdict \in {"refused", "error", "none"}
    <3>1. UntriedBy(h) = {} /\ CalledBy(h) = {}
      BY <2>3, StationTable DEF Starting
    <3>2. CASE h.pc = "idle" /\ g.verdict = "refused"
      BY <2>1, <2>2, <3>1, <3>2, PhaseTable DEF Promised
    <3>3. CASE h.pc \in Starting \ {"idle"} /\ g.verdict = "error"
      BY <2>1, <2>2, <3>1, <3>3, PhaseTable DEF Promised
    <3>4. CASE h.pc = "choose" /\ g.verdict = "none"
      <4>1. PhaseOf(h) = "deciding" /\ PhaseOf(g) = "none"
        BY <2>1, <3>4, PhaseTable DEF Starting
      <4>2. QED
        BY <2>2, <3>1, <3>4, <4>1 DEF Promised
    <3>5. QED
      BY <1>3, <2>3, <3>2, <3>3, <3>4 DEF Ends, Starting
  <2>4. CASE h.pc \in {"attempt", "headers"} /\ g.verdict \in {"error", "aborted"}
    <3>1. PhaseOf(h) = "trying" /\ PhaseOf(g) = "dropped"
      BY <2>1, <2>4, PhaseTable
    <3>2. QED
      BY <2>2, <2>4, <3>1 DEF Promised
  <2>5. CASE h.pc = "logging" /\ g.verdict = "relayed"
    <3>1. PhaseOf(h) = "relaying" /\ PhaseOf(g) = "relayed"
      BY <2>1, <2>5, PhaseTable
    <3>2. CalledBy(h) = {Target(h).id} /\ CalledBy(g) = {Target(g).id} /\ UntriedBy(h) = {}
      BY <2>1, <2>5, StationTable
    <3>3. Target(g) = Target(h)
      BY <2>1 DEF Target
    <3>4. QED
      BY <2>2, <3>1, <3>2, <3>3 DEF Promised
  <2>6. CASE h.pc = "exhausted" /\ g.verdict = "exhausted"
    <3>1. PhaseOf(h) = "trying" /\ PhaseOf(g) = "gaveUp"
      BY <2>1, <2>6, PhaseTable
    <3>2. UntriedBy(h) = {} /\ CalledBy(h) = {} /\ CalledBy(g) = {}
      BY <2>2, <2>6, StationTable
    <3>3. QED
      BY <2>2, <3>1, <3>2 DEF Promised
  <2>7. QED
    BY <1>3, <2>3, <2>4, <2>5, <2>6 DEF Ends, Starting
<1>4. CASE Chooses(h, g, t, u)
  <2>1. h.pc = "choose" /\ g.pc = "attempt" /\ g.targets # <<>> /\ g.next = h.next
    BY <1>4 DEF Chooses
  <2>2. g.next = 1
    BY <2>1 DEF HandlerOK, Starting
  <2>3. PhaseOf(h) = "deciding" /\ PhaseOf(g) = "trying"
    BY <2>1, PhaseTable DEF Starting
  <2>4. CalledBy(h) = {} /\ CalledBy(g) = {} /\ UntriedBy(g) = Rest(g, g.next)
    BY <2>1, StationTable, UntriedTable DEF Starting
  <2>5. UntriedBy(g) \subseteq Nat /\ UntriedBy(g) # {}
    BY <2>1, <2>2, <2>4, RestOfAll, Zenon
  <2>6. QED
    BY <2>3, <2>4, <2>5 DEF Promised
<1>5. CASE Calls(h, g, t, u)
  <2>1. h.pc = "attempt" /\ g.pc = "headers" /\ g.targets = h.targets /\ g.next = h.next
    BY <1>5 DEF Calls, Same
  <2>2. Target(g) = Target(h) /\ Rest(g, g.next + 1) = Rest(h, h.next + 1)
    BY <2>1 DEF Target, Rest
  <2>3. PhaseOf(h) = "trying" /\ PhaseOf(g) = "trying"
    BY <2>1, PhaseTable
  <2>4. CalledBy(h) = {} /\ CalledBy(g) = {Target(g).id}
    BY <2>1, StationTable
  <2>5. UntriedBy(h) = Rest(h, h.next) /\ UntriedBy(g) = Rest(g, g.next + 1)
    BY <2>1, UntriedTable
  <2>6. h.next \in DOMAIN h.targets
    BY <2>1 DEF HandlerOK, Looping
  <2>7. /\ Target(h).id \in Rest(h, h.next)
        /\ Rest(h, h.next + 1) = Rest(h, h.next) \ {Target(h).id}
    BY <2>6, RestSplits, Zenon
  <2>8. QED
    BY <2>2, <2>3, <2>4, <2>5, <2>7, Zenon DEF Promised
<1>6. CASE Commits(h, g, t, u)
  <2>1. /\ h.pc \in {"headers", "capture"} /\ g.pc = "streaming"
        /\ g.targets = h.targets /\ g.next = h.next
    BY <1>6 DEF Commits
  <2>2. Target(g) = Target(h)
    BY <2>1 DEF Target
  <2>3. PhaseOf(h) = "trying" /\ PhaseOf(g) = "relaying"
    BY <2>1, PhaseTable
  <2>4. CalledBy(h) = {Target(h).id} /\ CalledBy(g) = {Target(g).id} /\ UntriedBy(g) = {}
    BY <2>1, StationTable
  <2>5. QED
    BY <2>2, <2>3, <2>4 DEF Promised
<1>7. CASE Advances(h, g, t, u)
  <2>1. h.pc = "failing" /\ g.targets = h.targets
    BY <1>7 DEF Advances
  <2>2. h.targets \in Seq(RankedEntry) /\ h.next \in DOMAIN h.targets
    BY <2>1 DEF HandlerOK, Looping
  <2>3. /\ PhaseOf(h) = "trying" /\ CalledBy(h) = {Target(h).id}
        /\ UntriedBy(h) = Rest(h, h.next + 1)
    BY <2>1, PhaseTable, StationTable, UntriedTable
  <2>4. CASE g.pc = "attempt" /\ g.next = h.next + 1
    <3>1. PhaseOf(g) = "trying" /\ CalledBy(g) = {} /\ UntriedBy(g) = Rest(g, g.next)
      BY <2>4, PhaseTable, StationTable, UntriedTable
    <3>2. Rest(g, g.next) = Rest(h, h.next + 1)
      BY <2>1, <2>4, Zenon DEF Rest
    <3>3. QED
      BY <2>3, <3>1, <3>2 DEF Promised
  <2>5. CASE ~ h.next < Len(h.targets) /\ g.pc = "exhausted"
    <3>1. PhaseOf(g) = "trying" /\ CalledBy(g) = {} /\ UntriedBy(g) = {}
      BY <2>5, PhaseTable, StationTable
    <3>2. DOMAIN h.targets = 1 .. Len(h.targets) /\ Len(h.targets) \in Nat
      BY <2>2, LenProperties
    <3>a. h.next \in 1 .. Len(h.targets) /\ ~ h.next < Len(h.targets)
      BY <2>2, <2>5, <3>2, Zenon
    <3>3. (h.next + 1) .. Len(h.targets) = {}
      BY <3>2, <3>a, NoneAfter, Zenon
    <3>4. Rest(h, h.next + 1) = {}
      BY <3>3, Zenon DEF Rest
    <3>5. QED
      BY <2>3, <3>1, <3>4 DEF Promised
  <2>6. QED
    BY <1>7, <2>4, <2>5 DEF Advances
<1>8. QED
  BY <1>1, <1>2, <1>3, <1>4, <1>5, <1>6, <1>7 DEF Moves

\* Nobody is a candidate twice: what makes "none twice" true.
Choices == RelayTypeOK /\ \A r \in Requests : Differ(handler[r].targets)

LEMMA ChoicesInit == RelayInit => Choices
<1> SUFFICES ASSUME RelayInit PROVE Choices
  OBVIOUS
<1>1. \A r \in Requests : handler[r].targets = <<>>
  BY DEF RelayInit, RequestInit, Fresh
<1>2. QED
  BY <1>1, EmptyDomain, RelayInitType DEF Choices, Differ

LEMMA ChoicesStep ==
  ASSUME Choices, NEW r \in Requests, RequestStep(r)
  PROVE  Choices' /\ (Contract!Step(r) \/ UNCHANGED Contract!vars)
<1>1. RelayTypeOK /\ RelayTypeOK'
  BY RelayStepType DEF Choices
<1>2. /\ Moves(handler[r], handler'[r], attempts[r], attempts'[r])
      /\ \A q \in Requests \ {r} : handler'[q] = handler[q] /\ attempts'[q] = attempts[q]
  BY <1>1, RequestMoves
<1>3. Differ(handler[r].targets) /\ Differ(handler'[r].targets)
  BY <1>2 DEF Choices, Moves, Reads, Leaves, Ends, Chooses, Calls, Waits, Fails, Commits, Advances,
     Streams, Same
<1>4. Choices'
  BY <1>1, <1>2, <1>3 DEF Choices
<1>5. HandlerOK(handler[r]) /\ HandlerOK(handler'[r])
  BY <1>1 DEF RelayTypeOK, RequestTypeOK
<1>6. Promised(PhaseOf(handler[r]), UntriedBy(handler[r]), CalledBy(handler[r]),
               PhaseOf(handler'[r]), UntriedBy(handler'[r]), CalledBy(handler'[r]))
  BY <1>2, <1>3, <1>5, MovesKeepPromise, Zenon
<1>7. QED
  BY <1>2, <1>4, <1>6, PromiseKept

LEMMA ContractInit == RelayInit => Contract!Init
<1> SUFFICES ASSUME RelayInit PROVE Contract!Init
  OBVIOUS
<1>1. Fresh.pc = "idle"
  BY DEF Fresh
<1>2. PhaseOf(Fresh) = "new" /\ UntriedBy(Fresh) = {} /\ CalledBy(Fresh) = {}
  BY <1>1, PhaseTable, StationTable DEF Starting
<1>3. \A r \in Requests : handler[r] = Fresh
  BY DEF RelayInit, RequestInit
<1>4. QED
  BY <1>2, <1>3 DEF Contract!Init

LEMMA ContractNext == Choices /\ [RelayNext]_relayVars => Choices' /\ [Contract!Next]_Contract!vars
<1> SUFFICES ASSUME Choices, [RelayNext]_relayVars
             PROVE  Choices' /\ [Contract!Next]_Contract!vars
  OBVIOUS
<1>1. CASE \E r \in Requests : RequestStep(r)
  BY <1>1, ChoicesStep DEF Contract!Next
<1>2. CASE UNCHANGED handler
  <2>1. Choices'
    BY <1>2, RelayNextType DEF Choices
  <2>2. UNCHANGED Contract!vars
    BY <1>2 DEF Contract!vars
  <2>3. QED
    BY <2>1, <2>2
<1>3. QED
  BY <1>1, <1>2 DEF RelayNext, relayVars, requestVars

\* For any number of requests, stations and mappings, whatever the database and the
\* upstreams do: the relay keeps the promise of RelayContract to every client
\* (proxyNormalizedRequest).
THEOREM ContractKept == RelaySpec => KeepsContract
<1>1. RelaySpec => []Choices
  BY ChoicesInit, ContractNext, PTL DEF RelaySpec
<1>2. QED
  BY <1>1, ContractInit, ContractNext, PTL DEF RelaySpec, KeepsContract, Contract!Spec

-----------------------------------------------------------------------------
(* The end of a request *)

LEMMA ReadsForward ==
  ASSUME RelayTypeOK, NEW r \in Requests, RequestStep(r),
         handler[r].pc \in Starting, handler'[r].pc \in Starting
  PROVE  \/ handler[r].pc = "idle" /\ handler'[r].pc = "stations"
         \/ handler[r].pc = "stations" /\ handler'[r].pc = "mappings"
         \/ handler[r].pc = "mappings" /\ handler'[r].pc = "statuses"
         \/ handler[r].pc = "statuses" /\ handler'[r].pc = "choose"
         \/ ClientLeaves(r) /\ handler'[r].pc = handler[r].pc
<1> DEFINE h == handler[r]
           g == handler'[r]
<1>1. handler = [q \in Requests |-> handler[q]] /\ HandlerOK(h)
  BY DEF RelayTypeOK, RequestTypeOK
<1>2. ASSUME NEW verdict, handler' = [handler EXCEPT ![r] = Close(@, verdict)]
      PROVE  FALSE
  <2>1. g.pc = "done"
    BY <1>1, <1>2, CloseKeeps
  <2>2. QED
    BY <2>1 DEF Starting
<1>3. ~ (Refuse(r) \/ ReadError(r) \/ CallCancelled(r) \/ LogRequest(r) \/ GiveUp(r))
  BY <1>2 DEF Refuse, ReadError, CallCancelled, LogRequest, GiveUp
<1>4. CASE Arrive(r)
  <2>1. PICK q \in Queries : handler' = [handler EXCEPT ![r].pc = "stations", ![r].query = q]
    BY <1>4 DEF Arrive
  <2>2. g = [h EXCEPT !.pc = "stations", !.query = q]
    BY <1>1, <2>1
  <2>3. h.pc = "idle" /\ g.pc = "stations"
    BY <1>1, <1>4, <2>2 DEF Arrive, HandlerOK
  <2>4. QED
    BY <2>3
<1>5. CASE ReadStations(r)
  BY <1>1, <1>5 DEF ReadStations, HandlerOK
<1>6. CASE ReadMappings(r)
  BY <1>1, <1>6 DEF ReadMappings, HandlerOK
<1>7. CASE ReadStatuses(r)
  BY <1>1, <1>7 DEF ReadStatuses, HandlerOK
<1>8. CASE ClientLeaves(r)
  BY <1>1, <1>8 DEF ClientLeaves, HandlerOK
<1>9. ~ Choose(r)
  <2> SUFFICES ASSUME Choose(r) PROVE FALSE
    OBVIOUS
  <2>1. PICK targets :
          handler' = [handler EXCEPT ![r] =
            IF targets = <<>> THEN Close(@, "none")
            ELSE [@ EXCEPT !.pc = "attempt", !.targets = targets,
                           !.stations = <<>>, !.mappings = {}]]
    BY DEF Choose
  <2>2. CASE targets = <<>>
    BY <1>2, <2>1, <2>2
  <2>3. CASE targets # <<>>
    <3>1. g = [h EXCEPT !.pc = "attempt", !.targets = targets,
                        !.stations = <<>>, !.mappings = {}]
      BY <1>1, <2>1, <2>3
    <3>2. g.pc = "attempt"
      BY <1>1, <3>1 DEF HandlerOK
    <3>3. QED
      BY <3>2 DEF Starting
  <2>4. QED
    BY <2>2, <2>3
<1>10. ~ (Attempt(r) \/ FailOver(r) \/ AwaitsUpstream(r))
  BY DEF Attempt, FailOver, AwaitsUpstream, Headers, Capture, CaptureFails, StreamEnds, StreamBreaks,
         Starting
<1>11. QED
  BY <1>3, <1>4, <1>5, <1>6, <1>7, <1>8, <1>9, <1>10 DEF RequestStep, Prompt

\* A list without repetitions is no longer than there are ids.
LEMMA FewTargets ==
  ASSUME NEW targets \in Seq(RankedEntry), Differ(targets)
  PROVE  Len(targets) \in 0 .. Cardinality(Ids)
<1> DEFINE n == Len(targets)
           f == [i \in 1 .. n |-> targets[i].id]
<1>1. n \in Nat /\ DOMAIN targets = 1 .. n
  BY LenProperties
<1>2. \A i \in 1 .. n : targets[i].id \in Ids
  <2>1. \A i \in 1 .. n : targets[i] \in RankedEntry
    BY <1>1
  <2>2. QED
    BY <2>1 DEF RankedEntry
<1>3. f \in Injection(1 .. n, Ids)
  BY <1>1, <1>2 DEF Injection, IsInjective, Differ
<1> HIDE DEF f
<1>4. Cardinality(1 .. n) <= Cardinality(Ids)
  BY <1>3, FS_Injection, IdsAssumption
<1>5. Cardinality(1 .. n) = n
  BY <1>1, FS_Interval, SMTT(30)
<1>6. Cardinality(Ids) \in Nat
  BY FS_CardinalityType, IdsAssumption
<1> HIDE DEF n
<1>7. n \in 0 .. Cardinality(Ids)
  BY <1>1, <1>4, <1>5, <1>6
<1>8. QED
  BY <1>7 DEF n

Departure(h) == IF h.cancelled THEN 0 ELSE 1

After(h) == Len(h.targets) - h.next

\* What StepsLeft counts beside the departure of the client.
Stage(h) ==
  CASE h.pc = "idle"       -> 4 * Cardinality(Ids) + 6
    [] h.pc = "stations"   -> 4 * Cardinality(Ids) + 5
    [] h.pc = "mappings"   -> 4 * Cardinality(Ids) + 4
    [] h.pc = "statuses"   -> 4 * Cardinality(Ids) + 3
    [] h.pc = "choose"     -> 4 * Cardinality(Ids) + 2
    [] h.pc = "attempt"    -> 4 * After(h) + 5
    [] h.pc = "headers"    -> 4 * After(h) + 4
    [] h.pc = "capture"    -> 4 * After(h) + 3
    [] h.pc = "failing"    -> 4 * After(h) + 2
    [] h.pc = "streaming"  -> 2
    [] h.pc \in {"logging", "exhausted"} -> 1
    [] h.pc \in Closed     -> 0

LEMMA StepsSplit ==
  ASSUME NEW h
  PROVE  StepsLeft(h) = Departure(h) + Stage(h)
BY DEF StepsLeft, Departure, Stage, After

LEMMA StageTable ==
  ASSUME NEW h
  PROVE  LET all == Cardinality(Ids)
         IN  /\ h.pc = "idle" => Stage(h) = 4 * all + 6
             /\ h.pc = "stations" => Stage(h) = 4 * all + 5
             /\ h.pc = "mappings" => Stage(h) = 4 * all + 4
             /\ h.pc = "statuses" => Stage(h) = 4 * all + 3
             /\ h.pc = "choose" => Stage(h) = 4 * all + 2
             /\ h.pc = "attempt" => Stage(h) = 4 * After(h) + 5
             /\ h.pc = "headers" => Stage(h) = 4 * After(h) + 4
             /\ h.pc = "capture" => Stage(h) = 4 * After(h) + 3
             /\ h.pc = "failing" => Stage(h) = 4 * After(h) + 2
             /\ h.pc = "streaming" => Stage(h) = 2
             /\ h.pc \in {"logging", "exhausted"} => Stage(h) = 1
             /\ h.pc \in Closed => Stage(h) = 0
BY DEF Stage, Closed

\* Before its end, a request has a step to make beside the departure of its client.
LEMMA StageType ==
  ASSUME NEW h, HandlerOK(h)
  PROVE  /\ h.pc \in Looping => After(h) \in Nat
         /\ Stage(h) \in Nat
         /\ h.pc \notin Closed => Stage(h) # 0
<1>1. ASSUME h.pc \in Looping PROVE After(h) \in Nat
  <2>1. h.targets \in Seq(RankedEntry) /\ h.next \in DOMAIN h.targets
    BY <1>1 DEF HandlerOK
  <2>2. DOMAIN h.targets = 1 .. Len(h.targets) /\ Len(h.targets) \in Nat
    BY <2>1, LenProperties
  <2>3. QED
    BY <2>1, <2>2 DEF After
<1>2. h.pc \in Open \cup Closed \cup {"idle"}
  BY DEF HandlerOK
<1>3. Cardinality(Ids) \in Nat
  BY FS_CardinalityType, IdsAssumption
<1>4. CASE h.pc \in Starting
  BY <1>1, <1>3, <1>4, StageTable DEF Starting, Closed, Looping
<1>5. CASE h.pc \in Looping
  BY <1>1, <1>5, StageTable DEF Looping, Closed
<1>6. CASE h.pc \in Closed
  BY <1>1, <1>6, StageTable
<1>7. QED
  BY <1>1, <1>2, <1>4, <1>5, <1>6 DEF Open, Closed, Starting, Looping

\* However a step moves a request on, it comes nearer to its end.
LEMMA StageFalls ==
  ASSUME NEW h, NEW g, HandlerOK(h), HandlerOK(g), NEW t, NEW u, Moves(h, g, t, u),
         ~ Reads(h, g, t, u), ~ Leaves(h, g, t, u)
  PROVE  Stage(g) < Stage(h)
<1> DEFINE all == Cardinality(Ids)
<1>1. all \in Nat
  BY FS_CardinalityType, IdsAssumption
<1>2. Stage(h) \in Nat /\ Stage(g) \in Nat
  BY StageType
<1>3. CASE Ends(h, g, t, u)
  <2>1. Stage(g) = 0
    BY <1>3, StageTable DEF Ends, Closed
  <2>2. Stage(h) # 0
    BY <1>3, StageType DEF Ends, Starting, Closed
  <2>3. QED
    BY <1>2, <2>1, <2>2
<1>4. CASE Chooses(h, g, t, u)
  <2>1. g.next = 1 /\ Len(g.targets) \in 0 .. all
    BY <1>4, FewTargets DEF Chooses, HandlerOK, Starting
  <2>2. Stage(g) = 4 * After(g) + 5 /\ Stage(h) = 4 * all + 2
    BY <1>4, StageTable DEF Chooses
  <2>3. After(g) = Len(g.targets) - 1
    BY <2>1 DEF After
  <2>4. QED
    BY <1>1, <2>1, <2>2, <2>3
<1>5. CASE Calls(h, g, t, u) \/ Waits(h, g, t, u) \/ Fails(h, g, t, u)
  <2>1. After(g) = After(h)
    BY <1>5 DEF Calls, Waits, Fails, Same, After
  <2>2. After(h) \in Nat
    BY <1>5, StageType DEF Calls, Waits, Fails, Looping
  <2>3. /\ h.pc \in {"attempt", "headers", "capture"}
        /\ h.pc = "attempt" => g.pc = "headers"
        /\ h.pc = "headers" => g.pc \in {"capture", "failing"}
        /\ h.pc = "capture" => g.pc = "failing"
    BY <1>5 DEF Calls, Waits, Fails
  <2>4. QED
    BY <2>1, <2>2, <2>3, StageTable
<1>6. CASE Commits(h, g, t, u)
  <2>1. After(h) \in Nat /\ h.pc \in {"headers", "capture"} /\ g.pc = "streaming"
    BY <1>6, StageType DEF Commits, Looping
  <2>2. QED
    BY <2>1, StageTable
<1>7. CASE Advances(h, g, t, u)
  <2>1. After(h) \in Nat /\ h.pc = "failing"
    BY <1>7, StageType DEF Advances, Looping
  <2>2. CASE g.pc = "attempt" /\ g.next = h.next + 1
    <3>1. h.next \in Nat /\ g.targets = h.targets /\ Len(h.targets) \in Nat
      BY <1>7, LenProperties DEF Advances, HandlerOK
    <3>2. After(g) = After(h) - 1
      BY <2>2, <3>1 DEF After
    <3>3. QED
      BY <2>1, <2>2, <3>2, StageTable
  <2>3. CASE g.pc = "exhausted"
    BY <2>1, <2>3, StageTable
  <2>4. QED
    BY <1>7, <2>2, <2>3 DEF Advances
<1>8. CASE Streams(h, g, t, u)
  BY <1>8, StageTable DEF Streams
<1>9. QED
  BY <1>3, <1>4, <1>5, <1>6, <1>7, <1>8 DEF Moves

LEMMA StepsFall ==
  ASSUME RelayTypeOK, NEW r \in Requests, RequestStep(r)
  PROVE  StepsLeft(handler'[r]) \in 0 .. (StepsLeft(handler[r]) - 1)
<1> DEFINE h == handler[r]
           g == handler'[r]
           t == attempts[r]
           u == attempts'[r]
<1>1. RelayTypeOK' /\ HandlerOK(h) /\ HandlerOK(g) /\ Moves(h, g, t, u)
  BY RelayStepType, RequestMoves DEF RelayTypeOK, RequestTypeOK
<1>2. /\ Departure(h) \in {0, 1} /\ Departure(g) \in {0, 1}
      /\ Departure(g) <= Departure(h)
  BY CancelledStays DEF Departure
<1>3. Stage(h) \in Nat /\ Stage(g) \in Nat
  BY <1>1, StageType
<1>4. /\ StepsLeft(h) = Departure(h) + Stage(h)
      /\ StepsLeft(g) = Departure(g) + Stage(g)
  BY StepsSplit
<1>5. \/ Stage(g) < Stage(h)
      \/ Stage(g) = Stage(h) /\ Departure(g) < Departure(h)
  <2>1. CASE Reads(h, g, t, u)
    <3>1. h.pc \in Starting /\ g.pc \in Starting
      BY <2>1 DEF Reads
    <3>2. CASE ClientLeaves(r) /\ g.pc = h.pc
      <4>1. ~ h.cancelled /\ g.cancelled
        BY <1>1, <3>2 DEF ClientLeaves, HandlerOK, RelayTypeOK, RequestTypeOK
      <4>2. Stage(g) = Stage(h)
        BY <3>1, <3>2, StageTable DEF Starting
      <4>3. QED
        BY <4>1, <4>2 DEF Departure
    <3>3. CASE \/ h.pc = "idle" /\ g.pc = "stations"
               \/ h.pc = "stations" /\ g.pc = "mappings"
               \/ h.pc = "mappings" /\ g.pc = "statuses"
               \/ h.pc = "statuses" /\ g.pc = "choose"
      <4>1. Cardinality(Ids) \in Nat
        BY FS_CardinalityType, IdsAssumption
      <4>2. QED
        BY <3>3, <4>1, StageTable
    <3>4. QED
      BY <3>1, <3>2, <3>3, ReadsForward
  <2>2. CASE Leaves(h, g, t, u)
    <3>1. Stage(g) = Stage(h)
      BY <2>2 DEF Leaves, Same, Stage, After
    <3>2. QED
      BY <2>2, <3>1 DEF Leaves, Departure
  <2>3. QED
    BY <1>1, <2>1, <2>2, StageFalls
<1> HIDE DEF h, g
<1>6. StepsLeft(g) \in 0 .. (StepsLeft(h) - 1)
  BY <1>2, <1>3, <1>4, <1>5
<1>7. QED
  BY <1>6 DEF h, g

LEMMA RequestsNearEnd ==
  ASSUME RelayTypeOK, NEW r \in Requests, RequestStep(r), NEW q \in Requests,
         handler'[q] # handler[q]
  PROVE  StepsLeft(handler'[q]) \in 0 .. (StepsLeft(handler[q]) - 1)
<1>1. q = r
  BY RequestMoves
<1>2. QED
  BY <1>1, StepsFall

=============================================================================
