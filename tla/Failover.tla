------------------------------ MODULE Failover ------------------------------
(***************************************************************************)
(* internal/gateway/server.go: how the gateway classifies the outcome of   *)
(* one upstream call.  An answer is                                        *)
(*   err    "none", or the class of the error client.Do or the reading of  *)
(*          an error body returned ("timeout" is DeadlineExceeded)         *)
(*   status the HTTP status code (0 when client.Do failed)                 *)
(*   body   what the text of an error body matches: one of SemanticKinds,  *)
(*          or "" (phrase lists are abstracted to the kind they select)    *)
(***************************************************************************)
EXTENDS Integers

SemanticKinds == {"subscription_not_found", "insufficient_balance", "quota_limited",
                  "model_unavailable", "billing_required"}

Answer == [err: {"none", "timeout", "transport"}, status: Nat, body: SemanticKinds \cup {""}]

\* "" when the status or the body is not one that means "use another station".
semanticFailoverKind(status, body) == IF status \in {402, 403} THEN body ELSE ""

shouldFailover(answer) ==
  \/ answer.err # "none"
  \/ answer.status >= 500
  \/ semanticFailoverKind(answer.status, answer.body) # ""
  \/ answer.status \in {429, 408, 404}

FailureKinds == SemanticKinds \cup {"timeout", "transport_error", "endpoint_not_supported",
                                    "rate_limited", "upstream_error", "gateway_error"}

failureKindOfStatus(status) ==
  CASE status = 408  -> "timeout"
    [] status = 404  -> "endpoint_not_supported"
    [] status = 429  -> "rate_limited"
    [] status >= 500 -> "upstream_error"
    [] OTHER         -> "gateway_error"

\* What a failed attempt is called in failover events and request logs.
failureKind(answer) ==
  LET semantic == semanticFailoverKind(answer.status, answer.body)
  IN  IF answer.err = "timeout" THEN "timeout"
      ELSE IF answer.err # "none" THEN "transport_error"
      ELSE IF semantic # "" THEN semantic
      ELSE failureKindOfStatus(answer.status)

errorKindOfStatus(status) ==
  CASE status = 429          -> "rate_limited"
    [] status = 408          -> "timeout"
    [] status = 404          -> "endpoint_not_supported"
    [] status \in {401, 403} -> "auth_or_permission"
    [] status >= 500         -> "upstream_error"
    [] OTHER                 -> "upstream_http_error"

\* What an error answer is called in upstream_error_logs.
upstreamHTTPErrorKind(status, body) ==
  LET semantic == semanticFailoverKind(status, body)
  IN  IF semantic # "" THEN semantic ELSE errorKindOfStatus(status)
=============================================================================
