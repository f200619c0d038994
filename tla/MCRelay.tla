------------------------------- MODULE MCRelay -------------------------------
(* RelayRequest on small instances: the values of its constants.            *)
EXTENDS RelayRequest, TLC

St(name, priority, failureThreshold, recoveryThreshold) ==
  [name |-> name, enabled |-> TRUE, protocols |-> {"openai"}, priority |-> priority,
   failureThreshold |-> failureThreshold, recoveryThreshold |-> recoveryThreshold,
   cooldown |-> 1, parses |-> TRUE]

Map(station) == [station |-> station, protocol |-> "openai", alias |-> "gpt", enabled |-> TRUE]

Row(state, until, failures, recoveries) ==
  [state |-> state, cooldownUntil |-> until, failures |-> failures, recoveries |-> recoveries]

OpenAIQuery == {[protocol |-> "openai", alias |-> "gpt"]}

Two == <<St("a", 0, 2, 2), St("b", 1, 1, 2)>>
TwoMaps == <<Map(1), Map(2)>>
TwoRows == (1 :> Row("healthy", 0, 0, 1))

Three == <<St("a", 0, 2, 2), St("b", 1, 1, 2), [St("c", 0, 0, 1) EXCEPT !.protocols = {"openai", "anthropic"}]>>
ThreeMaps == <<Map(1), Map(2), Map(3), [Map(3) EXCEPT !.protocol = "anthropic"]>>

Solo == <<St("a", 0, 2, 2)>>
OneMap == <<Map(1)>>

NoRows == <<>>

NoScores == {<<>>}
TwoTables == {<<>>, (<<"openai", "gpt", 3>> :> [score |-> 7, enough |-> TRUE])}

Ok == [err |-> "none", status |-> 200, body |-> ""]
Unauthorized == [err |-> "none", status |-> 401, body |-> ""]
ServerError == [err |-> "none", status |-> 500, body |-> ""]
OutOfQuota == [err |-> "none", status |-> 403, body |-> "quota_limited"]
Refused == [err |-> "transport", status |-> 0, body |-> ""]
TimedOut == [err |-> "timeout", status |-> 0, body |-> ""]

OnlyBroken == {Refused}
FewAnswers == {Ok, ServerError}
AllAnswers == {Ok, Unauthorized, ServerError, OutOfQuota, Refused, TimedOut}
=============================================================================
