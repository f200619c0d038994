----------------------------- MODULE MCGateway -----------------------------
(* The composed gateway on small instances: the values of its constants.   *)
EXTENDS Gateway, TLC

St(name, enabled, priority, failureThreshold, recoveryThreshold) ==
  [name |-> name, enabled |-> enabled, protocols |-> {"openai"}, priority |-> priority,
   failureThreshold |-> failureThreshold, recoveryThreshold |-> recoveryThreshold,
   cooldown |-> 1, parses |-> TRUE]

Map(station, enabled) ==
  [station |-> station, protocol |-> "openai", alias |-> "gpt", enabled |-> enabled]

Row(state, until, failures, recoveries) ==
  [state |-> state, cooldownUntil |-> until, failures |-> failures, recoveries |-> recoveries]

OpenAIQuery == {[protocol |-> "openai", alias |-> "gpt"]}

One == <<St("a", TRUE, 0, 1, 1)>>
Cooling == <<Row("cooldown", 1, 1, 0)>>
OneTwice == <<St("a", TRUE, 0, 2, 2)>>
OneMap == <<Map(1, TRUE)>>
Healthy == <<Row("healthy", 0, 0, 1)>>

NoForms == {}
EditForms == {St("a", FALSE, 0, 1, 1), St("b", TRUE, 1, 1, 1)}
MapForms == {Map(1, TRUE), Map(2, FALSE), Map(2, TRUE)}

NoRows == <<>>
NoScores == {<<>>}

Ok == [err |-> "none", status |-> 200, body |-> ""]
ServerError == [err |-> "none", status |-> 500, body |-> ""]
Broken == [err |-> "transport", status |-> 0, body |-> ""]
OkOrBroken == {Ok, Broken}
OkOrServerError == {Ok, ServerError}
=============================================================================
