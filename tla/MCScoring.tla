----------------------------- MODULE MCScoring -----------------------------
(* Scoring on small instances: the values of its constants.                *)
EXTENDS Scoring, TLC

St(name, priority) ==
  [name |-> name, enabled |-> TRUE, protocols |-> {"openai"}, priority |-> priority,
   failureThreshold |-> 1, recoveryThreshold |-> 1, cooldown |-> 1, parses |-> TRUE]

NoRows == <<>>
Two == <<St("a", 0), St("b", 0)>>

\* The form that gives a name to another station.
TakeName == {St("a", 0)}
NoForms == {}

OneCall == {[query |-> [protocol |-> "openai", alias |-> "gpt"], ms |-> 2, failed |-> TRUE]}
=============================================================================
