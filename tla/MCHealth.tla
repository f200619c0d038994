------------------------------ MODULE MCHealth ------------------------------
(* HealthLoop on small instances: the values of its constants.              *)
EXTENDS HealthLoop, TLC

St(name, protocols, failureThreshold, recoveryThreshold) ==
  [name |-> name, enabled |-> TRUE, protocols |-> protocols, priority |-> 0,
   failureThreshold |-> failureThreshold, recoveryThreshold |-> recoveryThreshold,
   cooldown |-> 1, parses |-> TRUE]

\* Between two stations, one whose URL does not parse.
Three == <<St("a", {"openai"}, 2, 2), [St("c", {"openai"}, 2, 2) EXCEPT !.parses = FALSE],
           St("b", {"anthropic"}, 2, 2)>>
OneRow == (1 :> [state |-> "cooldown", cooldownUntil |-> 2, failures |-> 2, recoveries |-> 0])
NoMaps == <<>>
Thresholds == {[failure |-> 0, recovery |-> 0], [failure |-> 2, recovery |-> 2]}
=============================================================================
