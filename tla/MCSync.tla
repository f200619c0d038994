------------------------------ MODULE MCSync ------------------------------
(* ConfigSync on small instances: the values of its constants.             *)
EXTENDS ConfigSync, TLC

St(name, failureThreshold, recoveryThreshold) ==
  [name |-> name, enabled |-> TRUE, protocols |-> {"openai"}, priority |-> 0,
   failureThreshold |-> failureThreshold, recoveryThreshold |-> recoveryThreshold,
   cooldown |-> 1, parses |-> TRUE]

Map(station, enabled) ==
  [station |-> station, protocol |-> "openai", alias |-> "gpt", enabled |-> enabled]

Snap(sts, maps) == [readable |-> TRUE, stations |-> sts, mappings |-> maps]

NoRows == <<>>
One == <<St("a", 1, 1)>>
OneMap == <<Map(1, TRUE)>>
OneRow == <<[state |-> "healthy", cooldownUntil |-> 0, failures |-> 0, recoveries |-> 1]>>

\* A form that renames, and one that raises the thresholds.
EditForms == {St("b", 2, 1)}
MapForms == {Map(1, FALSE)}

\* Another device's configuration; a rival with thresholds no form lets through; one
\* with a station that serves no protocol.
Foreigners == {Snap({St("a", 2, 1), St("b", 0, 0)}, {Map("b", TRUE)}),
            Snap({[St("c", 1, 1) EXCEPT !.protocols = {}]}, {})}

\* Sound: the two sync requests are alike, and no property names one.
Requests == Permutations(Syncs)
=============================================================================
