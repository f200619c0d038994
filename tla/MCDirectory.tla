---------------------------- MODULE MCDirectory ----------------------------
(* SyncDirectory on small instances: the values of its constants.          *)
EXTENDS SyncDirectory, TLC

CONSTANTS d1, d2, d3

\* The first device's clock is a second ahead; two devices bear the same name.
OneAhead == d1 :> 1 @@ d2 :> 0 @@ d3 :> 0
Namesakes == d1 :> 1 @@ d2 :> 2 @@ d3 :> 2

\* Sound: the two are alike, and no property names one.
Alike == Permutations({d2, d3})

Alone == d1 :> 1
=============================================================================
