---------------------------- MODULE RelayContract ----------------------------
(***************************************************************************)
(* What the relay promises the sender of one request, whatever the store,  *)
(* the health loop and the other requests do (README, "Health, Failover,   *)
(* and Cooldown"; the comment on failover in proxyNormalizedRequest):      *)
(* it fixes a set of stations, calls them one at a time, none twice, lets  *)
(* exactly one of them, the one being called, answer the client, calls     *)
(* nobody after that, and gives up only when every station has failed.     *)
(***************************************************************************)
CONSTANTS Requests, StationIds

VARIABLES phase,    \* per request: how far it is
          untried,  \* per request: the chosen stations not called yet
          current   \* per request: the station being called, or the one that answered

vars == <<phase, untried, current>>

Final == {"refused", "none", "relayed", "gaveUp", "dropped"}
Phase == {"new", "deciding", "trying", "relaying"} \cup Final

Init == /\ phase = [r \in Requests |-> "new"]
        /\ untried = [r \in Requests |-> {}]
        /\ current = [r \in Requests |-> {}]

Move(r, from, to) == phase[r] = from /\ phase' = [phase EXCEPT ![r] = to]

Accept(r) == Move(r, "new", "deciding") /\ UNCHANGED <<untried, current>>

Refuse(r) == Move(r, "new", "refused") /\ UNCHANGED <<untried, current>>

NoStation(r) == Move(r, "deciding", "none") /\ UNCHANGED <<untried, current>>

Begin(r) == /\ Move(r, "deciding", "trying")
            /\ untried'[r] \subseteq StationIds /\ untried'[r] # {}
            /\ untried' = [untried EXCEPT ![r] = untried'[r]]
            /\ UNCHANGED current

Call(r) == /\ phase[r] = "trying" /\ current[r] = {}
           /\ \E id \in untried[r] : /\ current' = [current EXCEPT ![r] = {id}]
                                     /\ untried' = [untried EXCEPT ![r] = @ \ {id}]
           /\ UNCHANGED phase

Fail(r) == /\ phase[r] = "trying" /\ current[r] # {}
           /\ current' = [current EXCEPT ![r] = {}]
           /\ UNCHANGED <<phase, untried>>

Relay(r) == /\ current[r] # {}
            /\ Move(r, "trying", "relaying")
            /\ untried' = [untried EXCEPT ![r] = {}]
            /\ UNCHANGED current

Finish(r) == Move(r, "relaying", "relayed") /\ UNCHANGED <<untried, current>>

GiveUp(r) == /\ untried[r] = {} /\ current[r] = {}
             /\ Move(r, "trying", "gaveUp")
             /\ UNCHANGED <<untried, current>>

\* A database error, a request that cannot be built, a client or a process gone.
Drop(r) == /\ phase[r] \in {"deciding", "trying", "relaying"}
           /\ phase' = [phase EXCEPT ![r] = "dropped"]
           /\ untried' = [untried EXCEPT ![r] = {}]
           /\ current' = [current EXCEPT ![r] = {}]

Step(r) == \/ Accept(r) \/ Refuse(r) \/ NoStation(r) \/ Begin(r) \/ Call(r) \/ Fail(r)
           \/ Relay(r) \/ Finish(r) \/ GiveUp(r) \/ Drop(r)

\* The process dies: every request under way is dropped.
Die == LET survives(r) == phase[r] \in Final \cup {"new"}
       IN  /\ phase'   = [r \in Requests |-> IF survives(r) THEN phase[r] ELSE "dropped"]
           /\ untried' = [r \in Requests |-> IF survives(r) THEN untried[r] ELSE {}]
           /\ current' = [r \in Requests |-> IF survives(r) THEN current[r] ELSE {}]

Next == (\E r \in Requests : Step(r)) \/ Die

Spec == Init /\ [][Next]_vars
=============================================================================
