------------------------------- MODULE Gateway -------------------------------
(***************************************************************************)
(* cmd/local-relay-gateway/main.go: the running process.  The requests,    *)
(* the health loop and the admin handlers share the store and nothing      *)
(* else; the process stops on a signal, and may die at any moment, losing  *)
(* everything but the database.                                            *)
(***************************************************************************)
EXTENDS RelayRequest, HealthLoop, StationAdmin

CONSTANT Crashes   \* TRUE: the process may die and be started again

ASSUME CrashesAssumption == Crashes \in BOOLEAN

VARIABLE seen      \* history, per request: what held of each station at some moment
                   \* between the request's arrival and the choice of its targets

gatewayVars == <<storeVars, requestVars, healthVars, adminVars, seen>>

Unseen == [enabled |-> {}, mapped |-> {}, warm |-> {}]

Deciding == {"stations", "mappings", "statuses", "choose"}

\* The ids enabled, mapped for the query, and without a row in cooldown, in the tables
\* given.  A station deleted has no row.
Facts(query, st, maps, stats) ==
  [enabled |-> {id \in DOMAIN st : st[id].enabled /\ query.protocol \in st[id].protocols},
   mapped  |-> {maps[i].station : i \in {j \in DOMAIN maps :
                  maps[j].enabled /\ maps[j].protocol = query.protocol
                                  /\ maps[j].alias = query.alias}},
   warm    |-> {id \in Ids : StatusOf(stats, id).state # "cooldown"}]

Watch ==
  seen' = [r \in Requests |->
    LET facts == Facts(handler'[r].query, stations', mappings', statuses')
    IN  IF handler'[r].pc \in Deciding
        THEN [f \in DOMAIN Unseen |-> seen[r][f] \cup facts[f]]
        ELSE seen[r]]

GatewayInit == /\ StoreInit /\ RequestInit /\ HealthInit /\ AdminInit
               /\ seen = [r \in Requests |-> Unseen]

\* The listener is closed once the root context is cancelled (server.Shutdown);
\* requests under way go on.
ServeRequest(r) ==
  /\ stopping => handler[r].pc # "idle"
  /\ RequestStep(r)
  /\ UNCHANGED <<healthVars, adminVars>>

HealthCheck == HealthStep /\ UNCHANGED <<requestVars, adminVars>>

UpstreamFlaps == /\ \E id \in DOMAIN stations : Flap(id)
                 /\ UNCHANGED <<requestVars, adminVars>>

ServeAdmin(a) ==
  /\ stopping => admin[a] # NoForm
  /\ AdminStep(a)
  /\ UNCHANGED <<requestVars, healthVars>>

ShutDown == Signal /\ UNCHANGED <<requestVars, adminVars>>

\* The process ends, killed or after the 5 s that Shutdown waits for the requests
\* under way, and is started again on the same database.
Restart ==
  /\ Crashes \/ stopping
  /\ handler' = [r \in Requests |->
                   IF handler[r].pc \in Open THEN [handler[r] EXCEPT !.pc = "lost",
                      !.stations = <<>>, !.mappings = {}, !.statuses = <<>>]
                   ELSE handler[r]]
  /\ HealthReset
  /\ admin' = [a \in Admins |-> NoForm]
  /\ UNCHANGED <<storeVars, logVars, attempts, down>>

PassTime == Tick /\ UNCHANGED <<requestVars, healthVars, adminVars>>

GatewayNext ==
  /\ \/ \E r \in Requests : ServeRequest(r)
     \/ HealthCheck
     \/ UpstreamFlaps
     \/ \E a \in Admins : ServeAdmin(a)
     \/ ShutDown
     \/ Restart
     \/ PassTime
  /\ Watch

GatewaySpec == GatewayInit /\ [][GatewayNext]_gatewayVars

-----------------------------------------------------------------------------
(* Properties *)

GatewayTypeOK == RelayTypeOK /\ HealthTypeOK /\ AdminTypeOK

\* The three reads behind a choice are not one snapshot, but none of them is
\* older than the request: every target was enabled for the protocol at some
\* moment since the request arrived, had an enabled mapping at some moment since,
\* and was out of cooldown at some moment since (ListStations, FindMappings,
\* ListStationStatuses, Candidates).
ChoiceIsFresh ==
  \A r \in Requests : \A i \in DOMAIN handler[r].targets :
    LET id == handler[r].targets[i].id
    IN  id \in seen[r].enabled /\ id \in seen[r].mapped /\ id \in seen[r].warm
=============================================================================
