-------------------------------- MODULE MCNode --------------------------------
(***************************************************************************)
(* Finite instances of the components of one node that neither call nor    *)
(* read each other, side by side.  A behaviour exercises the one component *)
(* that `focus` names, and the others stay in an initial state; so the     *)
(* states are the sum of theirs, and the properties of each are those of   *)
(* its own specification.                                                  *)
(***************************************************************************)
EXTENDS PeerKeys, Streams, ConnectionHealth, EventBus, Emitters, Routing,
        Sessions, Sync, Gossip, Admission, PeerCache, NodeKeys, Shutdown

VARIABLE focus

(* The constants of Routing and Admission, and for Gossip a path, a star,  *)
(* and a triangle with a tail.                                             *)
MCSelfId == <<0, 0, 0>>
MCRoutePeers == {<<0, 0, 1>>, <<0, 1, 0>>, <<1, 0, 0>>, <<2, 0, 0>>}
MCCost == [origin |-> 2, peer |-> 3]
MCBurst == [origin |-> 6, peer |-> 7]
MCTopologies == {{{1, 2}, {2, 3}, {3, 4}}, {{1, 2}, {1, 3}, {1, 4}},
                 {{1, 2}, {2, 3}, {1, 3}, {3, 4}}}

-----------------------------------------------------------------------------
nodeVars == <<focus, vars, streamVars, healthVars, busVars, emitterVars,
              routeVars, sessionVars, syncVars, gossipVars, admissionVars,
              cacheVars, identityVars, shutdownVars>>

Components == {"keys", "streams", "health", "bus", "emitters", "routing",
               "sessions", "sync", "gossip", "admission", "cache",
               "node keys", "shutdown"}

(* Where a component may begin in several states, the ones not in focus    *)
(* stay in one of them.                                                    *)
NodeInit ==
    /\ focus \in Components
    /\ Init /\ StreamsInit /\ HealthInit /\ BusInit /\ EmittersInit
    /\ RoutingInit /\ SessionsInit /\ SyncInit /\ GossipInit
    /\ AdmissionInit /\ CacheInit /\ IdentityInit /\ ShutdownInit
    /\ focus = "streams" \/ (handler = "node" /\ huge = 0)
    /\ focus = "gossip" \/ (links = {{1, 2}, {2, 3}, {3, 4}} /\ origin = 1 /\ valid)
    /\ focus = "cache" \/ network

Stays(c, v) == IF focus = c THEN TRUE ELSE UNCHANGED v

NodeNext ==
    /\ \/ focus = "keys" /\ Next
       \/ focus = "streams" /\ StreamsNext
       \/ focus = "health" /\ HealthNext
       \/ focus = "bus" /\ BusNext
       \/ focus = "emitters" /\ EmittersNext
       \/ focus = "routing" /\ RoutingNext
       \/ focus = "sessions" /\ SessionsNext
       \/ focus = "sync" /\ SyncNext
       \/ focus = "gossip" /\ GossipNext
       \/ focus = "admission" /\ AdmissionNext
       \/ focus = "cache" /\ CacheNext
       \/ focus = "node keys" /\ IdentityNext
       \/ focus = "shutdown" /\ ShutdownNext
    /\ UNCHANGED focus
    /\ Stays("keys", vars) /\ Stays("streams", streamVars)
    /\ Stays("health", healthVars) /\ Stays("bus", busVars)
    /\ Stays("emitters", emitterVars) /\ Stays("routing", routeVars)
    /\ Stays("sessions", sessionVars) /\ Stays("sync", syncVars)
    /\ Stays("gossip", gossipVars) /\ Stays("admission", admissionVars)
    /\ Stays("cache", cacheVars) /\ Stays("node keys", identityVars)
    /\ Stays("shutdown", shutdownVars)

(* The fairness of PeerKeys, of ConnectionHealth and of Emitters. *)
NodeFairness ==
    /\ WF_vars(focus = "keys" /\ HelloContinues)
    /\ \A s \in Sends : WF_vars(focus = "keys" /\ Resumes(s))
    /\ \A p \in Remotes :
        WF_healthVars(focus = "health" /\ BecomesIdle(p))
    /\ \A c \in Checks :
        /\ WF_healthVars(focus = "health" /\ CheckStarts(c))
        /\ WF_healthVars(focus = "health" /\ Goes(c))
        /\ SF_healthVars(focus = "health" /\ Closes(c))
    /\ WF_emitterVars(focus = "emitters" /\ SomeTimerFires)
    /\ WF_emitterVars(focus = "emitters" /\ SomeFlushGoes)
    /\ WF_emitterVars(focus = "emitters" /\ IntervalEnds)
    /\ WF_emitterVars(focus = "emitters" /\ EmitReturns)

NodeSpec == NodeInit /\ [][NodeNext]_nodeVars /\ NodeFairness

-----------------------------------------------------------------------------
(* Every variable keeps its type: the type invariants of the components.   *)
TypeOK ==
    /\ KeysTypeOK /\ StreamsTypeOK /\ HealthTypeOK /\ BusTypeOK
    /\ EmittersTypeOK /\ RoutingTypeOK /\ SessionsTypeOK /\ SyncTypeOK
    /\ GossipTypeOK /\ AdmissionTypeOK /\ CacheTypeOK
    /\ IdentityTypeOK /\ ShutdownTypeOK

=============================================================================
