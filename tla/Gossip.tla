-------------------------------- MODULE Gossip --------------------------------
(***************************************************************************)
(* The route protocol (protocols/route.ts) as NetworkModule runs it: a     *)
(* node that receives an announcement with a valid signature notes its     *)
(* origin in the RoutingTable and sends the announcement on, as it is, to  *)
(* every node it is connected to but the one it had it from.  It keeps no  *)
(* record of announcements, and an announcement carries no hop count.      *)
(*                                                                         *)
(* Announcements do not meet, so the module follows one.  A copy of it may *)
(* be lost: a dial or a send of the broadcaster failed, which then goes on *)
(* to the next connection.                                                 *)
(***************************************************************************)
EXTENDS Naturals, FiniteSets

CONSTANTS
    RouteNodes,
    Topologies,     \* sets of links, one of which connects the nodes
    MaxHeard,       \* bound: how often a node takes the announcement
    MaxLost,        \* bound: copies lost
    MaxQueries      \* bound: route queries asked

ASSUME GossipAssumption ==
    /\ IsFiniteSet(RouteNodes)
    /\ \A t \in Topologies : t \subseteq {{n, m} : n, m \in RouteNodes}
    /\ MaxHeard \in Nat /\ MaxLost \in Nat /\ MaxQueries \in Nat

VARIABLES
    links,      \* the sets of two connected nodes
    origin,     \* the node that announces itself, and what of: its
    valid,      \*    signature
    announced,
    copies,     \* how many copies are on their way from a node to another
    routes,     \* RoutingTable of each node
    received,      \* how often each node received it
    lost,       \* copies that were lost
    queries

gossipVars == <<links, origin, valid, announced, copies, routes, received,
                lost, queries>>

Hops == {h \in RouteNodes \X RouteNodes : h[1] # h[2]}

GossipTypeOK ==
    /\ links \in Topologies
    /\ origin \in RouteNodes
    /\ valid \in BOOLEAN /\ announced \in BOOLEAN
    /\ copies \in [Hops -> Nat]
    /\ routes \in [RouteNodes -> SUBSET RouteNodes]
    /\ received \in [RouteNodes -> 0..MaxHeard]
    /\ lost \in 0..MaxLost
    /\ queries \in 0..MaxQueries

Neighbours(n) == {m \in RouteNodes \ {n} : {n, m} \in links}

(* peer:connect has noted every node a node is connected to.               *)
GossipInit ==
    /\ links \in Topologies
    /\ origin \in RouteNodes
    /\ valid \in BOOLEAN /\ announced = FALSE
    /\ copies = [h \in Hops |-> 0]
    /\ routes = [n \in RouteNodes |-> Neighbours(n)]
    /\ received = [n \in RouteNodes |-> 0]
    /\ lost = 0 /\ queries = 0

-----------------------------------------------------------------------------
(* What is on its way after hop `out` was taken and n sent to `receivers`. *)
Sent(n, receivers, out) ==
    [h \in Hops |-> copies[h]
        + (IF h[1] = n /\ h[2] \in receivers THEN 1 ELSE 0)
        - (IF h = out THEN 1 ELSE 0)]

Announce ==
    /\ ~announced
    /\ announced' = TRUE
    /\ copies' = Sent(origin, Neighbours(origin), <<>>)
    /\ UNCHANGED <<links, origin, valid, routes, received, lost, queries>>

(* Mutant: the announcement is sent back to the node it came from. *)
ReceiversAll(n, from) == Neighbours(n)

(* createRouteBroadcaster: the connections n sends on to.                  *)
Receivers(n, from) == Neighbours(n) \ {from}

(* handleRouteAnnounce, with a signature that verifies and with another.   *)
HandleRouteAnnounce(h) ==
    LET n == h[2] IN
    /\ valid
    /\ copies[h] > 0 /\ received[n] < MaxHeard
    /\ received' = [received EXCEPT ![n] = @ + 1]
    /\ routes' = [routes EXCEPT ![n] = @ \cup {origin}]
    /\ copies' = Sent(n, Receivers(n, h[1]), h)
    /\ UNCHANGED <<links, origin, valid, announced, lost, queries>>

RejectRouteAnnounce(h) ==
    /\ ~valid
    /\ copies[h] > 0 /\ received[h[2]] < MaxHeard
    /\ received' = [received EXCEPT ![h[2]] = @ + 1]
    /\ copies' = Sent(h[2], {}, h)
    /\ UNCHANGED <<links, origin, valid, announced, routes, lost, queries>>

Lose(h) ==
    /\ copies[h] > 0
    /\ lost < MaxLost
    /\ lost' = lost + 1
    /\ copies' = Sent(h[1], {}, h)
    /\ UNCHANGED <<links, origin, valid, announced, routes, received, queries>>

(* handleRouteQuery at a neighbour and handleRouteResult back at n.  The   *)
(* result names n as its origin, whatever was asked, so n notes itself.    *)
QueryRoute(n) ==
    /\ Neighbours(n) # {}
    /\ queries < MaxQueries
    /\ queries' = queries + 1
    /\ routes' = [routes EXCEPT ![n] = @ \cup {n}]
    /\ UNCHANGED <<links, origin, valid, announced, copies, received, lost>>

GossipNext ==
    \/ Announce
    \/ \E h \in Hops :
        HandleRouteAnnounce(h) \/ RejectRouteAnnounce(h) \/ Lose(h)
    \/ \E n \in RouteNodes : QueryRoute(n)

GossipSpec == GossipInit /\ [][GossipNext]_gossipVars

-----------------------------------------------------------------------------
(* The links form no cycle: any set of them touches more nodes than it has *)
(* links.                                                                  *)
Forest ==
    \A s \in SUBSET links : s # {} => Cardinality(UNION s) > Cardinality(s)

OnItsWay == \E h \in Hops : copies[h] > 0

(* Where the links form no cycle, no node hears an announcement twice and  *)
(* its origin not at all: only the topology keeps one from going round for *)
(* ever.  And once none of it is on its way, unless a copy was lost, it    *)
(* has stopped nowhere: each node that has it has neighbours that do.      *)
HeardOnceOnForest ==
    /\ Forest => received[origin] = 0 /\ \A n \in RouteNodes : received[n] <= 1
    /\ announced /\ valid /\ ~OnItsWay /\ lost = 0 =>
        \A n \in RouteNodes : \A m \in Neighbours(n) \ {origin} :
            n = origin \/ received[n] > 0 =>
                received[m] > 0 /\ origin \in routes[m]

=============================================================================
