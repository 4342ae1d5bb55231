------------------------------ MODULE PeerCache ------------------------------
(***************************************************************************)
(* The table routing_cache (database/index.ts) of the peers a node may     *)
(* dial again, the connection events that write to it, and the call that   *)
(* dials what it lists.  YapYapNode (core/node.ts) and NetworkModule       *)
(* (network/NetworkModule.ts) handle "peer:connect" differently: only      *)
(* NetworkModule writes the row of the peer.                               *)
(*                                                                         *)
(* A row is available or not, and past its lifetime or not; its addresses  *)
(* and which of them a dial tries are left out, since a dial that fails    *)
(* on the first address is repeated by peer id.                            *)
(***************************************************************************)
EXTENDS Naturals

CONSTANT CachePeers

VARIABLES
    network,    \* whether NetworkModule handles the events
    up,
    connected,
    entry,      \* the row of each peer: "none", "available" or "unavailable"
    old,        \* rows past last_seen + ttl
    toDial,     \* what the call of dialCachedPeers has still to dial
    dialling,   \* whether one is in progress
    departed    \* ghost: peers whose disconnection was the last event of
                \* them that the table was told of

cacheVars == <<network, up, connected, entry, old, toDial, dialling,
               departed>>

CacheTypeOK ==
    /\ network \in BOOLEAN /\ up \in BOOLEAN /\ dialling \in BOOLEAN
    /\ connected \subseteq CachePeers
    /\ entry \in [CachePeers -> {"none", "available", "unavailable"}]
    /\ old \subseteq {p \in CachePeers : entry[p] # "none"}
    /\ toDial \subseteq CachePeers
    /\ departed \subseteq CachePeers

CacheInit ==
    /\ network \in BOOLEAN
    /\ up = TRUE
    /\ connected = {}
    /\ entry = [p \in CachePeers |-> "none"] /\ old = {}
    /\ toDial = {} /\ dialling = FALSE
    /\ departed = {}

-----------------------------------------------------------------------------
(* savePeerMultiaddrs, saveRoutingEntryLww and markPeerAvailable of a row  *)
(* there is: it is available and its lifetime begins again.                *)
Save(p) ==
    /\ entry' = [entry EXCEPT ![p] = "available"]
    /\ old' = old \ {p}
    /\ departed' = departed \ {p}

(* Mutant: the row of a peer that disconnects stays available. *)
MarkPeerUnavailableNot(p) == UNCHANGED entry /\ departed' = departed \cup {p}

MarkPeerUnavailable(p) ==
    /\ entry' = [entry EXCEPT ![p] = IF @ = "none" THEN @ ELSE "unavailable"]
    /\ departed' = departed \cup {p}

(* getAllCachedPeers                                                       *)
CachedPeers == {p \in CachePeers : entry[p] = "available"} \ old

(* What "peer:connect" does to the table.                                  *)
CacheOnConnect(p) ==
    \/ network /\ Save(p)
    \/ ~network /\ UNCHANGED <<entry, old, departed>>

Connects(p) ==
    /\ p \notin connected
    /\ connected' = connected \cup {p}
    /\ CacheOnConnect(p)

(* A connection the peer opens, or a dial of this node other than below.   *)
CacheConnect(p) ==
    /\ up
    /\ Connects(p)
    /\ UNCHANGED <<network, up, toDial, dialling>>

(* "peer:disconnect": the last connection to the peer is closed.           *)
Disconnect(p) ==
    /\ up
    /\ p \in connected
    /\ connected' = connected \ {p}
    /\ MarkPeerUnavailable(p)
    /\ UNCHANGED <<network, up, old, toDial, dialling>>

(* doDHTWalk and triggerPeerDiscovery find addresses of a peer, and        *)
(* addOrUpdateContact saves some, whether it can be reached or not.        *)
Discover(p) ==
    /\ up
    /\ Save(p)
    /\ UNCHANGED <<network, up, connected, toDial, dialling>>

(* last_seen + ttl is past: 24 hours after it was found, one hour after it *)
(* came with a contact.                                                    *)
Ages(p) ==
    /\ entry[p] # "none"
    /\ old' = old \cup {p}
    /\ UNCHANGED <<network, up, connected, entry, toDial, dialling,
                   departed>>

(* cleanup(), in a retry pass: deleteStaleRoutingEntries.                  *)
DeleteStaleRoutingEntries ==
    /\ up
    /\ entry' = [p \in CachePeers |-> IF p \in old THEN "none" ELSE entry[p]]
    /\ old' = {}
    /\ UNCHANGED <<network, up, connected, toDial, dialling, departed>>

(* dialCachedPeers takes the list once and goes through it in the order of *)
(* the table's times, which is any; each dial is awaited.                  *)
DialCachedPeers ==
    /\ up
    /\ ~dialling
    /\ dialling' = TRUE
    /\ toDial' = CachedPeers
    /\ UNCHANGED <<network, up, connected, entry, old, departed>>

DialSucceeds(p) ==
    /\ p \in toDial
    /\ toDial' = toDial \ {p}
    /\ \/ Connects(p)
       \/ p \in connected /\ UNCHANGED <<connected, entry, old, departed>>
    /\ UNCHANGED <<network, up, dialling>>

DialFails(p) ==
    /\ p \in toDial
    /\ toDial' = toDial \ {p}
    /\ UNCHANGED <<network, up, connected, entry, old, dialling, departed>>

CachedDialsEnd ==
    /\ dialling
    /\ toDial = {}
    /\ dialling' = FALSE
    /\ UNCHANGED <<network, up, connected, entry, old, toDial, departed>>

(* The process dies: nobody handles the end of its connections.            *)
NodeDies ==
    /\ up
    /\ up' = FALSE
    /\ connected' = {} /\ toDial' = {} /\ dialling' = FALSE
    /\ UNCHANGED <<network, entry, old, departed>>

NodeStarts ==
    /\ ~up
    /\ up' = TRUE
    /\ UNCHANGED <<network, connected, entry, old, toDial, dialling,
                   departed>>

CacheNext ==
    \/ \E p \in CachePeers :
        \/ CacheConnect(p) \/ Disconnect(p) \/ Discover(p) \/ Ages(p)
        \/ DialSucceeds(p) \/ DialFails(p)
    \/ DeleteStaleRoutingEntries
    \/ DialCachedPeers \/ CachedDialsEnd
    \/ NodeDies \/ NodeStarts

CacheSpec == CacheInit /\ [][CacheNext]_cacheVars

-----------------------------------------------------------------------------
(* The list of peers to dial holds none whose disconnection was the last   *)
(* that was heard of it: such a peer is dialled again only if somebody     *)
(* else tells of it (node.ts:505, and the README on docs/skill.md:283).    *)
(* But a peer that was connected when the process died is listed.  While   *)
(* NetworkModule handles the events, no row calls a connected peer         *)
(* unavailable; YapYapNode, which never marks one available, leaves such   *)
(* rows (node.ts:484).                                                     *)
CachedHasNotLeft ==
    /\ CachedPeers \cap departed = {}
    /\ network => \A p \in connected : entry[p] # "unavailable"

=============================================================================
