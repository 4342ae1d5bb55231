------------------------------- MODULE Routing -------------------------------
(***************************************************************************)
(* RoutingModule (routing/index.ts): the routing table and the buckets of  *)
(* the peers by their XOR distance from this node.                         *)
(*                                                                         *)
(* A peer id is a sequence of Bits bits; one with other digits is not      *)
(* hexadecimal.  The code has 256 buckets: a longer id could belong in     *)
(* none of them.  A time is the number of ticks since an entry was last    *)
(* seen, up to Stale, which stands for more than five minutes.  A table    *)
(* entry and the bucket entry of the same peer carry times of their own.   *)
(* Reputation, load and the sets of connected peers are counters of their  *)
(* own and not here.                                                       *)
(***************************************************************************)
EXTENDS Naturals

CONSTANTS
    Bits,           \* length of a peer id
    SelfId,         \* this node
    RoutePeers,     \* the peers it hears of
    Stale           \* the age at which an entry is stale

ASSUME RoutingAssumption == Bits \in 1..256 /\ Stale \in Nat

Buckets == 1..Bits

VARIABLES
    table,      \* routingTable: the peers in it
    seen,       \* ticks since lastSeen of a table entry
    available,  \* peers whose table entry isAvailable
    bucket,     \* the peers in each bucket
    bucketSeen  \* ticks since lastSeen of a bucket entry

routeVars == <<table, seen, available, bucket, bucketSeen>>

RoutingTypeOK ==
    /\ table \subseteq RoutePeers
    /\ available \subseteq table
    /\ seen \in [RoutePeers -> 0..Stale]
    /\ bucket \in [Buckets -> SUBSET RoutePeers]
    /\ bucketSeen \in [RoutePeers -> 0..Stale]

RoutingInit ==
    /\ table = {} /\ available = {}
    /\ seen = [p \in RoutePeers |-> 0]
    /\ bucket = [b \in Buckets |-> {}]
    /\ bucketSeen = [p \in RoutePeers |-> 0]

-----------------------------------------------------------------------------
(* The bucket of a peer: the first bit in which it differs from this node, *)
(* the last bucket if there is none, or if an id is not hexadecimal, as    *)
(* the ids of libp2p are not.                                              *)
IsHex(p) == \A i \in 1..Bits : p[i] \in {0, 1}

GetBucketIdForPeer(p) ==
    LET differ == {i \in 1..Bits : p[i] # SelfId[i]} IN
    IF ~IsHex(p) \/ ~IsHex(SelfId) \/ differ = {} THEN Bits
    ELSE CHOOSE i \in differ : \A j \in differ : i <= j

InBuckets == UNION {bucket[b] : b \in Buckets}

-----------------------------------------------------------------------------
(* The statements on table and buckets.                                    *)

PutInTable(p, isAvailable) ==
    /\ table' = table \cup {p}
    /\ seen' = [seen EXCEPT ![p] = 0]
    /\ available' = IF isAvailable THEN available \cup {p} ELSE available \ {p}

(* Mutant: the peers stay in their buckets. *)
FromBucketsNone(b, ps) == bucket[b]

FromBuckets(b, ps) == bucket[b] \ ps

(* removePeerFromRoutingTable of several peers.                            *)
Remove(ps) ==
    /\ table' = table \ ps
    /\ available' = available \ ps
    /\ bucket' = [b \in Buckets |-> FromBuckets(b, ps)]
    /\ seen' = [p \in RoutePeers |-> IF p \in ps THEN 0 ELSE seen[p]]
    /\ bucketSeen' = [p \in RoutePeers |->
                        IF p \in ps THEN 0 ELSE bucketSeen[p]]

(* addPeerToRoutingTable.  A peer that is in its bucket stays there with   *)
(* the time it had.  A bucket that is too large is told to evict its       *)
(* oldest peer unless a ping finds it alive, and every ping does.          *)
AddPeerToRoutingTable(p, isAvailable) ==
    LET b == GetBucketIdForPeer(p) IN
    /\ PutInTable(p, isAvailable)
    /\ bucket' = [bucket EXCEPT ![b] = @ \cup {p}]
    /\ bucketSeen' = IF p \in bucket[b] THEN bucketSeen
                     ELSE [bucketSeen EXCEPT ![p] = 0]

(* updateRoutingTableEntry of a peer in the table; of another it is        *)
(* addPeerToRoutingTable.                                                  *)
UpdateRoutingTableEntry(p, isAvailable) ==
    /\ p \in table
    /\ PutInTable(p, isAvailable)
    /\ bucketSeen' = IF p \in bucket[GetBucketIdForPeer(p)]
                     THEN [bucketSeen EXCEPT ![p] = 0] ELSE bucketSeen
    /\ UNCHANGED bucket

RemovePeerFromRoutingTable(p) ==
    /\ p \in table
    /\ Remove({p})

(* cleanupStaleEntries goes by the times of the table ...                  *)
CleanupStaleEntries ==
    /\ Remove({p \in table : seen[p] = Stale})

(* ... and optimizeBuckets by those of the buckets.                        *)
OptimizeBuckets ==
    /\ Remove({p \in InBuckets : bucketSeen[p] = Stale})

Older(age) == [p \in RoutePeers |->
    IF p \in table /\ age[p] < Stale THEN age[p] + 1 ELSE age[p]]

TimePasses ==
    /\ seen' = Older(seen)
    /\ bucketSeen' = Older(bucketSeen)
    /\ UNCHANGED <<table, available, bucket>>

RoutingNext ==
    \/ \E p \in RoutePeers, isAvailable \in BOOLEAN :
        \/ AddPeerToRoutingTable(p, isAvailable)
        \/ UpdateRoutingTableEntry(p, isAvailable)
    \/ \E p \in RoutePeers : RemovePeerFromRoutingTable(p)
    \/ CleanupStaleEntries
    \/ OptimizeBuckets
    \/ TimePasses

RoutingSpec == RoutingInit /\ [][RoutingNext]_routeVars

-----------------------------------------------------------------------------
(* The table and the buckets hold the same peers, each in one bucket, its  *)
(* own, though four operations change them and two of those decide by the  *)
(* times of one side only.                                                 *)
BucketsMatchTable ==
    \A b \in Buckets : bucket[b] = {p \in table : GetBucketIdForPeer(p) = b}

=============================================================================
