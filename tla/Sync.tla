--------------------------------- MODULE Sync ---------------------------------
(***************************************************************************)
(* The sync protocol (protocols/sync.ts) between the node whose NodeState  *)
(* is asked and a peer that asks it for deltas.  One request is in         *)
(* progress at a time, and the peer asks next for what is newer than the   *)
(* timestamp of the last response it had; requests and responses may be    *)
(* lost.  NetworkModule hands no applyDelta to handleSyncMessage, so what  *)
(* a response of deltas brings is looked at and not applied; here it is    *)
(* what the peer has been told.                                            *)
(*                                                                         *)
(* Deltas are numbered in the order they are applied.  The clock counts    *)
(* milliseconds and need not move between two calls.                       *)
(***************************************************************************)
EXTENDS Naturals, Sequences, FiniteSets

CONSTANTS
    HistoryLimit,   \* deltas in deltaHistory
    RecentLimit,    \* of getRecentDeltas
    MaxDeltas,      \* bound: deltas applied
    MaxClock        \* bound: milliseconds

ASSUME SyncAssumption ==
    /\ HistoryLimit \in Nat \ {0} /\ RecentLimit \in Nat
    /\ MaxDeltas \in Nat \ {0} /\ MaxClock \in Nat

Deltas == 1..MaxDeltas
Never  == MaxClock + 1      \* lastSyncTimestamp is undefined

NoMessage == [at |-> Never, told |-> {}]

VARIABLES
    clock,
    stamp,      \* the timestamp of each delta applied
    oldest,     \* the oldest delta in deltaHistory
    since,      \* the peer's lastSyncTimestamp
    asking,     \* its request is on the way
    response,   \* the response on the way, or NoMessage
    told,       \* ghost: deltas the peer has been told of
    untold,     \* ghost: deltas the history could not tell of any more
    edges       \* ghost: the timestamps of the responses it has had

syncVars == <<clock, stamp, oldest, since, asking, response, told, untold,
              edges>>

Applied == 1..Len(stamp)
History == oldest..Len(stamp)

SyncTypeOK ==
    /\ clock \in 0..MaxClock
    /\ stamp \in Seq(0..MaxClock) /\ Len(stamp) <= MaxDeltas
    /\ oldest \in 1..MaxDeltas
    /\ Cardinality(History) <= HistoryLimit
    /\ since \in 0..Never
    /\ asking \in BOOLEAN
    /\ response \in [at : 0..Never, told : SUBSET Deltas]
    /\ told \subseteq Applied /\ untold \subseteq Applied
    /\ edges \subseteq 0..MaxClock

SyncInit ==
    /\ clock = 0
    /\ stamp = <<>> /\ oldest = 1
    /\ since = Never
    /\ asking = FALSE /\ response = NoMessage
    /\ told = {} /\ untold = {} /\ edges = {}

-----------------------------------------------------------------------------
SyncTick ==
    /\ clock < MaxClock
    /\ clock' = clock + 1
    /\ UNCHANGED <<stamp, oldest, since, asking, response, told, untold, edges>>

(* NodeState.applyDelta: the oldest delta leaves a history that is full.   *)
ApplyDelta ==
    /\ Len(stamp) < MaxDeltas
    /\ stamp' = Append(stamp, clock)
    /\ oldest' = IF Cardinality(History) = HistoryLimit THEN oldest + 1
                 ELSE oldest
    /\ UNCHANGED <<clock, since, asking, response, told, untold, edges>>

Ask ==
    /\ ~asking /\ response = NoMessage
    /\ asking' = TRUE
    /\ UNCHANGED <<clock, stamp, oldest, since, response, told, untold, edges>>

(* Mutant: deltas of the timestamp itself are sent again. *)
GetDeltasSinceInclusive(t) == {d \in History : stamp[d] >= t}

GetDeltasSince(t) == {d \in History : stamp[d] > t}

GetRecentDeltas == {d \in History : d + RecentLimit > Len(stamp)}

(* handleSyncRequest of a request for deltas.                              *)
HandleSyncRequest ==
    /\ asking
    /\ asking' = FALSE
    /\ response' = [at |-> clock,
                    told |-> IF since = Never THEN GetRecentDeltas
                             ELSE GetDeltasSince(since)]
    /\ untold' = untold \cup (1..oldest - 1)
                    \cup (IF since = Never THEN Applied \ GetRecentDeltas
                          ELSE {})
    /\ UNCHANGED <<clock, stamp, oldest, since, told, edges>>

(* handleSyncResponse, at the peer.                                        *)
HandleSyncResponse ==
    /\ response # NoMessage
    /\ told' = told \cup response.told
    /\ since' = response.at
    /\ edges' = edges \cup {response.at}
    /\ response' = NoMessage
    /\ UNCHANGED <<clock, stamp, oldest, asking, untold>>

Lost ==
    /\ asking \/ response # NoMessage
    /\ asking' = FALSE /\ response' = NoMessage
    /\ UNCHANGED <<clock, stamp, oldest, since, told, untold, edges>>

SyncNext ==
    \/ SyncTick \/ ApplyDelta
    \/ Ask \/ HandleSyncRequest \/ HandleSyncResponse
    \/ Lost

SyncSpec == SyncInit /\ [][SyncNext]_syncVars

-----------------------------------------------------------------------------
(* The peer is told of a delta at most once, though it asks again after a  *)
(* loss.  A delta older than its lastSyncTimestamp of which it has not     *)
(* been told had left the history, was not among the recent ones of the    *)
(* first response, or is of the very millisecond of a response, after      *)
(* which it was applied: no response tells of that one (sync.ts:108).      *)
ToldOnceAndInFull ==
    /\ response.told \cap told = {}
    /\ \A d \in Applied :
        since # Never /\ stamp[d] < since =>
            d \in told \cup untold \/ stamp[d] \in edges

=============================================================================
