------------------------------- MODULE Inbound -------------------------------
(***************************************************************************)
(* The receive path of one node's MessageRouter (message-router.ts) and    *)
(* the tables it keeps in SQLite (database/index.ts).                      *)
(*                                                                         *)
(* Several receive() calls run at once: every peer's transmission opens a  *)
(* stream of its own and the handler of each stream awaits receive().      *)
(* JavaScript runs one of them at a time and switches only at an await, so *)
(* one action here is the code between two awaits.  A slot is one receive()*)
(* call in progress; "pc" is the await it stands at and "cur" the message  *)
(* it works on.                                                            *)
(*                                                                         *)
(* The peers are the environment.  A peer numbers ALL its outgoing         *)
(* messages with one counter, whoever they are for                         *)
(* (applyOutgoingVectorClock), so the ones addressed to this node may have *)
(* gaps.  Messages in "wire" may arrive late, in any order, many times or  *)
(* never; an inbound rate limit that refuses one is a loss like any other. *)
(* A message addressed elsewhere matters in two ways: it uses up a number, *)
(* and it lets a third party learn the counter and pass it on in its own   *)
(* vector clock.                                                           *)
(*                                                                         *)
(* What handover, ACK rows and scores do to other tables is not here.      *)
(***************************************************************************)
EXTENDS Naturals, Sequences, FiniteSets, Functions

CONSTANTS
    Peers,          \* the remote peers
    Slots,          \* receive() calls that may be in progress at once
    NoMsg,          \* the message of an idle slot
    Maps, NoMap,    \* the Map objects of a peer's held-back messages
    BufferLimit,    \* MAX_BUFFERED_OUT_OF_ORDER
    CacheLimit,     \* DEDUP_CACHE_LIMIT
    MaxSeq,         \* bound: messages a peer sends
    MaxElsewhere,   \* bound: messages a peer sends to somebody else
    MaxCrashes,     \* bound: restarts of this node
    MaxAckFails     \* bound: ACKs that cannot be transmitted

Message == [from : Peers, seq : 1..MaxSeq, vc : [Peers -> 0..MaxSeq]]

ASSUME BoundsAssumption ==
    /\ MaxSeq \in Nat /\ MaxElsewhere \in Nat
    /\ MaxCrashes \in Nat /\ MaxAckFails \in Nat
    /\ BufferLimit \in Nat /\ CacheLimit \in Nat \ {0}

ASSUME NoMsgAssumption == NoMsg \notin Message

ASSUME NoMapAssumption == NoMap \notin Maps

VARIABLES
    \* the peers and the network
    counter,    \* counter[p]: messages p has numbered so far
    elsewhere,  \* elsewhere[p]: number of p's last message to somebody else
    wire,       \* messages addressed to this node
    stale,      \* those whose timestamp is outside the clock-skew window
    \* SQLite: survives a crash
    processed,  \* processed_messages
    lastSeq,    \* peer_sequences (0: no row)
    clock,      \* peer_vector_clocks (0: no row)
    \* memory: lost in a crash
    cache,      \* processedIdsCache, oldest first
    entry,      \* outOfOrderBuffer: the Map of each peer's held-back messages
    maps,       \* what each of a peer's Map objects holds, removed ones too
    pc, cur,    \* receive() calls in progress
    loop,       \* the Map a call's flush loop has taken a reference to
    \* history, for the properties
    ever,       \* messages ever written to processed_messages
    acked,      \* messages for which an ACK left this node
    app,        \* messages given to onMessage, in order
    missed,     \* persisted messages whose call ended before onMessage
    strays,     \* messages flushed from a Map that had been removed
    crashes, ackFails

peerVars == <<counter, elsewhere, wire, stale>>
dbVars   == <<processed, lastSeq, clock>>
buffer   == <<entry, maps>>
taskVars == <<pc, cur, loop>>
bounds   == <<crashes, ackFails>>
history  == <<ever, acked, app, missed, strays, bounds>>
vars     == <<peerVars, dbVars, cache, buffer, taskVars, history>>

PC == {"idle",      \* no call
       "received",  \* awaiting handoverPendingMessagesToPeer
       "reack",     \* awaiting sendAck for a message not processed now
       "ack",       \* awaiting sendAck for a message just persisted
       "app",       \* the ACK is out, onMessage is next
       "flush"}     \* onMessage returned, the buffer is looked at next

TypeOK ==
    /\ counter \in [Peers -> 0..MaxSeq]
    /\ elsewhere \in [Peers -> 0..MaxSeq]
    /\ wire \in SUBSET Message
    /\ stale \in SUBSET wire
    /\ processed \in SUBSET wire
    /\ lastSeq \in [Peers -> 0..MaxSeq]
    /\ clock \in [Peers -> 0..MaxSeq]
    /\ cache \in Seq(wire)
    /\ entry \in [Peers -> Maps \cup {NoMap}]
    /\ maps \in [Peers -> [Maps -> SUBSET wire]]
    /\ pc \in [Slots -> PC]
    /\ cur \in [Slots -> wire \cup {NoMsg}]
    /\ loop \in [Slots -> Maps \cup {NoMap}]
    /\ ever \in SUBSET wire
    /\ acked \in SUBSET wire
    /\ app \in Seq(wire)
    /\ missed \in SUBSET wire
    /\ strays \in SUBSET wire
    /\ crashes \in 0..MaxCrashes
    /\ ackFails \in 0..MaxAckFails

Init ==
    /\ counter = [p \in Peers |-> 0]
    /\ elsewhere = [p \in Peers |-> 0]
    /\ wire = {} /\ stale = {}
    /\ processed = {}
    /\ lastSeq = [p \in Peers |-> 0]
    /\ clock = [p \in Peers |-> 0]
    /\ cache = <<>>
    /\ entry = [p \in Peers |-> NoMap]
    /\ maps = [p \in Peers |-> [i \in Maps |-> {}]]
    /\ pc = [s \in Slots |-> "idle"]
    /\ cur = [s \in Slots |-> NoMsg]
    /\ loop = [s \in Slots |-> NoMap]
    /\ ever = {} /\ acked = {} /\ app = <<>>
    /\ missed = {} /\ strays = {}
    /\ crashes = 0 /\ ackFails = 0

-----------------------------------------------------------------------------
(* The peers *)

(* The vector clock p attaches: its own new counter, and what it knows of  *)
(* the others, which never shrinks and which it can only have from         *)
(* messages that did not come to this node.                                *)
OutgoingClock(p, vc) ==
    /\ vc[p] = counter[p] + 1
    /\ \A q \in Peers \ {p} : vc[q] <= elsewhere[q]
    /\ \A m \in wire : m.from = p => \A q \in Peers : m.vc[q] <= vc[q]

(* Peer p sends this node a message. *)
PeerSend(p) ==
    /\ counter[p] < MaxSeq
    /\ \E vc \in [Peers -> 0..MaxSeq] :
         /\ OutgoingClock(p, vc)
         /\ wire' = wire \cup {[from |-> p, seq |-> counter[p] + 1, vc |-> vc]}
    /\ counter' = [counter EXCEPT ![p] = @ + 1]
    /\ UNCHANGED <<elsewhere, stale, dbVars, cache, buffer, taskVars, history>>

(* Peer p sends a message, or an ACK, to somebody else. *)
PeerSendElsewhere(p) ==
    /\ counter[p] < MaxSeq
    /\ counter[p] < MaxElsewhere + Cardinality({m \in wire : m.from = p})
    /\ counter' = [counter EXCEPT ![p] = @ + 1]
    /\ elsewhere' = [elsewhere EXCEPT ![p] = counter[p] + 1]
    /\ UNCHANGED <<wire, stale, dbVars, cache, buffer, taskVars, history>>

(* More than MAX_CLOCK_SKEW passes since m was created. *)
Age(m) ==
    /\ m \notin stale
    /\ stale' = stale \cup {m}
    /\ UNCHANGED <<counter, elsewhere, wire, dbVars, cache, buffer, taskVars,
                   history>>

-----------------------------------------------------------------------------
(* The pieces of receive() *)

IsDuplicate(m) == m \in Range(cache) \/ m \in processed

IsTimestampValid(m) == m \notin stale

IsSequenceValid(m) == m.seq > lastSeq[m.from]

Expected(p) == lastSeq[p] + 1

(* Mutant: a gap of one message goes unnoticed. *)
ShouldBufferLate(m) == m.seq > Expected(m.from) + 1

ShouldBufferOutOfOrder(m) == m.seq > Expected(m.from)

IsVectorClockValid(m) == m.vc[m.from] >= clock[m.from]

(* What a reference to one of p's Maps gives; NoMap is undefined.          *)
Contents(p, i) == IF i = NoMap THEN {} ELSE maps[p][i]

Buffer(p) == Contents(p, entry[p])

(* Where bufferOutOfOrderMessage puts a message of p: the peer's Map, or a *)
(* new one, which is none that a flush loop still holds.                   *)
FreshMaps(p) ==
    {i \in Maps : \A s \in Slots : loop[s] = i => cur[s].from # p}

MapFor(p) ==
    IF entry[p] # NoMap THEN entry[p] ELSE CHOOSE i \in Maps : i \in FreshMaps(p)

(* The Map of one peer after m is set at its sequence number: the lowest   *)
(* key is deleted when there are more than the limit.                      *)
BufferOutOfOrder(map, m) ==
    LET full == {n \in map : n.seq # m.seq} \cup {m}
    IN  IF Cardinality(full) <= BufferLimit THEN full
        ELSE {n \in full : \E o \in full : o.seq < n.seq}

(* The dedup cache after m is remembered: a known key keeps its place, the *)
(* oldest entry goes when the limit is passed.                             *)
RememberProcessed(m) ==
    IF m \in Range(cache) THEN cache
    ELSE IF Len(cache) < CacheLimit THEN Append(cache, m)
    ELSE Append(Tail(cache), m)

Larger(a, b) == IF a > b THEN a ELSE b

(* Mutant: the transaction is rolled back and reported as applied. *)
PersistRolledBack(m) ==
    /\ ever' = ever \cup {m}
    /\ UNCHANGED dbVars

(* Mutant: the number expected next is stored as the last one. *)
PersistExpected(m) ==
    IF m \in processed
    THEN UNCHANGED <<dbVars, ever>>
    ELSE /\ processed' = processed \cup {m}
         /\ lastSeq' = [lastSeq EXCEPT ![m.from] = Larger(@, m.seq + 1)]
         /\ clock' = [q \in Peers |-> Larger(clock[q], m.vc[q])]
         /\ ever' = ever \cup {m}

(* persistIncomingMessageAtomically: one SQLite transaction, which does    *)
(* nothing when the message has a row already.                             *)
PersistIncoming(m) ==
    IF m \in processed
    THEN UNCHANGED <<dbVars, ever>>
    ELSE /\ processed' = processed \cup {m}
         /\ lastSeq' = [lastSeq EXCEPT ![m.from] = Larger(@, m.seq)]
         /\ clock' = [q \in Peers |-> Larger(clock[q], m.vc[q])]
         /\ ever' = ever \cup {m}

(* processAcceptedIncomingMessage up to its first await; then slot s waits *)
(* for the ACK of m to be transmitted.                                     *)
ProcessAccepted(s, m) ==
    /\ PersistIncoming(m)
    /\ cache' = RememberProcessed(m)
    /\ pc' = [pc EXCEPT ![s] = IF m \in processed THEN "reack" ELSE "ack"]
    /\ cur' = [cur EXCEPT ![s] = m]

(* The call in slot s returns, or is rejected. *)
EndCall(s) ==
    /\ pc' = [pc EXCEPT ![s] = "idle"]
    /\ cur' = [cur EXCEPT ![s] = NoMsg]
    /\ loop' = [loop EXCEPT ![s] = NoMap]

-----------------------------------------------------------------------------
(* The steps of receive() *)

(* A message arrives, directly or inside a relay envelope: receive() is    *)
(* called and first awaits the handover of pending messages.               *)
Arrive(s, m) ==
    /\ pc[s] = "idle"
    /\ pc' = [pc EXCEPT ![s] = "received"]
    /\ cur' = [cur EXCEPT ![s] = m]
    /\ UNCHANGED <<peerVars, dbVars, cache, buffer, loop, history>>

(* The message is too old and is dropped. *)
DropStale(s) ==
    /\ ~IsTimestampValid(cur[s])
    /\ EndCall(s)
    /\ UNCHANGED <<dbVars, cache, buffer, ever>>

(* The message was processed, or its number is not above the last one of   *)
(* its sender: it is acknowledged and not processed.                       *)
AckWithoutProcessing(s) ==
    /\ IsTimestampValid(cur[s])
    /\ IsDuplicate(cur[s]) \/ ~IsSequenceValid(cur[s])
    /\ pc' = [pc EXCEPT ![s] = "reack"]
    /\ UNCHANGED <<dbVars, cache, buffer, cur, loop, ever>>

(* Messages before this one are missing: it is held back, not acknowledged.*)
HoldBack(s) ==
    LET m == cur[s] IN
    /\ IsTimestampValid(m)
    /\ ~IsDuplicate(m) /\ IsSequenceValid(m)
    /\ ShouldBufferOutOfOrder(m)
    /\ entry[m.from] # NoMap \/ FreshMaps(m.from) # {}
    /\ entry' = [entry EXCEPT ![m.from] = MapFor(m.from)]
    /\ maps' = [maps EXCEPT ![m.from][MapFor(m.from)] =
                              BufferOutOfOrder(Buffer(m.from), m)]
    /\ EndCall(s)
    /\ UNCHANGED <<dbVars, cache, ever>>

(* The message's vector clock is behind what is known of its sender. *)
RejectClock(s) ==
    LET m == cur[s] IN
    /\ IsTimestampValid(m)
    /\ ~IsDuplicate(m) /\ IsSequenceValid(m)
    /\ ~ShouldBufferOutOfOrder(m)
    /\ ~IsVectorClockValid(m)
    /\ EndCall(s)
    /\ UNCHANGED <<dbVars, cache, buffer, ever>>

(* The message is the next one of its sender and is processed. *)
Accept(s) ==
    LET m == cur[s] IN
    /\ IsTimestampValid(m)
    /\ ~IsDuplicate(m) /\ IsSequenceValid(m)
    /\ ~ShouldBufferOutOfOrder(m)
    /\ IsVectorClockValid(m)
    /\ ProcessAccepted(s, m)
    /\ UNCHANGED <<buffer, loop>>

(* receive() after the handover: one uninterrupted run of the checks. *)
Examine(s) ==
    /\ pc[s] = "received"
    /\ \/ DropStale(s)
       \/ AckWithoutProcessing(s)
       \/ HoldBack(s)
       \/ RejectClock(s)
       \/ Accept(s)
    /\ UNCHANGED <<peerVars, acked, app, missed, strays, bounds>>

(* Mutant: the call returns after the ACK of a new message too. *)
AckSentReturns(s) ==
    /\ pc[s] \in {"reack", "ack"}
    /\ acked' = acked \cup {cur[s]}
    /\ EndCall(s)
    /\ UNCHANGED <<peerVars, dbVars, cache, buffer, ever, app, missed,
                   strays, bounds>>

(* sendAck succeeds. *)
AckSent(s) ==
    /\ pc[s] \in {"reack", "ack"}
    /\ acked' = acked \cup {cur[s]}
    /\ IF pc[s] = "ack"
       THEN pc' = [pc EXCEPT ![s] = "app"] /\ UNCHANGED <<cur, loop>>
       ELSE IF loop[s] = NoMap THEN EndCall(s)
       ELSE pc' = [pc EXCEPT ![s] = "flush"] /\ UNCHANGED <<cur, loop>>
    /\ UNCHANGED <<peerVars, dbVars, cache, buffer, ever, app, missed,
                   strays, bounds>>

(* sendAck fails (no key for the peer, or no stream): receive() is rejected*)
(* there and then.                                                         *)
AckFails(s) ==
    /\ pc[s] \in {"reack", "ack"}
    /\ ackFails < MaxAckFails
    /\ ackFails' = ackFails + 1
    /\ missed' = IF pc[s] = "ack" THEN missed \cup {cur[s]} ELSE missed
    /\ EndCall(s)
    /\ UNCHANGED <<peerVars, dbVars, cache, buffer, ever, acked, app,
                   strays, crashes>>

(* Mutant: the flush is an "if" and not a "while". *)
HandToAppOnce(s) ==
    /\ pc[s] = "app"
    /\ app' = Append(app, cur[s])
    /\ IF loop[s] = NoMap
       THEN pc' = [pc EXCEPT ![s] = "flush"] /\ UNCHANGED <<cur, loop>>
       ELSE EndCall(s)
    /\ UNCHANGED <<peerVars, dbVars, cache, buffer, ever, acked,
                   missed, strays, bounds>>

(* onMessage is called with the message. *)
HandToApp(s) ==
    /\ pc[s] = "app"
    /\ app' = Append(app, cur[s])
    /\ pc' = [pc EXCEPT ![s] = "flush"]
    /\ UNCHANGED <<peerVars, dbVars, cache, buffer, cur, loop, ever, acked,
                   missed, strays, bounds>>

-----------------------------------------------------------------------------
(* flushBufferedMessagesForPeer *)

(* The Map the loop of slot s works on: the peer's, when it begins, and    *)
(* the same one ever after, though it may be removed or replaced meanwhile.*)
OwnMap(s) == IF loop[s] = NoMap THEN entry[cur[s].from] ELSE loop[s]

Own(s) == Contents(cur[s].from, OwnMap(s))

(* Mutant: the loop takes any message above the last one. *)
NextBufferedAny(s) == {m \in Own(s) : IsSequenceValid(m)}

(* What the loop of slot s finds in its Map at the expected number. *)
NextBuffered(s) == {m \in Own(s) : m.seq = Expected(cur[s].from)}

(* The next message is there: it leaves the Map and is processed. *)
FlushNext(s) ==
    LET p == cur[s].from
        i == OwnMap(s)
    IN
    /\ pc[s] = "flush"
    /\ \E m \in NextBuffered(s) :
         /\ maps' = [maps EXCEPT ![p][i] = {n \in @ : n.seq # m.seq}]
         /\ ProcessAccepted(s, m)
         /\ strays' = IF i = entry[p] THEN strays ELSE strays \cup {m}
    /\ loop' = [loop EXCEPT ![s] = i]
    /\ UNCHANGED <<peerVars, entry, acked, app, missed, bounds>>

(* The next message is not there.  A loop that leaves its own Map empty    *)
(* removes the peer's entry of outOfOrderBuffer, whichever Map that is by  *)
(* then.  With nothing buffered at the start the call returns at once.     *)
FlushEnds(s) ==
    LET p == cur[s].from IN
    /\ pc[s] = "flush"
    /\ NextBuffered(s) = {}
    /\ entry' = IF loop[s] # NoMap /\ Own(s) = {}
                THEN [entry EXCEPT ![p] = NoMap] ELSE entry
    /\ EndCall(s)
    /\ UNCHANGED <<peerVars, dbVars, cache, maps, ever, acked, app, missed,
                   strays, bounds>>

-----------------------------------------------------------------------------
(* Housekeeping and failure *)

(* deleteOldProcessedMessages: a row older than seven days is deleted; its *)
(* message has long been too old to be accepted again.                     *)
PurgeProcessed(m) ==
    /\ m \in stale
    /\ processed' = processed \ {m}
    /\ UNCHANGED <<peerVars, lastSeq, clock, cache, buffer, taskVars, history>>

(* The process dies and is started again: memory is lost. *)
Crash ==
    /\ crashes < MaxCrashes
    /\ crashes' = crashes + 1
    /\ cache' = <<>>
    /\ entry' = [p \in Peers |-> NoMap]
    /\ maps' = [p \in Peers |-> [i \in Maps |-> {}]]
    /\ missed' = missed \cup {cur[s] : s \in {t \in Slots : pc[t] \in {"ack", "app"}}}
    /\ pc' = [s \in Slots |-> "idle"]
    /\ cur' = [s \in Slots |-> NoMsg]
    /\ loop' = [s \in Slots |-> NoMap]
    /\ UNCHANGED <<peerVars, dbVars, ever, acked, app, strays,
                   ackFails>>

-----------------------------------------------------------------------------
Step(s) == Examine(s) \/ AckSent(s) \/ HandToApp(s) \/ FlushNext(s) \/ FlushEnds(s)

Next ==
    \/ \E p \in Peers : PeerSend(p) \/ PeerSendElsewhere(p)
    \/ \E m \in wire : Age(m)
    \/ \E s \in Slots, m \in wire : Arrive(s, m)
    \/ \E s \in Slots : Step(s) \/ AckFails(s)
    \/ \E m \in processed : PurgeProcessed(m)
    \/ Crash

Spec == Init /\ [][Next]_vars

(* A call whose await has ended is resumed: the event loop starves nobody, *)
(* and every await in receive() carries a timeout.                         *)
Fairness == \A s \in Slots : WF_vars(Step(s))

FairSpec == Spec /\ Fairness
-----------------------------------------------------------------------------
(* Properties *)

(* An ACK leaves this node only for a message it has written to            *)
(* processed_messages.  receive() also acknowledges, unprocessed, whatever *)
(* is numbered at or below peer_sequences: that loses nothing only because *)
(* gaps are held back and the number is re-read after every await.         *)
AckedWasProcessed == acked \subseteq ever

(* onMessage is called at most once for a message, whatever arrives twice, *)
(* is both buffered and retransmitted, or comes back after its row and the *)
(* cache entry are gone (message-router.ts receive, flush, cleanup).       *)
AtMostOnce == \A i, j \in DOMAIN app : app[i] = app[j] => i = j

(* peer_sequences and processed_messages agree: the messages processed for *)
(* a peer are exactly the ones numbered 1 to last_sequence.                *)
ProcessedIsPrefix ==
    \A p \in Peers : {m.seq : m \in {n \in ever : n.from = p}} = 1..lastSeq[p]

(* A call that has processed a message and will look for the one after it  *)
(* in the Map that outOfOrderBuffer holds.                                 *)
WillLook(s) ==
    /\ pc[s] \in {"ack", "app", "flush"}
    /\ loop[s] \in {NoMap, entry[cur[s].from]}

(* Whoever closes a gap flushes what waited behind it.  A message stays in *)
(* the peer's Map though it is the next to be processed only while the     *)
(* call that processed the one before it is still on its way there; or     *)
(* that call was cut short (its ACK could not be sent), or it had that one *)
(* from a Map no longer in outOfOrderBuffer and looks only there.          *)
GapClosedIsFlushed ==
    \A p \in Peers : \A m \in Buffer(p) :
        m.seq = Expected(p) =>
            \E n \in ever :
                /\ n.from = p /\ n.seq = lastSeq[p]
                /\ \/ n \in missed \cup strays
                   \/ \E s \in Slots : cur[s] = n /\ WillLook(s)

(* The receive path implements FifoInbox: from each peer, messages are     *)
(* processed in order, without a gap, at most once.                        *)
Fifo == INSTANCE FifoInbox WITH sent <- wire, taken <- lastSeq

ImplementsFifo == Fifo!Spec

(* A persisted message reaches onMessage, or its call was cut short by a   *)
(* crash or by an ACK that could not be sent.                              *)
PersistedIsHanded ==
    \A p \in Peers, k \in 1..MaxSeq :
        (lastSeq[p] >= k) ~>
            (\E m \in Range(app) \cup missed : m.from = p /\ m.seq = k)

-----------------------------------------------------------------------------
(* A statement of the repository that the code does not keep *)

(* The messages of p in a Map that somebody can still reach. *)
Held(p) ==
    Buffer(p) \cup UNION {Contents(p, loop[s]) : s \in {t \in Slots :
                             loop[t] # NoMap /\ cur[t].from = p}}

(* "Buffered messages should flush once gap is filled"                     *)
(* (message-router.contract.test.ts): what is buffered leaves the buffer   *)
(* by being processed, unless the node restarts or the buffer is full.     *)
BufferedUntilProcessed ==
    [][\A p \in Peers : \A m \in Held(p) \ Held(p)' :
          \/ m \in ever'
          \/ crashes' # crashes
          \/ Cardinality(Buffer(p)) = BufferLimit]_vars
=============================================================================
