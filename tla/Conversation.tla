----------------------------- MODULE Conversation -----------------------------
(***************************************************************************)
(* Nodes that send each other messages: the sending side of module Outbox  *)
(* and the receiving side of module Inbound put together, each reduced to  *)
(* what the other one sees.                                                *)
(*                                                                         *)
(* receive() is one step here (Inbound has its interleavings), a row of    *)
(* pending_messages is there or not (Outbox has its attempts, passes and   *)
(* history), and the check of the vector clock is left to Inbound.  What   *)
(* cuts a receive() short, and what calls that overlap do to the buffer    *)
(* (Inbound), are faults here: ReceiveCut and MapRemoved.  What the two    *)
(* modules cannot show is here: one counter numbers everything a node      *)
(* sends, its ACKs included; the recipient processes a message only after  *)
(* all those numbered below it; and the sender deletes its row when the    *)
(* transport has taken the message, or the ACK came.                       *)
(***************************************************************************)
EXTENDS Naturals, FiniteSets, FiniteSetsExt

CONSTANTS
    Nodes,
    Links,          \* <<sender, recipient>> pairs that exchange data
    BufferLimit,    \* MAX_BUFFERED_OUT_OF_ORDER
    MaxData,        \* bound: data messages
    MaxResends,     \* bound: transmissions that leave the row pending
    MaxFaults       \* bound: give-ups, aged messages, restarts, calls cut
                    \* short and removed Maps together

ASSUME LinksAssumption == Links \subseteq {l \in Nodes \X Nodes : l[1] # l[2]}

ASSUME BoundsAssumption ==
    BufferLimit \in Nat /\ MaxData \in Nat /\ MaxResends \in Nat /\ MaxFaults \in Nat

(* A data message, or the ACK of data message number "of" of its recipient.*)
Message == [kind : {"data", "ack"}, from : Nodes, to : Nodes,
            seq : Nat \ {0}, of : Nat]

VARIABLES
    counter,    \* own entry of peer_vector_clocks: numbers used so far
    sent,       \* data messages sent
    rows,       \* pending_messages
    wire,       \* messages in transit
    lastSeq,    \* peer_sequences: lastSeq[n][p] of what n processed of p
    buffer,     \* outOfOrderBuffer of every node
    processed,  \* data messages processed
    gaveUp,     \* data messages marked failed
    old,        \* messages created longer ago than the clock skew allows
    dropped,    \* data messages that left a buffer unprocessed, but by a restart
    resends, crashes,
    cuts        \* calls cut short, and Maps removed with messages in them

faults == <<gaveUp, old, crashes>>

vars == <<counter, sent, rows, wire, lastSeq, buffer, processed, dropped,
          resends, cuts, faults>>

TypeOK ==
    /\ counter \in [Nodes -> Nat]
    /\ sent \subseteq Message /\ rows \subseteq Message /\ wire \subseteq Message
    /\ lastSeq \in [Nodes -> [Nodes -> Nat]]
    /\ buffer \subseteq sent /\ processed \subseteq sent
    /\ dropped \subseteq sent
    /\ gaveUp \subseteq Message /\ old \subseteq Message
    /\ resends \in 0..MaxResends
    /\ crashes \in 0..MaxFaults /\ cuts \in 0..MaxFaults

Init ==
    /\ counter = [n \in Nodes |-> 0]
    /\ sent = {} /\ rows = {} /\ wire = {}
    /\ lastSeq = [n \in Nodes |-> [p \in Nodes |-> 0]]
    /\ buffer = {} /\ processed = {}
    /\ dropped = {} /\ gaveUp = {} /\ old = {}
    /\ resends = 0 /\ crashes = 0 /\ cuts = 0

(* The bound on what goes wrong. *)
FaultLeft ==
    Cardinality(gaveUp) + Cardinality(old) + crashes + cuts < MaxFaults

-----------------------------------------------------------------------------
(* The sender *)

Data(n, p, k) == [kind |-> "data", from |-> n, to |-> p, seq |-> k, of |-> 0]

(* send() of a data message: it gets the next number and a row. *)
Send(n, p) ==
    LET m == Data(n, p, counter[n] + 1) IN
    /\ Cardinality(sent) < MaxData
    /\ counter' = [counter EXCEPT ![n] = @ + 1]
    /\ sent' = sent \cup {m}
    /\ rows' = rows \cup {m}
    /\ UNCHANGED <<wire, lastSeq, buffer, processed, dropped, resends, cuts, faults>>

(* retry() or the hand-over transmits a row: with success it is done.      *)
TransmitOk(m) ==
    /\ m \in rows
    /\ wire' = wire \cup {m}
    /\ rows' = rows \ {m}
    /\ UNCHANGED <<counter, sent, lastSeq, buffer, processed, dropped, resends,
                   cuts, faults>>

(* A transmission that leaves the row: the one of send(), or one that is   *)
(* reported as failed and yet arrives.                                     *)
TransmitAgain(m) ==
    /\ m \in rows /\ m \notin wire
    /\ resends < MaxResends
    /\ resends' = resends + 1
    /\ wire' = wire \cup {m}
    /\ UNCHANGED <<counter, sent, rows, lastSeq, buffer, processed, dropped,
                   cuts, faults>>

(* The attempts are used up. *)
GiveUp(m) ==
    /\ m \in rows
    /\ FaultLeft
    /\ rows' = rows \ {m}
    /\ gaveUp' = gaveUp \cup {m}
    /\ UNCHANGED <<counter, sent, wire, lastSeq, buffer, processed, dropped, old,
                   resends, crashes, cuts>>

(* More than MAX_CLOCK_SKEW passes before a message is received.           *)
GrowsOld(m) ==
    /\ m \in rows \cup wire
    /\ m \notin old /\ FaultLeft
    /\ old' = old \cup {m}
    /\ UNCHANGED <<counter, sent, rows, wire, lastSeq, buffer, processed, dropped,
                   gaveUp, resends, crashes, cuts>>

-----------------------------------------------------------------------------
(* The recipient *)

(* Mutant: the ACK carries the number used last. *)
AcknowledgeSameNumber(n, p, first, last) ==
    /\ rows' = rows \cup
         {[kind |-> "ack", from |-> n, to |-> p,
           seq |-> counter[n] + k - first, of |-> k] : k \in first..last}
    /\ UNCHANGED counter

(* sendAck for the data messages first..last of p: each ACK is a message   *)
(* of node n like any other, with a number and a row of its own.           *)
Acknowledge(n, p, first, last) ==
    /\ rows' = rows \cup
         {[kind |-> "ack", from |-> n, to |-> p,
           seq |-> counter[n] + 1 + k - first, of |-> k] : k \in first..last}
    /\ counter' = [counter EXCEPT ![n] = @ + 1 + last - first]

(* The numbers that are processed when number k is: k and what waits       *)
(* without a gap behind it.                                                *)
Waiting(n, p) == {m.seq : m \in {b \in buffer : b.to = n /\ b.from = p}}

(* Mutant: the buffer is not flushed. *)
LastFlushedNone(n, p, k) == k

LastFlushed(n, p, k) ==
    Max({j \in {k} \cup Waiting(n, p) : j >= k /\ k+1..j \subseteq Waiting(n, p)})

(* Mutant: a gap of one message goes unnoticed. *)
ShouldBufferLate(m) == m.seq > lastSeq[m.to][m.from] + 2

ShouldBufferOutOfOrder(m) == m.seq > lastSeq[m.to][m.from] + 1

(* An ACK settles the row of the message it is for.                        *)
ReceiveAck(m) ==
    /\ m.kind = "ack" /\ m \notin old
    /\ rows' = {r \in rows : ~(/\ r.kind = "data" /\ r.from = m.to
                               /\ r.to = m.from /\ r.seq = m.of)}
    /\ UNCHANGED <<counter, lastSeq, buffer, processed, dropped, cuts>>

(* What was processed is acknowledged again. *)
ReceiveKnown(m) ==
    /\ m.kind = "data" /\ m \notin old
    /\ m.seq <= lastSeq[m.to][m.from]
    /\ Acknowledge(m.to, m.from, m.seq, m.seq)
    /\ UNCHANGED <<lastSeq, buffer, processed, dropped, cuts>>

(* Mutant: a message with a gap before it is dropped. *)
ReceiveEarlyDrops(m) ==
    /\ m.kind = "data" /\ m \notin old
    /\ ShouldBufferOutOfOrder(m)
    /\ UNCHANGED <<counter, rows, lastSeq, buffer, processed, dropped, cuts>>

(* Mutant: a message is acknowledged when it is held back. *)
ReceiveEarlyAcks(m) ==
    /\ m.kind = "data" /\ m \notin old
    /\ ShouldBufferOutOfOrder(m)
    /\ buffer' = buffer \cup {m}
    /\ Acknowledge(m.to, m.from, m.seq, m.seq)
    /\ UNCHANGED <<lastSeq, processed, dropped, cuts>>

(* The lowest number goes when more than the limit are held. *)
Evicted(held) ==
    IF Cardinality(held) <= BufferLimit THEN {}
    ELSE {b \in held : \A c \in held : b.seq <= c.seq}

(* What has a gap before it waits in memory. *)
ReceiveEarly(m) ==
    LET held == {b \in buffer : b.to = m.to /\ b.from = m.from} \cup {m} IN
    /\ m.kind = "data" /\ m \notin old
    /\ ShouldBufferOutOfOrder(m)
    /\ buffer' = (buffer \cup {m}) \ Evicted(held)
    /\ dropped' = dropped \cup Evicted(held)
    /\ UNCHANGED <<counter, rows, lastSeq, processed, cuts>>

IsNext(m) ==
    /\ m.kind = "data" /\ m \notin old
    /\ ~ShouldBufferOutOfOrder(m) /\ m.seq > lastSeq[m.to][m.from]

(* m is processed, and from the buffer the ones behind it up to "last".    *)
ProcessUpTo(m, last) ==
    LET n == m.to
        p == m.from
    IN
    /\ lastSeq' = [lastSeq EXCEPT ![n][p] = last]
    /\ processed' = processed \cup {Data(p, n, k) : k \in m.seq..last}
    /\ buffer' = {b \in buffer :
                     ~(b.to = n /\ b.from = p /\ m.seq < b.seq /\ b.seq <= last)}
    /\ Acknowledge(n, p, m.seq, last)
    /\ UNCHANGED dropped

(* The next message is processed, and with it what waited behind it.       *)
ReceiveNext(m) ==
    /\ IsNext(m)
    /\ ProcessUpTo(m, LastFlushed(m.to, m.from, m.seq))
    /\ UNCHANGED cuts

(* The call ends before the flush does: the transmission of an ACK throws, *)
(* after its row was written; or the loop works on a Map that was removed. *)
ReceiveCut(m) ==
    /\ IsNext(m) /\ FaultLeft
    /\ \E last \in m.seq..LastFlushed(m.to, m.from, m.seq) - 1 : ProcessUpTo(m, last)
    /\ cuts' = cuts + 1

(* What is too old is dropped, an ACK or data. *)
ReceiveOld(m) ==
    /\ m \in old
    /\ UNCHANGED <<counter, rows, lastSeq, buffer, processed, dropped, cuts>>

Receive(m) ==
    /\ m \in wire
    /\ wire' = wire \ {m}
    /\ \/ ReceiveAck(m) \/ ReceiveKnown(m) \/ ReceiveEarly(m) \/ ReceiveNext(m)
       \/ ReceiveCut(m) \/ ReceiveOld(m)
    /\ UNCHANGED <<sent, resends, faults>>

(* A flush loop that has emptied a Map removed before removes the one that *)
(* replaced it, with what node n holds back of p.                          *)
MapRemoved(n, p) ==
    LET held == {b \in buffer : b.to = n /\ b.from = p} IN
    /\ held # {} /\ FaultLeft
    /\ buffer' = buffer \ held
    /\ dropped' = dropped \cup held
    /\ cuts' = cuts + 1
    /\ UNCHANGED <<counter, sent, rows, wire, lastSeq, processed, resends, faults>>

(* Node n restarts: what it held back was in memory only. *)
Crash(n) ==
    /\ FaultLeft
    /\ crashes' = crashes + 1
    /\ buffer' = {b \in buffer : b.to # n}
    /\ UNCHANGED <<counter, sent, rows, wire, lastSeq, processed, dropped, gaveUp,
                   old, resends, cuts>>

-----------------------------------------------------------------------------
TransmitSome == \E m \in rows : TransmitOk(m)

ReceiveSome == \E m \in wire : Receive(m)

Next ==
    \/ \E l \in Links : Send(l[1], l[2])
    \/ TransmitSome
    \/ \E m \in rows : TransmitAgain(m) \/ GiveUp(m)
    \/ \E m \in rows \cup wire : GrowsOld(m)
    \/ ReceiveSome
    \/ \E l \in Links : MapRemoved(l[2], l[1])
    \/ \E n \in Nodes : Crash(n)

Spec == Init /\ [][Next]_vars

(* The network is good and the nodes work on: rows are transmitted, and    *)
(* what is transmitted is received.  Every retry pass takes all rows and   *)
(* every stream is handled by itself, so none is passed over for ever.     *)
Fairness == WF_vars(TransmitSome) /\ WF_vars(ReceiveSome)

FairSpec == Spec /\ Fairness

-----------------------------------------------------------------------------
(* Properties *)

(* As long as no node restarts and no message grows old, a data message    *)
(* that is sent is processed, given up, or still somewhere: in its row, in *)
(* transit, or in the recipient's buffer; or the buffer has lost it, as    *)
(* the lowest of too many or with a Map that an overlapping call removed.  *)
(* The row is deleted when the transport took the message, long before the *)
(* recipient processes it.                                                 *)
NoneLost ==
    crashes = 0 /\ old = {} =>
        sent \subseteq processed \cup gaveUp \cup rows \cup wire \cup buffer
                    \cup dropped

(* Nobody processes a message unless every lower number of its sender went *)
(* to the same recipient, as data, and was processed too: one number that  *)
(* went elsewhere, was an ACK or was given up closes the link for good.    *)
OnlyGapless ==
    \A m \in processed :
        \A k \in 1..m.seq : Data(m.from, m.to, k) \in processed

(* An ACK is under way only for data that its sender has processed; a row  *)
(* it settles is not needed any more.                                      *)
AckTellsProcessed ==
    \A a \in rows \cup wire :
        a.kind = "ack" => Data(a.to, a.from, a.of) \in processed

Numbers == 1..(2 * MaxData + MaxResends)

MayBeSent == {Data(l[1], l[2], k) : l \in Links, k \in Numbers}

Gapless(m) == \A k \in 1..m.seq : Data(m.from, m.to, k) \in sent

(* On a network that is good at last, a message is processed if every      *)
(* lower number of its sender went to the same recipient as data, unless   *)
(* some row was given up, some message grew old, a node restarted, some    *)
(* buffer has lost a message, or a call ended before its flush did.        *)
GaplessIsProcessed ==
    \A m \in MayBeSent :
        m \in sent /\ Gapless(m) ~>
            \/ m \in processed
            \/ gaveUp # {} \/ old # {} \/ crashes > 0
            \/ dropped # {} \/ cuts > 0

(* "messages queued locally and delivered when recipient comes online"     *)
(* (docs/skill.md): on a network that is good at last, every message that  *)
(* is not given up is processed.                                           *)
SentIsProcessed ==
    \A m \in MayBeSent : m \in sent ~> (m \in processed \cup gaveUp)
=============================================================================
