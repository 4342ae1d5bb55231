---------------------------- MODULE InboundProofs ----------------------------
(***************************************************************************)
(* What holds of Inbound for every set of peers, every number of receive() *)
(* calls in progress and every limit: an inductive invariant, and from it  *)
(* that only processed messages are acknowledged, that none is handed over *)
(* twice, and that the receive path implements FifoInbox.                  *)
(***************************************************************************)
EXTENDS Inbound, TLAPS

-----------------------------------------------------------------------------
(* The inductive invariant *)

(* A sender gives a number to one message only, and none beyond its counter.*)
Numbering ==
    /\ \A m \in wire : m.seq <= counter[m.from]
    /\ \A m, n \in wire : m.from = n.from /\ m.seq = n.seq => m = n

(* Processed messages are numbered at most lastSeq ...                     *)
NoneAbove == \A m \in ever : m.seq <= lastSeq[m.from]

(* ... and every number up to lastSeq has been processed.                  *)
NoneMissing ==
    \A p \in Peers, k \in 1..MaxSeq :
        k <= lastSeq[p] => \E m \in ever : m.from = p /\ m.seq = k

(* What the tables, the cache and the sent ACKs mention was processed.     *)
Known == processed \subseteq ever /\ Range(cache) \subseteq ever
            /\ acked \subseteq ever

(* The Maps of a peer hold messages of that peer.                          *)
Keyed == \A p \in Peers, i \in Maps : \A m \in maps[p][i] : m.from = p

(* What a call in progress has established of its message.                 *)
Calls ==
    \A s \in Slots :
        /\ pc[s] # "idle" => cur[s] \in wire
        /\ pc[s] \in {"reack", "ack", "app"} => cur[s] \in ever

(* A persisted message is handed over once: by the one call that persisted *)
(* it, which has not done so yet while it stands before onMessage.         *)
Handing(s) == pc[s] \in {"ack", "app"}

HandOnce ==
    /\ \A i \in DOMAIN app : app[i] \in ever
    /\ AtMostOnce
    /\ \A s \in Slots : Handing(s) => \A i \in DOMAIN app : app[i] # cur[s]
    /\ \A s, t \in Slots : Handing(s) /\ Handing(t) /\ s # t => cur[s] # cur[t]

IInv ==
    /\ TypeOK
    /\ Numbering
    /\ NoneAbove /\ NoneMissing
    /\ Known
    /\ Keyed
    /\ Calls
    /\ HandOnce

-----------------------------------------------------------------------------
(* Lemmas on sequences and on the helpers *)

(* A sequence over a set is one over any larger set. *)
LEMMA SeqGrows ==
    ASSUME NEW S, NEW T, S \subseteq T, NEW q \in Seq(S)
    PROVE  q \in Seq(T)
OBVIOUS

(* Appending changes the range of a sequence by the new element. *)
LEMMA AppendRange ==
    ASSUME NEW S, NEW q \in Seq(S), NEW e \in S
    PROVE  /\ Append(q, e) \in Seq(S)
           /\ Range(Append(q, e)) = Range(q) \cup {e}
<1>1. /\ Append(q, e) \in Seq(S)
      /\ DOMAIN Append(q, e) = DOMAIN q \cup {Len(q) + 1}
  OBVIOUS
<1>2. /\ \A i \in DOMAIN q : Append(q, e)[i] = q[i]
      /\ Append(q, e)[Len(q) + 1] = e
  OBVIOUS
<1>3. QED
  BY <1>1, <1>2, Zenon DEF Range

(* The dedup cache holds messages it held before, and the new one. *)
LEMMA RememberedCache ==
    ASSUME NEW S, cache \in Seq(S), NEW m \in S, BoundsAssumption
    PROVE  /\ RememberProcessed(m) \in Seq(S)
           /\ Range(RememberProcessed(m)) \subseteq Range(cache) \cup {m}
<1>1. CASE m \in Range(cache)
  BY <1>1 DEF RememberProcessed
<1>2. CASE m \notin Range(cache) /\ Len(cache) < CacheLimit
  BY <1>2, AppendRange DEF RememberProcessed
<1>3. CASE m \notin Range(cache) /\ ~(Len(cache) < CacheLimit)
  <2>1. Len(cache) >= 1
    BY <1>3 DEF BoundsAssumption
  <2>2. Tail(cache) \in Seq(S) /\ Range(Tail(cache)) \subseteq Range(cache)
    BY <2>1 DEF Range
  <2>3. RememberProcessed(m) = Append(Tail(cache), m)
    BY <1>3 DEF RememberProcessed
  <2>4. /\ Append(Tail(cache), m) \in Seq(S)
        /\ Range(Append(Tail(cache), m)) = Range(Tail(cache)) \cup {m}
    <3> DEFINE t == Tail(cache)
    <3>1. t \in Seq(S)
      BY <2>2
    <3> HIDE DEF t
    <3>2. Append(t, m) \in Seq(S) /\ Range(Append(t, m)) = Range(t) \cup {m}
      BY <3>1, AppendRange
    <3>3. QED
      BY <3>2 DEF t
  <2>5. QED
    BY <2>2, <2>3, <2>4, Zenon
<1>4. QED
  BY <1>1, <1>2, <1>3

(* Holding a message back only adds it to the Map. *)
LEMMA BufferedSubset ==
    ASSUME NEW map, NEW m
    PROVE  BufferOutOfOrder(map, m) \subseteq map \cup {m}
BY DEF BufferOutOfOrder

(* A message held back goes into a Map of its sender, beside what was in   *)
(* the Map that outOfOrderBuffer had for it.                               *)
LEMMA HeldBack ==
    ASSUME TypeOK, NEW s \in Slots, HoldBack(s), cur[s].from \in Peers
    PROVE  /\ MapFor(cur[s].from) \in Maps
           /\ entry' = [entry EXCEPT ![cur[s].from] = MapFor(cur[s].from)]
           /\ maps' = [maps EXCEPT ![cur[s].from][MapFor(cur[s].from)] =
                          BufferOutOfOrder(Buffer(cur[s].from), cur[s])]
           /\ BufferOutOfOrder(Buffer(cur[s].from), cur[s])
                  \subseteq Buffer(cur[s].from) \cup {cur[s]}
           /\ entry[cur[s].from] # NoMap =>
                  MapFor(cur[s].from) = entry[cur[s].from]
<1> DEFINE p == cur[s].from
<1>1. MapFor(p) \in Maps
  <2>1. CASE entry[p] # NoMap
    BY <2>1 DEF MapFor, TypeOK
  <2>2. CASE entry[p] = NoMap
    <3>1. FreshMaps(p) # {} /\ FreshMaps(p) \subseteq Maps
      BY <2>2 DEF HoldBack, FreshMaps
    <3>2. \E i \in Maps : i \in FreshMaps(p)
      BY <3>1
    <3>3. QED
      BY <2>2, <3>2 DEF MapFor
  <2>3. QED
    BY <2>1, <2>2
<1>2. entry[p] # NoMap => MapFor(p) = entry[p]
  BY DEF MapFor
<1>3. QED
  BY <1>1, <1>2, BufferedSubset DEF HoldBack

(* What a reference to a Map of p gives are messages of p that were sent.  *)
LEMMA ContentsTyped ==
    ASSUME TypeOK, Keyed, NEW p \in Peers, NEW i \in Maps \cup {NoMap},
           NEW m \in Contents(p, i)
    PROVE  m \in wire /\ m.from = p /\ i \in Maps /\ m \in maps[p][i]
BY DEF Contents, TypeOK, Keyed

-----------------------------------------------------------------------------
(* Processing one message *)

(* The effect of processAcceptedIncomingMessage on the message numbered    *)
(* next by its sender: it was not processed before, and now is.            *)
LEMMA NextIsNew ==
    ASSUME IInv, NEW m \in wire, m.seq = Expected(m.from)
    PROVE  m \notin ever /\ m \notin processed
BY DEF IInv, TypeOK, NoneAbove, Known, Expected, Message

LEMMA Processing ==
    ASSUME IInv, NEW s \in Slots, NEW m \in wire, m.seq = Expected(m.from),
           ProcessAccepted(s, m), UNCHANGED <<counter, elsewhere, wire, stale,
           acked, app>>, ~Handing(s)
    PROVE  /\ processed' \in SUBSET wire'
           /\ lastSeq' \in [Peers -> 0..MaxSeq]
           /\ clock' \in [Peers -> 0..MaxSeq]
           /\ cache' \in Seq(wire')
           /\ ever' \in SUBSET wire'
           /\ pc' \in [Slots -> PC]
           /\ cur' \in [Slots -> wire' \cup {NoMsg}]
           /\ NoneAbove'
           /\ NoneMissing'
           /\ Known'
           /\ Calls'
           /\ HandOnce'
<1> DEFINE p == m.from
<1>0. /\ m \notin ever /\ m \notin processed
      /\ p \in Peers /\ m.seq \in 1..MaxSeq
      /\ m.vc \in [Peers -> 0..MaxSeq]
  BY NextIsNew DEF IInv, TypeOK, Message
<1>1. /\ processed' = processed \cup {m}
      /\ ever' = ever \cup {m}
      /\ lastSeq' = [lastSeq EXCEPT ![p] = Larger(@, m.seq)]
      /\ clock' = [q \in Peers |-> Larger(clock[q], m.vc[q])]
      /\ pc' = [pc EXCEPT ![s] = "ack"]
      /\ cur' = [cur EXCEPT ![s] = m]
      /\ cache' = RememberProcessed(m)
  BY <1>0 DEF ProcessAccepted, PersistIncoming
<1>2. lastSeq' = [lastSeq EXCEPT ![p] = m.seq] /\ m.seq = lastSeq[p] + 1
  <2>1. m.seq = lastSeq[p] + 1 /\ lastSeq[p] \in Nat
    BY <1>0 DEF IInv, TypeOK, Expected
  <2>2. Larger(lastSeq[p], m.seq) = m.seq
    BY <2>1 DEF Larger
  <2>3. QED
    BY <1>1, <2>1, <2>2
<1>3. /\ cache' \in Seq(wire)
      /\ Range(cache') \subseteq Range(cache) \cup {m}
  BY <1>1, RememberedCache, BoundsAssumption DEF IInv, TypeOK
<1>4. /\ processed' \in SUBSET wire'
      /\ lastSeq' \in [Peers -> 0..MaxSeq]
      /\ ever' \in SUBSET wire'
      /\ pc' \in [Slots -> PC]
      /\ cur' \in [Slots -> wire' \cup {NoMsg}]
  BY <1>0, <1>1, <1>2 DEF IInv, TypeOK, PC
<1>5. clock' \in [Peers -> 0..MaxSeq]
  BY <1>0, <1>1 DEF IInv, TypeOK, Larger
<1>6. NoneAbove'
  BY <1>0, <1>1, <1>2 DEF IInv, TypeOK, NoneAbove, Message
<1>7. NoneMissing'
  <2> SUFFICES ASSUME NEW q \in Peers, NEW k \in 1..MaxSeq, k <= lastSeq'[q]
               PROVE  \E n \in ever' : n.from = q /\ n.seq = k
    BY DEF NoneMissing
  <2>1. CASE q = p /\ k = m.seq
    BY <1>1, <2>1
  <2>2. CASE ~(q = p /\ k = m.seq)
    <3>1. k <= lastSeq[q]
      BY <1>0, <1>2, <2>2 DEF IInv, TypeOK
    <3>2. QED
      BY <1>1, <3>1 DEF IInv, NoneMissing
  <2>3. QED
    BY <2>1, <2>2
<1>8. Known'
  BY <1>1, <1>3 DEF IInv, Known
<1>9. Calls'
  BY <1>1 DEF IInv, TypeOK, Calls
<1>10. HandOnce'
  <2>1. /\ \A i \in DOMAIN app' : app'[i] \in ever'
        /\ AtMostOnce'
    BY <1>1 DEF IInv, HandOnce, AtMostOnce
  <2>2. \A i \in DOMAIN app : app[i] # m
    BY <1>0 DEF IInv, HandOnce
  <2>3. \A t \in Slots : Handing(t) => cur[t] # m
    BY <1>0 DEF IInv, Calls, Handing
  <2>4. \A t \in Slots : t # s => (Handing(t)' <=> Handing(t)) /\ cur'[t] = cur[t]
    BY <1>1 DEF IInv, TypeOK, Handing
  <2>5. cur'[s] = m
    BY <1>1 DEF IInv, TypeOK
  <2>6. \A t \in Slots : Handing(t)' => \A i \in DOMAIN app' : app'[i] # cur'[t]
    BY <2>2, <2>4, <2>5 DEF IInv, HandOnce
  <2>7. \A t, u \in Slots : Handing(t)' /\ Handing(u)' /\ t # u => cur'[t] # cur'[u]
    BY <2>3, <2>4, <2>5 DEF IInv, HandOnce
  <2>8. QED
    BY <2>1, <2>6, <2>7 DEF HandOnce, Handing
<1>11. QED
  BY <1>3, <1>4, <1>5, <1>6, <1>7, <1>8, <1>9, <1>10

-----------------------------------------------------------------------------
(* The invariant is inductive: one lemma for each kind of step *)

LEMMA InitIInv == Init => IInv
<1> SUFFICES ASSUME Init PROVE IInv
  OBVIOUS
<1>1. TypeOK
  BY BoundsAssumption DEF Init, TypeOK, PC
<1>2. Numbering /\ NoneAbove /\ NoneMissing /\ Keyed
  BY BoundsAssumption DEF Init, Numbering, NoneAbove, NoneMissing, Keyed
<1>3. Known
  BY DEF Init, Known, Range
<1>4. Calls /\ HandOnce
  BY DEF Init, Calls, HandOnce, Handing, AtMostOnce
<1>5. QED
  BY <1>1, <1>2, <1>3, <1>4 DEF IInv

(* A new message has a new number; nothing else of the invariant mentions  *)
(* what is not in wire yet.                                                *)
LEMMA PeerSendIInv ==
    ASSUME IInv, NEW p \in Peers, PeerSend(p)
    PROVE  IInv'
<1>1. PICK vc \in [Peers -> 0..MaxSeq] :
        wire' = wire \cup {[from |-> p, seq |-> counter[p] + 1, vc |-> vc]}
  BY DEF PeerSend
<1> DEFINE new == [from |-> p, seq |-> counter[p] + 1, vc |-> vc]
<1>2. /\ counter[p] \in 0..MaxSeq /\ counter[p] + 1 \in 1..MaxSeq
      /\ counter' = [counter EXCEPT ![p] = @ + 1]
      /\ UNCHANGED <<elsewhere, stale, dbVars, cache, buffer, taskVars, history>>
  BY BoundsAssumption DEF PeerSend, IInv, TypeOK
<1>3. new \in Message /\ wire \subseteq wire' /\ wire' \in SUBSET Message
  BY <1>1, <1>2 DEF IInv, TypeOK, Message
<1>4. cache \in Seq(wire') /\ app \in Seq(wire')
  BY <1>3, SeqGrows DEF IInv, TypeOK
<1>5. TypeOK'
  BY <1>2, <1>3, <1>4, BoundsAssumption
     DEF IInv, TypeOK, dbVars, taskVars, history, bounds, buffer
<1>6. Numbering'
  BY <1>1, <1>2 DEF IInv, TypeOK, Numbering, Message
<1>7. (NoneAbove /\ NoneMissing /\ Keyed /\ HandOnce)'
  BY <1>2 DEF IInv, NoneAbove, NoneMissing, Keyed, HandOnce, AtMostOnce,
              Handing, dbVars, taskVars, history, buffer
<1>8. Known'
  BY <1>2 DEF IInv, Known, dbVars, history, buffer
<1>9. Calls'
  BY <1>2, <1>3 DEF IInv, Calls, taskVars, history, buffer
<1>10. QED
  BY <1>5, <1>6, <1>7, <1>8, <1>9 DEF IInv

LEMMA PeerSendElsewhereIInv ==
    ASSUME IInv, NEW p \in Peers, PeerSendElsewhere(p)
    PROVE  IInv'
<1>1. /\ counter[p] \in 0..MaxSeq /\ counter[p] + 1 \in 0..MaxSeq
      /\ counter' = [counter EXCEPT ![p] = @ + 1]
      /\ elsewhere' = [elsewhere EXCEPT ![p] = counter[p] + 1]
      /\ UNCHANGED <<wire, stale, dbVars, cache, buffer, taskVars, history>>
  BY BoundsAssumption DEF PeerSendElsewhere, IInv, TypeOK
<1>2. TypeOK'
  BY <1>1 DEF IInv, TypeOK, dbVars, taskVars, history, bounds, buffer
<1>3. Numbering'
  BY <1>1 DEF IInv, TypeOK, Numbering, Message
<1>4. (NoneAbove /\ NoneMissing /\ Known /\ Keyed /\ Calls /\ HandOnce)'
  BY <1>1 DEF IInv, NoneAbove, NoneMissing, Known, Keyed, Calls, HandOnce,
              AtMostOnce, Handing, dbVars, taskVars, history, buffer
<1>5. QED
  BY <1>2, <1>3, <1>4 DEF IInv

(* Steps that leave the tables, the log of handed messages and the pending *)
(* hand-overs as they are: ageing, arrival, and purging old rows.          *)
LEMMA QuietStepIInv ==
    ASSUME IInv,
           \/ \E m \in wire : Age(m)
           \/ \E s \in Slots, m \in wire : Arrive(s, m)
           \/ \E m \in processed : PurgeProcessed(m)
    PROVE  IInv'
<1>1. ASSUME NEW m \in wire, Age(m)
      PROVE  IInv'
  <2> USE <1>1 DEF Age, dbVars, taskVars, history, bounds, buffer
  <2>1. TypeOK'
    BY DEF IInv, TypeOK
  <2>2. (Numbering /\ NoneAbove /\ NoneMissing /\ Known /\ Keyed)'
    BY DEF IInv, Numbering, NoneAbove, NoneMissing, Known, Keyed
  <2>3. (Calls /\ HandOnce)'
    BY DEF IInv, Calls, HandOnce, AtMostOnce, Handing
  <2>4. QED
    BY <2>1, <2>2, <2>3 DEF IInv
<1>2. ASSUME NEW s \in Slots, NEW m \in wire, Arrive(s, m)
      PROVE  IInv'
  <2> USE <1>2 DEF Arrive, peerVars, dbVars, history, bounds, buffer
  <2>1. TypeOK'
    BY DEF IInv, TypeOK, PC
  <2>2. (Numbering /\ NoneAbove /\ NoneMissing /\ Known /\ Keyed)'
    BY DEF IInv, Numbering, NoneAbove, NoneMissing, Known, Keyed
  <2>3. Calls'
    BY DEF IInv, TypeOK, Calls
  <2>4. \A t \in Slots : Handing(t)' => Handing(t) /\ cur'[t] = cur[t]
    BY DEF IInv, TypeOK, Handing
  <2>5. HandOnce'
    BY <2>4 DEF IInv, HandOnce, AtMostOnce
  <2>6. QED
    BY <2>1, <2>2, <2>3, <2>5 DEF IInv
<1>3. ASSUME NEW m \in processed, PurgeProcessed(m)
      PROVE  IInv'
  <2> USE <1>3 DEF PurgeProcessed, peerVars, taskVars, history, bounds, buffer
  <2>1. TypeOK'
    BY DEF IInv, TypeOK
  <2>2. (Numbering /\ NoneAbove /\ NoneMissing /\ Known /\ Keyed)'
    BY DEF IInv, Numbering, NoneAbove, NoneMissing, Known, Keyed
  <2>3. (Calls /\ HandOnce)'
    BY DEF IInv, Calls, HandOnce, AtMostOnce, Handing
  <2>4. QED
    BY <2>1, <2>2, <2>3 DEF IInv
<1>4. QED
  BY <1>1, <1>2, <1>3

-----------------------------------------------------------------------------
(* A call that ends, or moves to a place before onMessage it was already   *)
(* at or to none, disturbs neither what is known nor the hand-over.        *)
LEMMA CallsMove ==
    ASSUME IInv, NEW s \in Slots, UNCHANGED <<wire, ever, app>>,
           \A t \in Slots \ {s} : pc'[t] = pc[t] /\ cur'[t] = cur[t],
           \/ pc'[s] = "idle"
           \/ /\ cur'[s] = cur[s] /\ pc[s] # "idle"
              /\ \/ pc'[s] = "flush"
                 \/ pc[s] = "ack" /\ pc'[s] = "app"
                 \/ pc'[s] = "reack" /\ cur[s] \in ever
    PROVE  Calls' /\ HandOnce'
<1>1. \A t \in Slots : Handing(t)' => Handing(t) /\ cur'[t] = cur[t]
  BY DEF Handing
<1>2. HandOnce'
  BY <1>1 DEF IInv, HandOnce, AtMostOnce
<1>3. Calls'
  BY DEF IInv, Calls
<1>4. QED
  BY <1>2, <1>3

(* What the checks of receive() decide about a message that stands at      *)
(* "received".                                                             *)
LEMMA ExamineIInv ==
    ASSUME IInv, NEW s \in Slots, Examine(s)
    PROVE  IInv'
<1> DEFINE m == cur[s]
<1>0. /\ m \in wire /\ m.from \in Peers /\ m.seq \in 1..MaxSeq /\ pc[s] = "received"
      /\ UNCHANGED <<peerVars, acked, app, missed, strays, bounds>>
  BY DEF Examine, IInv, TypeOK, Calls, Message
<1>1. CASE DropStale(s)
  <2>1. Calls' /\ HandOnce'
    BY <1>0, <1>1, CallsMove DEF DropStale, EndCall, IInv, TypeOK, peerVars, buffer
  <2>2. TypeOK'
    BY <1>0, <1>1 DEF DropStale, EndCall, IInv, TypeOK, PC, peerVars,
                      dbVars, bounds, buffer
  <2>3. (Numbering /\ NoneAbove /\ NoneMissing /\ Known /\ Keyed)'
    BY <1>0, <1>1 DEF DropStale, IInv, Numbering, NoneAbove, NoneMissing,
                      Known, Keyed, peerVars, dbVars, buffer
  <2>4. QED
    BY <2>1, <2>2, <2>3 DEF IInv
<1>2. CASE AckWithoutProcessing(s)
  <2>1. m \in ever
    <3>1. CASE IsDuplicate(m)
      BY <3>1 DEF IsDuplicate, IInv, Known
    <3>2. CASE ~IsSequenceValid(m)
      <4>1. m.seq <= lastSeq[m.from]
        BY <1>0, <3>2 DEF IsSequenceValid, IInv, TypeOK
      <4>2. PICK n \in ever : n.from = m.from /\ n.seq = m.seq
        BY <1>0, <4>1 DEF IInv, NoneMissing
      <4>3. QED
        BY <1>0, <4>2 DEF IInv, TypeOK, Numbering
    <3>3. QED
      BY <1>2, <3>1, <3>2 DEF AckWithoutProcessing
  <2>2. Calls' /\ HandOnce'
    BY <1>0, <1>2, <2>1, CallsMove DEF AckWithoutProcessing, IInv, TypeOK, peerVars, buffer
  <2>3. TypeOK'
    BY <1>0, <1>2 DEF AckWithoutProcessing, IInv, TypeOK, PC, peerVars, dbVars,
                      bounds, buffer
  <2>4. (Numbering /\ NoneAbove /\ NoneMissing /\ Known /\ Keyed)'
    BY <1>0, <1>2 DEF AckWithoutProcessing, IInv, Numbering, NoneAbove,
                      NoneMissing, Known, Keyed, peerVars, dbVars, buffer
  <2>5. QED
    BY <2>2, <2>3, <2>4 DEF IInv
<1>3. CASE HoldBack(s)
  <2>1. Calls' /\ HandOnce'
    BY <1>0, <1>3, CallsMove DEF HoldBack, EndCall, IInv, TypeOK, peerVars, buffer
  <2>2. /\ MapFor(m.from) \in Maps
        /\ entry' = [entry EXCEPT ![m.from] = MapFor(m.from)]
        /\ maps' = [maps EXCEPT ![m.from][MapFor(m.from)] =
                       BufferOutOfOrder(Buffer(m.from), m)]
        /\ BufferOutOfOrder(Buffer(m.from), m) \subseteq Buffer(m.from) \cup {m}
    BY <1>0, <1>3, HeldBack DEF IInv
  <2>3. /\ entry' \in [Peers -> Maps \cup {NoMap}]
        /\ maps' \in [Peers -> [Maps -> SUBSET wire]] /\ Keyed'
    <3> DEFINE b == BufferOutOfOrder(Buffer(m.from), m)
    <3>1. \A n \in b : n \in wire /\ n.from = m.from
      BY <1>0, <2>2, ContentsTyped DEF Buffer, IInv, TypeOK
    <3> HIDE DEF b
    <3>2. maps' = [maps EXCEPT ![m.from][MapFor(m.from)] = b]
      BY <2>2 DEF b
    <3>3. QED
      BY <1>0, <2>2, <3>1, <3>2 DEF IInv, TypeOK, Keyed
  <2>4. TypeOK'
    BY <1>0, <1>3, <2>3 DEF HoldBack, EndCall, IInv, TypeOK, PC,
                            peerVars, dbVars, bounds, buffer
  <2>5. (Numbering /\ NoneAbove /\ NoneMissing /\ Known)'
    BY <1>0, <1>3 DEF HoldBack, IInv, Numbering, NoneAbove, NoneMissing, Known,
                      peerVars, dbVars, buffer
  <2>6. QED
    BY <2>1, <2>3, <2>4, <2>5 DEF IInv
<1>4. CASE RejectClock(s)
  <2>1. Calls' /\ HandOnce'
    BY <1>0, <1>4, CallsMove DEF RejectClock, EndCall, IInv, TypeOK, peerVars, buffer
  <2>2. TypeOK'
    BY <1>0, <1>4 DEF RejectClock, EndCall, IInv, TypeOK, PC, peerVars,
                      dbVars, bounds, buffer
  <2>3. (Numbering /\ NoneAbove /\ NoneMissing /\ Known /\ Keyed)'
    BY <1>0, <1>4 DEF RejectClock, IInv, Numbering, NoneAbove, NoneMissing,
                      Known, Keyed, peerVars, dbVars, buffer
  <2>4. QED
    BY <2>1, <2>2, <2>3 DEF IInv
<1>5. CASE Accept(s)
  <2>1. m.seq = Expected(m.from)
    BY <1>0, <1>5 DEF Accept, IsSequenceValid, ShouldBufferOutOfOrder,
                      Expected, IInv, TypeOK
  <2>2. ~Handing(s) /\ ProcessAccepted(s, m) /\ UNCHANGED <<buffer, loop>>
    BY <1>0, <1>5 DEF Accept, Handing
  <2>3. (NoneAbove /\ NoneMissing /\ Known /\ Calls /\ HandOnce)'
    BY <1>0, <2>1, <2>2, Processing DEF peerVars, buffer
  <2>4. TypeOK'
    BY <1>0, <2>1, <2>2, Processing DEF IInv, TypeOK, peerVars, bounds, buffer
  <2>5. (Numbering /\ Keyed)'
    BY <1>0, <2>2 DEF IInv, Numbering, Keyed, peerVars, buffer
  <2>6. QED
    BY <2>3, <2>4, <2>5 DEF IInv
<1>6. QED
  BY <1>1, <1>2, <1>3, <1>4, <1>5 DEF Examine

(* The steps after the checks: the ACK, the hand-over, the flush loop.     *)
LEMMA AckSentIInv ==
    ASSUME IInv, NEW s \in Slots, AckSent(s)
    PROVE  IInv'
<1>0. /\ cur[s] \in ever /\ cur[s] \in wire
      /\ acked' = acked \cup {cur[s]}
      /\ UNCHANGED <<peerVars, dbVars, cache, buffer, ever, app,
                     missed, strays, bounds>>
  BY DEF AckSent, IInv, Calls
<1>1. Calls' /\ HandOnce'
  BY <1>0, CallsMove DEF AckSent, EndCall, IInv, TypeOK, peerVars, buffer
<1>2. TypeOK'
  BY <1>0 DEF AckSent, EndCall, IInv, TypeOK, PC, peerVars, dbVars, bounds, buffer
<1>3. (Numbering /\ NoneAbove /\ NoneMissing /\ Known /\ Keyed)'
  BY <1>0 DEF IInv, Numbering, NoneAbove, NoneMissing, Known, Keyed, peerVars,
              dbVars, buffer
<1>4. QED
  BY <1>1, <1>2, <1>3 DEF IInv

LEMMA AckFailsIInv ==
    ASSUME IInv, NEW s \in Slots, AckFails(s)
    PROVE  IInv'
<1>1. Calls' /\ HandOnce'
  BY CallsMove DEF AckFails, EndCall, IInv, TypeOK, peerVars, buffer
<1>2. TypeOK'
  <2>1. missed' \in SUBSET wire /\ ackFails' \in 0..MaxAckFails
    BY BoundsAssumption DEF AckFails, IInv, TypeOK, Calls
  <2>2. QED
    BY <2>1 DEF AckFails, EndCall, IInv, TypeOK, PC, peerVars, dbVars, buffer
<1>3. (Numbering /\ NoneAbove /\ NoneMissing /\ Known /\ Keyed)'
  BY DEF AckFails, IInv, Numbering, NoneAbove, NoneMissing, Known, Keyed,
         peerVars, dbVars, buffer
<1>4. QED
  BY <1>1, <1>2, <1>3 DEF IInv

LEMMA HandToAppIInv ==
    ASSUME IInv, NEW s \in Slots, HandToApp(s)
    PROVE  IInv'
<1>0. /\ Handing(s) /\ cur[s] \in ever /\ cur[s] \in wire
      /\ app' = Append(app, cur[s]) /\ app \in Seq(wire)
      /\ pc' = [pc EXCEPT ![s] = "flush"]
      /\ UNCHANGED <<peerVars, dbVars, cache, buffer, cur, loop, ever, acked,
                     missed, strays, bounds>>
  BY DEF HandToApp, Handing, IInv, Calls, TypeOK
<1>1. app' \in Seq(wire)
  BY <1>0, AppendRange
<1>2. TypeOK'
  BY <1>0, <1>1 DEF IInv, TypeOK, PC, peerVars, dbVars, bounds, buffer
<1>3. Calls'
  BY <1>0 DEF IInv, TypeOK, Calls, peerVars, buffer
<1>4. \A t \in Slots : Handing(t)' => Handing(t) /\ cur'[t] = cur[t] /\ t # s
  BY <1>0 DEF IInv, TypeOK, Handing
<1>5. /\ DOMAIN app' = DOMAIN app \cup {Len(app) + 1}
      /\ \A i \in DOMAIN app : app'[i] = app[i]
      /\ app'[Len(app) + 1] = cur[s]
  BY <1>0
<1>6. HandOnce'
  <2>1. \A i \in DOMAIN app' : app'[i] \in ever'
    BY <1>0, <1>5 DEF IInv, HandOnce
  <2>2. \A i \in DOMAIN app : app[i] # cur[s]
    BY <1>0 DEF IInv, HandOnce
  <2>3. AtMostOnce'
    BY <1>5, <2>2 DEF IInv, HandOnce, AtMostOnce
  <2>4. \A t \in Slots : Handing(t)' => cur[t] # cur[s]
    BY <1>0, <1>4 DEF IInv, HandOnce
  <2>5. \A t \in Slots : Handing(t)' => \A i \in DOMAIN app' : app'[i] # cur'[t]
    BY <1>0, <1>4, <1>5, <2>4 DEF IInv, HandOnce
  <2>6. \A t, u \in Slots : Handing(t)' /\ Handing(u)' /\ t # u => cur'[t] # cur'[u]
    BY <1>4 DEF IInv, HandOnce
  <2>7. QED
    BY <2>1, <2>3, <2>5, <2>6 DEF HandOnce, Handing
<1>7. (Numbering /\ NoneAbove /\ NoneMissing /\ Known /\ Keyed)'
  BY <1>0 DEF IInv, Numbering, NoneAbove, NoneMissing, Known, Keyed, peerVars,
              dbVars, buffer
<1>8. QED
  BY <1>2, <1>3, <1>6, <1>7 DEF IInv

LEMMA FlushNextIInv ==
    ASSUME IInv, NEW s \in Slots, FlushNext(s)
    PROVE  IInv'
<1>1. PICK m \in NextBuffered(s) :
        /\ maps' = [maps EXCEPT ![cur[s].from][OwnMap(s)] = {n \in @ : n.seq # m.seq}]
        /\ ProcessAccepted(s, m)
        /\ strays' \in {strays, strays \cup {m}}
  BY DEF FlushNext
<1>2. /\ pc[s] = "flush" /\ loop' = [loop EXCEPT ![s] = OwnMap(s)]
      /\ UNCHANGED <<peerVars, entry, acked, app, missed, bounds>>
  BY DEF FlushNext
<1>3. cur[s] \in wire /\ cur[s].from \in Peers
  BY <1>2 DEF IInv, Calls, TypeOK, Message
<1>4. OwnMap(s) \in Maps \cup {NoMap}
  BY <1>3 DEF OwnMap, IInv, TypeOK
<1>5. /\ m \in wire /\ m.from \in Peers /\ m.from = cur[s].from
      /\ OwnMap(s) \in Maps
  BY <1>1, <1>3, <1>4, ContentsTyped DEF NextBuffered, Own, IInv
<1>6. m.seq = Expected(m.from) /\ ~Handing(s)
  BY <1>1, <1>2, <1>5 DEF NextBuffered, Handing
<1>7. (NoneAbove /\ NoneMissing /\ Known /\ Calls /\ HandOnce)'
  BY <1>1, <1>2, <1>5, <1>6, Processing DEF peerVars
<1>8. /\ maps' \in [Peers -> [Maps -> SUBSET wire]] /\ Keyed'
      /\ strays' \in SUBSET wire
  BY <1>1, <1>5 DEF IInv, TypeOK, Keyed
<1>9. TypeOK'
  BY <1>1, <1>2, <1>5, <1>6, <1>8, Processing
     DEF IInv, TypeOK, peerVars, bounds
<1>10. Numbering'
  BY <1>2 DEF IInv, Numbering, peerVars
<1>11. QED
  BY <1>7, <1>8, <1>9, <1>10 DEF IInv

LEMMA FlushEndsIInv ==
    ASSUME IInv, NEW s \in Slots, FlushEnds(s)
    PROVE  IInv'
<1>0. /\ pc' = [pc EXCEPT ![s] = "idle"]
      /\ cur' = [cur EXCEPT ![s] = NoMsg]
      /\ loop' = [loop EXCEPT ![s] = NoMap]
      /\ entry' \in {entry, [entry EXCEPT ![cur[s].from] = NoMap]}
      /\ UNCHANGED <<peerVars, dbVars, cache, maps, ever, acked, app,
                     missed, strays, bounds>>
  BY DEF FlushEnds, EndCall
<1>1. Calls' /\ HandOnce'
  BY <1>0, CallsMove DEF IInv, TypeOK, peerVars
<1>2. TypeOK'
  BY <1>0 DEF IInv, TypeOK, PC, peerVars, dbVars, bounds
<1>3. (Numbering /\ NoneAbove /\ NoneMissing /\ Known /\ Keyed)'
  BY <1>0 DEF IInv, Numbering, NoneAbove, NoneMissing, Known, Keyed, peerVars,
              dbVars
<1>4. QED
  BY <1>1, <1>2, <1>3 DEF IInv

LEMMA CrashIInv ==
    ASSUME IInv, Crash
    PROVE  IInv'
<1>1. TypeOK'
  <2>1. missed' \in SUBSET wire
    BY DEF Crash, IInv, TypeOK, Calls
  <2>2. crashes' \in 0..MaxCrashes
    BY BoundsAssumption DEF Crash, IInv, TypeOK
  <2>3. QED
    BY <2>1, <2>2 DEF Crash, IInv, TypeOK, PC, peerVars, dbVars, buffer
<1>2. Known'
  BY DEF Crash, IInv, Known, Range, dbVars, buffer
<1>3. (Numbering /\ NoneAbove /\ NoneMissing /\ Keyed)'
  BY DEF Crash, IInv, Numbering, NoneAbove, NoneMissing, Keyed, peerVars, dbVars, buffer
<1>4. (Calls /\ HandOnce)'
  BY DEF Crash, IInv, TypeOK, Calls, HandOnce, AtMostOnce, Handing
<1>5. QED
  BY <1>1, <1>2, <1>3, <1>4 DEF IInv

LEMMA StutterIInv == IInv /\ UNCHANGED vars => IInv'
<1> SUFFICES ASSUME IInv, UNCHANGED vars PROVE IInv'
  OBVIOUS
<1> USE DEF vars, peerVars, dbVars, taskVars, history, bounds, buffer
<1>1. TypeOK'
  BY DEF IInv, TypeOK
<1>2. (Numbering /\ NoneAbove /\ NoneMissing /\ Known /\ Keyed)'
  BY DEF IInv, Numbering, NoneAbove, NoneMissing, Known, Keyed
<1>3. (Calls /\ HandOnce)'
  BY DEF IInv, Calls, HandOnce, AtMostOnce, Handing
<1>4. QED
  BY <1>1, <1>2, <1>3 DEF IInv

LEMMA NextIInv == IInv /\ [Next]_vars => IInv'
<1> SUFFICES ASSUME IInv, [Next]_vars PROVE IInv'
  OBVIOUS
<1>1. CASE \E p \in Peers : PeerSend(p) \/ PeerSendElsewhere(p)
  BY <1>1, PeerSendIInv, PeerSendElsewhereIInv
<1>2. CASE \/ \E m \in wire : Age(m)
           \/ \E s \in Slots, m \in wire : Arrive(s, m)
           \/ \E m \in processed : PurgeProcessed(m)
  BY <1>2, QuietStepIInv
<1>3. CASE \E s \in Slots : Step(s) \/ AckFails(s)
  BY <1>3, ExamineIInv, AckSentIInv, HandToAppIInv, FlushNextIInv,
     FlushEndsIInv, AckFailsIInv DEF Step
<1>4. CASE Crash
  BY <1>4, CrashIInv
<1>5. CASE UNCHANGED vars
  BY <1>5, StutterIInv
<1>6. QED
  BY <1>1, <1>2, <1>3, <1>4, <1>5 DEF Next

(* The inductive invariant holds in every behaviour of the receive path.   *)
THEOREM Inductive == Spec => []IInv
BY InitIInv, NextIInv, PTL DEF Spec

(* Every variable keeps its type, whatever the limits and the number of    *)
(* receive() calls in progress.                                            *)
THEOREM TypeCorrect == Spec => []TypeOK
<1>1. IInv => TypeOK
  BY DEF IInv
<1>2. QED
  BY Inductive, <1>1, PTL

(* An ACK leaves the node only for a message that was written to           *)
(* processed_messages, also when receive() acknowledges without processing.*)
THEOREM AcksAreSafe == Spec => []AckedWasProcessed
<1>1. IInv => AckedWasProcessed
  BY DEF IInv, Known, AckedWasProcessed
<1>2. QED
  BY Inductive, <1>1, PTL

(* onMessage is called at most once for each message, through crashes,     *)
(* retransmissions, overlapping calls and purged rows.                     *)
THEOREM HandedAtMostOnce == Spec => []AtMostOnce
<1>1. IInv => AtMostOnce
  BY DEF IInv, HandOnce
<1>2. QED
  BY Inductive, <1>1, PTL

(* peer_sequences and processed_messages agree: what was processed for a   *)
(* peer are the messages numbered 1 to last_sequence.                      *)
THEOREM PrefixProcessed == Spec => []ProcessedIsPrefix
<1>1. ASSUME IInv PROVE ProcessedIsPrefix
  <2> SUFFICES ASSUME NEW p \in Peers
               PROVE  {m.seq : m \in {n \in ever : n.from = p}} = 1..lastSeq[p]
    BY DEF ProcessedIsPrefix
  <2>1. lastSeq[p] \in 0..MaxSeq /\ MaxSeq \in Nat
    BY <1>1, BoundsAssumption DEF IInv, TypeOK
  <2>2. ASSUME NEW m \in ever, m.from = p
        PROVE  m.seq \in 1..lastSeq[p]
    BY <1>1, <2>1, <2>2 DEF IInv, TypeOK, NoneAbove, Message
  <2>3. ASSUME NEW k \in 1..lastSeq[p]
        PROVE  \E m \in ever : m.from = p /\ m.seq = k
    BY <1>1, <2>1 DEF IInv, NoneMissing
  <2>4. QED
    BY <2>2, <2>3
<1>2. QED
  BY Inductive, <1>1, PTL

-----------------------------------------------------------------------------
(* Flushing *)

(* Only a call that has processed a message works on a Map.                *)
NoLoopYet ==
    \A s \in Slots : pc[s] \in {"idle", "received", "reack"} => loop[s] = NoMap

FlushInv == NoLoopYet /\ GapClosedIsFlushed

(* Processing a message of a peer either leaves a call that will look for  *)
(* the next one, or was done from a removed Map; no other peer is touched. *)
LEMMA ProcessingFlushes ==
    ASSUME IInv, FlushInv, NEW s \in Slots, NEW m \in wire,
           m.seq = Expected(m.from), ProcessAccepted(s, m),
           pc[s] \in {"received", "flush"},
           pc[s] = "flush" => cur[s].from = m.from,
           UNCHANGED <<entry, missed>>,
           strays \subseteq strays',
           \A p \in Peers : Buffer(p)' \subseteq Buffer(p),
           loop' \in [Slots -> Maps \cup {NoMap}],
           loop'[s] \in {NoMap, entry[m.from]} \/ m \in strays',
           \A t \in Slots \ {s} : loop'[t] = loop[t]
    PROVE  FlushInv'
<1>1. m \notin processed /\ m.from \in Peers /\ m.seq = lastSeq[m.from] + 1
  BY NextIsNew DEF IInv, TypeOK, Message, Expected
<1>2. /\ pc' = [pc EXCEPT ![s] = "ack"] /\ cur' = [cur EXCEPT ![s] = m]
      /\ lastSeq' = [lastSeq EXCEPT ![m.from] = Larger(@, m.seq)]
      /\ ever' = ever \cup {m}
  BY <1>1 DEF ProcessAccepted, PersistIncoming
<1>3. NoLoopYet'
  BY <1>2 DEF FlushInv, NoLoopYet, IInv, TypeOK
<1>4. lastSeq'[m.from] = m.seq
  <2>1. lastSeq[m.from] \in Nat
    BY <1>1 DEF IInv, TypeOK
  <2>2. Larger(lastSeq[m.from], m.seq) = m.seq
    BY <1>1, <2>1 DEF Larger
  <2>3. QED
    BY <1>1, <1>2, <2>2 DEF IInv, TypeOK
<1>5. m \in ever' /\ (m \in strays' \/ (cur'[s] = m /\ WillLook(s)'))
  <2>1. pc'[s] = "ack" /\ cur'[s] = m /\ m \in ever' /\ entry' = entry
    BY <1>2 DEF IInv, TypeOK
  <2>2. CASE loop'[s] \in {NoMap, entry[m.from]}
    BY <2>1, <2>2 DEF WillLook
  <2>3. QED
    BY <2>1, <2>2
<1>6. ASSUME NEW p \in Peers, NEW k \in Buffer(p)', k.seq = Expected(p)'
      PROVE  \E n \in ever' :
                /\ n.from = p /\ n.seq = lastSeq'[p]
                /\ \/ n \in missed' \cup strays'
                   \/ \E t \in Slots : cur'[t] = n /\ WillLook(t)'
  <2>1. CASE p = m.from
    BY <1>4, <1>5, <2>1
  <2>2. CASE p # m.from
    <3>1. lastSeq'[p] = lastSeq[p] /\ Expected(p)' = Expected(p)
      BY <1>2, <2>2 DEF Expected, IInv, TypeOK
    <3>2. PICK n \in ever :
             /\ n.from = p /\ n.seq = lastSeq[p]
             /\ \/ n \in missed \cup strays
                \/ \E t \in Slots : cur[t] = n /\ WillLook(t)
      BY <1>6, <3>1 DEF FlushInv, GapClosedIsFlushed
    <3>3. ASSUME NEW t \in Slots, cur[t] = n, WillLook(t)
          PROVE  cur'[t] = n /\ WillLook(t)'
      <4>1. t # s
        BY <2>2, <3>2, <3>3 DEF WillLook
      <4>2. QED
        BY <1>2, <3>3, <4>1 DEF WillLook, IInv, TypeOK
    <3>4. QED
      BY <1>2, <3>1, <3>2, <3>3
  <2>3. QED
    BY <2>1, <2>2
<1>7. QED
  BY <1>3, <1>6 DEF FlushInv, GapClosedIsFlushed

(* A step that makes no message the next of its sender, and takes from no  *)
(* peer with one the call that will look for it, unless it notes so.       *)
LEMMA CallsKept ==
    ASSUME FlushInv, NoLoopYet', UNCHANGED <<lastSeq, ever>>,
           missed \subseteq missed', strays \subseteq strays',
           \A p \in Peers : \A m \in Buffer(p)' :
              m.seq = Expected(p) =>
                /\ m \in Buffer(p)
                /\ \A s \in Slots : WillLook(s) /\ cur[s].from = p =>
                      \/ (WillLook(s)' /\ cur'[s] = cur[s])
                      \/ cur[s] \in missed'
    PROVE  FlushInv'
<1>1. ASSUME NEW p \in Peers, NEW m \in Buffer(p)', m.seq = Expected(p)'
      PROVE  \E n \in ever' :
                /\ n.from = p /\ n.seq = lastSeq'[p]
                /\ \/ n \in missed' \cup strays'
                   \/ \E s \in Slots : cur'[s] = n /\ WillLook(s)'
  <2>1. m.seq = Expected(p) /\ m \in Buffer(p)
    BY <1>1 DEF Expected
  <2>2. PICK n \in ever :
           /\ n.from = p /\ n.seq = lastSeq[p]
           /\ \/ n \in missed \cup strays
              \/ \E s \in Slots : cur[s] = n /\ WillLook(s)
    BY <2>1 DEF FlushInv, GapClosedIsFlushed
  <2>3. QED
    BY <1>1, <2>1, <2>2
<1>2. QED
  BY <1>1 DEF FlushInv, GapClosedIsFlushed

LEMMA ExamineFlush ==
    ASSUME IInv, FlushInv, NEW s \in Slots, Examine(s)
    PROVE  FlushInv'
<1> DEFINE m == cur[s]
<1>0. /\ m \in wire /\ m.from \in Peers /\ m.seq \in 1..MaxSeq /\ pc[s] = "received"
      /\ UNCHANGED <<missed, strays>>
  BY DEF Examine, IInv, TypeOK, Calls, Message, bounds
<1>1. loop[s] = NoMap
  BY <1>0 DEF FlushInv, NoLoopYet
<1>2. ASSUME DropStale(s) \/ AckWithoutProcessing(s) \/ HoldBack(s) \/ RejectClock(s)
      PROVE  FlushInv'
  <2>1. /\ pc' \in {[pc EXCEPT ![s] = "idle"], [pc EXCEPT ![s] = "reack"]}
        /\ loop' \in {loop, [loop EXCEPT ![s] = NoMap]}
        /\ cur' \in {cur, [cur EXCEPT ![s] = NoMsg]}
        /\ UNCHANGED <<lastSeq, ever>>
    BY <1>2 DEF DropStale, AckWithoutProcessing, HoldBack, RejectClock, EndCall,
       dbVars
  <2>2. NoLoopYet'
    BY <1>1, <2>1 DEF FlushInv, NoLoopYet, IInv, TypeOK
  <2>3. \A t \in Slots : WillLook(t) =>
           /\ t # s /\ pc'[t] = pc[t] /\ cur'[t] = cur[t] /\ loop'[t] = loop[t]
    BY <1>0, <2>1 DEF WillLook, IInv, TypeOK
  <2>4. CASE UNCHANGED buffer
    <3>1. \A p \in Peers : Buffer(p)' = Buffer(p)
      BY <2>4 DEF buffer, Buffer, Contents
    <3>2. \A t \in Slots : WillLook(t) => WillLook(t)' /\ cur'[t] = cur[t]
      BY <2>3, <2>4 DEF WillLook, buffer
    <3>3. QED
      BY <1>0, <2>1, <2>2, <3>1, <3>2, CallsKept
  <2>5. CASE HoldBack(s)
    <3> DEFINE b == BufferOutOfOrder(Buffer(m.from), m)
               i == MapFor(m.from)
    <3>1. /\ i \in Maps
          /\ entry' = [entry EXCEPT ![m.from] = i]
          /\ maps' = [maps EXCEPT ![m.from][i] = b]
          /\ b \subseteq Buffer(m.from) \cup {m}
          /\ entry[m.from] # NoMap => i = entry[m.from]
      BY <1>0, <2>5, HeldBack DEF IInv
    <3>2. m.seq > Expected(m.from) /\ Expected(m.from) \in Nat
      BY <1>0, <2>5, BoundsAssumption
         DEF HoldBack, ShouldBufferOutOfOrder, Expected, IInv, TypeOK
    <3> HIDE DEF b, i
    <3>3. \A p \in Peers \ {m.from} :
             entry'[p] = entry[p] /\ Buffer(p)' = Buffer(p)
      BY <1>0, <3>1 DEF Buffer, Contents, IInv, TypeOK
    <3>4. ASSUME NEW p \in Peers, p = m.from
          PROVE  Buffer(p)' = b
      <4>1. entry'[m.from] = i /\ i # NoMap
        BY <1>0, <3>1, NoMapAssumption DEF IInv, TypeOK
      <4>2. maps'[m.from][i] = b
        BY <1>0, <3>1 DEF IInv, TypeOK
      <4>3. QED
        BY <3>4, <4>1, <4>2 DEF Buffer, Contents
    <3>5. ASSUME NEW p \in Peers, NEW n \in Buffer(p)', n.seq = Expected(p)
          PROVE  n \in Buffer(p)
      <4>1. ~(n = m /\ p = m.from)
        BY <1>0, <3>2, <3>5
      <4>2. QED
        BY <3>1, <3>3, <3>4, <3>5, <4>1
    <3>6. ASSUME NEW t \in Slots, WillLook(t), cur[t].from \in Peers
          PROVE  WillLook(t)' /\ cur'[t] = cur[t]
      <4>1. CASE cur[t].from = m.from
        BY <1>0, <2>3, <3>1, <3>6, <4>1, NoMapAssumption DEF WillLook, IInv, TypeOK
      <4>2. CASE cur[t].from # m.from
        BY <2>3, <3>3, <3>6, <4>2 DEF WillLook
      <4>3. QED
        BY <4>1, <4>2
    <3>7. QED
      BY <1>0, <2>1, <2>2, <3>5, <3>6, CallsKept
  <2>6. QED
    BY <1>2, <2>4, <2>5 DEF DropStale, AckWithoutProcessing, RejectClock
<1>3. CASE Accept(s)
  <2>1. m.seq = Expected(m.from)
    BY <1>0, <1>3 DEF Accept, IsSequenceValid, ShouldBufferOutOfOrder,
                      Expected, IInv, TypeOK
  <2>2. ProcessAccepted(s, m) /\ UNCHANGED <<buffer, loop>>
    BY <1>3 DEF Accept
  <2>3. /\ loop' \in [Slots -> Maps \cup {NoMap}] /\ loop'[s] = NoMap
        /\ UNCHANGED entry /\ \A p \in Peers : Buffer(p)' = Buffer(p)
    BY <1>1, <2>2 DEF IInv, TypeOK, buffer, Buffer, Contents
  <2>4. QED
    BY <1>0, <2>1, <2>2, <2>3, ProcessingFlushes
<1>4. QED
  BY <1>2, <1>3 DEF Examine

LEMMA FlushNextFlush ==
    ASSUME IInv, FlushInv, NEW s \in Slots, FlushNext(s)
    PROVE  FlushInv'
<1>1. PICK m \in NextBuffered(s) :
        /\ maps' = [maps EXCEPT ![cur[s].from][OwnMap(s)] = {n \in @ : n.seq # m.seq}]
        /\ ProcessAccepted(s, m)
        /\ strays' = IF OwnMap(s) = entry[cur[s].from] THEN strays ELSE strays \cup {m}
  BY DEF FlushNext
<1>2. /\ pc[s] = "flush" /\ loop' = [loop EXCEPT ![s] = OwnMap(s)]
      /\ UNCHANGED <<entry, missed>>
  BY DEF FlushNext
<1>3. cur[s] \in wire /\ cur[s].from \in Peers
  BY <1>2 DEF IInv, Calls, TypeOK, Message
<1>4. OwnMap(s) \in Maps \cup {NoMap}
  BY <1>3 DEF OwnMap, IInv, TypeOK
<1>5. m \in wire /\ m.from = cur[s].from /\ m.seq = Expected(m.from)
  BY <1>1, <1>3, <1>4, ContentsTyped DEF NextBuffered, Own, IInv
<1>6. OwnMap(s) \in Maps
  BY <1>1, <1>3, <1>4, ContentsTyped DEF NextBuffered, Own, IInv
<1>7. \A p \in Peers : Buffer(p)' \subseteq Buffer(p)
  BY <1>1, <1>2, <1>3, <1>6 DEF Buffer, Contents, IInv, TypeOK
<1>8. /\ loop' \in [Slots -> Maps \cup {NoMap}]
      /\ loop'[s] \in {NoMap, entry[m.from]} \/ m \in strays'
      /\ strays \subseteq strays'
      /\ \A t \in Slots \ {s} : loop'[t] = loop[t]
  BY <1>1, <1>2, <1>5, <1>6 DEF IInv, TypeOK
<1>9. QED
  BY <1>1, <1>2, <1>5, <1>7, <1>8, ProcessingFlushes

(* A loop that would have looked for the next message has found none, or   *)
(* leaves the peer without a Map.                                          *)
LEMMA FlushEndsFlush ==
    ASSUME IInv, FlushInv, NEW s \in Slots, FlushEnds(s)
    PROVE  FlushInv'
<1> DEFINE p == cur[s].from
<1>1. /\ pc[s] = "flush" /\ pc' = [pc EXCEPT ![s] = "idle"]
      /\ cur' = [cur EXCEPT ![s] = NoMsg] /\ NextBuffered(s) = {}
      /\ loop' = [loop EXCEPT ![s] = NoMap]
      /\ entry' \in {entry, [entry EXCEPT ![p] = NoMap]}
      /\ UNCHANGED <<lastSeq, ever, maps, missed, strays>>
  BY DEF FlushEnds, EndCall, dbVars, bounds
<1>2. p \in Peers
  BY <1>1 DEF IInv, Calls, TypeOK, Message
<1>3. NoLoopYet'
  BY <1>1 DEF FlushInv, NoLoopYet, IInv, TypeOK
<1>4. \A q \in Peers : Buffer(q)' \in {Buffer(q), {}}
  BY <1>1, <1>2 DEF Buffer, Contents, IInv, TypeOK
<1>5. ASSUME NEW q \in Peers, NEW m \in Buffer(q)', m.seq = Expected(q),
             NEW t \in Slots, WillLook(t), cur[t].from = q
      PROVE  WillLook(t)' /\ cur'[t] = cur[t]
  <2>1. m \in Buffer(q)
    BY <1>4, <1>5
  <2>2. t # s
    <3>1. SUFFICES ASSUME t = s PROVE FALSE
      OBVIOUS
    <3>2. OwnMap(s) = entry[q]
      BY <1>5, <3>1 DEF WillLook, OwnMap
    <3>3. Own(s) = Buffer(q)
      BY <1>5, <3>1, <3>2 DEF Own, Buffer
    <3>4. m \in NextBuffered(s)
      BY <1>5, <2>1, <3>1, <3>3 DEF NextBuffered
    <3>5. QED
      BY <1>1, <3>4
  <2>3. /\ pc'[t] = pc[t] /\ cur'[t] = cur[t] /\ loop'[t] = loop[t]
    BY <1>1, <2>2 DEF IInv, TypeOK
  <2>4. entry'[q] = entry[q]
    <3>1. entry'[q] # NoMap
      BY <1>5 DEF Buffer, Contents
    <3>2. QED
      BY <1>1, <1>2, <3>1 DEF IInv, TypeOK
  <2>5. QED
    BY <1>5, <2>3, <2>4 DEF WillLook
<1>6. QED
  <2>1. \A q \in Peers : \A m \in Buffer(q)' : m \in Buffer(q)
    BY <1>4
  <2>2. QED
    BY <1>1, <1>3, <1>5, <2>1, CallsKept

(* The steps between: the ACK and onMessage.                               *)
LEMMA AckSentFlush ==
    ASSUME IInv, FlushInv, NEW s \in Slots, AckSent(s) \/ HandToApp(s)
    PROVE  FlushInv'
<1>1. UNCHANGED <<lastSeq, ever, entry, maps, missed, strays>>
  BY DEF AckSent, HandToApp, dbVars, bounds, buffer
<1>2. \A p \in Peers : Buffer(p)' = Buffer(p)
  BY <1>1 DEF Buffer, Contents
<1>3. CASE pc[s] \in {"ack", "app"}
  <2>1. /\ pc' \in {[pc EXCEPT ![s] = "app"], [pc EXCEPT ![s] = "flush"]}
        /\ UNCHANGED <<cur, loop>>
    BY <1>3 DEF AckSent, HandToApp
  <2>2. NoLoopYet' /\ \A t \in Slots : WillLook(t) => WillLook(t)' /\ cur'[t] = cur[t]
    BY <1>1, <2>1 DEF FlushInv, NoLoopYet, WillLook, IInv, TypeOK
  <2>3. QED
    BY <1>1, <1>2, <2>2, CallsKept
<1>4. CASE pc[s] = "reack"
  <2>1. loop[s] = NoMap
    BY <1>4 DEF FlushInv, NoLoopYet
  <2>2. EndCall(s)
    BY <1>4, <2>1 DEF AckSent, HandToApp
  <2>3. NoLoopYet' /\ \A t \in Slots : WillLook(t) => WillLook(t)' /\ cur'[t] = cur[t]
    BY <1>1, <1>4, <2>2 DEF EndCall, FlushInv, NoLoopYet, WillLook, IInv, TypeOK
  <2>4. QED
    BY <1>1, <1>2, <2>3, CallsKept
<1>5. QED
  BY <1>3, <1>4 DEF AckSent, HandToApp

(* A call that ends because its ACK could not be sent is noted.            *)
LEMMA AckFailsFlush ==
    ASSUME IInv, FlushInv, NEW s \in Slots, AckFails(s)
    PROVE  FlushInv'
<1>1. /\ pc[s] \in {"reack", "ack"} /\ EndCall(s)
      /\ missed' = IF pc[s] = "ack" THEN missed \cup {cur[s]} ELSE missed
      /\ UNCHANGED <<lastSeq, ever, entry, maps, strays>>
  BY DEF AckFails, dbVars, buffer
<1>2. NoLoopYet'
  BY <1>1 DEF EndCall, FlushInv, NoLoopYet, IInv, TypeOK
<1>3. \A p \in Peers : Buffer(p)' = Buffer(p)
  BY <1>1 DEF Buffer, Contents
<1>4. \A t \in Slots : WillLook(t) =>
         \/ WillLook(t)' /\ cur'[t] = cur[t]
         \/ cur[t] \in missed'
  BY <1>1 DEF EndCall, WillLook, IInv, TypeOK
<1>5. QED
  BY <1>1, <1>2, <1>3, <1>4, CallsKept

LEMMA NextFlush == IInv /\ FlushInv /\ [Next]_vars => FlushInv'
<1> SUFFICES ASSUME IInv, FlushInv, [Next]_vars PROVE FlushInv'
  OBVIOUS
<1>1. ASSUME UNCHANGED <<lastSeq, ever, entry, maps, pc, cur, loop, missed, strays>>
      PROVE  FlushInv'
  BY <1>1 DEF FlushInv, NoLoopYet, GapClosedIsFlushed, Expected, WillLook,
     Buffer, Contents
<1>2. ASSUME NEW s \in Slots, NEW m \in wire, Arrive(s, m) PROVE FlushInv'
  <2>1. /\ pc[s] = "idle" /\ pc' = [pc EXCEPT ![s] = "received"]
        /\ cur' = [cur EXCEPT ![s] = m]
        /\ UNCHANGED <<lastSeq, ever, entry, maps, missed, strays, loop>>
    BY <1>2 DEF Arrive, dbVars, history, buffer
  <2>2. NoLoopYet' /\ \A t \in Slots : WillLook(t) => WillLook(t)' /\ cur'[t] = cur[t]
    BY <2>1 DEF FlushInv, NoLoopYet, WillLook, IInv, TypeOK
  <2>3. \A p \in Peers : Buffer(p)' = Buffer(p)
    BY <2>1 DEF Buffer, Contents
  <2>4. QED
    BY <2>1, <2>2, <2>3, CallsKept
<1>3. ASSUME NEW s \in Slots, Step(s) \/ AckFails(s) PROVE FlushInv'
  BY <1>3, ExamineFlush, AckSentFlush, FlushNextFlush, FlushEndsFlush,
     AckFailsFlush DEF Step
<1>4. CASE Crash
  BY <1>4 DEF Crash, FlushInv, NoLoopYet, GapClosedIsFlushed, Buffer, Contents
<1>5. CASE \/ \E p \in Peers : PeerSend(p) \/ PeerSendElsewhere(p)
           \/ \E m \in wire : Age(m)
           \/ \E m \in processed : PurgeProcessed(m)
           \/ UNCHANGED vars
  BY <1>1, <1>5 DEF PeerSend, PeerSendElsewhere, Age, PurgeProcessed, vars,
     dbVars, taskVars, history, bounds, buffer
<1>6. QED
  BY <1>2, <1>3, <1>4, <1>5 DEF Next

(* Whoever closes a gap flushes what waited behind it: a message that is   *)
(* the next of its sender stays in the peer's Map only while the call that *)
(* processed the one before it is on its way there, or that call was cut   *)
(* short, or worked on a Map that another had removed                      *)
(* (flushBufferedMessagesForPeer).                                         *)
THEOREM GapsAreFlushed == Spec => []GapClosedIsFlushed
<1>1. Init => FlushInv
  BY DEF Init, FlushInv, NoLoopYet, GapClosedIsFlushed, Buffer, Contents
<1>2. FlushInv => GapClosedIsFlushed
  BY DEF FlushInv
<1>3. Spec => []FlushInv
  BY <1>1, NextFlush, Inductive, PTL DEF Spec
<1>4. QED
  BY <1>2, <1>3, PTL

-----------------------------------------------------------------------------
(* Refinement *)

LEMMA FifoInit == Init => Fifo!Init
BY DEF Init, Fifo!Init

(* Processing the message numbered next is the abstract Take.              *)
LEMMA ProcessingTakes ==
    ASSUME IInv, NEW s \in Slots, NEW m \in wire, m.seq = Expected(m.from),
           ProcessAccepted(s, m), UNCHANGED wire
    PROVE  Fifo!Take(m.from)
<1>1. /\ m \notin processed /\ m.from \in Peers
      /\ lastSeq \in [Peers -> Nat] /\ m.seq = lastSeq[m.from] + 1
  <2>1. m \notin processed
    BY NextIsNew
  <2>2. m \in Message
    BY DEF IInv, TypeOK
  <2>3. m.from \in Peers
    BY <2>2 DEF Message
  <2>4. lastSeq \in [Peers -> Nat]
    BY BoundsAssumption DEF IInv, TypeOK
  <2>5. QED
    BY <2>1, <2>3, <2>4 DEF Expected
<1>2. lastSeq' = [lastSeq EXCEPT ![m.from] = Larger(@, m.seq)]
  BY <1>1 DEF ProcessAccepted, PersistIncoming
<1>3. Larger(lastSeq[m.from], m.seq) = lastSeq[m.from] + 1
  BY <1>1 DEF Larger
<1>4. QED
  BY <1>1, <1>2, <1>3 DEF Fifo!Take

LEMMA FifoNext == IInv /\ [Next]_vars => [Fifo!Next]_(Fifo!vars)
<1> SUFFICES ASSUME IInv, [Next]_vars
             PROVE  Fifo!Next \/ UNCHANGED <<wire, lastSeq>>
  BY DEF Fifo!vars
<1>1. ASSUME NEW p \in Peers, PeerSend(p)
      PROVE  Fifo!Next
  <2>1. Fifo!Send
    BY <1>1 DEF PeerSend, Fifo!Send, dbVars, buffer
  <2>2. QED
    BY <2>1 DEF Fifo!Next
<1>2. ASSUME NEW s \in Slots, Examine(s)
      PROVE  Fifo!Next \/ UNCHANGED <<wire, lastSeq>>
  <2>1. CASE Accept(s)
    <3>1. /\ cur[s] \in wire /\ cur[s].from \in Peers
          /\ ProcessAccepted(s, cur[s]) /\ UNCHANGED wire
      BY <1>2, <2>1 DEF Examine, Accept, IInv, Calls, TypeOK, Message, peerVars, buffer
    <3>2. cur[s].seq = Expected(cur[s].from)
      BY <2>1, <3>1 DEF Accept, IsSequenceValid, ShouldBufferOutOfOrder,
                        Expected, IInv, TypeOK, Message
    <3>3. QED
      BY <3>1, <3>2, ProcessingTakes DEF Fifo!Next
  <2>2. CASE ~Accept(s)
    BY <1>2, <2>2 DEF Examine, DropStale, AckWithoutProcessing, HoldBack,
                      RejectClock, peerVars, dbVars, buffer
  <2>3. QED
    BY <2>1, <2>2
<1>3. ASSUME NEW s \in Slots, FlushNext(s)
      PROVE  Fifo!Next
  <2>1. PICK m \in NextBuffered(s) : ProcessAccepted(s, m)
    BY <1>3 DEF FlushNext
  <2>2. cur[s] \in wire /\ cur[s].from \in Peers /\ UNCHANGED wire
    BY <1>3 DEF FlushNext, IInv, Calls, TypeOK, Message, peerVars, buffer
  <2>3. m \in wire /\ m.from = cur[s].from /\ m.seq = Expected(m.from)
    <3>1. OwnMap(s) \in Maps \cup {NoMap}
      BY <2>2 DEF OwnMap, IInv, TypeOK
    <3>2. QED
      BY <2>1, <2>2, <3>1, ContentsTyped DEF NextBuffered, Own, IInv
  <2>4. QED
    BY <2>1, <2>2, <2>3, ProcessingTakes DEF Fifo!Next
<1>4. CASE \/ \E p \in Peers : PeerSendElsewhere(p)
           \/ \E m \in wire : Age(m)
           \/ \E s \in Slots, m \in wire : Arrive(s, m)
           \/ \E s \in Slots : AckSent(s) \/ HandToApp(s) \/ FlushEnds(s) \/ AckFails(s)
           \/ \E m \in processed : PurgeProcessed(m)
           \/ Crash
           \/ UNCHANGED vars
  BY <1>4 DEF PeerSendElsewhere, Age, Arrive, AckSent, HandToApp, FlushEnds,
              AckFails, PurgeProcessed, Crash, vars, peerVars, dbVars, buffer
<1>5. QED
  BY <1>1, <1>2, <1>3, <1>4 DEF Next, Step

(* The receive path implements FifoInbox: messages of a peer are processed *)
(* in order, with no gap and no repetition, for any number of peers and    *)
(* overlapping calls, any limits, any crashes.                             *)
THEOREM Refinement == Spec => ImplementsFifo
<1>1. Init /\ [][Next]_vars /\ []IInv => Fifo!Init /\ [][Fifo!Next]_(Fifo!vars)
  BY FifoInit, FifoNext, PTL
<1>2. QED
  BY <1>1, Inductive DEF Spec, ImplementsFifo, Fifo!Spec
=============================================================================
