-------------------------- MODULE ConversationProofs --------------------------
(***************************************************************************)
(* What holds of Conversation for any nodes and links and any bounds: a    *)
(* node processes a link's messages as a prefix of one numbering, tells    *)
(* so truly, and short of restarts and age nothing is lost on the way.     *)
(***************************************************************************)
EXTENDS Conversation, FiniteSetTheorems, WellFoundedInduction, TLAPS

(* A set of numbers with a bound has a greatest one.                       *)
LEMMA MaxIsThere ==
    ASSUME NEW S, S \subseteq Nat, S # {},
           NEW b \in Nat, \A x \in S : x <= b
    PROVE  Max(S) \in S
<1> DEFINE below == {n \in Nat : b - n \in S}
           less == {ss \in Nat \X Nat : ss[1] < ss[2]}
<1>1. PICK n \in below : \A i \in below : ~(<<i, n>> \in less)
  <2>1. PICK x \in S : TRUE
    OBVIOUS
  <2>2. b - x \in Nat /\ b - (b - x) = x
    BY <2>1
  <2>3. b - x \in below
    BY <2>1, <2>2
  <2>4. IsWellFoundedOn(less, Nat)
    BY NatLessThanWellFounded DEF OpToRel
  <2>5. below \subseteq Nat
    OBVIOUS
  <2> HIDE DEF less, below
  <2>6. QED
    BY <2>3, <2>4, <2>5, WFMin
<1>2. b - n \in S
  OBVIOUS
<1>3. ASSUME NEW y \in S PROVE b - n >= y
  <2>1. y \in Nat /\ y <= b
    OBVIOUS
  <2>2. b - y \in Nat /\ b - (b - y) = y
    BY <2>1
  <2>3. b - y \in below
    BY <2>2
  <2>4. ~(b - y < n)
    BY <1>1, <2>2, <2>3
  <2>5. QED
    BY <2>1, <2>4
<1>4. QED
  BY <1>2, <1>3 DEF Max

-----------------------------------------------------------------------------
(* The inductive invariant *)

(* What a node sends as data is data of a link, numbered by its counter.   *)
SentIsNumbered ==
    \A m \in sent : /\ m = Data(m.from, m.to, m.seq)
                    /\ m.seq <= counter[m.from]

(* Data that is under way was sent.                                        *)
UnderWayWasSent == \A m \in rows \cup wire : m.kind = "data" => m \in sent

(* Up to the last sequence of a link everything was processed, ...         *)
UpToLast ==
    \A n, p \in Nodes : \A k \in 1..lastSeq[n][p] : Data(p, n, k) \in processed

(* ... and nothing beyond.                                                 *)
NotBeyond == \A m \in processed : m.seq <= lastSeq[m.to][m.from]

(* The faults are counted in finite sets.                                  *)
FaultsAreFinite == IsFiniteSet(gaveUp) /\ IsFiniteSet(old)

IInv == /\ TypeOK /\ SentIsNumbered /\ UnderWayWasSent /\ UpToLast /\ NotBeyond
        /\ FaultsAreFinite /\ AckTellsProcessed /\ NoneLost

(* Nothing has been sent.                                                  *)
LEMMA InitIInv == Init => IInv
<1> SUFFICES ASSUME Init PROVE IInv
  OBVIOUS
<1>1. TypeOK
  BY BoundsAssumption DEF Init, TypeOK
<1>2. FaultsAreFinite
  BY FS_EmptySet DEF Init, FaultsAreFinite
<1>3. QED
  BY <1>1, <1>2 DEF Init, IInv, SentIsNumbered, UnderWayWasSent, UpToLast,
     NotBeyond, AckTellsProcessed, NoneLost

-----------------------------------------------------------------------------
(* The sender *)

(* A new message has a number above all others, and a row.                 *)
LEMMA SendKeeps == ASSUME IInv, NEW l \in Links, Send(l[1], l[2]) PROVE IInv'
<1> DEFINE n == l[1]
           p == l[2]
           m == Data(n, p, counter[n] + 1)
<1> USE DEF IInv
<1>1. n \in Nodes /\ p \in Nodes /\ n # p
  BY LinksAssumption
<1> HIDE DEF n, p
<1>2. /\ sent' = sent \cup {m} /\ rows' = rows \cup {m}
      /\ counter' = [counter EXCEPT ![n] = @ + 1]
      /\ UNCHANGED <<wire, lastSeq, buffer, processed, dropped, gaveUp, old,
                     resends, crashes, cuts>>
  BY DEF Send, n, p, faults
<1>3. counter \in [Nodes -> Nat] /\ counter[n] \in Nat
  BY <1>1 DEF TypeOK
<1>4. /\ m \in Message /\ m.kind = "data" /\ m.from = n /\ m.to = p
      /\ m.seq = counter[n] + 1 /\ m = Data(m.from, m.to, m.seq)
  BY <1>1, <1>3 DEF Data, Message
<1> HIDE DEF m
<1>5. TypeOK'
  BY <1>1, <1>2, <1>3, <1>4 DEF TypeOK
<1>6. SentIsNumbered'
  <2>1. \A i \in Nodes : counter'[i] >= counter[i] /\ counter'[i] \in Nat
    BY <1>1, <1>2, <1>3
  <2>2. counter'[n] = counter[n] + 1
    BY <1>1, <1>2, <1>3
  <2>3. ASSUME NEW x \in sent PROVE x.seq <= counter'[x.from]
    <3>1. x.from \in Nodes /\ x.seq \in Nat
      BY DEF TypeOK, Message
    <3>2. QED
      BY <1>3, <2>1, <3>1 DEF SentIsNumbered
  <2>4. m.seq <= counter'[m.from]
    BY <1>4, <2>2, <1>3
  <2>5. QED
    BY <1>2, <1>4, <2>3, <2>4 DEF SentIsNumbered, Data
<1>7. UnderWayWasSent' /\ UpToLast' /\ NotBeyond' /\ FaultsAreFinite'
  BY <1>2 DEF UnderWayWasSent, UpToLast, NotBeyond, FaultsAreFinite, Data
<1>8. AckTellsProcessed'
  BY <1>2, <1>4 DEF AckTellsProcessed, Data
<1>9. NoneLost'
  BY <1>2 DEF NoneLost
<1>10. QED
  BY <1>5, <1>6, <1>7, <1>8, <1>9

(* A transmitted message is in transit, with or without its row.           *)
LEMMA TransmitKeeps ==
    ASSUME IInv, NEW m \in rows, TransmitOk(m) \/ TransmitAgain(m)
    PROVE  IInv'
<1> USE DEF IInv
<1>1. /\ wire' = wire \cup {m} /\ rows' \subseteq rows
      /\ rows \subseteq rows' \cup wire'
      /\ UNCHANGED <<counter, sent, lastSeq, buffer, processed, dropped, gaveUp,
                     old, crashes, cuts>>
  BY DEF TransmitOk, TransmitAgain, faults
<1>2. resends' \in 0..MaxResends
  BY BoundsAssumption DEF TransmitOk, TransmitAgain, TypeOK
<1>3. TypeOK'
  BY <1>1, <1>2 DEF TypeOK
<1>4. SentIsNumbered' /\ UpToLast' /\ NotBeyond' /\ FaultsAreFinite'
  BY <1>1 DEF SentIsNumbered, UpToLast, NotBeyond, FaultsAreFinite, Data
<1>5. rows' \cup wire' \subseteq rows \cup wire
  BY <1>1
<1>6. UnderWayWasSent' /\ AckTellsProcessed'
  BY <1>1, <1>5 DEF UnderWayWasSent, AckTellsProcessed, Data
<1>7. NoneLost'
  BY <1>1 DEF NoneLost
<1>8. QED
  BY <1>3, <1>4, <1>6, <1>7

(* What is given up is accounted for.                                      *)
LEMMA GiveUpKeeps == ASSUME IInv, NEW m \in rows, GiveUp(m) PROVE IInv'
<1> USE DEF IInv
<1>1. /\ rows' = rows \ {m} /\ gaveUp' = gaveUp \cup {m}
      /\ UNCHANGED <<counter, sent, wire, lastSeq, buffer, processed, dropped, old,
                     resends, crashes, cuts>>
  BY DEF GiveUp
<1>2. TypeOK'
  BY <1>1 DEF TypeOK
<1>3. FaultsAreFinite'
  BY <1>1, FS_AddElement DEF FaultsAreFinite
<1>4. /\ SentIsNumbered' /\ UpToLast' /\ NotBeyond'
      /\ UnderWayWasSent' /\ AckTellsProcessed'
  BY <1>1 DEF SentIsNumbered, UpToLast, NotBeyond, UnderWayWasSent,
     AckTellsProcessed, Data
<1>5. NoneLost'
  BY <1>1 DEF NoneLost
<1>6. QED
  BY <1>2, <1>3, <1>4, <1>5

(* Once a message is old, nothing is promised of what was sent.            *)
LEMMA GrowsOldKeeps == ASSUME IInv, NEW m \in rows \cup wire, GrowsOld(m) PROVE IInv'
<1> USE DEF IInv
<1>1. /\ old' = old \cup {m}
      /\ UNCHANGED <<counter, sent, rows, wire, lastSeq, buffer, processed,
                     dropped, gaveUp, resends, crashes, cuts>>
  BY DEF GrowsOld
<1>2. TypeOK'
  BY <1>1 DEF TypeOK
<1>3. FaultsAreFinite'
  BY <1>1, FS_AddElement DEF FaultsAreFinite
<1>4. /\ SentIsNumbered' /\ UpToLast' /\ NotBeyond'
      /\ UnderWayWasSent' /\ AckTellsProcessed'
  BY <1>1 DEF SentIsNumbered, UpToLast, NotBeyond, UnderWayWasSent,
     AckTellsProcessed, Data
<1>5. NoneLost'
  BY <1>1 DEF NoneLost
<1>6. QED
  BY <1>2, <1>3, <1>4, <1>5

-----------------------------------------------------------------------------
(* The recipient *)

(* What a data message under way says of itself.                           *)
LEMMA DataIsNumbered ==
    ASSUME IInv, NEW m \in rows \cup wire, m.kind = "data"
    PROVE  /\ m \in sent /\ m.from \in Nodes /\ m.to \in Nodes
           /\ m.seq \in Nat \ {0} /\ m = Data(m.from, m.to, m.seq)
           /\ m.seq <= counter[m.from]
<1>1. m \in sent
  BY DEF IInv, UnderWayWasSent
<1>2. m \in Message
  BY DEF IInv, TypeOK
<1>3. QED
  BY <1>1, <1>2 DEF IInv, SentIsNumbered, Message

(* The numbers that wait are numbers of sent messages of the link.         *)
LEMMA WaitingWasSent ==
    ASSUME IInv, NEW n \in Nodes, NEW p \in Nodes, NEW k \in Waiting(n, p)
    PROVE  k \in Nat /\ k <= counter[p] /\ Data(p, n, k) \in sent
<1>1. PICK b \in buffer : b.to = n /\ b.from = p /\ b.seq = k
  BY DEF Waiting
<1>2. b \in sent /\ b \in Message
  BY DEF IInv, TypeOK
<1>3. QED
  BY <1>1, <1>2 DEF IInv, SentIsNumbered, Message

(* Flushing ends at a number, with the last waiting without a gap.         *)
LEMMA FlushIsGapless ==
    ASSUME IInv, NEW n \in Nodes, NEW p \in Nodes,
           NEW k \in Nat, k <= counter[p]
    PROVE  /\ LastFlushed(n, p, k) \in Nat /\ LastFlushed(n, p, k) >= k
           /\ k+1..LastFlushed(n, p, k) \subseteq Waiting(n, p)
<1> DEFINE S == {j \in {k} \cup Waiting(n, p) :
                     j >= k /\ k+1..j \subseteq Waiting(n, p)}
<1>1. S \subseteq Nat /\ \A j \in S : j <= counter[p]
  BY WaitingWasSent
<1>2. k \in S
  <2>1. k+1..k = {}
    OBVIOUS
  <2>2. QED
    BY <2>1
<1>3. counter[p] \in Nat
  BY DEF IInv, TypeOK
<1>4. Max(S) \in S
  <2> HIDE DEF S
  <2>1. QED
    BY <1>1, <1>2, <1>3, MaxIsThere
<1>5. LastFlushed(n, p, k) = Max(S)
  BY DEF LastFlushed
<1>6. QED
  BY <1>1, <1>4, <1>5

(* What sending the ACKs of first..last does: rows that tell of them.      *)
Acknowledged(n, p, first, last) ==
    /\ counter' \in [Nodes -> Nat]
    /\ \A i \in Nodes : counter'[i] >= counter[i]
    /\ rows \subseteq rows' /\ rows' \subseteq Message
    /\ \A a \in rows' \ rows :
          /\ a.kind = "ack"
          /\ \E k \in first..last : Data(a.to, a.from, a.of) = Data(p, n, k)

LEMMA AcksAreMessages ==
    ASSUME IInv, NEW n \in Nodes, NEW p \in Nodes,
           NEW first \in Nat \ {0}, NEW last \in Nat, first <= last,
           Acknowledge(n, p, first, last)
    PROVE  Acknowledged(n, p, first, last)
<1> DEFINE ack(k) == [kind |-> "ack", from |-> n, to |-> p,
                      seq |-> counter[n] + 1 + k - first, of |-> k]
<1>1. counter \in [Nodes -> Nat] /\ counter[n] \in Nat
  BY DEF IInv, TypeOK
<1>2. counter' = [counter EXCEPT ![n] = @ + 1 + last - first]
  BY DEF Acknowledge
<1>3. /\ counter[n] + 1 + last - first \in Nat
      /\ counter[n] + 1 + last - first >= counter[n]
  BY <1>1
<1>4. rows' = rows \cup {ack(k) : k \in first..last}
  BY DEF Acknowledge
<1>5. ASSUME NEW k \in first..last PROVE ack(k) \in Message
  <2>1. k \in Nat /\ counter[n] + 1 + k - first \in Nat \ {0}
    BY <1>1
  <2>2. QED
    BY <2>1 DEF Message
<1>6. ASSUME NEW k \in first..last
      PROVE  /\ ack(k).kind = "ack"
             /\ Data(ack(k).to, ack(k).from, ack(k).of) = Data(p, n, k)
  OBVIOUS
<1>7. rows \subseteq Message
  BY DEF IInv, TypeOK
<1>8. /\ counter' \in [Nodes -> Nat]
      /\ \A i \in Nodes : counter'[i] >= counter[i]
  BY <1>1, <1>2, <1>3
<1> HIDE DEF ack
<1>9. QED
  BY <1>4, <1>5, <1>6, <1>7, <1>8 DEF Acknowledged

(* Numbers used stay used when the counter goes up.                        *)
LEMMA CounterGoesUp ==
    ASSUME IInv, UNCHANGED sent, counter' \in [Nodes -> Nat],
           \A i \in Nodes : counter'[i] >= counter[i]
    PROVE  SentIsNumbered'
<1>1. ASSUME NEW m \in sent
      PROVE  m = Data(m.from, m.to, m.seq) /\ m.seq <= counter'[m.from]
  <2>1. m.from \in Nodes /\ m.seq \in Nat
    BY DEF IInv, TypeOK, Message
  <2>2. counter[m.from] \in Nat /\ counter'[m.from] \in Nat
    BY <2>1 DEF IInv, TypeOK
  <2>3. m = Data(m.from, m.to, m.seq) /\ m.seq <= counter[m.from]
    BY DEF IInv, SentIsNumbered
  <2>4. QED
    BY <2>1, <2>2, <2>3
<1>2. QED
  BY <1>1 DEF SentIsNumbered, Data

(* What every reception leaves alone.                                      *)
Received(m) == /\ m \in wire /\ wire' = wire \ {m}
               /\ UNCHANGED <<sent, gaveUp, old, resends, crashes>>

(* A fault within the bound is counted.                                    *)
LEMMA FaultCounted ==
    ASSUME IInv, FaultLeft
    PROVE  /\ crashes \in Nat /\ crashes + 1 \in 1..MaxFaults
           /\ cuts \in Nat /\ cuts + 1 \in 1..MaxFaults
<1>1. crashes \in Nat /\ cuts \in Nat /\ MaxFaults \in Nat
  BY BoundsAssumption DEF IInv, TypeOK
<1>2. Cardinality(gaveUp) \in Nat /\ Cardinality(old) \in Nat
  BY FS_CardinalityType DEF IInv, FaultsAreFinite
<1>3. Cardinality(gaveUp) + Cardinality(old) + crashes + cuts < MaxFaults
  BY DEF FaultLeft
<1>4. QED
  BY <1>1, <1>2, <1>3

(* An ACK deletes the row of a message that is processed.                  *)
LEMMA AckKeeps == ASSUME IInv, NEW m, Received(m), ReceiveAck(m) PROVE IInv'
<1> USE DEF IInv
<1>1. /\ wire' = wire \ {m} /\ m \in wire /\ m.kind = "ack"
      /\ UNCHANGED <<counter, sent, lastSeq, buffer, processed, dropped, gaveUp,
                     old, resends, crashes, cuts>>
      /\ rows' = {r \in rows : ~(/\ r.kind = "data" /\ r.from = m.to
                                 /\ r.to = m.from /\ r.seq = m.of)}
  BY DEF Received, ReceiveAck
<1>2. TypeOK'
  BY <1>1 DEF TypeOK
<1>3. SentIsNumbered' /\ UpToLast' /\ NotBeyond' /\ FaultsAreFinite'
  BY <1>1 DEF SentIsNumbered, UpToLast, NotBeyond, FaultsAreFinite, Data
<1>4. rows' \cup wire' \subseteq rows \cup wire
  BY <1>1
<1>5. UnderWayWasSent' /\ AckTellsProcessed'
  BY <1>1, <1>4 DEF UnderWayWasSent, AckTellsProcessed, Data
<1>6. NoneLost'
  <2>1. Data(m.to, m.from, m.of) \in processed
    BY <1>1 DEF AckTellsProcessed
  <2>2. ASSUME NEW r \in rows \ rows' PROVE r \in processed
    <3>1. r.kind = "data" /\ r.from = m.to /\ r.to = m.from /\ r.seq = m.of
      BY <1>1
    <3>2. QED
      BY <2>1, <3>1, DataIsNumbered
  <2>3. m \notin sent
    BY <1>1 DEF SentIsNumbered, Data
  <2>4. QED
    BY <1>1, <2>2, <2>3 DEF NoneLost
<1>7. QED
  BY <1>2, <1>3, <1>5, <1>6

(* A message below the last sequence is processed, and acknowledged once   *)
(* more.                                                                   *)
LEMMA KnownKeeps == ASSUME IInv, NEW m, Received(m), ReceiveKnown(m) PROVE IInv'
<1> USE DEF IInv
<1>1. /\ wire' = wire \ {m} /\ m \in wire /\ m.kind = "data"
      /\ m.seq <= lastSeq[m.to][m.from]
      /\ Acknowledge(m.to, m.from, m.seq, m.seq)
      /\ UNCHANGED <<sent, lastSeq, buffer, processed, dropped, gaveUp, old,
                     resends, crashes, cuts>>
  BY DEF Received, ReceiveKnown
<1>2. /\ m \in sent /\ m.from \in Nodes /\ m.to \in Nodes
      /\ m.seq \in Nat \ {0} /\ m = Data(m.from, m.to, m.seq)
  BY <1>1, DataIsNumbered
<1>3. m \in processed
  <2>1. lastSeq[m.to][m.from] \in Nat
    BY <1>2 DEF TypeOK
  <2>2. m.seq \in 1..lastSeq[m.to][m.from]
    BY <1>1, <1>2, <2>1
  <2>3. QED
    BY <1>2, <2>2 DEF UpToLast
<1>4. /\ counter' \in [Nodes -> Nat]
      /\ \A i \in Nodes : counter'[i] >= counter[i]
      /\ rows \subseteq rows' /\ rows' \subseteq Message
      /\ \A a \in rows' \ rows : a.kind = "ack" /\ Data(a.to, a.from, a.of) = m
  <2>1. \A k \in m.seq..m.seq : Data(m.from, m.to, k) = m
    BY <1>2
  <2>2. m.seq \in Nat /\ m.seq <= m.seq
    BY <1>2
  <2>3. Acknowledged(m.to, m.from, m.seq, m.seq)
    BY <1>1, <1>2, <2>2, AcksAreMessages
  <2>4. QED
    BY <2>1, <2>3 DEF Acknowledged
<1>5. TypeOK'
  BY <1>1, <1>4 DEF TypeOK
<1>6. SentIsNumbered'
  BY <1>1, <1>4, CounterGoesUp
<1>7. UpToLast' /\ NotBeyond' /\ FaultsAreFinite'
  BY <1>1 DEF UpToLast, NotBeyond, FaultsAreFinite, Data
<1>8. UnderWayWasSent'
  BY <1>1, <1>4 DEF UnderWayWasSent
<1>9. AckTellsProcessed'
  BY <1>1, <1>3, <1>4 DEF AckTellsProcessed, Data
<1>10. NoneLost'
  BY <1>1, <1>3, <1>4 DEF NoneLost
<1>11. QED
  BY <1>5, <1>6, <1>7, <1>8, <1>9, <1>10

(* What has a gap before it goes from the wire to the buffer, and what the *)
(* buffer has no room for is dropped.                                      *)
LEMMA EarlyKeeps == ASSUME IInv, NEW m, Received(m), ReceiveEarly(m) PROVE IInv'
<1> DEFINE held == {b \in buffer : b.to = m.to /\ b.from = m.from} \cup {m}
           out == Evicted(held)
<1> USE DEF IInv
<1>1. /\ wire' = wire \ {m} /\ m \in wire /\ m.kind = "data"
      /\ buffer' = (buffer \cup {m}) \ out
      /\ dropped' = dropped \cup out
      /\ UNCHANGED <<counter, sent, rows, lastSeq, processed, gaveUp, old,
                     resends, crashes, cuts>>
  BY DEF Received, ReceiveEarly
<1>2. m \in sent
  BY <1>1, DataIsNumbered
<1>3. out \subseteq buffer \cup {m}
  BY DEF Evicted
<1> HIDE DEF out
<1>4. TypeOK'
  BY <1>1, <1>2, <1>3 DEF TypeOK
<1>5. SentIsNumbered' /\ UpToLast' /\ NotBeyond' /\ FaultsAreFinite'
  BY <1>1 DEF SentIsNumbered, UpToLast, NotBeyond, FaultsAreFinite, Data
<1>6. UnderWayWasSent' /\ AckTellsProcessed'
  BY <1>1 DEF UnderWayWasSent, AckTellsProcessed, Data
<1>7. NoneLost'
  BY <1>1 DEF NoneLost
<1>8. QED
  BY <1>4, <1>5, <1>6, <1>7

(* The next message moves the last sequence up, at most to the end of what *)
(* waited: all up to there is processed, and all that leaves the buffer    *)
(* was.                                                                    *)
LEMMA ProcessKeeps ==
    ASSUME IInv, NEW m, Received(m), IsNext(m), NEW last \in Nat,
           m.seq <= last, last <= LastFlushed(m.to, m.from, m.seq),
           ProcessUpTo(m, last), cuts' \in 0..MaxFaults
    PROVE  IInv'
<1> DEFINE n == m.to
           p == m.from
           new == {Data(p, n, k) : k \in m.seq..last}
<1> USE DEF IInv
<1>1. /\ wire' = wire \ {m} /\ m \in wire /\ m.kind = "data"
      /\ ~ShouldBufferOutOfOrder(m) /\ m.seq > lastSeq[n][p]
      /\ lastSeq' = [lastSeq EXCEPT ![n][p] = last]
      /\ processed' = processed \cup new
      /\ buffer' = {b \in buffer : ~(b.to = n /\ b.from = p
                                      /\ m.seq < b.seq /\ b.seq <= last)}
      /\ Acknowledge(n, p, m.seq, last)
      /\ UNCHANGED <<sent, dropped, gaveUp, old, resends, crashes>>
  BY DEF Received, IsNext, ProcessUpTo
<1>2. /\ m \in sent /\ p \in Nodes /\ n \in Nodes
      /\ m.seq \in Nat \ {0} /\ m = Data(p, n, m.seq) /\ m.seq <= counter[p]
  BY <1>1, DataIsNumbered
<1>3. lastSeq \in [Nodes -> [Nodes -> Nat]] /\ lastSeq[n][p] \in Nat
  BY <1>2 DEF TypeOK
<1>4. m.seq = lastSeq[n][p] + 1
  <2>1. ~(m.seq > lastSeq[n][p] + 1) /\ m.seq > lastSeq[n][p]
    BY <1>1 DEF ShouldBufferOutOfOrder
  <2>2. m.seq \in Nat /\ lastSeq[n][p] \in Nat
    BY <1>2, <1>3
  <2>3. \A i, j \in Nat : ~(i > j + 1) /\ i > j => i = j + 1
    OBVIOUS
  <2>4. QED
    BY <2>1, <2>2, <2>3
<1> HIDE DEF n, p
<1>5. /\ last \in Nat /\ last >= m.seq
      /\ m.seq+1..last \subseteq Waiting(n, p)
  <2> DEFINE end == LastFlushed(n, p, m.seq)
  <2>1. end \in Nat /\ m.seq+1..end \subseteq Waiting(n, p)
    BY <1>2, FlushIsGapless
  <2>2. last <= end
    BY DEF n, p
  <2> HIDE DEF end
  <2>3. m.seq+1..last \subseteq m.seq+1..end
    BY <1>2, <2>1, <2>2
  <2>4. QED
    BY <1>2, <2>1, <2>3
<1>6. \A k \in m.seq..last : Data(p, n, k) \in sent
  <2>1. ASSUME NEW k \in m.seq..last PROVE Data(p, n, k) \in sent
    <3>1. CASE k = m.seq
      BY <1>2, <3>1
    <3>2. CASE k # m.seq
      <4>1. k \in m.seq+1..last
        BY <1>2, <1>5, <3>2
      <4>2. QED
        BY <1>2, <1>5, <4>1, WaitingWasSent
    <3>3. QED
      BY <3>1, <3>2
  <2>2. QED
    BY <2>1
<1>7. /\ counter' \in [Nodes -> Nat]
      /\ \A i \in Nodes : counter'[i] >= counter[i]
      /\ rows \subseteq rows' /\ rows' \subseteq Message
      /\ \A a \in rows' \ rows :
            /\ a.kind = "ack"
            /\ \E k \in m.seq..last : Data(a.to, a.from, a.of) = Data(p, n, k)
  <2>1. Acknowledged(n, p, m.seq, last)
    BY <1>1, <1>2, <1>5, AcksAreMessages
  <2>2. QED
    BY <2>1 DEF Acknowledged
<1>8. /\ lastSeq' \in [Nodes -> [Nodes -> Nat]] /\ lastSeq'[n][p] = last
      /\ \A i, j \in Nodes : <<i, j>> # <<n, p>> => lastSeq'[i][j] = lastSeq[i][j]
  BY <1>1, <1>2, <1>3, <1>5
<1>9. TypeOK'
  <2>1. processed' \subseteq sent' /\ buffer' \subseteq sent'
    BY <1>1, <1>6 DEF TypeOK
  <2>2. QED
    BY <1>1, <1>7, <1>8, <2>1 DEF TypeOK
<1>10. SentIsNumbered'
  BY <1>1, <1>7, CounterGoesUp
<1>11. UpToLast'
  <2>1. ASSUME NEW i \in Nodes, NEW j \in Nodes, NEW k \in 1..lastSeq'[i][j]
        PROVE  Data(j, i, k) \in processed'
    <3>1. CASE <<i, j>> # <<n, p>>
      BY <1>1, <1>8, <3>1 DEF UpToLast
    <3>2. CASE <<i, j>> = <<n, p>> /\ k <= lastSeq[n][p]
      <4>1. k \in 1..lastSeq[n][p]
        BY <1>3, <1>5, <1>8, <3>2
      <4>2. QED
        BY <1>1, <1>2, <3>2, <4>1 DEF UpToLast
    <3>3. CASE <<i, j>> = <<n, p>> /\ ~(k <= lastSeq[n][p])
      <4>1. k \in m.seq..last
        BY <1>3, <1>4, <1>5, <1>8, <3>3
      <4>2. QED
        BY <1>1, <3>3, <4>1
    <3>4. QED
      BY <3>1, <3>2, <3>3
  <2>2. QED
    BY <2>1 DEF UpToLast, Data
<1>12. NotBeyond'
  <2>1. ASSUME NEW x \in processed PROVE x.seq <= lastSeq'[x.to][x.from]
    <3>1. x.to \in Nodes /\ x.from \in Nodes /\ x.seq \in Nat
      BY DEF TypeOK, Message
    <3>2. x.seq <= lastSeq[x.to][x.from]
      BY DEF NotBeyond
    <3>3. CASE <<x.to, x.from>> = <<n, p>>
      <4>1. lastSeq[n][p] <= last
        BY <1>3, <1>4, <1>5
      <4>2. x.seq <= lastSeq[n][p] /\ lastSeq'[x.to][x.from] = last
        BY <1>8, <3>2, <3>3
      <4>3. QED
        BY <1>3, <1>5, <3>1, <4>1, <4>2
    <3>4. CASE <<x.to, x.from>> # <<n, p>>
      BY <1>8, <3>1, <3>2, <3>4
    <3>5. QED
      BY <3>3, <3>4
  <2>2. ASSUME NEW k \in m.seq..last
        PROVE  Data(p, n, k).seq <= lastSeq'[Data(p, n, k).to][Data(p, n, k).from]
    BY <1>8 DEF Data
  <2>3. QED
    BY <1>1, <2>1, <2>2 DEF NotBeyond
<1>13. FaultsAreFinite'
  BY <1>1 DEF FaultsAreFinite
<1>14. UnderWayWasSent'
  BY <1>1, <1>7 DEF UnderWayWasSent
<1>15. AckTellsProcessed'
  <2>1. ASSUME NEW a \in rows' \cup wire', a.kind = "ack"
        PROVE  Data(a.to, a.from, a.of) \in processed'
    <3>1. CASE a \in rows \cup wire
      BY <1>1, <2>1, <3>1 DEF AckTellsProcessed
    <3>2. CASE a \in rows' \ rows
      BY <1>1, <1>7, <3>2
    <3>3. QED
      BY <1>1, <3>1, <3>2
  <2>2. QED
    BY <2>1 DEF AckTellsProcessed, Data
<1>16. NoneLost'
  <2>1. m \in processed'
    BY <1>1, <1>2, <1>5
  <2>2. ASSUME NEW b \in buffer \ buffer' PROVE b \in processed'
    <3>1. b.to = n /\ b.from = p /\ b.seq <= last
      BY <1>1
    <3>2. b = Data(p, n, b.seq) /\ b.seq \in Nat \ {0}
      BY <3>1 DEF TypeOK, SentIsNumbered, Message
    <3>3. b.seq \in 1..lastSeq'[n][p]
      BY <1>5, <1>8, <3>1, <3>2
    <3>4. \A k \in 1..lastSeq'[n][p] : Data(p, n, k) \in processed'
      BY <1>2, <1>11 DEF UpToLast, Data
    <3>5. QED
      BY <3>2, <3>3, <3>4
  <2>3. QED
    BY <1>1, <1>7, <2>1, <2>2 DEF NoneLost
<1>17. QED
  BY <1>9, <1>10, <1>11, <1>12, <1>13, <1>14, <1>15, <1>16

LEMMA NextKeeps ==
    ASSUME IInv, NEW m, Received(m), ReceiveNext(m) \/ ReceiveCut(m)
    PROVE  IInv'
<1> DEFINE end == LastFlushed(m.to, m.from, m.seq)
<1>1. IsNext(m) /\ m \in wire /\ m.kind = "data"
  BY DEF ReceiveNext, ReceiveCut, IsNext, Received
<1>2. m.seq \in Nat
  BY <1>1, DataIsNumbered
<1>3. end \in Nat /\ m.seq <= end
  <2>1. m.to \in Nodes /\ m.from \in Nodes /\ m.seq <= counter[m.from]
    BY <1>1, DataIsNumbered
  <2>2. end \in Nat /\ end >= m.seq
    BY <1>2, <2>1, FlushIsGapless
  <2> HIDE DEF end
  <2>3. QED
    BY <1>2, <2>2
<1> HIDE DEF end
<1>4. CASE ReceiveNext(m)
  <2>1. ProcessUpTo(m, end) /\ cuts' = cuts
    BY <1>4 DEF ReceiveNext, end
  <2>2. cuts' \in 0..MaxFaults /\ end <= end
    BY <1>3, <2>1 DEF IInv, TypeOK
  <2>3. QED
    BY <1>1, <1>3, <2>1, <2>2, ProcessKeeps DEF end
<1>5. CASE ReceiveCut(m)
  <2>1. PICK last \in m.seq..end - 1 : ProcessUpTo(m, last)
    BY <1>5 DEF ReceiveCut, end
  <2>2. last \in Nat /\ m.seq <= last /\ last <= end
    BY <1>2, <1>3
  <2>3. cuts' \in 0..MaxFaults
    <3>1. FaultLeft /\ cuts' = cuts + 1
      BY <1>5 DEF ReceiveCut
    <3>2. QED
      BY <3>1, FaultCounted
  <2>4. QED
    BY <1>1, <2>1, <2>2, <2>3, ProcessKeeps DEF end
<1>6. QED
  BY <1>4, <1>5

(* What is too old goes, and with it the promise for all the rest.         *)
LEMMA OldKeeps == ASSUME IInv, NEW m, Received(m), ReceiveOld(m) PROVE IInv'
<1> USE DEF IInv
<1>1. /\ wire' = wire \ {m} /\ m \in old
      /\ UNCHANGED <<counter, sent, rows, lastSeq, buffer, processed, dropped,
                     gaveUp, old, resends, crashes, cuts>>
  BY DEF Received, ReceiveOld
<1>2. TypeOK'
  BY <1>1 DEF TypeOK
<1>3. /\ SentIsNumbered' /\ UpToLast' /\ NotBeyond' /\ FaultsAreFinite'
      /\ UnderWayWasSent' /\ AckTellsProcessed'
  BY <1>1 DEF SentIsNumbered, UpToLast, NotBeyond, FaultsAreFinite,
     UnderWayWasSent, AckTellsProcessed, Data
<1>4. NoneLost'
  BY <1>1 DEF NoneLost
<1>5. QED
  BY <1>2, <1>3, <1>4

-----------------------------------------------------------------------------
(* Maps removed, and restarts *)

(* What a removed Map held is dropped.                                     *)
LEMMA RemovedKeeps ==
    ASSUME IInv, NEW n \in Nodes, NEW p \in Nodes, MapRemoved(n, p)
    PROVE  IInv'
<1> DEFINE held == {b \in buffer : b.to = n /\ b.from = p}
<1> USE DEF IInv
<1>1. /\ buffer' = buffer \ held /\ dropped' = dropped \cup held
      /\ held \subseteq buffer /\ cuts' = cuts + 1 /\ FaultLeft
      /\ UNCHANGED <<counter, sent, rows, wire, lastSeq, processed, gaveUp, old,
                     resends, crashes>>
  BY DEF MapRemoved, faults
<1> HIDE DEF held
<1>2. cuts' \in 0..MaxFaults
  BY <1>1, FaultCounted
<1>3. TypeOK'
  BY <1>1, <1>2 DEF TypeOK
<1>4. /\ SentIsNumbered' /\ UpToLast' /\ NotBeyond' /\ FaultsAreFinite'
      /\ UnderWayWasSent' /\ AckTellsProcessed'
  BY <1>1 DEF SentIsNumbered, UpToLast, NotBeyond, FaultsAreFinite,
     UnderWayWasSent, AckTellsProcessed, Data
<1>5. NoneLost'
  BY <1>1 DEF NoneLost
<1>6. QED
  BY <1>3, <1>4, <1>5

(* A restart within the bound is counted, and takes of the buffer only.    *)
LEMMA CrashKeeps == ASSUME IInv, NEW n \in Nodes, Crash(n) PROVE IInv'
<1> USE DEF IInv
<1>1. /\ crashes' = crashes + 1 /\ buffer' \subseteq buffer /\ FaultLeft
      /\ UNCHANGED <<counter, sent, rows, wire, lastSeq, processed, dropped,
                     gaveUp, old, resends, cuts>>
  BY DEF Crash
<1>2. crashes' \in 1..MaxFaults
  BY <1>1, FaultCounted
<1>3. TypeOK'
  BY <1>1, <1>2 DEF TypeOK
<1>4. /\ SentIsNumbered' /\ UpToLast' /\ NotBeyond' /\ FaultsAreFinite'
      /\ UnderWayWasSent' /\ AckTellsProcessed'
  BY <1>1 DEF SentIsNumbered, UpToLast, NotBeyond, FaultsAreFinite,
     UnderWayWasSent, AckTellsProcessed, Data
<1>5. NoneLost'
  BY <1>2 DEF NoneLost
<1>6. QED
  BY <1>3, <1>4, <1>5

-----------------------------------------------------------------------------
(* The invariant and what follows from it *)

LEMMA StutterKeeps == ASSUME IInv, UNCHANGED vars PROVE IInv'
BY DEF vars, faults, IInv, TypeOK, SentIsNumbered, UnderWayWasSent, UpToLast, NotBeyond,
   FaultsAreFinite, AckTellsProcessed, NoneLost, Data

LEMMA ReceiveKeeps == ASSUME IInv, NEW m \in wire, Receive(m) PROVE IInv'
<1>1. Received(m)
  BY DEF Receive, Received, faults
<1>2. CASE ReceiveAck(m)
  BY <1>1, <1>2, AckKeeps
<1>3. CASE ReceiveKnown(m)
  BY <1>1, <1>3, KnownKeeps
<1>4. CASE ReceiveEarly(m)
  BY <1>1, <1>4, EarlyKeeps
<1>5. CASE ReceiveNext(m) \/ ReceiveCut(m)
  BY <1>1, <1>5, NextKeeps
<1>6. CASE ReceiveOld(m)
  BY <1>1, <1>6, OldKeeps
<1>7. QED
  BY <1>2, <1>3, <1>4, <1>5, <1>6 DEF Receive

LEMMA StepKeeps == IInv /\ [Next]_vars => IInv'
<1> SUFFICES ASSUME IInv, [Next]_vars PROVE IInv'
  OBVIOUS
<1>1. ASSUME NEW l \in Links, Send(l[1], l[2]) PROVE IInv'
  BY <1>1, SendKeeps
<1>2. ASSUME NEW m \in rows, TransmitOk(m) PROVE IInv'
  BY <1>2, TransmitKeeps
<1>3. ASSUME NEW m \in rows, TransmitAgain(m) \/ GiveUp(m) PROVE IInv'
  BY <1>3, TransmitKeeps, GiveUpKeeps
<1>4. ASSUME NEW m \in rows \cup wire, GrowsOld(m) PROVE IInv'
  BY <1>4, GrowsOldKeeps
<1>5. ASSUME NEW m \in wire, Receive(m) PROVE IInv'
  BY <1>5, ReceiveKeeps
<1>6. ASSUME NEW n \in Nodes, Crash(n) PROVE IInv'
  BY <1>6, CrashKeeps
<1>7. ASSUME NEW l \in Links, MapRemoved(l[2], l[1]) PROVE IInv'
  BY <1>7, LinksAssumption, RemovedKeeps
<1>8. CASE UNCHANGED vars
  BY <1>8, StutterKeeps
<1>9. QED
  BY <1>1, <1>2, <1>3, <1>4, <1>5, <1>6, <1>7, <1>8 DEF Next, TransmitSome, ReceiveSome

(* Numbers, rows, buffers and what was processed keep their kinds: only    *)
(* what was sent is held back or processed.                                *)
THEOREM TypeCorrect == Spec => []TypeOK
<1>1. IInv => TypeOK
  BY DEF IInv
<1>2. QED
  BY InitIInv, StepKeeps, <1>1, PTL DEF Spec

(* Without a restart and without age a message that was sent is processed, *)
(* given up, still on its way, or was dropped by a buffer that was full or *)
(* removed: however often it, or its ACK, is transmitted again, and        *)
(* wherever calls are cut short.                                           *)
THEOREM NoneIsLost == Spec => []NoneLost
<1>1. IInv => NoneLost
  BY DEF IInv
<1>2. QED
  BY InitIInv, StepKeeps, <1>1, PTL DEF Spec

(* What a node has processed of another is a prefix of its numbers, and    *)
(* all of it data for this node (shouldBufferOutOfOrder).                  *)
THEOREM GaplessCorrect == Spec => []OnlyGapless
<1>1. IInv => OnlyGapless
  <2> SUFFICES ASSUME IInv, NEW m \in processed, NEW k \in 1..m.seq
               PROVE  Data(m.from, m.to, k) \in processed
    BY DEF OnlyGapless
  <2>1. m.from \in Nodes /\ m.to \in Nodes /\ m.seq \in Nat
    BY DEF IInv, TypeOK, Message
  <2>2. lastSeq[m.to][m.from] \in Nat /\ m.seq <= lastSeq[m.to][m.from]
    BY <2>1 DEF IInv, TypeOK, NotBeyond
  <2>3. k \in 1..lastSeq[m.to][m.from]
    BY <2>1, <2>2
  <2>4. QED
    BY <2>1, <2>3 DEF IInv, UpToLast
<1>2. QED
  BY InitIInv, StepKeeps, <1>1, PTL DEF Spec

(* An ACK under way tells of data its sender has processed, so that the    *)
(* row it deletes is needed no more (sendAck).                             *)
THEOREM AcksAreTrue == Spec => []AckTellsProcessed
<1>1. IInv => AckTellsProcessed
  BY DEF IInv
<1>2. QED
  BY InitIInv, StepKeeps, <1>1, PTL DEF Spec
=============================================================================
