------------------------------ MODULE RelayProofs ------------------------------
(***************************************************************************)
(* What holds of Relay for every set of nodes, every network and all       *)
(* limits: the types, that no envelope is sent to the node it is for, that *)
(* a copy of the message is kept, and, with at least two relays, that its  *)
(* replicas are bounded, however the passes of a node overlap.             *)
(***************************************************************************)
EXTENDS Relay, FunctionTheorems, FiniteSetTheorems, TLAPS

-----------------------------------------------------------------------------
(* The inductive invariant *)

(* The recipient is a replica of the message only in its own tables, where *)
(* a stray envelope may have put it.                                       *)
RecipientIsNoReplica ==
    \A n \in Nodes \ {Recipient} : replica[n][Recipient] = "none"

(* A fallback is never about to send an envelope to the recipient ...      *)
FallbackAvoidsRecipient ==
    \A s \in Passes :
        Host[s] # Recipient /\ stage[s] = "relay" =>
            cur[s] # Recipient /\ Recipient \notin todo[s]

(* ... and a recovery never to the node its envelopes are for.             *)
RecoveryAvoidsTarget ==
    \A s \in Passes :
        stage[s] = "again" => cur[s] # aim[s] /\ aim[s] \notin todo[s]

Avoiding == RecipientIsNoReplica /\ FallbackAvoidsRecipient /\ RecoveryAvoidsTarget

IInv == TypeOK /\ RelayNeverTarget /\ Avoiding

-----------------------------------------------------------------------------
(* Lemmas on the helpers *)

(* The peers a node selects fit, and relays are never the target.          *)
LEMMA Selected ==
    ASSUME NEW n \in Nodes, NEW t \in Nodes, NEW S \in SelectReplicaPeers(n, t)
    PROVE  S \subseteq Nodes /\ n \notin S /\ t \notin S
BY NodesAssumption DEF SelectReplicaPeers, AtMostRelays

(* A fallback of another node than the recipient avoids the recipient.     *)
LEMMA FallbackSelected ==
    ASSUME IInv, NEW n \in Nodes, NEW S \in FallbackRelays(n)
    PROVE  S \subseteq Nodes /\ (n # Recipient => Recipient \notin S)
<1>1. Recipient \in Nodes
  BY NodesAssumption
<1>2. CASE Assigned(n) = {}
  BY <1>1, <1>2, Selected DEF FallbackRelays
<1>3. CASE Assigned(n) # {}
  <2>1. S \subseteq Assigned(n)
    BY <1>3 DEF FallbackRelays, AtMostRelays
  <2>2. QED
    BY <1>1, <2>1 DEF Assigned, IInv, Avoiding, RecipientIsNoReplica
<1>4. QED
  BY <1>2, <1>3

(* A transmission puts at most the packet itself on the links, and nothing *)
(* if the packet is for the node that sends it.                            *)
LEMMA Transmission ==
    ASSUME TypeOK, NEW n \in Nodes, NEW k \in Packets, Sent(n, k) \/ NotSent(n, k)
    PROVE  /\ wire' \subseteq wire \cup {k}
           /\ k.to = n => wire' \subseteq wire
           /\ wire' \subseteq Packets
           /\ fails' \in 0..MaxFails
<1>1. <<n, n>> \notin Links
  BY NodesAssumption
<1>2. wire \subseteq Packets /\ fails \in 0..MaxFails
  BY DEF TypeOK
<1>3. /\ wire' \subseteq wire \cup {k}
      /\ fails' \in 0..MaxFails
  BY <1>2, LimitsAssumption DEF Sent, NotSent
<1>4. ASSUME k.to = n PROVE wire' \subseteq wire
  BY <1>1, <1>4 DEF Sent, NotSent
<1>5. QED
  BY <1>2, <1>3, <1>4

(* Every envelope to and for a node is a packet. *)
LEMMA EnvelopeIsPacket ==
    ASSUME NEW p \in Nodes, NEW t \in Nodes
    PROVE  /\ Envelope(p, t) \in Packets
           /\ Envelope(p, t).kind = "envelope"
           /\ Envelope(p, t).to = p /\ Envelope(p, t).for = t
BY DEF Envelope, Packets

LEMMA OriginalIsPacket == Original \in Packets /\ Original.kind = "original"
BY DEF Original, Packets

(* The type invariant in parts                                             *)
RowTypes ==
    /\ status \in [Nodes -> Row]
    /\ target \in [Nodes -> Nodes]
    /\ attempts \in [Nodes -> 0..MaxRetryAttempts]

Cascaded ==
    \A n \in Nodes : repStatus[n] = "none" =>
        expected[n] = {} /\ \A r \in Nodes : replica[n][r] = "none"

RepTypes ==
    /\ repStatus \in [Nodes -> Row]
    /\ repTarget \in [Nodes -> Nodes]
    /\ replica \in [Nodes -> [Nodes -> Replica]]
    /\ expected \in [Nodes -> SUBSET Nodes]
    /\ Cascaded

PassTypes ==
    /\ stage \in [Passes -> Stage]
    /\ copy \in [Passes -> 0..MaxRetryAttempts]
    /\ todo \in [Passes -> SUBSET Nodes]
    /\ cur \in [Passes -> Nodes]
    /\ had \in [Passes -> SUBSET Nodes]
    /\ list \in [Passes -> SUBSET Nodes]
    /\ aim \in [Passes -> Nodes]

NetTypes ==
    /\ wire \subseteq Packets
    /\ processed \in BOOLEAN
    /\ gaveUp \subseteq Nodes
    /\ fails \in 0..MaxFails /\ stores \in 0..MaxStores

LEMMA TypeParts == TypeOK <=> RowTypes /\ RepTypes /\ PassTypes /\ NetTypes
BY DEF TypeOK, RowTypes, RepTypes, Cascaded, PassTypes, NetTypes

LEMMA TypePartsAfter ==
    ASSUME RowTypes', RepTypes', PassTypes', NetTypes'
    PROVE  TypeOK'
BY DEF TypeOK, RowTypes, RepTypes, Cascaded, PassTypes, NetTypes

(* What the statements on pending_messages leave behind.                   *)
LEMMA RowStatements ==
    ASSUME RowTypes, NEW n \in Nodes, NEW t \in Nodes,
           \/ QueueMessage(n, t)
           \/ SchedulePendingRetry(n)
           \/ Mark(n, "delivered") \/ Mark(n, "failed")
    PROVE  RowTypes'
BY LimitsAssumption DEF RowTypes, Row, QueueMessage, SchedulePendingRetry, Mark, OneMore

LEMMA MarkReplicatedTypes ==
    ASSUME RepTypes, NEW n \in Nodes,
           MarkReplicated(n, "delivered") \/ MarkReplicated(n, "failed")
    PROVE  RepTypes'
BY DEF RepTypes, Cascaded, Row, MarkReplicated

(* Every pass belongs to a node. *)
LEMMA HostIsNode == ASSUME NEW s \in Passes PROVE Host[s] \in Nodes
BY NodesAssumption

(* One turn of the loop over the relays of a fallback.                     *)
LEMMA RelayNextStep ==
    ASSUME IInv, NEW s \in Passes, NEW n \in Nodes, n = Host[s],
           NEW S \in SUBSET Nodes, NEW before \in SUBSET Nodes, NEW row \in Row,
           NEW reps \in [Nodes -> Replica], NEW exps \in SUBSET Nodes,
           row = "none" => exps = {} /\ \A r \in Nodes : reps[r] = "none",
           n # Recipient => Recipient \notin S /\ reps[Recipient] = "none",
           RelayNext(s, S, before, row, reps, exps), UNCHANGED <<list, aim>>,
           Forget(s) \/ UNCHANGED copy,
           repTarget' = [repTarget EXCEPT ![n] = TargetAfter(s, repTarget[n])]
           \/ repTarget' = [repTarget EXCEPT ![n] = TargetAfter(s, Recipient)]
    PROVE  RowTypes' /\ RepTypes' /\ PassTypes' /\ Avoiding'
<1>1. RowTypes /\ RepTypes /\ PassTypes /\ Recipient \in Nodes
  BY TypeParts, NodesAssumption DEF IInv
<1>2. copy' \in [Passes -> 0..MaxRetryAttempts]
  BY <1>1, LimitsAssumption DEF PassTypes, Forget
<1>3. CASE /\ S = {}
           /\ stage' = [stage EXCEPT ![s] = "recover"]
           /\ repStatus' = [repStatus EXCEPT ![n] = row]
           /\ replica' = [replica EXCEPT ![n] = reps]
           /\ expected' = [expected EXCEPT ![n] = exps]
           /\ SchedulePendingRetry(n)
           /\ LoopEnds(s) /\ had' = [had EXCEPT ![s] = {}]
  <2>1. RowTypes'
    BY <1>1, <1>3, RowStatements
  <2>2. RepTypes'
    <3>1. stage'[s] = "recover"
      BY <1>1, <1>3 DEF PassTypes
    <3>2. repTarget' \in [Nodes -> Nodes]
      <4>1. TargetAfter(s, repTarget[n]) = repTarget[n] /\ TargetAfter(s, Recipient) = Recipient
        BY <3>1 DEF TargetAfter
      <4>2. QED
        BY <1>1, <4>1 DEF RepTypes
    <3>3. /\ repStatus' \in [Nodes -> Row]
          /\ replica' \in [Nodes -> [Nodes -> Replica]] /\ expected' \in [Nodes -> SUBSET Nodes]
      BY <1>1, <1>3 DEF RepTypes
    <3>4. Cascaded'
      BY <1>1, <1>3 DEF RepTypes, Cascaded
    <3>5. QED
      BY <3>2, <3>3, <3>4 DEF RepTypes
  <2>3. PassTypes'
    BY <1>1, <1>2, <1>3 DEF PassTypes, Stage, LoopEnds
  <2>4. RecipientIsNoReplica'
    BY <1>1, <1>3 DEF Avoiding, RecipientIsNoReplica, IInv, RepTypes
  <2>5. FallbackAvoidsRecipient' /\ RecoveryAvoidsTarget'
    BY <1>1, <1>3 DEF Avoiding, FallbackAvoidsRecipient, RecoveryAvoidsTarget, IInv,
                      PassTypes, LoopEnds
  <2>6. QED
    BY <2>1, <2>2, <2>3, <2>4, <2>5 DEF Avoiding
<1>4. CASE \E r \in S :
             /\ stage' = [stage EXCEPT ![s] = "relay"]
             /\ todo' = [todo EXCEPT ![s] = S \ {r}]
             /\ cur' = [cur EXCEPT ![s] = r]
             /\ had' = [had EXCEPT ![s] = before]
             /\ repStatus' = [repStatus EXCEPT ![n] =
                                IF r \in before THEN row ELSE Upserted(row)]
             /\ replica' = [replica EXCEPT ![n] =
                              IF r \in before THEN reps ELSE [reps EXCEPT ![r] = "assigned"]]
             /\ expected' = [expected EXCEPT ![n] = exps \cup ({r} \ before)]
             /\ UNCHANGED rowVars
  <2> PICK r \in S :
             /\ stage' = [stage EXCEPT ![s] = "relay"]
             /\ todo' = [todo EXCEPT ![s] = S \ {r}]
             /\ cur' = [cur EXCEPT ![s] = r]
             /\ had' = [had EXCEPT ![s] = before]
             /\ repStatus' = [repStatus EXCEPT ![n] =
                                IF r \in before THEN row ELSE Upserted(row)]
             /\ replica' = [replica EXCEPT ![n] =
                              IF r \in before THEN reps ELSE [reps EXCEPT ![r] = "assigned"]]
             /\ expected' = [expected EXCEPT ![n] = exps \cup ({r} \ before)]
             /\ UNCHANGED rowVars
    BY <1>4
  <2> DEFINE after == IF r \in before THEN reps ELSE [reps EXCEPT ![r] = "assigned"]
             st == IF r \in before THEN row ELSE Upserted(row)
             wait == exps \cup ({r} \ before)
  <2>0. /\ after \in [Nodes -> Replica] /\ (n # Recipient => after[Recipient] = "none")
        /\ st \in Row /\ wait \in SUBSET Nodes
    BY <1>1 DEF Replica, Row, Upserted
  <2>1. RowTypes'
    BY <1>1 DEF RowTypes, rowVars
  <2>2. st = "none" => wait = {} /\ \A q \in Nodes : after[q] = "none"
    BY DEF Upserted
  <2>3. /\ replica' = [replica EXCEPT ![n] = after]
        /\ repStatus' = [repStatus EXCEPT ![n] = st]
        /\ expected' = [expected EXCEPT ![n] = wait]
    OBVIOUS
  <2> HIDE DEF after, st, wait
  <2>4. RepTypes'
    <3>1. cur'[s] = r
      BY <1>1 DEF PassTypes
    <3>2. repTarget' \in [Nodes -> Nodes]
      <4>1. /\ TargetAfter(s, repTarget[n]) \in {r, repTarget[n]}
            /\ TargetAfter(s, Recipient) \in {r, Recipient}
        BY <3>1 DEF TargetAfter
      <4>2. repTarget \in [Nodes -> Nodes] /\ repTarget[n] \in Nodes /\ r \in Nodes
        BY <1>1 DEF RepTypes
      <4>3. QED
        BY <1>1, <4>1, <4>2
    <3>3. /\ repStatus' \in [Nodes -> Row]
          /\ replica' \in [Nodes -> [Nodes -> Replica]] /\ expected' \in [Nodes -> SUBSET Nodes]
      BY <1>1, <2>0, <2>3 DEF RepTypes
    <3>4. Cascaded'
      BY <1>1, <2>2, <2>3 DEF RepTypes, Cascaded
    <3>5. QED
      BY <3>2, <3>3, <3>4 DEF RepTypes
  <2>5. PassTypes'
    BY <1>1, <1>2 DEF PassTypes, Stage
  <2>6. RecipientIsNoReplica'
    BY <1>1, <2>0, <2>3 DEF Avoiding, RecipientIsNoReplica, IInv, RepTypes
  <2>7. FallbackAvoidsRecipient' /\ RecoveryAvoidsTarget'
    BY <1>1 DEF Avoiding, FallbackAvoidsRecipient, RecoveryAvoidsTarget, IInv, PassTypes
  <2>8. QED
    BY <2>1, <2>4, <2>5, <2>6, <2>7 DEF Avoiding
<1>5. QED
  BY <1>3, <1>4 DEF RelayNext

-----------------------------------------------------------------------------
(* The invariant is inductive: one lemma for each kind of step *)

LEMMA InitIInv == Init => IInv
<1> SUFFICES ASSUME Init PROVE IInv
  OBVIOUS
<1>1. /\ RowTypes
      /\ RepTypes
      /\ PassTypes
      /\ NetTypes
  <2> USE NodesAssumption, LimitsAssumption DEF Init
  <2>1. RowTypes
    BY DEF RowTypes, Row
  <2>2. RepTypes
    BY DEF RepTypes, Cascaded, Row, Replica
  <2>3. PassTypes
    BY DEF PassTypes, Stage
  <2>4. NetTypes
    <3>1. wire = {} /\ gaveUp = {} /\ fails = 0 /\ stores = 0
      OBVIOUS
    <3>2. processed \in BOOLEAN
      BY Zenon
    <3>3. fails \in 0..MaxFails /\ stores \in 0..MaxStores
      BY <3>1
    <3>4. QED
      BY <3>1, <3>2, <3>3, Zenon DEF NetTypes
  <2>5. QED
    BY <2>1, <2>2, <2>3, <2>4
<1>2. RelayNeverTarget
  BY DEF Init, RelayNeverTarget
<1>3. Avoiding
  BY NodesAssumption
     DEF Init, Avoiding, RecipientIsNoReplica, FallbackAvoidsRecipient, RecoveryAvoidsTarget
<1>4. QED
  BY <1>1, <1>2, <1>3, TypeParts DEF IInv

(* The parts of a pass between two transmissions.                          *)
LEMMA PassMovesIInv ==
    ASSUME IInv, NEW s \in Passes,
           \/ PassReads(s) \/ PassSkips(s) \/ GivesUp(s)
           \/ RecoveryReads(s) \/ RecoveryPasses(s) \/ PassEnds(s)
    PROVE  IInv'
<1> DEFINE n == Host[s]
<1>0. /\ RowTypes /\ RepTypes /\ PassTypes /\ NetTypes /\ Recipient \in Nodes
      /\ n \in Nodes
  BY TypeParts, NodesAssumption, HostIsNode DEF IInv
<1>1. NetTypes' /\ RelayNeverTarget'
  BY <1>0 DEF NetTypes, IInv, RelayNeverTarget, PassReads, GivesUp, PassSkips,
              RecoveryReads, RecoveryPasses, PassEnds
<1>2. RowTypes'
  <2>1. CASE GivesUp(s)
    BY <1>0, <2>1, RowStatements DEF GivesUp
  <2>2. CASE PassEnds(s)
    BY <1>0, <2>2, LimitsAssumption DEF RowTypes, PassEnds, Row
  <2>3. QED
    BY <1>0, <2>1, <2>2 DEF RowTypes, rowVars, PassReads, PassSkips,
                            RecoveryReads, RecoveryPasses
<1>3. RepTypes' /\ RecipientIsNoReplica'
  <2>1. CASE GivesUp(s)
    BY <1>0, <2>1, MarkReplicatedTypes
       DEF GivesUp, MarkReplicated, IInv, Avoiding, RecipientIsNoReplica
  <2>2. CASE RecoveryPasses(s)
    BY <1>0, <2>2 DEF RecoveryPasses, RepTypes, Cascaded, IInv, Avoiding,
                      RecipientIsNoReplica
  <2>3. CASE PassEnds(s)
    <3>1. CASE repStatus[n] \in {"delivered", "failed"}
      <4>1. /\ replica' = [replica EXCEPT ![n] = [r \in Nodes |-> "none"]]
            /\ expected' = [expected EXCEPT ![n] = {}]
            /\ repTarget' = repTarget
        BY <2>3, <3>1 DEF PassEnds, ReplicasCascade
      <4>2. repStatus' \in [Nodes -> Row] /\ \A k \in Nodes \ {n} : repStatus'[k] = repStatus[k]
        BY <1>0, <2>3 DEF PassEnds, RepTypes, Row
      <4>3. /\ replica' \in [Nodes -> [Nodes -> Replica]]
            /\ expected' \in [Nodes -> SUBSET Nodes]
        BY <1>0, <4>1 DEF RepTypes, Replica
      <4>4. /\ \A r \in Nodes : replica'[n][r] = "none"
            /\ expected'[n] = {}
            /\ \A k \in Nodes \ {n} : replica'[k] = replica[k] /\ expected'[k] = expected[k]
        BY <1>0, <4>1 DEF RepTypes
      <4>5. Cascaded' /\ RecipientIsNoReplica'
        BY <1>0, <4>2, <4>4 DEF RepTypes, Cascaded, IInv, Avoiding, RecipientIsNoReplica
      <4>6. QED
        BY <1>0, <4>1, <4>2, <4>3, <4>5 DEF RepTypes
    <3>2. CASE repStatus[n] \notin {"delivered", "failed"}
      BY <1>0, <2>3, <3>2 DEF PassEnds, RepTypes, Cascaded, Row, IInv, Avoiding,
                              RecipientIsNoReplica
    <3>3. QED
      BY <3>1, <3>2
  <2>4. QED
    BY <1>0, <2>1, <2>2, <2>3
       DEF RepTypes, Cascaded, repVars, PassReads, PassSkips, RecoveryReads, IInv,
           Avoiding, RecipientIsNoReplica
<1>4. PassTypes'
  <2>1. CASE PassReads(s)
    BY <1>0, <2>1 DEF PassTypes, Stage, RowTypes, PassReads
  <2>2. CASE GivesUp(s)
    BY <1>0, <2>2, LimitsAssumption DEF PassTypes, Stage, GivesUp, Forget
  <2>3. CASE RecoveryReads(s)
    <3>1. Waiting(n) \in SUBSET Nodes /\ repTarget[n] \in Nodes
      BY <1>0 DEF Waiting, RepTypes
    <3>2. QED
      BY <1>0, <2>3, <3>1 DEF PassTypes, Stage, RecoveryReads, NextReplica
  <2>4. CASE RecoveryPasses(s)
    BY <1>0, <2>4 DEF PassTypes, Stage, RecoveryPasses, NextReplica
  <2>5. QED
    BY <1>0, <2>1, <2>2, <2>3, <2>4 DEF PassTypes, Stage, PassSkips, PassEnds
<1>5. FallbackAvoidsRecipient' /\ RecoveryAvoidsTarget'
  <2>1. /\ stage'[s] \notin {"relay", "again"}
        /\ \A k \in Passes \ {s} :
             /\ stage'[k] = stage[k] /\ cur'[k] = cur[k]
             /\ todo'[k] = todo[k] /\ aim'[k] = aim[k]
    BY <1>0 DEF PassTypes, PassReads, GivesUp, PassSkips, RecoveryReads, RecoveryPasses,
                NextReplica, PassEnds
  <2>2. QED
    BY <2>1 DEF IInv, Avoiding, FallbackAvoidsRecipient, RecoveryAvoidsTarget
<1>6. QED
  BY <1>1, <1>2, <1>3, <1>4, <1>5, TypePartsAfter DEF IInv, Avoiding

(* A transmission of the message itself.                                   *)
LEMMA OriginalIInv ==
    ASSUME IInv, NEW n \in Nodes,
           \/ \E s \in Passes : n = Host[s] /\ (TransmitOk(s) \/ TransmitFails(s))
           \/ HandOver(n)
    PROVE  IInv'
<1>0. RowTypes /\ RepTypes /\ PassTypes /\ NetTypes /\ Recipient \in Nodes
  BY TypeParts, NodesAssumption DEF IInv
<1>1. /\ Sent(n, Original) \/ NotSent(n, Original)
      /\ UNCHANGED <<processed, gaveUp, stores>>
  BY DEF TransmitOk, TransmitFails, HandOver
<1>2. wire' \subseteq wire \cup {Original} /\ NetTypes'
  BY <1>0, <1>1, Transmission, OriginalIsPacket DEF NetTypes, IInv
<1>3. RelayNeverTarget'
  BY <1>2, OriginalIsPacket DEF RelayNeverTarget, IInv
<1>4. RowTypes'
  BY <1>0, RowStatements DEF TransmitOk, TransmitFails, HandOver
<1>5. RepTypes' /\ RecipientIsNoReplica'
  <2>1. CASE MarkReplicated(n, "delivered")
    BY <1>0, <2>1, MarkReplicatedTypes
       DEF MarkReplicated, IInv, Avoiding, RecipientIsNoReplica
  <2>2. CASE UNCHANGED repVars
    BY <1>0, <2>2 DEF RepTypes, Cascaded, repVars, IInv, Avoiding, RecipientIsNoReplica
  <2>3. QED
    BY <2>1, <2>2 DEF TransmitOk, TransmitFails, HandOver
<1>6. /\ PassTypes'
      /\ FallbackAvoidsRecipient' /\ RecoveryAvoidsTarget'
  <2>1. CASE HandOver(n)
    BY <1>0, <2>1 DEF PassTypes, passVars, HandOver, IInv, Avoiding,
                      FallbackAvoidsRecipient, RecoveryAvoidsTarget
  <2>2. CASE \E s \in Passes : TransmitOk(s) \/ TransmitFails(s)
    <3> PICK s \in Passes : TransmitOk(s) \/ TransmitFails(s)
      BY <2>2
    <3>1. /\ stage' = [stage EXCEPT ![s] = "recover"]
          /\ copy' = [copy EXCEPT ![s] = 0]
          /\ UNCHANGED <<todo, cur, had, list, aim>>
      BY DEF TransmitOk, TransmitFails, Forget
    <3>2. PassTypes'
      BY <1>0, <3>1, LimitsAssumption DEF PassTypes, Stage
    <3>3. QED
      BY <1>0, <3>1, <3>2 DEF PassTypes, IInv, Avoiding, FallbackAvoidsRecipient,
                              RecoveryAvoidsTarget
  <2>3. QED
    BY <2>1, <2>2
<1>7. QED
  BY <1>2, <1>3, <1>4, <1>5, <1>6, TypePartsAfter DEF IInv, Avoiding

(* The fallback: its start, and the end of a transmission to a relay.      *)
LEMMA FallbackIInv ==
    ASSUME IInv, NEW s \in Passes, FallbackStarts(s) \/ RelayOk(s) \/ RelayFails(s)
    PROVE  IInv'
<1> DEFINE n == Host[s]
<1>0. /\ RowTypes /\ RepTypes /\ PassTypes /\ NetTypes /\ Recipient \in Nodes
      /\ n \in Nodes
  BY TypeParts, NodesAssumption, HostIsNode DEF IInv
<1>1. CASE FallbackStarts(s)
  <2>1. PICK S \in FallbackRelays(n) :
             RelayNext(s, S, Assigned(n), Upserted(repStatus[n]), replica[n], expected[n])
    BY <1>1 DEF FallbackStarts
  <2>2. /\ S \in SUBSET Nodes /\ (n # Recipient => Recipient \notin S)
        /\ Assigned(n) \in SUBSET Nodes
    BY <1>0, FallbackSelected DEF Assigned
  <2>3. /\ replica[n] \in [Nodes -> Replica] /\ expected[n] \in SUBSET Nodes
        /\ n # Recipient => replica[n][Recipient] = "none"
        /\ Upserted(repStatus[n]) \in Row /\ Upserted(repStatus[n]) # "none"
    BY <1>0 DEF RepTypes, IInv, Avoiding, RecipientIsNoReplica, Upserted, Row
  <2>4. /\ UNCHANGED <<list, aim>> /\ Forget(s)
        /\ repTarget' = [repTarget EXCEPT ![n] = TargetAfter(s, Recipient)]
    BY <1>1 DEF FallbackStarts
  <2> HIDE DEF n
  <2>5. RowTypes' /\ RepTypes' /\ PassTypes' /\ Avoiding'
    BY <1>0, <2>1, <2>2, <2>3, <2>4, RelayNextStep DEF n
  <2>6. wire' \subseteq wire \cup {Original} /\ NetTypes'
    BY <1>0, <1>1, Transmission, OriginalIsPacket DEF NetTypes, IInv, FallbackStarts, n
  <2>7. RelayNeverTarget'
    BY <2>6, OriginalIsPacket DEF RelayNeverTarget, IInv
  <2>8. QED
    BY <2>5, <2>6, <2>7, TypePartsAfter DEF IInv
<1>2. CASE RelayOk(s) \/ RelayFails(s)
  <2> DEFINE r == cur[s]
             k == Envelope(r, Recipient)
  <2>1. /\ r \in Nodes /\ stage[s] = "relay"
        /\ todo[s] \in SUBSET Nodes /\ had[s] \in SUBSET Nodes
        /\ n # Recipient => r # Recipient /\ Recipient \notin todo[s]
    BY <1>0, <1>2 DEF PassTypes, RelayOk, RelayFails, IInv, Avoiding,
                      FallbackAvoidsRecipient
  <2>2. k \in Packets /\ k.to = r /\ k.for = Recipient
    BY <1>0, <2>1, EnvelopeIsPacket
  <2>3. /\ Sent(n, k) \/ NotSent(n, k)
        /\ UNCHANGED <<copy, list, aim, processed, gaveUp, stores>>
        /\ repTarget' = [repTarget EXCEPT ![n] = TargetAfter(s, repTarget[n])]
    BY <1>2 DEF RelayOk, RelayFails
  <2> HIDE DEF k
  <2>4. /\ wire' \subseteq wire \cup {k} /\ NetTypes'
        /\ r = n => wire' \subseteq wire
    BY <1>0, <2>2, <2>3, Transmission DEF NetTypes, IInv
  <2>5. RelayNeverTarget'
    BY <2>1, <2>2, <2>4 DEF RelayNeverTarget, IInv
  <2> DEFINE reps(x) == [replica[n] EXCEPT ![r] = Updated(@, x)]
  <2>6. \A x \in {"stored", "failed"} :
          /\ reps(x) \in [Nodes -> Replica]
          /\ n # Recipient => reps(x)[Recipient] = "none"
          /\ repStatus[n] = "none" => \A q \in Nodes : reps(x)[q] = "none"
    BY <1>0, <2>1 DEF RepTypes, Cascaded, Replica, Updated, IInv, Avoiding,
                      RecipientIsNoReplica
  <2>7. \E x \in {"stored", "failed"}, exps \in SUBSET Nodes :
          /\ repStatus[n] = "none" => exps = {}
          /\ RelayNext(s, todo[s], had[s], repStatus[n], reps(x), exps)
    <3>1. CASE RelayOk(s)
      <4> DEFINE e == expected[n] \cup (IF replica[n][r] = "none" THEN {} ELSE {r})
      <4>1. e \in SUBSET Nodes /\ (repStatus[n] = "none" => e = {})
        BY <1>0, <2>1 DEF RepTypes, Cascaded
      <4>2. RelayNext(s, todo[s], had[s], repStatus[n], reps("stored"), e)
        BY <3>1 DEF RelayOk
      <4> HIDE DEF e
      <4>3. QED
        BY <4>1, <4>2
    <3>2. CASE RelayFails(s)
      <4>1. expected[n] \in SUBSET Nodes /\ (repStatus[n] = "none" => expected[n] = {})
        BY <1>0 DEF RepTypes, Cascaded
      <4>2. RelayNext(s, todo[s], had[s], repStatus[n], reps("failed"), expected[n])
        BY <3>2 DEF RelayFails
      <4>3. QED
        BY <4>1, <4>2
    <3>3. QED
      BY <1>2, <3>1, <3>2
  <2>8. repStatus[n] \in Row
    BY <1>0 DEF RepTypes
  <2> HIDE DEF reps, n
  <2>9. RowTypes' /\ RepTypes' /\ PassTypes' /\ Avoiding'
    BY <1>0, <2>1, <2>3, <2>6, <2>7, <2>8, RelayNextStep DEF n
  <2>10. QED
    BY <2>4, <2>5, <2>9, TypePartsAfter DEF IInv
<1>3. QED
  BY <1>1, <1>2

(* Recovery: its start, and the end of a transmission to a new relay.      *)
LEMMA RecoveryIInv ==
    ASSUME IInv, NEW s \in Passes, RecoveryStarts(s) \/ RecoverOk(s) \/ RecoverFails(s)
    PROVE  IInv'
<1> DEFINE n == Host[s]
<1>0. /\ RowTypes /\ RepTypes /\ PassTypes /\ NetTypes /\ Recipient \in Nodes
      /\ n \in Nodes
  BY TypeParts, NodesAssumption, HostIsNode DEF IInv
<1>1. CASE RecoveryStarts(s)
  <2>1. aim[s] \in Nodes /\ list[s] \in SUBSET Nodes
    BY <1>0 DEF PassTypes
  <2>2. PICK p \in list[s], S \in SelectReplicaPeers(n, aim[s]) :
             \/ /\ S = {}
                /\ NextReplica(s, list[s] \ {p}, aim[s])
                /\ UNCHANGED <<todo, cur>>
             \/ \E q \in S :
                /\ stage' = [stage EXCEPT ![s] = "again"]
                /\ list' = [list EXCEPT ![s] = @ \ {p}]
                /\ todo' = [todo EXCEPT ![s] = S \ {q}]
                /\ cur' = [cur EXCEPT ![s] = q]
                /\ UNCHANGED aim
    BY <1>1 DEF RecoveryStarts
  <2>3. S \subseteq Nodes /\ aim[s] \notin S
    BY <1>0, <2>1, Selected
  <2>4. UNCHANGED <<rowVars, repVars, copy, had, wire, processed, gaveUp, fails, stores>>
    BY <1>1 DEF RecoveryStarts
  <2>5. RowTypes' /\ RepTypes' /\ NetTypes' /\ RelayNeverTarget' /\ RecipientIsNoReplica'
    BY <1>0, <2>4 DEF rowVars, repVars, RowTypes, RepTypes, Cascaded, NetTypes, IInv,
                      RelayNeverTarget, Avoiding, RecipientIsNoReplica
  <2>6. PassTypes' /\ FallbackAvoidsRecipient' /\ RecoveryAvoidsTarget'
    <3>1. CASE NextReplica(s, list[s] \ {p}, aim[s]) /\ UNCHANGED <<todo, cur>>
      BY <1>0, <2>1, <2>4, <3>1 DEF PassTypes, Stage, NextReplica, IInv, Avoiding,
                                    FallbackAvoidsRecipient, RecoveryAvoidsTarget
    <3>2. CASE \E q \in S :
                 /\ stage' = [stage EXCEPT ![s] = "again"]
                 /\ list' = [list EXCEPT ![s] = @ \ {p}]
                 /\ todo' = [todo EXCEPT ![s] = S \ {q}]
                 /\ cur' = [cur EXCEPT ![s] = q]
                 /\ UNCHANGED aim
      BY <1>0, <2>1, <2>3, <2>4, <3>2 DEF PassTypes, Stage, IInv, Avoiding,
                                    FallbackAvoidsRecipient, RecoveryAvoidsTarget
    <3>3. QED
      BY <2>2, <3>1, <3>2
  <2>7. QED
    BY <2>5, <2>6, TypePartsAfter DEF IInv, Avoiding
<1>2. CASE RecoverOk(s) \/ RecoverFails(s)
  <2> DEFINE r == cur[s]
             k == Envelope(r, aim[s])
  <2>1. /\ r \in Nodes /\ aim[s] \in Nodes /\ r # aim[s]
        /\ todo[s] \in SUBSET Nodes /\ aim[s] \notin todo[s] /\ list[s] \in SUBSET Nodes
    BY <1>0, <1>2 DEF PassTypes, RecoverOk, RecoverFails, IInv, Avoiding, RecoveryAvoidsTarget
  <2>2. k \in Packets /\ k.to = r /\ k.for = aim[s]
    BY <2>1, EnvelopeIsPacket
  <2>3. /\ Sent(n, k) \/ NotSent(n, k)
        /\ UNCHANGED <<rowVars, repStatus, repTarget, copy, had, processed, gaveUp, stores>>
    BY <1>2 DEF RecoverOk, RecoverFails
  <2> HIDE DEF k
  <2>4. wire' \subseteq wire \cup {k} /\ NetTypes'
    BY <1>0, <2>2, <2>3, Transmission DEF NetTypes, IInv
  <2>5. RelayNeverTarget'
    BY <2>1, <2>2, <2>4 DEF RelayNeverTarget, IInv
  <2>6. PICK x \in {"stored", "failed"} :
             replica' = [replica EXCEPT ![n][r] = Updated(@, x)]
    BY <1>2 DEF RecoverOk, RecoverFails
  <2>7. /\ replica' \in [Nodes -> [Nodes -> Replica]]
        /\ \A i, q \in Nodes : replica[i][q] = "none" => replica'[i][q] = "none"
    BY <1>0, <2>1, <2>6 DEF RepTypes, Replica, Updated
  <2>8. /\ expected' \in [Nodes -> SUBSET Nodes]
        /\ \A i \in Nodes : repStatus[i] = "none" => expected'[i] = {}
    <3>1. CASE RecoverOk(s)
      BY <1>0, <2>1, <3>1 DEF RepTypes, Cascaded, RecoverOk
    <3>2. CASE RecoverFails(s)
      BY <1>0, <3>2 DEF RepTypes, Cascaded, RecoverFails
    <3>3. QED
      BY <1>2, <3>1, <3>2
  <2>9. RowTypes' /\ RepTypes' /\ RecipientIsNoReplica'
    BY <1>0, <2>3, <2>7, <2>8 DEF RowTypes, rowVars, RepTypes, Cascaded, IInv, Avoiding,
                                  RecipientIsNoReplica
  <2>10. PassTypes' /\ FallbackAvoidsRecipient' /\ RecoveryAvoidsTarget'
    <3>1. CASE LoopEnds(s) /\ NextReplica(s, list[s], aim[s])
      <4>1. /\ stage'[s] # "relay" /\ stage'[s] # "again"
            /\ \A i \in Passes \ {s} : /\ stage'[i] = stage[i] /\ todo'[i] = todo[i]
                                       /\ cur'[i] = cur[i] /\ aim'[i] = aim[i]
        BY <1>0, <3>1 DEF PassTypes, LoopEnds, NextReplica
      <4>2. PassTypes'
        BY <1>0, <2>1, <2>3, <3>1 DEF PassTypes, Stage, LoopEnds, NextReplica
      <4>3. QED
        BY <4>1, <4>2 DEF IInv, Avoiding, FallbackAvoidsRecipient, RecoveryAvoidsTarget
    <3>2. CASE /\ stage[s] = "again" /\ UNCHANGED <<stage, list, aim>>
               /\ \E q \in todo[s] :
                    /\ todo' = [todo EXCEPT ![s] = @ \ {q}]
                    /\ cur' = [cur EXCEPT ![s] = q]
      <4>1. /\ todo' \in [Passes -> SUBSET Nodes] /\ todo'[s] \subseteq todo[s]
            /\ cur' \in [Passes -> Nodes] /\ cur'[s] \in todo[s]
            /\ \A i \in Passes \ {s} : todo'[i] = todo[i] /\ cur'[i] = cur[i]
        BY <1>0, <2>1, <3>2 DEF PassTypes
      <4>2. PassTypes'
        BY <1>0, <2>3, <3>2, <4>1 DEF PassTypes
      <4>3. FallbackAvoidsRecipient'
        BY <3>2, <4>1 DEF IInv, Avoiding, FallbackAvoidsRecipient
      <4>4. RecoveryAvoidsTarget'
        BY <2>1, <3>2, <4>1 DEF IInv, Avoiding, RecoveryAvoidsTarget
      <4>5. QED
        BY <4>2, <4>3, <4>4
    <3>3. QED
      BY <1>2, <3>1, <3>2 DEF RecoverOk, RecoverFails
  <2>11. QED
    BY <2>4, <2>5, <2>9, <2>10, TypePartsAfter DEF IInv, Avoiding
<1>3. QED
  BY <1>1, <1>2

(* What a node does with a packet that arrives.                            *)
LEMMA ArrivalIInv ==
    ASSUME IInv,
           \/ \E k \in Packets : Deliver(k)
           \/ \E p, t \in Nodes : Store(p, t)
           \/ ReceiveAck
    PROVE  IInv'
<1>0. /\ RowTypes /\ RepTypes /\ PassTypes /\ NetTypes
      /\ Recipient \in Nodes /\ Origin \in Nodes
  BY TypeParts, NodesAssumption DEF IInv
<1>1. PassTypes' /\ FallbackAvoidsRecipient' /\ RecoveryAvoidsTarget'
  <2>1. UNCHANGED passVars
    BY DEF Deliver, Store, ReceiveAck
  <2>2. QED
    BY <1>0, <2>1 DEF PassTypes, passVars, IInv, Avoiding, FallbackAvoidsRecipient,
                      RecoveryAvoidsTarget
<1>2. CASE \E k \in Packets : Deliver(k)
  <2>1. UNCHANGED <<rowVars, repVars, gaveUp, fails, stores>> /\ processed' = TRUE
    BY <1>2 DEF Deliver
  <2>2. wire' \subseteq wire \cup {Ack}
    BY <1>2 DEF Deliver
  <2>3. Ack \in Packets /\ Ack.kind = "ack"
    BY DEF Ack, Packets
  <2>4. RowTypes' /\ RepTypes' /\ RecipientIsNoReplica'
    BY <1>0, <2>1 DEF RowTypes, rowVars, RepTypes, Cascaded, repVars, IInv, Avoiding,
                      RecipientIsNoReplica
  <2>5. RelayNeverTarget'
    BY <2>2, <2>3 DEF RelayNeverTarget, IInv
  <2>6. NetTypes'
    <3>1. processed' \in BOOLEAN
      BY <2>1, Zenon
    <3>2. wire' \subseteq Packets
      BY <1>0, <2>2, <2>3 DEF NetTypes
    <3>3. QED
      BY <1>0, <2>1, <3>1, <3>2, Zenon DEF NetTypes
  <2>7. QED
    BY <1>1, <2>4, <2>5, <2>6, TypePartsAfter DEF IInv, Avoiding
<1>3. CASE \E p, t \in Nodes : Store(p, t)
  <2>1. PICK p \in Nodes, t \in Nodes : Store(p, t)
    BY <1>3
  <2>2. RowTypes'
    BY <1>0, <2>1, RowStatements DEF Store
  <2>3. /\ repStatus' \in [Nodes -> Row] /\ repTarget' \in [Nodes -> Nodes]
        /\ replica' \in [Nodes -> [Nodes -> Replica]]
        /\ expected' \in [Nodes -> SUBSET Nodes]
    BY <1>0, <2>1 DEF Store, RepTypes, Row, Replica, Upserted
  <2>4. repStatus'[p] # "none"
    BY <1>0, <2>1 DEF Store, RepTypes, Upserted
  <2>5. \A i \in Nodes \ {p} : /\ repStatus'[i] = repStatus[i]
                              /\ replica'[i] = replica[i] /\ expected'[i] = expected[i]
    BY <1>0, <2>1 DEF Store, RepTypes
  <2>6. Cascaded'
    BY <1>0, <2>4, <2>5 DEF RepTypes, Cascaded
  <2>7. RecipientIsNoReplica'
    BY <1>0, <2>1 DEF Store, RepTypes, IInv, Avoiding, RecipientIsNoReplica
  <2>8. NetTypes' /\ wire' \subseteq wire
    BY <1>0, <2>1, LimitsAssumption DEF Store, NetTypes
  <2>9. RelayNeverTarget'
    BY <2>8 DEF RelayNeverTarget, IInv
  <2>10. QED
    BY <1>1, <2>2, <2>3, <2>6, <2>7, <2>8, <2>9, TypePartsAfter DEF RepTypes, IInv, Avoiding
<1>4. CASE ReceiveAck
  <2>1. wire' \subseteq wire /\ UNCHANGED <<processed, gaveUp, fails, stores>>
    BY <1>4 DEF ReceiveAck
  <2>2. NetTypes' /\ RelayNeverTarget'
    BY <1>0, <2>1 DEF NetTypes, RelayNeverTarget, IInv
  <2>3. RowTypes'
    <3>1. CASE Mark(Origin, "delivered")
      BY <1>0, <3>1, RowStatements
    <3>2. CASE UNCHANGED rowVars
      BY <1>0, <3>2 DEF RowTypes, rowVars
    <3>3. QED
      BY <1>4, <3>1, <3>2 DEF ReceiveAck
  <2>4. RepTypes' /\ RecipientIsNoReplica'
    <3>1. CASE MarkReplicated(Origin, "delivered")
      BY <1>0, <3>1, MarkReplicatedTypes
         DEF MarkReplicated, IInv, Avoiding, RecipientIsNoReplica
    <3>2. CASE UNCHANGED repVars
      BY <1>0, <3>2 DEF RepTypes, Cascaded, repVars, IInv, Avoiding, RecipientIsNoReplica
    <3>3. QED
      BY <1>4, <3>1, <3>2 DEF ReceiveAck
  <2>5. QED
    BY <1>1, <2>2, <2>3, <2>4, TypePartsAfter DEF IInv, Avoiding
<1>5. QED
  BY <1>2, <1>3, <1>4

LEMMA StutterIInv ==
    ASSUME IInv, UNCHANGED vars
    PROVE  IInv'
<1>1. /\ UNCHANGED <<status, target, attempts, repStatus, repTarget, replica, expected>>
      /\ UNCHANGED <<stage, copy, todo, cur, had, list, aim, wire, processed, gaveUp, fails, stores>>
  BY DEF vars, rowVars, repVars, passVars
<1>2. TypeOK' /\ RelayNeverTarget'
  BY <1>1 DEF TypeOK, RelayNeverTarget, IInv
<1>3. Avoiding'
  BY <1>1 DEF Avoiding, RecipientIsNoReplica, FallbackAvoidsRecipient,
              RecoveryAvoidsTarget, IInv
<1>4. QED
  BY <1>2, <1>3 DEF IInv

-----------------------------------------------------------------------------
(* Theorems *)

(* No step of any node, be it a retry pass, a relay or the handling of an  *)
(* arriving packet, leaves the inductive invariant: the types, the tables  *)
(* that ON DELETE CASCADE keeps consistent, and that neither a fallback    *)
(* nor a recovery is about to choose the node its envelope is for.         *)
THEOREM Inductive == Spec => []IInv
<1>1. IInv /\ [Next]_vars => IInv'
  <2> SUFFICES ASSUME IInv, [Next]_vars PROVE IInv'
    OBVIOUS
  <2>1. ASSUME NEW s \in Passes, PassSome(s) PROVE IInv'
    BY <2>1, HostIsNode, PassMovesIInv, OriginalIInv, FallbackIInv, RecoveryIInv DEF PassSome
  <2>2. ASSUME NEW n \in Nodes, HandOver(n) PROVE IInv'
    BY <2>2, OriginalIInv
  <2>3. CASE \/ \E k \in Packets : Deliver(k)
             \/ \E p, t \in Nodes : Store(p, t)
             \/ ReceiveAck
    BY <2>3, ArrivalIInv
  <2>4. CASE UNCHANGED vars
    BY <2>4, StutterIInv
  <2>5. QED
    BY <2>1, <2>2, <2>3, <2>4 DEF Next
<1>2. QED
  BY <1>1, InitIInv, PTL DEF Spec

(* Every table and every variable of a pass keeps its type, and replicas   *)
(* exist only for a message that replicated_messages holds.                *)
THEOREM TypeCorrect == Spec => []TypeOK
<1>1. IInv => TypeOK
  BY DEF IInv
<1>2. QED
  BY <1>1, Inductive, PTL

(* Whatever the network and however often passes fail and recover, no      *)
(* envelope is ever sent to the node it is for (the guards of              *)
(* selectReplicaPeers, with what the tables remember between passes).      *)
THEOREM EnvelopesAvoidTarget == Spec => []RelayNeverTarget
<1>1. IInv => RelayNeverTarget
  BY DEF IInv
<1>2. QED
  BY <1>1, Inductive, PTL

-----------------------------------------------------------------------------
(* A copy is kept                                                          *)

(* What keeps a copy for ever, once it holds: the message on a link, which *)
(* only the recipient takes off it; a relay that has the message queued,   *)
(* which it gives up only by sending it or by giving up; and a relay that  *)
(* has given up.                                                           *)
Lasting ==
    \/ processed
    \/ Original \in wire
    \/ ~(gaveUp \subseteq {Origin})
    \/ \E n \in Nodes \ {Origin} : status[n] = "pending"

OriginKeeps ==
    processed \/ Original \in wire \/ Origin \in gaveUp \/ status[Origin] = "pending"

Touched(n) ==
    \/ status[n] # "none" \/ repStatus[n] # "none"
    \/ \E s \in Passes : Host[s] = n /\ stage[s] # "idle"

(* As long as nothing lasts, no other node has anything to do with the     *)
(* message, and so nobody has sent an envelope to the origin.              *)
KeepInv ==
    /\ OriginKeeps
    /\ Ack \in wire => processed
    /\ Lasting \/ \A n \in Nodes \ {Origin} : ~Touched(n)
    /\ Lasting \/ (stores = 0 /\ \A t \in Nodes : Envelope(Origin, t) \notin wire)

(* What a step of a pass or a hand-over at n does to the copies.           *)
Handled(n) ==
    /\ \A m \in Nodes \ {n} : status'[m] = status[m] /\ repStatus'[m] = repStatus[m]
    /\ \A s \in Passes : Host[s] # n => stage'[s] = stage[s]
    /\ UNCHANGED <<processed, stores>>
    /\ gaveUp \subseteq gaveUp'
    /\ wire \subseteq wire'
    /\ \A k \in wire' \ wire : k.kind # "ack" /\ k.to # n
    /\ status[n] = "pending" =>
         status'[n] = "pending" \/ Original \in wire' \/ n \in gaveUp'

LEMMA NotPending ==
    ASSUME RowTypes, NEW n \in Nodes,
           SchedulePendingRetry(n) \/ UNCHANGED rowVars
    PROVE  /\ \A m \in Nodes \ {n} : status'[m] = status[m]
           /\ status[n] = "pending" => status'[n] = "pending"
BY DEF RowTypes, SchedulePendingRetry, rowVars

LEMMA OnTheWire ==
    ASSUME TypeOK, NEW n \in Nodes, NEW k \in Packets, k.kind # "ack",
           Sent(n, k) \/ NotSent(n, k)
    PROVE  /\ wire \subseteq wire'
           /\ \A x \in wire' \ wire : x.kind # "ack" /\ x.to # n
BY NodesAssumption DEF Sent, NotSent

LEMMA MarkedRows ==
    ASSUME TypeOK, NEW n \in Nodes, NEW o \in Row
    PROVE  /\ Mark(n, o) => \A m \in Nodes \ {n} : status'[m] = status[m]
           /\ MarkReplicated(n, o) => \A m \in Nodes \ {n} : repStatus'[m] = repStatus[m]
BY DEF TypeOK, Mark, MarkReplicated

LEMMA RelayNextRows ==
    ASSUME TypeOK, NEW s \in Passes, NEW S, NEW before, NEW row, NEW reps, NEW exps,
           RelayNext(s, S, before, row, reps, exps)
    PROVE  /\ SchedulePendingRetry(Host[s]) \/ UNCHANGED rowVars
           /\ \A m \in Nodes \ {Host[s]} : repStatus'[m] = repStatus[m]
           /\ \A t \in Passes \ {s} : stage'[t] = stage[t]
<1> DEFINE n == Host[s]
<1>1. (UNCHANGED rowVars) \/ SchedulePendingRetry(n)
  BY DEF RelayNext
<1>2. \E x : repStatus' = [repStatus EXCEPT ![n] = x]
  <2>1. \/ repStatus' = [repStatus EXCEPT ![n] = row]
        \/ \E r \in S : repStatus' = [repStatus EXCEPT ![n] =
                                        IF r \in before THEN row ELSE Upserted(row)]
    BY DEF RelayNext
  <2>2. QED
    BY <2>1
<1>3. \E x : stage' = [stage EXCEPT ![s] = x]
  BY DEF RelayNext
<1>4. \A m \in Nodes \ {n} : repStatus'[m] = repStatus[m]
  BY <1>2 DEF TypeOK
<1>5. \A t \in Passes \ {s} : stage'[t] = stage[t]
  BY <1>3 DEF TypeOK
<1>6. QED
  BY <1>1, <1>4, <1>5

LEMMA PassMovesHandled ==
    ASSUME TypeOK, NEW s \in Passes,
           \/ PassReads(s) \/ PassSkips(s) \/ GivesUp(s)
           \/ RecoveryReads(s) \/ RecoveryPasses(s) \/ PassEnds(s)
           \/ RecoveryStarts(s)
    PROVE  Handled(Host[s])
<1> DEFINE n == Host[s]
<1>0. n \in Nodes /\ \A t \in Passes \ {s} : stage'[t] = stage[t]
  BY HostIsNode DEF TypeOK, PassReads, PassSkips, GivesUp, RecoveryReads, RecoveryPasses,
                    PassEnds, RecoveryStarts, NextReplica
<1>1. CASE GivesUp(s)
  BY <1>0, <1>1, MarkedRows DEF TypeOK, Row, GivesUp, Handled
<1>2. CASE PassEnds(s)
  BY <1>0, <1>2 DEF TypeOK, PassEnds, Handled
<1>3. CASE RecoveryStarts(s)
  BY <1>0, <1>3 DEF RecoveryStarts, Handled, rowVars, repVars
<1>4. QED
  BY <1>0, <1>1, <1>2, <1>3 DEF Handled, rowVars, repVars, PassReads, PassSkips,
                                RecoveryReads, RecoveryPasses

LEMMA OriginalHandled ==
    ASSUME TypeOK, NEW n \in Nodes,
           \/ \E s \in Passes : n = Host[s] /\ (TransmitOk(s) \/ TransmitFails(s))
           \/ HandOver(n)
    PROVE  Handled(n)
<1>0. RowTypes
  BY TypeParts
<1>1. /\ wire \subseteq wire'
      /\ \A x \in wire' \ wire : x.kind # "ack" /\ x.to # n
  BY OnTheWire, OriginalIsPacket DEF TransmitOk, TransmitFails, HandOver
<1>2. /\ \A m \in Nodes \ {n} : status'[m] = status[m]
      /\ status[n] = "pending" => status'[n] = "pending" \/ Original \in wire'
  <2>1. \/ Mark(n, "delivered") /\ Original \in wire'
        \/ SchedulePendingRetry(n)
    BY DEF TransmitOk, TransmitFails, HandOver, Sent
  <2>2. "delivered" \in Row
    BY DEF Row
  <2>3. CASE Mark(n, "delivered") /\ Original \in wire'
    BY <2>2, <2>3, MarkedRows
  <2>4. CASE SchedulePendingRetry(n)
    BY <1>0, <2>4, NotPending
  <2>5. QED
    BY <2>1, <2>3, <2>4
<1>3. \A m \in Nodes \ {n} : repStatus'[m] = repStatus[m]
  BY MarkedRows DEF Row, repVars, TransmitOk, TransmitFails, HandOver
<1>4. \A s \in Passes : Host[s] # n => stage'[s] = stage[s]
  BY DEF TypeOK, passVars, TransmitOk, TransmitFails, HandOver
<1>5. UNCHANGED <<processed, stores, gaveUp>>
  BY DEF TransmitOk, TransmitFails, HandOver
<1>6. QED
  BY <1>1, <1>2, <1>3, <1>4, <1>5 DEF Handled

LEMMA EnvelopeHandled ==
    ASSUME TypeOK, NEW s \in Passes,
           FallbackStarts(s) \/ RelayOk(s) \/ RelayFails(s) \/ RecoverOk(s) \/ RecoverFails(s)
    PROVE  Handled(Host[s])
<1> DEFINE n == Host[s]
<1>0. RowTypes /\ n \in Nodes
  BY TypeParts, HostIsNode
<1>1. cur[s] \in Nodes /\ aim[s] \in Nodes /\ Recipient \in Nodes
  BY NodesAssumption DEF TypeOK
<1>2. /\ wire \subseteq wire'
      /\ \A x \in wire' \ wire : x.kind # "ack" /\ x.to # n
  <2>1. CASE FallbackStarts(s)
    BY <1>0, <2>1, OnTheWire, OriginalIsPacket DEF FallbackStarts
  <2>2. CASE RelayOk(s) \/ RelayFails(s)
    BY <1>0, <1>1, <2>2, OnTheWire, EnvelopeIsPacket DEF RelayOk, RelayFails
  <2>3. CASE RecoverOk(s) \/ RecoverFails(s)
    BY <1>0, <1>1, <2>3, OnTheWire, EnvelopeIsPacket DEF RecoverOk, RecoverFails
  <2>4. QED
    BY <2>1, <2>2, <2>3
<1>3. /\ SchedulePendingRetry(n) \/ UNCHANGED rowVars
      /\ \A m \in Nodes \ {n} : repStatus'[m] = repStatus[m]
      /\ \A t \in Passes \ {s} : stage'[t] = stage[t]
  <2>1. CASE FallbackStarts(s) \/ RelayOk(s) \/ RelayFails(s)
    BY <2>1, RelayNextRows DEF FallbackStarts, RelayOk, RelayFails
  <2>2. CASE RecoverOk(s) \/ RecoverFails(s)
    BY <2>2 DEF TypeOK, RecoverOk, RecoverFails, NextReplica
  <2>3. QED
    BY <2>1, <2>2
<1>4. UNCHANGED <<processed, stores, gaveUp>>
  BY DEF FallbackStarts, RelayOk, RelayFails, RecoverOk, RecoverFails
<1> HIDE DEF n
<1>5. Handled(n)
  BY <1>0, <1>2, <1>3, <1>4, NotPending DEF Handled, n
<1>6. QED
  BY <1>5 DEF n

(* A node that has nothing to do with the message does nothing with it.    *)
LEMMA StepsAreTouched ==
    ASSUME NEW n \in Nodes,
           (\E s \in Passes : n = Host[s] /\ PassSome(s)) \/ HandOver(n)
    PROVE  Touched(n)
BY DEF PassSome, Touched, Waiting, PassReads, GivesUp, PassSkips, TransmitOk,
       TransmitFails, FallbackStarts, RelayOk, RelayFails, RecoveryReads, RecoveryPasses,
       RecoveryStarts, RecoverOk, RecoverFails, PassEnds, HandOver

LEMMA HandledKeeps ==
    ASSUME IInv, KeepInv, NEW n \in Nodes,
           (\E s \in Passes : n = Host[s] /\ PassSome(s)) \/ HandOver(n)
    PROVE  KeepInv'
<1>0. TypeOK /\ Touched(n) /\ Origin \in Nodes
  BY StepsAreTouched, NodesAssumption DEF IInv
<1>1. Handled(n)
  BY <1>0, PassMovesHandled, OriginalHandled, EnvelopeHandled DEF PassSome
<1>2. OriginKeeps'
  BY <1>0, <1>1 DEF KeepInv, OriginKeeps, Handled
<1>3. (Ack \in wire => processed)'
  BY <1>1 DEF KeepInv, Handled, Ack
<1>4. Lasting => Lasting'
  BY <1>0, <1>1 DEF Lasting, Handled
<1>5. CASE ~Lasting
  <2>1. n = Origin /\ (\A m \in Nodes \ {Origin} : ~Touched(m)) /\ stores = 0
    BY <1>0, <1>5 DEF KeepInv
  <2>2. (\A m \in Nodes \ {Origin} : ~Touched(m))'
    BY <1>1, <2>1 DEF Handled, Touched
  <2>3. (stores = 0 /\ \A t \in Nodes : Envelope(Origin, t) \notin wire)'
    BY <1>1, <1>5, <2>1 DEF Handled, KeepInv, Envelope
  <2>4. QED
    BY <1>2, <1>3, <2>2, <2>3 DEF KeepInv
<1>6. QED
  BY <1>2, <1>3, <1>4, <1>5 DEF KeepInv

LEMMA ArrivalKeeps ==
    ASSUME IInv, KeepInv,
           \/ \E k \in Packets : Deliver(k)
           \/ \E p, t \in Nodes : Store(p, t)
           \/ ReceiveAck
    PROVE  KeepInv'
<1>0. TypeOK /\ Origin \in Nodes
  BY NodesAssumption DEF IInv
<1>1. CASE \E k \in Packets : Deliver(k)
  BY <1>1 DEF Deliver, KeepInv, OriginKeeps, Lasting
<1>2. CASE \E p, t \in Nodes : Store(p, t)
  <2>1. PICK p \in Nodes, t \in Nodes : Store(p, t)
    BY <1>2
  <2>2. /\ UNCHANGED <<processed, gaveUp>> /\ wire' = wire \ {Envelope(p, t)}
        /\ status' = [status EXCEPT ![p] = "pending"]
    BY <2>1 DEF Store, QueueMessage
  <2>3. Original # Envelope(p, t) /\ Ack # Envelope(p, t)
    BY DEF Original, Ack, Envelope
  <2>4. Lasting'
    <3>1. CASE p = Origin
      <4>1. Lasting
        BY <2>1, <3>1 DEF Store, KeepInv
      <4>2. QED
        BY <1>0, <2>2, <2>3, <4>1 DEF Lasting, TypeOK
    <3>2. CASE p # Origin
      BY <1>0, <2>2, <3>2 DEF Lasting, TypeOK
    <3>3. QED
      BY <3>1, <3>2
  <2>5. OriginKeeps'
    BY <1>0, <2>2, <2>3 DEF KeepInv, OriginKeeps, TypeOK
  <2>6. QED
    BY <2>2, <2>3, <2>4, <2>5 DEF KeepInv
<1>3. CASE ReceiveAck
  BY <1>3 DEF ReceiveAck, KeepInv, OriginKeeps, Lasting
<1>4. QED
  BY <1>1, <1>2, <1>3

(* Until the message is processed a copy of it is on a link or in a row    *)
(* that a pass takes up, for any network, any number of relays and any     *)
(* pattern of failures; if the origin has given up, unless no relay ever   *)
(* stored the message or one of them gave up in its turn (the order of     *)
(* queueMessage, transmit and markMessageDelivered, and cleanup).          *)
THEOREM CopyIsKept == Spec => []CopyKept
<1>1. Init => KeepInv
  BY NodesAssumption DEF Init, KeepInv, OriginKeeps, Touched
<1>2. IInv /\ KeepInv /\ [Next]_vars => KeepInv'
  <2> SUFFICES ASSUME IInv, KeepInv, [Next]_vars PROVE KeepInv'
    OBVIOUS
  <2>1. CASE (\E s \in Passes : PassSome(s)) \/ \E n \in Nodes : HandOver(n)
    BY <2>1, HostIsNode, HandledKeeps
  <2>2. CASE \/ \E k \in Packets : Deliver(k)
             \/ \E p, t \in Nodes : Store(p, t)
             \/ ReceiveAck
    BY <2>2, ArrivalKeeps
  <2>3. CASE UNCHANGED vars
    BY <2>3 DEF vars, rowVars, repVars, passVars, KeepInv, OriginKeeps, Lasting, Touched
  <2>4. QED
    BY <2>1, <2>2, <2>3 DEF Next
<1>3. IInv /\ KeepInv => CopyKept
  <2> SUFFICES ASSUME IInv, KeepInv PROVE CopyKept
    OBVIOUS
  <2>1. Original.kind # "ack" /\ Origin \in Nodes
    BY OriginalIsPacket, NodesAssumption
  <2>2. CASE ~Lasting
    BY <2>1, <2>2 DEF KeepInv, OriginKeeps, CopyKept
  <2>3. CASE Lasting
    BY <2>1, <2>3 DEF Lasting, KeepInv, OriginKeeps, CopyKept, IInv, TypeOK
  <2>4. QED
    BY <2>2, <2>3
<1>4. QED
  BY <1>1, <1>2, <1>3, Inductive, PTL DEF Spec

-----------------------------------------------------------------------------
(* Replicas are bounded                                                    *)

Held(n) == Assigned(n) \ {n}

PassesOf(n) == {s \in Passes : Host[s] = n}

(* The relays a pass may still send an envelope to. *)
Using(s) == (todo[s] \cup {cur[s]}) \ {Host[s]}

(* The replicas of a message, and the relays its fallbacks may still use.  *)
InUse(n) == Held(n) \cup UNION {Using(s) : s \in {t \in PassesOf(n) : stage[t] = "relay"}}

(* F shares the replicas of n out among its passes: no pass has more than  *)
(* MAX_FALLBACK_RELAYS, and one that recovers a single replica has room    *)
(* for the one it may add.                                                 *)
Share(F, n) ==
    /\ F \in [PassesOf(n) -> SUBSET Nodes]
    /\ InUse(n) \subseteq UNION {F[s] : s \in PassesOf(n)}
    /\ \A s \in PassesOf(n) :
         /\ Cardinality(F[s]) <= MaxFallbackRelays
         /\ stage[s] = "again" => Cardinality(F[s]) <= 1

Shared(n) == \E F : Share(F, n)

BoundInv ==
    /\ \A n \in Nodes : Shared(n)
    /\ \A s \in Passes : stage[s] = "relay" => Cardinality(Using(s)) <= MaxFallbackRelays

LEMMA Smaller ==
    ASSUME NEW U \in SUBSET Nodes, NEW S \in SUBSET U, NEW k \in Nat, Cardinality(U) <= k
    PROVE  Cardinality(S) \in Nat /\ Cardinality(S) <= k
<1>1. IsFiniteSet(U)
  BY NodesAssumption, FS_Subset
<1>2. /\ IsFiniteSet(S) /\ Cardinality(S) <= Cardinality(U)
      /\ Cardinality(U) \in Nat
  BY <1>1, FS_Subset, FS_CardinalityType
<1>3. Cardinality(S) \in Nat
  BY <1>2, FS_CardinalityType
<1>4. QED
  BY <1>2, <1>3

(* Numbers for the elements of a set of at most k elements. *)
LEMMA Numbered ==
    ASSUME NEW S \in SUBSET Nodes, NEW k \in Nat, Cardinality(S) <= k
    PROVE  \E g \in [S -> 1..k] : \A x, y \in S : g[x] = g[y] => x = y
<1>1. IsFiniteSet(S)
  BY NodesAssumption, FS_Subset
<1>2. /\ Cardinality(S) \in Nat
      /\ ExistsBijection(1..Cardinality(S), S)
  BY <1>1, FS_CardinalityType
<1>3. PICK f \in Bijection(S, 1..Cardinality(S)) : TRUE
  BY <1>2, Fun_ExistsBijSymmetric DEF ExistsBijection
<1>4. /\ f \in [S -> 1..Cardinality(S)]
      /\ \A x, y \in S : f[x] = f[y] => x = y
  BY <1>3 DEF Bijection, Injection, IsInjective
<1>5. f \in [S -> 1..k]
  BY <1>2, <1>4
<1>6. QED
  BY <1>4, <1>5

(* A family of small sets has a small union. *)
LEMMA UnionOfSmall ==
    ASSUME NEW P, IsFiniteSet(P), NEW F \in [P -> SUBSET Nodes], NEW k \in Nat,
           \A p \in P : Cardinality(F[p]) <= k,
           NEW U \in SUBSET Nodes, U \subseteq UNION {F[p] : p \in P}
    PROVE  Cardinality(U) <= Cardinality(P) * k
<1> DEFINE num(p) == CHOOSE g \in [F[p] -> 1..k] : \A x, y \in F[p] : g[x] = g[y] => x = y
           home(x) == CHOOSE p \in P : x \in F[p]
           place == [x \in U |-> <<home(x), num(home(x))[x]>>]
<1>1. \A p \in P : /\ num(p) \in [F[p] -> 1..k]
                   /\ \A x, y \in F[p] : num(p)[x] = num(p)[y] => x = y
  <2> SUFFICES ASSUME NEW p \in P
               PROVE  /\ num(p) \in [F[p] -> 1..k]
                      /\ \A x, y \in F[p] : num(p)[x] = num(p)[y] => x = y
    OBVIOUS
  <2>1. F[p] \in SUBSET Nodes /\ Cardinality(F[p]) <= k
    OBVIOUS
  <2>2. \E g \in [F[p] -> 1..k] : \A x, y \in F[p] : g[x] = g[y] => x = y
    BY <2>1, Numbered
  <2>3. QED
    BY <2>2
<1>2. \A x \in U : home(x) \in P /\ x \in F[home(x)]
  OBVIOUS
<1> HIDE DEF num, home
<1>3. place \in [U -> P \X (1..k)]
  BY <1>1, <1>2
<1>4. \A x, y \in U : place[x] = place[y] => x = y
  <2> SUFFICES ASSUME NEW x \in U, NEW y \in U, place[x] = place[y] PROVE x = y
    OBVIOUS
  <2>1. home(x) = home(y) /\ num(home(x))[x] = num(home(y))[y]
    OBVIOUS
  <2>2. QED
    BY <1>1, <1>2, <2>1
<1> HIDE DEF place
<1>5. place \in Injection(U, P \X (1..k))
  BY <1>3, <1>4 DEF Injection, IsInjective
<1>6. IsFiniteSet(1..k) /\ Cardinality(1..k) = k
  <2>1. 1 \in Int /\ k \in Int
    OBVIOUS
  <2>2. QED
    BY <2>1, FS_Interval
<1>7. IsFiniteSet(P \X (1..k)) /\ Cardinality(P \X (1..k)) = Cardinality(P) * k
  BY <1>6, FS_Product
<1>8. Cardinality(U) <= Cardinality(P \X (1..k))
  BY <1>5, <1>7, FS_Injection
<1>9. QED
  BY <1>7, <1>8

LEMMA OneElementMore ==
    ASSUME NEW S, NEW x, IsFiniteSet(S), Cardinality(S) <= 1
    PROVE  Cardinality(S \cup {x}) <= 2
<1>1. Cardinality(S) \in Nat
  BY FS_CardinalityType
<1>2. Cardinality(S \cup {x}) = IF x \in S THEN Cardinality(S) ELSE Cardinality(S) + 1
  BY FS_AddElement
<1>3. QED
  BY <1>1, <1>2

LEMMA AtMostRelaysBound ==
    ASSUME NEW fit \in SUBSET Nodes, NEW S \in AtMostRelays(fit)
    PROVE  S \subseteq fit /\ Cardinality(S) <= MaxFallbackRelays
<1>1. Cardinality(fit) \in Nat
  BY NodesAssumption, FS_Subset, FS_CardinalityType
<1>2. QED
  BY <1>1, LimitsAssumption DEF AtMostRelays

LEMMA HeldAndUsing ==
    ASSUME TypeOK
    PROVE  /\ \A n \in Nodes : Held(n) \in SUBSET Nodes
           /\ \A s \in Passes : Using(s) \in SUBSET Nodes
BY DEF TypeOK, Held, Using, Assigned

(* A share stays one when nothing is added to what is in use and no        *)
(* recovery begins.                                                        *)
LEMMA KeepShared ==
    ASSUME NEW n \in Nodes, Shared(n), InUse(n)' \subseteq InUse(n),
           \A s \in PassesOf(n) : stage'[s] = "again" => stage[s] = "again"
    PROVE  Shared(n)'
<1>1. PICK F : Share(F, n)
  BY DEF Shared
<1>2. Share(F, n)'
  BY <1>1 DEF Share, PassesOf
<1>3. QED
  BY <1>2 DEF Shared

LEMMA FewerInUse ==
    ASSUME NEW n \in Nodes, Held(n)' \subseteq InUse(n),
           \A s \in PassesOf(n) : stage'[s] = "relay" => Using(s)' \subseteq InUse(n)
    PROVE  InUse(n)' \subseteq InUse(n)
<1> SUFFICES ASSUME NEW x \in InUse(n)' PROVE x \in InUse(n)
  OBVIOUS
<1>1. CASE x \in Held(n)'
  BY <1>1
<1>2. CASE \E s \in PassesOf(n) : stage'[s] = "relay" /\ x \in Using(s)'
  BY <1>2
<1>3. QED
  BY <1>1, <1>2 DEF InUse, PassesOf

(* What a pass or a replica uses is in use. *)
LEMMA UsedIsInUse ==
    ASSUME NEW n \in Nodes
    PROVE  /\ Held(n) \subseteq InUse(n)
           /\ \A s \in PassesOf(n) : stage[s] = "relay" => Using(s) \subseteq InUse(n)
BY DEF InUse

(* A step of one node, or of one of its passes, concerns its share only.   *)
LEMMA OneNodeBound ==
    ASSUME BoundInv, NEW n \in Nodes, Shared(n)',
           \A m \in Nodes \ {n} : Held(m)' \subseteq Held(m),
           \A s \in Passes : Host[s] # n =>
               stage'[s] = stage[s] /\ todo'[s] = todo[s] /\ cur'[s] = cur[s],
           \A s \in PassesOf(n) : stage'[s] = "relay" => Cardinality(Using(s)') <= MaxFallbackRelays
    PROVE  BoundInv'
<1>1. ASSUME NEW m \in Nodes \ {n} PROVE Shared(m)'
  <2>1. \A s \in PassesOf(m) : stage'[s] = stage[s] /\ Using(s)' = Using(s)
    BY DEF PassesOf, Using
  <2>2. InUse(m)' \subseteq InUse(m)
    BY <2>1, UsedIsInUse, FewerInUse
  <2>3. QED
    BY <2>1, <2>2, KeepShared DEF BoundInv
<1>2. ASSUME NEW s \in Passes, stage'[s] = "relay"
      PROVE  Cardinality(Using(s)') <= MaxFallbackRelays
  <2>1. CASE Host[s] = n
    BY <1>2, <2>1 DEF PassesOf
  <2>2. CASE Host[s] # n
    <3>1. stage[s] = "relay" /\ Using(s)' = Using(s)
      BY <1>2, <2>2 DEF Using
    <3>2. QED
      BY <3>1 DEF BoundInv
  <2>3. QED
    BY <2>1, <2>2
<1>3. QED
  BY <1>1, <1>2 DEF BoundInv

(* A step after which no node has more replicas, nor any pass a fallback   *)
(* or a recovery it did not have.                                          *)
LEMMA FewerKeepBound ==
    ASSUME BoundInv,
           \A m \in Nodes : Held(m)' \subseteq Held(m),
           \A s \in Passes : stage'[s] \in {"relay", "again"} =>
               stage'[s] = stage[s] /\ todo'[s] = todo[s] /\ cur'[s] = cur[s]
    PROVE  BoundInv'
<1>1. ASSUME NEW m \in Nodes PROVE Shared(m)'
  <2>1. \A s \in PassesOf(m) :
          /\ stage'[s] = "again" => stage[s] = "again"
          /\ stage'[s] = "relay" => stage[s] = "relay" /\ Using(s)' = Using(s)
    BY DEF PassesOf, Using
  <2>2. InUse(m)' \subseteq InUse(m)
    BY <2>1, UsedIsInUse, FewerInUse
  <2>3. QED
    BY <2>1, <2>2, KeepShared DEF BoundInv
<1>2. ASSUME NEW s \in Passes, stage'[s] = "relay"
      PROVE  Cardinality(Using(s)') <= MaxFallbackRelays
  <2>1. stage[s] = "relay" /\ Using(s)' = Using(s)
    BY <1>2 DEF Using
  <2>2. QED
    BY <2>1 DEF BoundInv
<1>3. QED
  BY <1>1, <1>2 DEF BoundInv

(* When hardly any replicas are left, the passes share anew: the fallbacks *)
(* under way keep the relays they use, and pass s has the set U.           *)
LEMMA ShareAnew ==
    ASSUME TypeOK, BoundInv, NEW n \in Nodes, NEW s \in PassesOf(n), NEW U \in SUBSET Nodes,
           Cardinality(U) <= MaxFallbackRelays,
           stage'[s] = "again" => Cardinality(U) <= 1,
           Held(n)' \subseteq U,
           stage'[s] = "relay" => Using(s)' \subseteq U,
           \A t \in Passes \ {s} :
               stage'[t] = stage[t] /\ todo'[t] = todo[t] /\ cur'[t] = cur[t]
    PROVE  Shared(n)'
<1> DEFINE G == [t \in PassesOf(n) |->
                   IF t = s THEN U ELSE IF stage[t] = "relay" THEN Using(t) ELSE {}]
<1>0. \A t \in PassesOf(n) \ {s} : stage'[t] = stage[t] /\ Using(t)' = Using(t) /\ t \in Passes
  BY DEF PassesOf, Using
<1>1. G \in [PassesOf(n) -> SUBSET Nodes]
  BY HeldAndUsing DEF PassesOf
<1>2. InUse(n)' \subseteq UNION {G[t] : t \in PassesOf(n)}
  <2> SUFFICES ASSUME NEW x \in InUse(n)' PROVE \E t \in PassesOf(n) : x \in G[t]
    OBVIOUS
  <2>1. CASE x \in Held(n)'
    <3>1. x \in G[s]
      BY <2>1
    <3>2. QED
      BY <3>1
  <2>2. CASE \E t \in PassesOf(n) : stage'[t] = "relay" /\ x \in Using(t)'
    <3>1. PICK t \in PassesOf(n) : stage'[t] = "relay" /\ x \in Using(t)'
      BY <2>2
    <3>2. x \in G[t]
      BY <1>0, <3>1
    <3>3. QED
      BY <3>2
  <2>3. QED
    BY <2>1, <2>2 DEF InUse, PassesOf
<1>3. \A t \in PassesOf(n) : /\ Cardinality(G[t]) <= MaxFallbackRelays
                             /\ stage'[t] = "again" => Cardinality(G[t]) <= 1
  <2> SUFFICES ASSUME NEW t \in PassesOf(n)
               PROVE  /\ Cardinality(G[t]) <= MaxFallbackRelays
                      /\ stage'[t] = "again" => Cardinality(G[t]) <= 1
    OBVIOUS
  <2>1. CASE t = s
    BY <2>1
  <2>2. CASE t # s /\ stage[t] = "relay"
    <3>1. G[t] = Using(t) /\ stage'[t] = "relay" /\ t \in Passes
      BY <1>0, <2>2
    <3>2. QED
      BY <2>2, <3>1 DEF BoundInv
  <2>3. CASE t # s /\ stage[t] # "relay"
    <3>1. G[t] = {}
      BY <2>3
    <3>2. QED
      BY <3>1, FS_EmptySet, LimitsAssumption
  <2>4. QED
    BY <2>1, <2>2, <2>3
<1> HIDE DEF G
<1>4. PICK K : K = G
  OBVIOUS
<1>5. Share(K, n)'
  BY <1>1, <1>2, <1>3, <1>4 DEF Share, PassesOf
<1>6. QED
  BY <1>5 DEF Shared

(* What one turn of the loop over the relays does to what is in use.       *)
LEMMA RelayNextUse ==
    ASSUME TypeOK, NEW s \in Passes, NEW n \in Nodes, n = Host[s],
           NEW S \in SUBSET Nodes, NEW before, NEW row,
           NEW reps \in [Nodes -> Replica], NEW exps, NEW U \in SUBSET Nodes,
           S \ {n} \subseteq U,
           \A r \in Nodes \ {n} : reps[r] \in {"assigned", "stored"} => r \in U,
           RelayNext(s, S, before, row, reps, exps)
    PROVE  /\ stage'[s] # "again"
           /\ Held(n)' \subseteq U
           /\ stage'[s] = "relay" => Using(s)' \subseteq S \ {n}
           /\ \A m \in Nodes \ {n} : Held(m)' \subseteq Held(m)
           /\ \A t \in Passes \ {s} :
                stage'[t] = stage[t] /\ todo'[t] = todo[t] /\ cur'[t] = cur[t]
<1>1. \/ /\ stage' = [stage EXCEPT ![s] = "recover"]
         /\ replica' = [replica EXCEPT ![n] = reps]
         /\ LoopEnds(s)
      \/ \E r \in S :
         /\ stage' = [stage EXCEPT ![s] = "relay"]
         /\ todo' = [todo EXCEPT ![s] = S \ {r}]
         /\ cur' = [cur EXCEPT ![s] = r]
         /\ replica' = [replica EXCEPT ![n] =
                          IF r \in before THEN reps ELSE [reps EXCEPT ![r] = "assigned"]]
  BY DEF RelayNext
<1>2. PICK x, T, c, R :
        /\ stage' = [stage EXCEPT ![s] = x] /\ x \in {"recover", "relay"}
        /\ todo' = [todo EXCEPT ![s] = T] /\ cur' = [cur EXCEPT ![s] = c]
        /\ x = "relay" => T \cup {c} \subseteq S
        /\ replica' = [replica EXCEPT ![n] = R]
        /\ \A r \in Nodes \ {n} : R[r] \in {"assigned", "stored"} => r \in U
  <2>1. CASE /\ stage' = [stage EXCEPT ![s] = "recover"]
             /\ replica' = [replica EXCEPT ![n] = reps]
             /\ LoopEnds(s)
    BY <2>1 DEF LoopEnds
  <2>2. ASSUME NEW r \in S,
               /\ stage' = [stage EXCEPT ![s] = "relay"]
               /\ todo' = [todo EXCEPT ![s] = S \ {r}]
               /\ cur' = [cur EXCEPT ![s] = r]
               /\ replica' = [replica EXCEPT ![n] =
                                IF r \in before THEN reps ELSE [reps EXCEPT ![r] = "assigned"]]
        PROVE  \E x, T, c, R :
                 /\ stage' = [stage EXCEPT ![s] = x] /\ x \in {"recover", "relay"}
                 /\ todo' = [todo EXCEPT ![s] = T] /\ cur' = [cur EXCEPT ![s] = c]
                 /\ x = "relay" => T \cup {c} \subseteq S
                 /\ replica' = [replica EXCEPT ![n] = R]
                 /\ \A q \in Nodes \ {n} : R[q] \in {"assigned", "stored"} => q \in U
    <3> DEFINE R == IF r \in before THEN reps ELSE [reps EXCEPT ![r] = "assigned"]
    <3>1. \A q \in Nodes \ {n} : R[q] \in {"assigned", "stored"} => q \in U
      OBVIOUS
    <3>2. (S \ {r}) \cup {r} \subseteq S
      OBVIOUS
    <3>3. replica' = [replica EXCEPT ![n] = R]
      BY <2>2
    <3> HIDE DEF R
    <3>4. QED
      BY <2>2, <3>1, <3>2, <3>3
  <2>3. QED
    BY <1>1, <2>1, <2>2
<1>3. /\ stage'[s] = x /\ todo'[s] = T /\ cur'[s] = c
      /\ \A t \in Passes \ {s} : stage'[t] = stage[t] /\ todo'[t] = todo[t] /\ cur'[t] = cur[t]
  BY <1>2 DEF TypeOK
<1>4. stage'[s] = "relay" => Using(s)' \subseteq S \ {n}
  BY <1>2, <1>3 DEF Using
<1>5. replica'[n] = R /\ \A m \in Nodes \ {n} : replica'[m] = replica[m]
  BY <1>2 DEF TypeOK
<1>6. Held(n)' \subseteq U
  BY <1>2, <1>5 DEF Held, Assigned
<1>7. \A m \in Nodes \ {n} : Held(m)' = Held(m)
  BY <1>5 DEF Held, Assigned
<1>8. QED
  BY <1>2, <1>3, <1>4, <1>6, <1>7

LEMMA FallbackBound ==
    ASSUME TypeOK, BoundInv, NEW s \in Passes,
           FallbackStarts(s) \/ RelayOk(s) \/ RelayFails(s)
    PROVE  BoundInv'
<1> DEFINE n == Host[s]
<1>0. /\ n \in Nodes /\ s \in PassesOf(n)
      /\ replica[n] \in [Nodes -> Replica] /\ todo[s] \in SUBSET Nodes /\ cur[s] \in Nodes
      /\ Held(n) \in SUBSET Nodes /\ Using(s) \in SUBSET Nodes
  BY HostIsNode, HeldAndUsing DEF TypeOK, PassesOf
<1>1. CASE FallbackStarts(s)
  <2>1. PICK S \in FallbackRelays(n) :
             RelayNext(s, S, Assigned(n), Upserted(repStatus[n]), replica[n], expected[n])
    BY <1>1 DEF FallbackStarts
  <2>2. stage[s] = "transmit"
    BY <1>1 DEF FallbackStarts
  <2>3. S \in SUBSET Nodes /\ Cardinality(S) <= MaxFallbackRelays
    <3>1. Known[n] \ {n, Recipient} \in SUBSET Nodes /\ Assigned(n) \in SUBSET Nodes
      BY <1>0, NodesAssumption DEF Assigned
    <3>2. \/ S \in AtMostRelays(Known[n] \ {n, Recipient})
          \/ S \in AtMostRelays(Assigned(n))
      BY DEF FallbackRelays, SelectReplicaPeers
    <3>3. QED
      BY <3>1, <3>2, AtMostRelaysBound
  <2>4. Cardinality(S \ {n}) <= MaxFallbackRelays
    BY <2>3, Smaller, LimitsAssumption
  <2> HIDE DEF n
  <2>5. CASE Assigned(n) = {}
    <3>1. \A r \in Nodes \ {n} : replica[n][r] \in {"assigned", "stored"} => r \in S \ {n}
      BY <2>5 DEF Assigned
    <3>2. S \ {n} \in SUBSET Nodes /\ S \ {n} \subseteq S \ {n}
      BY <2>3
    <3> DEFINE U == S \ {n}
    <3> HIDE DEF U
    <3>a. /\ n = Host[s] /\ U \in SUBSET Nodes /\ S \ {n} \subseteq U
          /\ \A r \in Nodes \ {n} : replica[n][r] \in {"assigned", "stored"} => r \in U
      BY <3>1, <3>2 DEF n, U
    <3>b. /\ stage'[s] # "again"
          /\ Held(n)' \subseteq U
          /\ stage'[s] = "relay" => Using(s)' \subseteq S \ {n}
          /\ \A m \in Nodes \ {n} : Held(m)' \subseteq Held(m)
          /\ \A t \in Passes \ {s} :
               stage'[t] = stage[t] /\ todo'[t] = todo[t] /\ cur'[t] = cur[t]
      BY <1>0, <2>1, <2>3, <3>a, RelayNextUse
    <3>3. /\ stage'[s] # "again"
          /\ Held(n)' \subseteq S \ {n}
          /\ stage'[s] = "relay" => Using(s)' \subseteq S \ {n}
          /\ \A m \in Nodes \ {n} : Held(m)' \subseteq Held(m)
          /\ \A t \in Passes \ {s} :
               stage'[t] = stage[t] /\ todo'[t] = todo[t] /\ cur'[t] = cur[t]
      BY <3>b DEF U
    <3>4. Shared(n)'
      BY <1>0, <2>4, <3>2, <3>3, ShareAnew
    <3>5. \A t \in PassesOf(n) : stage'[t] = "relay" => Cardinality(Using(t)') <= MaxFallbackRelays
      <4> SUFFICES ASSUME NEW t \in PassesOf(n), stage'[t] = "relay"
                   PROVE  Cardinality(Using(t)') <= MaxFallbackRelays
        OBVIOUS
      <4>1. CASE t = s
        BY <2>4, <3>2, <3>3, <4>1, Smaller, LimitsAssumption
      <4>2. CASE t # s
        BY <3>3, <4>2 DEF PassesOf, Using, BoundInv
      <4>3. QED
        BY <4>1, <4>2
    <3>6. \A t \in Passes : Host[t] # n =>
            stage'[t] = stage[t] /\ todo'[t] = todo[t] /\ cur'[t] = cur[t]
      BY <3>3 DEF n
    <3>7. QED
      BY <1>0, <3>3, <3>4, <3>5, <3>6, OneNodeBound
  <2>6. CASE Assigned(n) # {}
    <3>1. \A r \in Nodes \ {n} : replica[n][r] \in {"assigned", "stored"} => r \in Held(n)
      BY DEF Held, Assigned
    <3>2. S \ {n} \subseteq Held(n)
      BY <2>6 DEF FallbackRelays, AtMostRelays, Held, n
    <3>3. /\ stage'[s] # "again"
          /\ Held(n)' \subseteq Held(n)
          /\ stage'[s] = "relay" => Using(s)' \subseteq S \ {n}
          /\ \A m \in Nodes \ {n} : Held(m)' \subseteq Held(m)
          /\ \A t \in Passes \ {s} :
               stage'[t] = stage[t] /\ todo'[t] = todo[t] /\ cur'[t] = cur[t]
      BY <1>0, <2>1, <2>3, <3>1, <3>2, RelayNextUse DEF n
    <3>4. \A t \in PassesOf(n) : stage'[t] = "relay" =>
            Using(t)' \subseteq InUse(n) /\ Cardinality(Using(t)') <= MaxFallbackRelays
      <4> SUFFICES ASSUME NEW t \in PassesOf(n), stage'[t] = "relay"
                   PROVE  Using(t)' \subseteq InUse(n) /\ Cardinality(Using(t)') <= MaxFallbackRelays
        OBVIOUS
      <4>1. CASE t = s
        <5>1. Using(s)' \subseteq S \ {n} /\ S \ {n} \in SUBSET Nodes
          BY <2>3, <3>3, <4>1
        <5>2. Cardinality(Using(s)') <= MaxFallbackRelays
          BY <2>4, <5>1, Smaller, LimitsAssumption
        <5>3. QED
          BY <1>0, <3>2, <4>1, <5>1, <5>2, UsedIsInUse
      <4>2. CASE t # s
        <5>1. stage[t] = "relay" /\ Using(t)' = Using(t) /\ t \in Passes
          BY <3>3, <4>2 DEF PassesOf, Using
        <5>2. QED
          BY <1>0, <5>1, UsedIsInUse DEF BoundInv
      <4>3. QED
        BY <4>1, <4>2
    <3>5. InUse(n)' \subseteq InUse(n)
      BY <1>0, <3>3, <3>4, UsedIsInUse, FewerInUse
    <3>6. \A t \in PassesOf(n) : stage'[t] = "again" => stage[t] = "again"
      BY <3>3 DEF PassesOf
    <3>7. Shared(n)'
      BY <1>0, <3>5, <3>6, KeepShared DEF BoundInv
    <3>8. \A t \in Passes : Host[t] # n =>
            stage'[t] = stage[t] /\ todo'[t] = todo[t] /\ cur'[t] = cur[t]
      BY <3>3 DEF n
    <3>9. QED
      BY <1>0, <3>3, <3>4, <3>7, <3>8, OneNodeBound
  <2>7. QED
    BY <2>5, <2>6
<1>2. CASE RelayOk(s) \/ RelayFails(s)
  <2> DEFINE reps(x) == [replica[n] EXCEPT ![cur[s]] = Updated(@, x)]
             U == Held(n) \cup Using(s)
  <2>1. stage[s] = "relay" /\ U \in SUBSET Nodes /\ U \subseteq InUse(n)
    BY <1>0, <1>2, UsedIsInUse DEF RelayOk, RelayFails
  <2>2. \A x \in {"stored", "failed"} :
          /\ reps(x) \in [Nodes -> Replica]
          /\ \A r \in Nodes \ {n} : reps(x)[r] \in {"assigned", "stored"} => r \in U
    BY <1>0 DEF Replica, Updated, Held, Using, Assigned
  <2>3. todo[s] \ {n} \subseteq U
    BY DEF Using
  <2>4. \E x \in {"stored", "failed"} : \E exps :
          RelayNext(s, todo[s], had[s], repStatus[n], reps(x), exps)
    BY <1>2 DEF RelayOk, RelayFails
  <2>5. todo[s] \ {n} \subseteq Using(s)
    BY DEF Using
  <2> HIDE DEF reps, U, n
  <2>6. /\ stage'[s] # "again"
        /\ Held(n)' \subseteq U
        /\ stage'[s] = "relay" => Using(s)' \subseteq todo[s] \ {n}
        /\ \A m \in Nodes \ {n} : Held(m)' \subseteq Held(m)
        /\ \A t \in Passes \ {s} :
             stage'[t] = stage[t] /\ todo'[t] = todo[t] /\ cur'[t] = cur[t]
    BY <1>0, <2>1, <2>2, <2>3, <2>4, RelayNextUse DEF n
  <2>7. \A t \in PassesOf(n) : stage'[t] = "relay" =>
          stage[t] = "relay" /\ Using(t)' \subseteq Using(t)
    BY <2>1, <2>5, <2>6 DEF PassesOf, Using
  <2>8. InUse(n)' \subseteq InUse(n)
    BY <1>0, <2>1, <2>6, <2>7, UsedIsInUse, FewerInUse
  <2>9. \A t \in PassesOf(n) : stage'[t] = "again" => stage[t] = "again"
    BY <2>6 DEF PassesOf
  <2>10. Shared(n)'
    BY <1>0, <2>8, <2>9, KeepShared DEF BoundInv
  <2>11. \A t \in PassesOf(n) : stage'[t] = "relay" => Cardinality(Using(t)') <= MaxFallbackRelays
    <3> SUFFICES ASSUME NEW t \in PassesOf(n), stage'[t] = "relay"
                 PROVE  Cardinality(Using(t)') <= MaxFallbackRelays
      OBVIOUS
    <3>1. /\ Using(t)' \subseteq Using(t) /\ Using(t) \in SUBSET Nodes
          /\ Cardinality(Using(t)) <= MaxFallbackRelays
      BY <2>7, HeldAndUsing DEF PassesOf, BoundInv
    <3>2. QED
      BY <3>1, Smaller, LimitsAssumption
  <2>12. \A t \in Passes : Host[t] # n =>
           stage'[t] = stage[t] /\ todo'[t] = todo[t] /\ cur'[t] = cur[t]
    BY <2>6 DEF n
  <2>13. QED
    BY <1>0, <2>6, <2>10, <2>11, <2>12, OneNodeBound
<1>3. QED
  BY <1>1, <1>2

LEMMA RecoveryBound ==
    ASSUME TypeOK, BoundInv, MaxFallbackRelays >= 2, NEW s \in Passes,
           RecoveryStarts(s) \/ RecoverOk(s) \/ RecoverFails(s)
    PROVE  BoundInv'
<1> DEFINE n == Host[s]
<1>0. /\ n \in Nodes /\ s \in PassesOf(n)
      /\ Held(n) \in SUBSET Nodes /\ Using(s) \in SUBSET Nodes
      /\ cur[s] \in Nodes
  BY HostIsNode, HeldAndUsing DEF TypeOK, PassesOf
<1>1. /\ stage'[s] # "relay"
      /\ \A t \in Passes \ {s} :
           stage'[t] = stage[t] /\ todo'[t] = todo[t] /\ cur'[t] = cur[t]
  BY DEF TypeOK, RecoveryStarts, RecoverOk, RecoverFails, NextReplica, LoopEnds
<1>2. \A m \in Nodes \ {n} : Held(m)' \subseteq Held(m)
  <2>1. \A m \in Nodes \ {n} : replica'[m] = replica[m]
    BY <1>0 DEF TypeOK, RecoveryStarts, RecoverOk, RecoverFails, repVars
  <2>2. QED
    BY <2>1 DEF Held, Assigned
<1>3. \A t \in PassesOf(n) : stage'[t] = "relay" =>
        /\ stage[t] = "relay" /\ Using(t)' = Using(t)
        /\ Cardinality(Using(t)') <= MaxFallbackRelays
  BY <1>1 DEF PassesOf, Using, BoundInv
<1>4. \A t \in Passes : Host[t] # n =>
        stage'[t] = stage[t] /\ todo'[t] = todo[t] /\ cur'[t] = cur[t]
  BY <1>1
<1>5. Shared(n)'
  <2>1. CASE RecoveryStarts(s)
    <3>1. Held(n)' = Held(n)
      BY <2>1 DEF RecoveryStarts, repVars, Held, Assigned
    <3>2. PICK r \in list[s] : Assigned(n) \ {r} = {}
      BY <2>1 DEF RecoveryStarts
    <3>3. Cardinality(Held(n)) <= 1
      <4>1. Held(n) = {} \/ Held(n) = {r}
        BY <3>2 DEF Held
      <4>2. Cardinality({}) = 0 /\ Cardinality({r}) = 1
        BY FS_EmptySet, FS_Singleton
      <4>3. QED
        BY <4>1, <4>2
    <3>4. Cardinality(Held(n)) <= MaxFallbackRelays
      <4>1. Cardinality(Held(n)) \in Nat
        BY <1>0, NodesAssumption, FS_Subset, FS_CardinalityType
      <4>2. QED
        BY <3>3, <4>1, LimitsAssumption
    <3> HIDE DEF n
    <3>5. QED
      BY <1>0, <1>1, <3>1, <3>3, <3>4, ShareAnew
  <2>2. CASE RecoverOk(s)
    <3>1. PICK F : Share(F, n)
      BY <1>0 DEF BoundInv, Shared
    <3> DEFINE G == [F EXCEPT ![s] = @ \cup {cur[s]}]
    <3>2. /\ F \in [PassesOf(n) -> SUBSET Nodes]
          /\ InUse(n) \subseteq UNION {F[t] : t \in PassesOf(n)}
          /\ \A t \in PassesOf(n) : /\ Cardinality(F[t]) <= MaxFallbackRelays
                                    /\ stage[t] = "again" => Cardinality(F[t]) <= 1
      BY <3>1 DEF Share
    <3>3. /\ G \in [PassesOf(n) -> SUBSET Nodes]
          /\ \A t \in PassesOf(n) : F[t] \subseteq G[t]
          /\ \A t \in PassesOf(n) \ {s} : G[t] = F[t]
          /\ G[s] = F[s] \cup {cur[s]}
      BY <1>0, <3>2
    <3>4. stage[s] = "again" /\ stage'[s] # "again"
      BY <2>2 DEF TypeOK, RecoverOk, NextReplica
    <3>5. Held(n)' \subseteq Held(n) \cup {cur[s]}
      <4>1. replica'[n] = [replica[n] EXCEPT ![cur[s]] = Updated(@, "stored")]
        BY <1>0, <2>2 DEF TypeOK, RecoverOk
      <4>2. QED
        BY <1>0, <4>1 DEF TypeOK, Held, Assigned
    <3>6. InUse(n)' \subseteq UNION {G[t] : t \in PassesOf(n)}
      <4> SUFFICES ASSUME NEW x \in InUse(n)' PROVE \E t \in PassesOf(n) : x \in G[t]
        OBVIOUS
      <4>1. CASE x = cur[s]
        BY <1>0, <3>3, <4>1
      <4>2. CASE x \in InUse(n)
        <5>1. PICK t \in PassesOf(n) : x \in F[t]
          BY <3>2, <4>2
        <5>2. QED
          BY <3>3, <5>1
      <4>3. x = cur[s] \/ x \in InUse(n)
        <5>1. CASE x \in Held(n)'
          BY <1>0, <3>5, <5>1, UsedIsInUse
        <5>2. CASE \E t \in PassesOf(n) : stage'[t] = "relay" /\ x \in Using(t)'
          BY <1>0, <1>3, <5>2, UsedIsInUse
        <5>3. QED
          BY <5>1, <5>2 DEF InUse, PassesOf
      <4>4. QED
        BY <4>1, <4>2, <4>3
    <3>7. Cardinality(G[s]) <= MaxFallbackRelays
      <4>1. F[s] \in SUBSET Nodes /\ Cardinality(F[s]) <= 1
        BY <1>0, <3>2, <3>4
      <4>2. IsFiniteSet(F[s])
        BY <4>1, NodesAssumption, FS_Subset
      <4>3. IsFiniteSet(F[s] \cup {cur[s]}) /\ Cardinality(F[s] \cup {cur[s]}) <= 2
        BY <4>1, <4>2, OneElementMore, FS_AddElement
      <4>4. Cardinality(F[s] \cup {cur[s]}) \in Nat
        BY <4>3, FS_CardinalityType
      <4>5. QED
        BY <3>3, <4>3, <4>4, LimitsAssumption
    <3>8. \A t \in PassesOf(n) : /\ Cardinality(G[t]) <= MaxFallbackRelays
                                 /\ stage'[t] = "again" => Cardinality(G[t]) <= 1
      BY <1>1, <3>2, <3>3, <3>4, <3>7 DEF PassesOf
    <3> HIDE DEF G, n
    <3>9. PICK K, N : K = G /\ N = n
      OBVIOUS
    <3>10. Share(K, N)'
      BY <3>3, <3>6, <3>8, <3>9 DEF Share, PassesOf
    <3>11. Shared(N)'
      BY <3>10 DEF Shared
    <3>12. QED
      BY <3>9, <3>11 DEF n
  <2>3. CASE RecoverFails(s)
    <3>1. stage[s] = "again"
      BY <2>3 DEF RecoverFails
    <3>2. Held(n)' \subseteq Held(n)
      <4>1. replica'[n] = [replica[n] EXCEPT ![cur[s]] = Updated(@, "failed")]
        BY <1>0, <2>3 DEF TypeOK, RecoverFails
      <4>2. QED
        BY <1>0, <4>1 DEF TypeOK, Held, Assigned, Updated
    <3>3. InUse(n)' \subseteq InUse(n)
      BY <1>0, <1>3, <3>2, UsedIsInUse, FewerInUse
    <3>4. \A t \in PassesOf(n) : stage'[t] = "again" => stage[t] = "again"
      BY <1>1, <3>1 DEF PassesOf
    <3> HIDE DEF n
    <3>5. QED
      BY <1>0, <3>3, <3>4, KeepShared DEF BoundInv
  <2>4. QED
    BY <2>1, <2>2, <2>3
<1> HIDE DEF n
<1>6. QED
  BY <1>0, <1>2, <1>3, <1>4, <1>5, OneNodeBound

(* The other steps assign the message to nobody but the node itself.       *)
LEMMA OtherBound ==
    ASSUME TypeOK, BoundInv,
           \/ \E s \in Passes :
                \/ PassReads(s) \/ PassSkips(s) \/ GivesUp(s)
                \/ TransmitOk(s) \/ TransmitFails(s) \/ RecoveryReads(s)
                \/ RecoveryPasses(s) \/ PassEnds(s)
           \/ \E n \in Nodes : HandOver(n)
           \/ \E k \in Packets : Deliver(k)
           \/ \E p, t \in Nodes : Store(p, t)
           \/ ReceiveAck
           \/ UNCHANGED vars
    PROVE  BoundInv'
<1>1. CASE \E p, t \in Nodes : Store(p, t)
  <2>1. PICK p \in Nodes : /\ replica' = [replica EXCEPT ![p][p] = "stored"]
                           /\ UNCHANGED passVars
    BY <1>1 DEF Store
  <2>2. \A m \in Nodes : Held(m)' \subseteq Held(m)
    BY <2>1 DEF TypeOK, Held, Assigned
  <2>3. QED
    BY <2>1, <2>2, FewerKeepBound DEF passVars
<1>2. ASSUME UNCHANGED replica, UNCHANGED passVars PROVE BoundInv'
  BY <1>2, FewerKeepBound DEF Held, Assigned, passVars
<1>3. CASE \/ \E n \in Nodes : HandOver(n)
           \/ \E k \in Packets : Deliver(k)
           \/ ReceiveAck \/ UNCHANGED vars
  BY <1>2, <1>3 DEF HandOver, Deliver, ReceiveAck, vars, repVars, passVars, MarkReplicated
<1>4. ASSUME NEW s \in Passes,
             \/ PassReads(s) \/ PassSkips(s) \/ GivesUp(s)
             \/ TransmitOk(s) \/ TransmitFails(s) \/ RecoveryReads(s)
             \/ RecoveryPasses(s) \/ PassEnds(s)
      PROVE  BoundInv'
  <2>1. /\ stage'[s] \notin {"relay", "again"}
        /\ \A t \in Passes \ {s} : stage'[t] = stage[t] /\ todo'[t] = todo[t] /\ cur'[t] = cur[t]
    <3>1. CASE PassReads(s) \/ PassSkips(s) \/ GivesUp(s) \/ TransmitOk(s) \/ TransmitFails(s)
      <4>1. /\ UNCHANGED <<todo, cur>>
            /\ \/ stage' = [stage EXCEPT ![s] = "transmit"]
               \/ stage' = [stage EXCEPT ![s] = "recover"]
        BY <3>1 DEF PassReads, PassSkips, GivesUp, TransmitOk, TransmitFails
      <4>2. QED
        BY <4>1 DEF TypeOK
    <3>2. CASE RecoveryReads(s) \/ RecoveryPasses(s) \/ PassEnds(s)
      <4>1. /\ UNCHANGED <<todo, cur>>
            /\ \/ stage' = [stage EXCEPT ![s] = "waiting"]
               \/ stage' = [stage EXCEPT ![s] = "cleanup"]
               \/ stage' = [stage EXCEPT ![s] = "idle"]
        BY <3>2, Zenon DEF RecoveryReads, RecoveryPasses, PassEnds, NextReplica
      <4>2. QED
        BY <4>1 DEF TypeOK
    <3>3. QED
      BY <1>4, <3>1, <3>2
  <2>2. \A m \in Nodes : Held(m)' \subseteq Held(m)
    <3>1. CASE PassEnds(s)
      <4>1. \/ UNCHANGED replica
            \/ replica' = [replica EXCEPT ![Host[s]] = [r \in Nodes |-> "none"]]
        BY <3>1 DEF PassEnds, ReplicasCascade
      <4>2. QED
        <5>0. replica \in [Nodes -> [Nodes -> Replica]] /\ Host[s] \in Nodes
          BY HostIsNode DEF TypeOK
        <5>1. ASSUME NEW m \in Nodes, NEW r \in Nodes
              PROVE  replica'[m][r] = replica[m][r] \/ replica'[m][r] = "none"
          BY <4>1, <5>0
        <5>2. QED
          BY <5>1 DEF Held, Assigned
    <3>2. CASE UNCHANGED replica
      BY <3>2 DEF Held, Assigned
    <3>3. QED
      BY <1>4, <3>1, <3>2 DEF PassReads, PassSkips, GivesUp, TransmitOk, TransmitFails,
                              RecoveryReads, RecoveryPasses, repVars, MarkReplicated
  <2>3. QED
    BY <2>1, <2>2, FewerKeepBound
<1>5. QED
  BY <1>1, <1>3, <1>4

(* With at least two relays, as many as a recovery of a single replica     *)
(* leaves, a message never has more replicas on other nodes than           *)
(* MAX_FALLBACK_RELAYS for each pass its node may run at once: a fallback  *)
(* uses the replicas that have not failed (tryFallbackRelayRoutes) and a   *)
(* recovery adds to a single one.                                          *)
THEOREM ReplicasStayBounded == MaxFallbackRelays >= 2 => (Spec => []ReplicasBounded)
<1> SUFFICES ASSUME MaxFallbackRelays >= 2 PROVE Spec => []ReplicasBounded
  OBVIOUS
<1>1. Init => BoundInv
  <2> SUFFICES ASSUME Init PROVE BoundInv
    OBVIOUS
  <2>1. (\A n \in Nodes : Held(n) = {}) /\ (\A s \in Passes : stage[s] = "idle")
    BY DEF Init, Held, Assigned
  <2>2. ASSUME NEW n \in Nodes PROVE Shared(n)
    <3> DEFINE G == [s \in PassesOf(n) |-> {}]
    <3>1. InUse(n) = {}
      BY <2>1 DEF InUse, PassesOf
    <3>2. Share(G, n)
      BY <2>1, <3>1, FS_EmptySet, LimitsAssumption DEF Share, PassesOf
    <3> HIDE DEF G
    <3>3. QED
      BY <3>2 DEF Shared
  <2>3. QED
    BY <2>1, <2>2 DEF BoundInv
<1>2. IInv /\ BoundInv /\ [Next]_vars => BoundInv'
  <2> SUFFICES ASSUME TypeOK, BoundInv, [Next]_vars PROVE BoundInv'
    BY DEF IInv
  <2>1. ASSUME NEW s \in Passes, PassSome(s) PROVE BoundInv'
    BY <2>1, FallbackBound, RecoveryBound, OtherBound DEF PassSome
  <2>2. QED
    BY <2>1, OtherBound DEF Next
<1>3. IInv /\ BoundInv => ReplicasBounded
  <2> SUFFICES ASSUME TypeOK, BoundInv, NEW n \in Nodes
               PROVE  Cardinality(Held(n)) <= Cardinality(PassesOf(n)) * MaxFallbackRelays
    BY DEF IInv, ReplicasBounded, Held, PassesOf
  <2>1. PICK F : Share(F, n)
    BY DEF BoundInv, Shared
  <2>2. IsFiniteSet(PassesOf(n))
    <3>1. PassesOf(n) \subseteq Passes
      BY DEF PassesOf
    <3>2. QED
      BY <3>1, NodesAssumption, FS_Subset
  <2>3. /\ F \in [PassesOf(n) -> SUBSET Nodes]
        /\ \A s \in PassesOf(n) : Cardinality(F[s]) <= MaxFallbackRelays
        /\ Held(n) \subseteq UNION {F[s] : s \in PassesOf(n)}
        /\ Held(n) \in SUBSET Nodes
    BY <2>1, UsedIsInUse, HeldAndUsing DEF Share
  <2>4. QED
    BY <2>2, <2>3, UnionOfSmall, LimitsAssumption
<1>4. QED
  BY <1>1, <1>2, <1>3, Inductive, PTL DEF Spec

=============================================================================
