--------------------------------- MODULE Relay ---------------------------------
(***************************************************************************)
(* One message on its way through nodes that relay for each other: the     *)
(* fallback of retry() (tryFallbackRelayRoutes), the store-and-forward     *)
(* envelope and its handler, the tables replicated_messages and            *)
(* message_replicas, and the recovery of replicas that do not acknowledge  *)
(* (message-router.ts, database/index.ts).                                 *)
(*                                                                         *)
(* Every node keeps at most one row about the message in each of           *)
(* pending_messages and replicated_messages, and one row per replica in    *)
(* message_replicas.  The retry timer starts a pass whether or not the one *)
(* before has ended, so a node may run several.  A pass is also about      *)
(* other messages and awaits between any two of its parts; other passes    *)
(* run, and envelopes and ACKs are handled, meanwhile.  Numbering,         *)
(* buffering and messages that are too old on arrival are in Conversation. *)
(* A hand-over is one step, and so is an ACK, which goes straight to the   *)
(* origin or not at all.  Equal packets in transit are one packet.         *)
(* ack_received_at is written only for an ACK that carries a relay         *)
(* envelope, and no ACK of this code does: it is always NULL here.         *)
(* Deadlines (a day or an hour) do not pass; peer scores and distances are *)
(* left out: a node may choose any of the peers its routing cache holds.   *)
(***************************************************************************)
EXTENDS Naturals, FiniteSets

CONSTANTS
    Nodes,
    Origin, Recipient,      \* of the message
    Known,                  \* Known[n]: available peers in n's routing cache
    Links,                  \* <<n, p>>: n can dial p
    Passes, Host,           \* bound: passes that may run at once; each one's node
    MaxRetryAttempts,       \* MAX_RETRY_ATTEMPTS
    Threshold,              \* FALLBACK_RELAY_THRESHOLD_ATTEMPTS
    MaxFallbackRelays,      \* MAX_FALLBACK_RELAYS
    MaxStores,              \* bound: envelopes that are stored
    MaxFails                \* bound: transmissions over a link that fail

ASSUME NodesAssumption ==
    /\ Origin \in Nodes /\ Recipient \in Nodes /\ Origin # Recipient
    /\ IsFiniteSet(Nodes)
    /\ Known \in [Nodes -> SUBSET Nodes]
    /\ Links \subseteq {l \in Nodes \X Nodes : l[1] # l[2]}
    /\ IsFiniteSet(Passes) /\ Host \in [Passes -> Nodes]

ASSUME LimitsAssumption ==
    /\ MaxRetryAttempts \in Nat \ {0}
    /\ Threshold \in Nat /\ MaxFallbackRelays \in Nat
    /\ MaxStores \in Nat /\ MaxFails \in Nat

VARIABLES
    \* pending_messages of each node
    status, target, attempts,
    \* replicated_messages and message_replicas of each node
    repStatus, repTarget, replica, expected,
    \* the retry passes
    stage, copy, todo, cur, had, list, aim,
    \* messages in transit; what became of the message
    wire, processed, gaveUp, fails, stores

rowVars  == <<status, target, attempts>>
repVars  == <<repStatus, repTarget, replica, expected>>
passVars == <<stage, copy, todo, cur, had, list, aim>>
vars     == <<rowVars, repVars, passVars, wire, processed, gaveUp, fails, stores>>

Row     == {"none", "pending", "delivered", "failed"}
Replica == {"none", "assigned", "stored", "failed"}

Stage == {"idle",
          "transmit",   \* has read the row; awaiting transmit() of the message
          "relay",      \* awaiting transmit() of an envelope, fallback
          "recover",    \* about to read the replicas that wait for an ACK
          "waiting",    \* about to look at one of those replicas
          "again",      \* awaiting transmit() of an envelope, recovery
          "cleanup"}

Original == [kind |-> "original", to |-> Recipient, for |-> Recipient]
Ack      == [kind |-> "ack", to |-> Origin, for |-> Origin]

(* The envelope sent to node p for node t. *)
Envelope(p, t) == [kind |-> "envelope", to |-> p, for |-> t]

Packets == {Original, Ack} \cup {Envelope(p, t) : p \in Nodes, t \in Nodes}

TypeOK ==
    /\ status \in [Nodes -> Row]
    /\ target \in [Nodes -> Nodes]
    /\ attempts \in [Nodes -> 0..MaxRetryAttempts]
    /\ repStatus \in [Nodes -> Row]
    /\ repTarget \in [Nodes -> Nodes]
    /\ replica \in [Nodes -> [Nodes -> Replica]]
    /\ expected \in [Nodes -> SUBSET Nodes]
    /\ stage \in [Passes -> Stage]
    /\ copy \in [Passes -> 0..MaxRetryAttempts]
    /\ todo \in [Passes -> SUBSET Nodes]
    /\ cur \in [Passes -> Nodes]
    /\ had \in [Passes -> SUBSET Nodes]
    /\ list \in [Passes -> SUBSET Nodes]
    /\ aim \in [Passes -> Nodes]
    /\ wire \subseteq Packets
    /\ processed \in BOOLEAN
    /\ gaveUp \subseteq Nodes
    /\ fails \in 0..MaxFails /\ stores \in 0..MaxStores
    \* ON DELETE CASCADE
    /\ \A n \in Nodes : repStatus[n] = "none" =>
           expected[n] = {} /\ \A r \in Nodes : replica[n][r] = "none"

(* The origin has queued the message. *)
Init ==
    /\ status = [n \in Nodes |-> IF n = Origin THEN "pending" ELSE "none"]
    /\ target = [n \in Nodes |-> Recipient]
    /\ attempts = [n \in Nodes |-> 0]
    /\ repStatus = [n \in Nodes |-> "none"]
    /\ repTarget = [n \in Nodes |-> Recipient]
    /\ replica = [n \in Nodes |-> [r \in Nodes |-> "none"]]
    /\ expected = [n \in Nodes |-> {}]
    /\ stage = [s \in Passes |-> "idle"]
    /\ copy = [s \in Passes |-> 0]
    /\ todo = [s \in Passes |-> {}]
    /\ cur = [s \in Passes |-> Host[s]]
    /\ had = [s \in Passes |-> {}]
    /\ list = [s \in Passes |-> {}]
    /\ aim = [s \in Passes |-> Recipient]
    /\ wire = {} /\ processed = FALSE /\ gaveUp = {} /\ fails = 0 /\ stores = 0

-----------------------------------------------------------------------------
(* The network *)

(* transmit() of packet k from node n returns. *)
Sent(n, k) ==
    /\ <<n, k.to>> \in Links
    /\ wire' = wire \cup {k}
    /\ UNCHANGED fails

(* transmit() throws: there is no link, a node dials itself, or an await   *)
(* times out, which the packet may have survived.                          *)
NotSent(n, k) ==
    \/ <<n, k.to>> \notin Links /\ UNCHANGED <<wire, fails>>
    \/ /\ <<n, k.to>> \in Links /\ fails < MaxFails
       /\ fails' = fails + 1
       /\ wire' \in {wire, wire \cup {k}}

-----------------------------------------------------------------------------
(* The statements of the database layer *)

(* queueMessage *)
QueueMessage(n, t) ==
    /\ status' = [status EXCEPT ![n] = "pending"]
    /\ target' = [target EXCEPT ![n] = t]
    /\ attempts' = [attempts EXCEPT ![n] = IF status[n] = "none" THEN 0 ELSE @]

(* An attempt count above the maximum is the maximum. *)
OneMore(k) == IF k < MaxRetryAttempts THEN k + 1 ELSE MaxRetryAttempts

(* schedulePendingRetry *)
SchedulePendingRetry(n) ==
    /\ IF status[n] = "none" THEN UNCHANGED <<status, attempts>>
       ELSE /\ status' = [status EXCEPT ![n] = "pending"]
            /\ attempts' = [attempts EXCEPT ![n] = OneMore(@)]
    /\ UNCHANGED target

Mark(n, outcome) ==
    /\ status' = [status EXCEPT ![n] = IF @ = "none" THEN @ ELSE outcome]
    /\ UNCHANGED <<target, attempts>>

MarkReplicated(n, outcome) ==
    /\ repStatus' = [repStatus EXCEPT ![n] = IF @ = "none" THEN @ ELSE outcome]
    /\ UNCHANGED <<repTarget, replica, expected>>

(* upsertReplicatedMessage keeps the status of a known row. *)
Upserted(s) == IF s = "none" THEN "pending" ELSE s

(* An UPDATE of a replica that has no row changes nothing. *)
Updated(old, new) == IF old = "none" THEN "none" ELSE new

-----------------------------------------------------------------------------
(* The retry pass *)

(* As many of the peers that fit as a message may have relays.            *)
AtMostRelays(fit) ==
    {S \in SUBSET fit :
        Cardinality(S) = IF Cardinality(fit) < MaxFallbackRelays
                         THEN Cardinality(fit) ELSE MaxFallbackRelays}

(* Mutant: the peer the envelope is for may relay it. *)
SelectReplicaPeersAny(n, t) == AtMostRelays(Known[n] \ {n})

(* selectReplicaPeers: neither the node itself nor the target. *)
SelectReplicaPeers(n, t) == AtMostRelays(Known[n] \ {n, t})

(* Replicas whose ACK the pass waits for (getMessagesWaitingForReplicaAck);*)
(* no ACK of this code is one of a replica, so these are all that ever     *)
(* stored the message.                                                     *)
Waiting(n) ==
    IF repStatus[n] # "pending" THEN {}
    ELSE {r \in expected[n] : replica[n][r] = "stored"}

(* The copy a pass has of the row is read once. *)
Forget(s) == copy' = [copy EXCEPT ![s] = 0]

(* The pass finds the row due and keeps a copy of its attempts. *)
PassReads(s) ==
    LET n == Host[s] IN
    /\ stage[s] = "idle" /\ status[n] = "pending"
    /\ stage' = [stage EXCEPT ![s] = "transmit"]
    /\ copy' = [copy EXCEPT ![s] = attempts[n]]
    /\ UNCHANGED <<rowVars, repVars, todo, cur, had, list, aim,
                   wire, processed, gaveUp, fails, stores>>

(* The row is not due, or not pending, and the pass goes on to recovery    *)
(* and cleanup; a pass that finds nothing to do there is left out.         *)
PassSkips(s) ==
    LET n == Host[s] IN
    /\ stage[s] = "idle"
    /\ \/ status[n] \in {"delivered", "failed"} \/ repStatus[n] \in {"delivered", "failed"}
       \/ status[n] = "pending" /\ Waiting(n) # {}
    /\ stage' = [stage EXCEPT ![s] = "recover"]
    /\ UNCHANGED <<rowVars, repVars, copy, todo, cur, had, list, aim,
                   wire, processed, gaveUp, fails, stores>>

GivesUp(s) ==
    LET n == Host[s] IN
    /\ stage[s] = "transmit" /\ copy[s] = MaxRetryAttempts
    /\ stage' = [stage EXCEPT ![s] = "recover"] /\ Forget(s)
    /\ Mark(n, "failed") /\ MarkReplicated(n, "failed")
    /\ gaveUp' = gaveUp \cup {n}
    /\ UNCHANGED <<todo, cur, had, list, aim, wire, processed, fails, stores>>

TransmitOk(s) ==
    LET n == Host[s] IN
    /\ stage[s] = "transmit" /\ copy[s] < MaxRetryAttempts
    /\ Sent(n, Original)
    /\ Mark(n, "delivered")
    /\ stage' = [stage EXCEPT ![s] = "recover"] /\ Forget(s)
    /\ UNCHANGED <<repVars, todo, cur, had, list, aim, processed, gaveUp, stores>>

(* Too few attempts for a relay. *)
TransmitFails(s) ==
    LET n == Host[s] IN
    /\ stage[s] = "transmit" /\ copy[s] < MaxRetryAttempts /\ copy[s] < Threshold
    /\ NotSent(n, Original)
    /\ SchedulePendingRetry(n)
    /\ stage' = [stage EXCEPT ![s] = "recover"] /\ Forget(s)
    /\ UNCHANGED <<repVars, todo, cur, had, list, aim, processed, gaveUp, stores>>

(* The replicas of the message that have not failed. *)
Assigned(n) == {r \in Nodes : replica[n][r] \in {"assigned", "stored"}}

(* Mutant: every fallback chooses new relays. *)
FallbackRelaysAnew(n) == SelectReplicaPeers(n, Recipient)

(* The relays a fallback turns to: those the message has, or new ones.     *)
FallbackRelays(n) ==
    IF Assigned(n) = {} THEN SelectReplicaPeers(n, Recipient)
    ELSE AtMostRelays(Assigned(n))

(* The locals of a loop over relays go with it. *)
LoopEnds(s) ==
    /\ todo' = [todo EXCEPT ![s] = {}]
    /\ cur' = [cur EXCEPT ![s] = Host[s]]

(* The loop over the relays goes on with one of S, from the row row of     *)
(* replicated_messages, the replica rows reps and the pending ACKs exps: a *)
(* relay that is not in before, the replicas at the start, is assigned to  *)
(* the message, which brings the row back if it is gone and makes the      *)
(* relay its target.  At the end the message is scheduled for a later pass.*)
RelayNext(s, S, before, row, reps, exps) ==
    LET n == Host[s] IN
    /\ \/ /\ S = {}
          /\ stage' = [stage EXCEPT ![s] = "recover"]
          /\ repStatus' = [repStatus EXCEPT ![n] = row]
          /\ replica' = [replica EXCEPT ![n] = reps]
          /\ expected' = [expected EXCEPT ![n] = exps]
          /\ SchedulePendingRetry(n)
          /\ LoopEnds(s) /\ had' = [had EXCEPT ![s] = {}]
       \/ \E r \in S :
          /\ stage' = [stage EXCEPT ![s] = "relay"]
          /\ todo' = [todo EXCEPT ![s] = S \ {r}]
          /\ cur' = [cur EXCEPT ![s] = r]
          /\ had' = [had EXCEPT ![s] = before]
          /\ repStatus' = [repStatus EXCEPT ![n] =
                             IF r \in before THEN row ELSE Upserted(row)]
          /\ replica' = [replica EXCEPT ![n] =
                           IF r \in before THEN reps ELSE [reps EXCEPT ![r] = "assigned"]]
          /\ expected' = [expected EXCEPT ![n] = exps \cup ({r} \ before)]
          /\ UNCHANGED rowVars

(* The target the row of replicated_messages has after that. *)
TargetAfter(s, before) ==
    IF stage'[s] = "relay" /\ cur'[s] \notin had'[s] THEN cur'[s] ELSE before

(* A transmission fails often enough for a relay to be tried. *)
FallbackStarts(s) ==
    LET n == Host[s] IN
    /\ stage[s] = "transmit" /\ copy[s] < MaxRetryAttempts /\ copy[s] >= Threshold
    /\ NotSent(n, Original) /\ Forget(s)
    /\ \E S \in FallbackRelays(n) :
         RelayNext(s, S, Assigned(n), Upserted(repStatus[n]), replica[n], expected[n])
    /\ repTarget' = [repTarget EXCEPT ![n] = TargetAfter(s, Recipient)]
    /\ UNCHANGED <<list, aim, processed, gaveUp, stores>>

(* The envelope is transmitted: the replica counts as stored. *)
RelayOk(s) ==
    LET n == Host[s]
        r == cur[s] IN
    /\ stage[s] = "relay"
    /\ Sent(n, Envelope(r, Recipient))
    /\ RelayNext(s, todo[s], had[s], repStatus[n],
                 [replica[n] EXCEPT ![r] = Updated(@, "stored")],
                 expected[n] \cup IF replica[n][r] = "none" THEN {} ELSE {r})
    /\ repTarget' = [repTarget EXCEPT ![n] = TargetAfter(s, @)]
    /\ UNCHANGED <<copy, list, aim, processed, gaveUp, stores>>

RelayFails(s) ==
    LET n == Host[s]
        r == cur[s] IN
    /\ stage[s] = "relay"
    /\ NotSent(n, Envelope(r, Recipient))
    /\ RelayNext(s, todo[s], had[s], repStatus[n],
                 [replica[n] EXCEPT ![r] = Updated(@, "failed")], expected[n])
    /\ repTarget' = [repTarget EXCEPT ![n] = TargetAfter(s, @)]
    /\ UNCHANGED <<copy, list, aim, processed, gaveUp, stores>>

(* The recovery goes on with the replicas L, for node t, or to the cleanup. *)
NextReplica(s, L, t) ==
    /\ list' = [list EXCEPT ![s] = L]
    /\ stage' = [stage EXCEPT ![s] = IF L = {} THEN "cleanup" ELSE "waiting"]
    /\ aim' = [aim EXCEPT ![s] = IF L = {} THEN Recipient ELSE t]

(* The recovery reads which replicas wait for an ACK, with the target the  *)
(* row of replicated_messages has now.                                     *)
RecoveryReads(s) ==
    LET n == Host[s] IN
    /\ stage[s] = "recover"
    /\ NextReplica(s, Waiting(n), repTarget[n])
    /\ UNCHANGED <<rowVars, repVars, copy, todo, cur, had,
                   wire, processed, gaveUp, fails, stores>>

(* The message is not queued any more, or the replica is not the only one: *)
(* then it is not waited for any more.                                     *)
RecoveryPasses(s) ==
    LET n == Host[s] IN
    /\ stage[s] = "waiting"
    /\ \E r \in list[s] :
         /\ status[n] = "none" \/ Assigned(n) \ {r} # {}
         /\ expected' = [expected EXCEPT ![n] = IF status[n] = "none" THEN @ ELSE @ \ {r}]
         /\ NextReplica(s, list[s] \ {r}, aim[s])
    /\ UNCHANGED <<rowVars, repStatus, repTarget, replica, copy, todo, cur, had,
                   wire, processed, gaveUp, fails, stores>>

(* A replica that is the only one is recovered at once, with no timeout.   *)
RecoveryStarts(s) ==
    LET n == Host[s] IN
    /\ stage[s] = "waiting" /\ status[n] # "none"
    /\ \E r \in list[s], S \in SelectReplicaPeers(n, aim[s]) :
         /\ Assigned(n) \ {r} = {}
         /\ \/ /\ S = {}
               /\ NextReplica(s, list[s] \ {r}, aim[s])
               /\ UNCHANGED <<todo, cur>>
            \/ \E q \in S :
               /\ stage' = [stage EXCEPT ![s] = "again"]
               /\ list' = [list EXCEPT ![s] = @ \ {r}]
               /\ todo' = [todo EXCEPT ![s] = S \ {q}]
               /\ cur' = [cur EXCEPT ![s] = q]
               /\ UNCHANGED aim
    /\ UNCHANGED <<rowVars, repVars, copy, had, wire, processed, gaveUp, fails, stores>>

RecoverOk(s) ==
    LET n == Host[s]
        r == cur[s] IN
    /\ stage[s] = "again"
    /\ Sent(n, Envelope(r, aim[s]))
    /\ replica' = [replica EXCEPT ![n][r] = Updated(@, "stored")]
    /\ expected' = [expected EXCEPT ![n] = @ \cup IF replica[n][r] = "none" THEN {} ELSE {r}]
    /\ LoopEnds(s) /\ NextReplica(s, list[s], aim[s])
    /\ UNCHANGED <<rowVars, repStatus, repTarget, copy, had,
                   processed, gaveUp, stores>>

RecoverFails(s) ==
    LET n == Host[s]
        r == cur[s] IN
    /\ stage[s] = "again"
    /\ NotSent(n, Envelope(r, aim[s]))
    /\ replica' = [replica EXCEPT ![n][r] = Updated(@, "failed")]
    /\ \/ /\ todo[s] = {}
          /\ LoopEnds(s) /\ NextReplica(s, list[s], aim[s])
       \/ \E q \in todo[s] :
          /\ todo' = [todo EXCEPT ![s] = @ \ {q}]
          /\ cur' = [cur EXCEPT ![s] = q]
          /\ UNCHANGED <<stage, list, aim>>
    /\ UNCHANGED <<rowVars, repStatus, repTarget, expected, copy, had,
                   processed, gaveUp, stores>>

(* Mutant: the replicas of a deleted message stay. *)
ReplicasOrphaned(n) == UNCHANGED <<replica, expected>>

(* ON DELETE CASCADE *)
ReplicasCascade(n) ==
    /\ replica' = [replica EXCEPT ![n] = [r \in Nodes |-> "none"]]
    /\ expected' = [expected EXCEPT ![n] = {}]

(* cleanup(): rows that are settled go, and the replicas with them.        *)
PassEnds(s) ==
    LET n == Host[s] IN
    /\ stage[s] = "cleanup"
    /\ stage' = [stage EXCEPT ![s] = "idle"]
    /\ status' = [status EXCEPT ![n] = IF @ = "pending" THEN @ ELSE "none"]
    /\ repStatus' = [repStatus EXCEPT ![n] = IF @ = "pending" THEN @ ELSE "none"]
    /\ IF repStatus[n] \in {"delivered", "failed"} THEN ReplicasCascade(n)
       ELSE UNCHANGED <<replica, expected>>
    /\ attempts' = [attempts EXCEPT ![n] = IF status[n] = "pending" THEN @ ELSE 0]
    /\ UNCHANGED <<target, repTarget, copy, todo, cur, had, list, aim,
                   wire, processed, gaveUp, fails, stores>>

-----------------------------------------------------------------------------
(* receive() *)

(* Something arrives from the peer the row is for: the message is handed   *)
(* over to it.                                                             *)
HandOver(n) ==
    /\ status[n] = "pending" /\ target[n] # n
    /\ <<target[n], n>> \in Links
    /\ \/ Sent(n, Original) /\ Mark(n, "delivered") /\ MarkReplicated(n, "delivered")
       \/ NotSent(n, Original) /\ SchedulePendingRetry(n) /\ UNCHANGED repVars
    /\ UNCHANGED <<passVars, processed, gaveUp, stores>>

(* The recipient gets the message, by itself or in an envelope, and        *)
(* acknowledges every copy to the origin.                                  *)
Deliver(k) ==
    /\ k \in wire /\ k \in {Original, Envelope(Recipient, Recipient)}
    /\ processed' = TRUE
    /\ wire' = (wire \ {k}) \cup IF <<Recipient, Origin>> \in Links THEN {Ack} ELSE {}
    /\ UNCHANGED <<rowVars, repVars, passVars, gaveUp, fails, stores>>

(* Mutant: the relay notes the replica and queues nothing. *)
StoreUnqueued(p, t) ==
    /\ Envelope(p, t) \in wire /\ p # t
    /\ stores < MaxStores /\ stores' = stores + 1
    /\ wire' = wire \ {Envelope(p, t)}
    /\ repStatus' = [repStatus EXCEPT ![p] = Upserted(@)]
    /\ repTarget' = [repTarget EXCEPT ![p] = p]
    /\ replica' = [replica EXCEPT ![p][p] = "stored"]
    /\ expected' = [expected EXCEPT ![p] = @ \cup {p}]
    /\ UNCHANGED <<rowVars, passVars, processed, gaveUp, fails>>

(* handleStoreAndForwardMessage at p, which is not the envelope's target:  *)
(* p keeps the message as a replica of its own.                            *)
Store(p, t) ==
    /\ Envelope(p, t) \in wire /\ p # t
    /\ stores < MaxStores /\ stores' = stores + 1
    /\ wire' = wire \ {Envelope(p, t)}
    /\ repStatus' = [repStatus EXCEPT ![p] = Upserted(@)]
    /\ repTarget' = [repTarget EXCEPT ![p] = p]
    /\ replica' = [replica EXCEPT ![p][p] = "stored"]
    /\ expected' = [expected EXCEPT ![p] = @ \cup {p}]
    /\ QueueMessage(p, t)
    /\ UNCHANGED <<passVars, processed, gaveUp, fails>>

(* handleAck at the origin, for which the row still names the recipient. *)
ReceiveAck ==
    /\ Ack \in wire
    /\ wire' = wire \ {Ack}
    /\ IF status[Origin] # "none" /\ target[Origin] = Recipient
       THEN Mark(Origin, "delivered") /\ MarkReplicated(Origin, "delivered")
       ELSE UNCHANGED <<rowVars, repVars>>
    /\ UNCHANGED <<passVars, processed, gaveUp, fails, stores>>

-----------------------------------------------------------------------------
PassSome(s) ==
    \/ PassReads(s) \/ PassSkips(s) \/ GivesUp(s) \/ TransmitOk(s) \/ TransmitFails(s)
    \/ FallbackStarts(s) \/ RelayOk(s) \/ RelayFails(s)
    \/ RecoveryReads(s) \/ RecoveryPasses(s) \/ RecoveryStarts(s)
    \/ RecoverOk(s) \/ RecoverFails(s) \/ PassEnds(s)

Next ==
    \/ \E s \in Passes : PassSome(s)
    \/ \E n \in Nodes : HandOver(n)
    \/ \E k \in Packets : Deliver(k)
    \/ \E p, t \in Nodes : Store(p, t)
    \/ ReceiveAck

(* The scheduler runs passes for ever, in some of them a pending row is    *)
(* due, awaits end, and what is on a link arrives.                         *)
Fairness ==
    /\ \A s \in Passes : WF_vars(PassSome(s)) /\ SF_vars(PassReads(s))
    /\ \A k \in Packets : WF_vars(Deliver(k))
    /\ \A p, t \in Nodes : WF_vars(Store(p, t))

Spec     == Init /\ [][Next]_vars
FairSpec == Spec /\ Fairness

-----------------------------------------------------------------------------
(* Until the message is processed it is on a link or in a row that a pass  *)
(* will take up, even when the origin has given it up, provided a relay    *)
(* stored it and did not give up in its turn: marking a row delivered on a *)
(* successful transmission, overwriting it by a later envelope and         *)
(* deleting settled rows never leave the system without a copy.            *)
CopyKept ==
    \/ processed
    \/ \E k \in wire : k.kind # "ack"
    \/ \E n \in Nodes : status[n] = "pending"
    \/ Origin \in gaveUp /\ (stores = 0 \/ gaveUp # {Origin})

(* However often its transmission fails, a message gets no more than       *)
(* MAX_FALLBACK_RELAYS replicas on other nodes for each pass that its node *)
(* may run at once: passes that come one after the other do not add up.    *)
ReplicasBounded ==
    \A n \in Nodes :
        Cardinality(Assigned(n) \ {n}) <=
            Cardinality({s \in Passes : Host[s] = n}) * MaxFallbackRelays

(* An envelope is never sent to the node it is for: its handler would take *)
(* a message addressed to another for its own.                             *)
RelayNeverTarget ==
    \A k \in wire : k.kind = "envelope" => k.to # k.for

(* The recipient is never made to relay the message: "Target peer must     *)
(* never be chosen as a relay".                                            *)
RecipientNeverRelays ==
    \A k \in wire : k.kind = "envelope" /\ k.to = Recipient => k.for = Recipient

(* A message whose recipient the origin cannot reach gets there through a  *)
(* relay that can.                                                         *)
FallbackDelivers == <>processed

=============================================================================
