------------------------------ MODULE FifoInbox ------------------------------
(***************************************************************************)
(* What the receiving half of a YapYap node promises about the messages    *)
(* its peers address to it, with every mechanism taken away: from each     *)
(* sender, messages are taken in the order of their sequence numbers, with *)
(* no gap and no repetition.                                               *)
(*                                                                         *)
(* A message is a record with at least the fields "from" and "seq".        *)
(***************************************************************************)
EXTENDS Naturals

CONSTANTS Peers

VARIABLES
    sent,      \* the messages that peers have addressed to this node
    taken      \* taken[p]: sequence number of the last message taken from p

vars == <<sent, taken>>

Init == sent = {} /\ taken = [p \in Peers |-> 0]

(* A peer addresses one more message to this node. *)
Send == \E m \in sent' : sent' = sent \cup {m} /\ UNCHANGED taken

(* The next message of peer p is taken. *)
Take(p) ==
    /\ \E m \in sent : m.from = p /\ m.seq = taken[p] + 1
    /\ taken' = [taken EXCEPT ![p] = @ + 1]
    /\ UNCHANGED sent

Next == Send \/ \E p \in Peers : Take(p)

Spec == Init /\ [][Next]_vars
=============================================================================
