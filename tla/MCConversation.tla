---------------------------- MODULE MCConversation ----------------------------
(* Two nodes that send each other data. *)
EXTENDS Conversation

CONSTANTS alice, bob

BothWays == {<<alice, bob>>, <<bob, alice>>}
=============================================================================
