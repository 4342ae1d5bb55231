------------------------------ MODULE MCInbound ------------------------------
(* Finite instances of Inbound.  Slots are interchangeable, and so are     *)
(* peers: no action and no property names one of them.                     *)
EXTENDS Inbound, TLC

Symmetry == Permutations(Slots) \cup Permutations(Peers)
=============================================================================
