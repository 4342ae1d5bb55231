------------------------------- MODULE MCOutbox -------------------------------
(* Finite instances of Outbox.  Passes are interchangeable, and so are     *)
(* receive() calls.                                                        *)
EXTENDS Outbox, TLC

Symmetry == Permutations(Passes) \cup Permutations(Calls)
=============================================================================
