--------------------------- MODULE MCMessageSend ----------------------------
(* MessageSend with its calls interchangeable, for runs of invariants only. *)
EXTENDS MessageSend, TLC

Symmetry == Permutations(Requests)
=============================================================================
