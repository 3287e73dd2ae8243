----------------------------- MODULE MCPresence -----------------------------
(* Presence with its sockets and its nodes interchangeable.                *)
EXTENDS Presence, TLC

Symmetry == Permutations(Sockets) \cup Permutations(Nodes)
=============================================================================
