---------------------------- MODULE MCDirectRooms ---------------------------
(* DirectRooms with its calls and its users interchangeable.               *)
EXTENDS DirectRooms, TLC

Symmetry == Permutations(Requests) \cup Permutations(Users)
=============================================================================
