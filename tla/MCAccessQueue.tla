--------------------------- MODULE MCAccessQueue ----------------------------
(* AccessQueue with its requests interchangeable.                          *)
EXTENDS AccessQueue, TLC

Symmetry == Permutations(Requests)
=============================================================================
