------------------------------- MODULE MCMedia ------------------------------
(* Media with its calls, users and names interchangeable.                  *)
EXTENDS Media, TLC

Symmetry == Permutations(Requests) \cup Permutations(Users) \cup Permutations(Names)
=============================================================================
