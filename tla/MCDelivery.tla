------------------------------ MODULE MCDelivery ----------------------------
(* Delivery with its calls, users and devices interchangeable.             *)
EXTENDS Delivery, TLC

Symmetry == Permutations(Calls) \cup Permutations(Users) \cup Permutations(Devices)
=============================================================================
