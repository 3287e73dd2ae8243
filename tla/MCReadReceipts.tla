--------------------------- MODULE MCReadReceipts ---------------------------
(* ReadReceipts with its requests and its users interchangeable.           *)
EXTENDS ReadReceipts, TLC

Symmetry == Permutations(Requests) \cup Permutations(Users)
=============================================================================
