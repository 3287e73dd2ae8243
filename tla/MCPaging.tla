------------------------------ MODULE MCPaging ------------------------------
(* Paging with its rows interchangeable.                                   *)
EXTENDS Paging, TLC

Symmetry == Permutations(Rows)
=============================================================================
