---------------------------- MODULE MCGroupRoles ----------------------------
(* GroupRoles with its users and its requests interchangeable.             *)
EXTENDS GroupRoles, TLC

Symmetry == Permutations(Users) \cup Permutations(Requests)
=============================================================================
