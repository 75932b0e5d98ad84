------------------------------ MODULE MCGrants ------------------------------
(* Instance of Grants: an administrator and a user, two groups, one key.   *)
EXTENDS Grants, TLC

CONSTANTS g1, g2

Symmetry == Permutations(Group)
=============================================================================
