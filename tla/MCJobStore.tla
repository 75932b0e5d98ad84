----------------------------- MODULE MCJobStore -----------------------------
(* Instance of JobStore: two jobs of one user, whose key is good for two   *)
(* units in its life, and one idempotency key, which the second job finds  *)
(* taken, ended or purged.                                                 *)
EXTENDS JobStore, TLC

CONSTANTS j1, j2, u1, g1, k1

MCPrincipal  == {[user |-> u1, group |-> g1, key |-> k1]}

Symmetry == Permutations(Job)
=============================================================================
