---------------------------- MODULE MCJobLimits ----------------------------
(* Instance of JobStore where limits bind: a user may have one active job  *)
(* and one unit a day, of which there are two; the key is good for two     *)
(* units, which a reset renews.                                            *)
EXTENDS JobStore, TLC

CONSTANTS j1, j2, u1, g1, k1

MCPrincipal  == {[user |-> u1, group |-> g1, key |-> k1]}

Symmetry == Permutations(Job)
=============================================================================
