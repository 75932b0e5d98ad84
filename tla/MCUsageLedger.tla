--------------------------- MODULE MCUsageLedger ---------------------------
(* Instance of UsageLedger: three jobs of one or two units and one key,    *)
(* two days and two quota epochs.  The key's quota is lifted, imposed and  *)
(* lowered below what is held, and so is the daily quota of its group.     *)
EXTENDS UsageLedger, TLC

CONSTANTS j1, j2, j3, u1, g1, k1

MCPrincipal == {[user |-> u1, group |-> g1, key |-> k1]}

Symmetry == Permutations(Job)
=============================================================================
