---------------------------- MODULE MCUsageView -----------------------------
(* Instance of UsageView alone: the page opened once and refreshed once.   *)
EXTENDS UsageView, TLC

CONSTANTS c1, c2

MCChunks == [j \in Job |-> 3]

Symmetry == Permutations(Call)
=============================================================================
