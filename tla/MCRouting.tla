------------------------------ MODULE MCRouting ------------------------------
(* Instance of Routing: a provider with up to two configurations in the    *)
(* table at once, two lanes, one job.  The pools an editor sends: a single *)
(* disabled key; and that key enabled, between two new ones of which the   *)
(* first is disabled.                                                      *)
EXTENDS Routing, TLC

CONSTANTS c1, c2, l1, l2

Pools == {<<[id |-> 0, enabled |-> FALSE]>>,
          <<[id |-> 0, enabled |-> FALSE], [id |-> 1, enabled |-> TRUE],
            [id |-> 0, enabled |-> TRUE]>>}

Symmetry == Permutations(Config) \cup Permutations(Lane)
=============================================================================
