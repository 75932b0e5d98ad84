----------------------------- MODULE MCConsole ------------------------------
(* Instance of Console: two groups, one row of every other table, two      *)
(* calls in flight, and a job whose result takes two pages.                *)
EXTENDS Console, TLC

CONSTANTS c1, c2, g1, g2

MCChunks == [j \in Job |-> 3]

Symmetry == Permutations(Call) \cup Permutations(Group)

(* The usage page and the tables have nothing in common: the page is       *)
(* looked at over untouched tables, with no write left from another view.  *)
UsageApart == view = "usage" =>
  rows = [i \in Item |-> 1] /\ calls = [c \in Call |-> Quiet]
=============================================================================
