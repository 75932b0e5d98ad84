----------------------------- MODULE MCAccounts -----------------------------
(* Instance of Accounts: the first administrator and one more user, two    *)
(* sessions and two requests at a time, two passwords and two tokens.      *)
EXTENDS Accounts, TLC

CONSTANTS s1, s2, q1, q2

Symmetry == Permutations(Session) \cup Permutations(Request)
=============================================================================
