----------------------------- MODULE MCLoginGate -----------------------------
(* Instance of LoginGate: three logins from two addresses to one account,   *)
(* one slot and one place to wait, two windows.                            *)
EXTENDS LoginGate
=============================================================================
