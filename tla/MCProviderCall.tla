--------------------------- MODULE MCProviderCall ---------------------------
(* Instance of ProviderCall: three requests, a budget of two.              *)
EXTENDS ProviderCall
=============================================================================
