--------------------------- MODULE MCCloudWorker ---------------------------
(* Instance of CloudWorker: two workers compete for one job, so that the   *)
(* second meets the job the first has lost but still works on.  What the   *)
(* administration may do to the key meanwhile is refined in MCService.     *)
EXTENDS CloudWorker, TLC

CONSTANTS u1, g1, k1, w1, w2

MCPrincipal  == {[user |-> u1, group |-> g1, key |-> k1]}
=============================================================================
