---------------------------- MODULE JobContract ----------------------------
(***************************************************************************)
(* What the service promises about a job, without queues, workers, leases, *)
(* tokens or clocks: it is open from its submission until it is closed     *)
(* once; the provider is called at most once, and only after the call was  *)
(* permitted; the units set aside at submission are charged at the close   *)
(* exactly when the call had been permitted; a success rests on a call.    *)
(*                                                                         *)
(* A permitted call may come late, after the job was closed without it: a  *)
(* worker that is only slow is given up like one that is dead.  It is paid *)
(* for, and never made twice.                                              *)
(***************************************************************************)
EXTENDS Naturals

CONSTANT Job

VARIABLES outcome, permitted, calls, bill

contractVars == <<outcome, permitted, calls, bill>>

Result == {"succeeded", "failed", "cancelled"}

TypeOK ==
  /\ outcome \in [Job -> {"none", "open", "forgotten"} \cup Result]
  /\ permitted \in [Job -> BOOLEAN]
  /\ calls \in [Job -> 0..1]
  /\ bill \in [Job -> {"none", "reserved", "settled", "released"}]

Init ==
  /\ outcome = [j \in Job |-> "none"]
  /\ permitted = [j \in Job |-> FALSE]
  /\ calls = [j \in Job |-> 0]
  /\ bill = [j \in Job |-> "none"]

Submit(j) ==
  /\ outcome[j] = "none"
  /\ outcome' = [outcome EXCEPT ![j] = "open"]
  /\ bill' = [bill EXCEPT ![j] = "reserved"]
  /\ UNCHANGED <<permitted, calls>>

Permit(j) ==
  /\ outcome[j] = "open"
  /\ ~permitted[j]
  /\ permitted' = [permitted EXCEPT ![j] = TRUE]
  /\ UNCHANGED <<outcome, calls, bill>>

Call(j) ==
  /\ permitted[j]
  /\ calls[j] = 0
  /\ calls' = [calls EXCEPT ![j] = 1]
  /\ UNCHANGED <<outcome, permitted, bill>>

Close(j, end) ==
  /\ outcome[j] = "open"
  /\ end = "succeeded" => calls[j] = 1
  /\ outcome' = [outcome EXCEPT ![j] = end]
  /\ bill' = [bill EXCEPT ![j] = IF permitted[j] THEN "settled" ELSE "released"]
  /\ UNCHANGED <<permitted, calls>>

Forget(j) ==
  /\ outcome[j] \in Result
  /\ outcome' = [outcome EXCEPT ![j] = "forgotten"]
  /\ UNCHANGED <<permitted, calls, bill>>

Next ==
  \E j \in Job :
    \/ Submit(j) \/ Permit(j) \/ Call(j) \/ Forget(j)
    \/ \E end \in Result : Close(j, end)

Spec == Init /\ [][Next]_contractVars
=============================================================================
