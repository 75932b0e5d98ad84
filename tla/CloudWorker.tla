----------------------------- MODULE CloudWorker -----------------------------
(***************************************************************************)
(* The workers that run the jobs of the execution store.  A worker loops:  *)
(* it reconciles and cleans up, claims the oldest job, prepares it,        *)
(* records the dispatch, calls the provider and hands in the result, while *)
(* a timer renews its lease every five seconds.                            *)
(*                                                                         *)
(* Between any two awaits of the loop, other workers, clients and the      *)
(* clock may act, the process may crash, and a transaction whose reply is  *)
(* lost may or may not have been committed.  A worker that is slow goes on *)
(* with a job it has lost: only the store's own checks stop it.            *)
(***************************************************************************)
EXTENDS JobStore

CONSTANT Worker

VARIABLES
  stage,       \* where CloudWorker.once stands
  claim,       \* the claimed job and its lease token
  aborted,     \* the AbortController of the claim
  result,      \* what the provider call came back with
  executions   \* history: how often the provider was called for a job

workerVars == <<stage, claim, aborted, result, executions>>
allVars == <<vars, workerVars>>

Stage == {"idle", "claimed", "prepared", "dispatched", "executing", "returned"}

NoClaim  == [job |-> None, token |-> 0]
NoResult == [state |-> None]

WorkerInit ==
  /\ Init
  /\ stage = [w \in Worker |-> "idle"]
  /\ claim = [w \in Worker |-> NoClaim]
  /\ aborted = [w \in Worker |-> FALSE]
  /\ result = [w \in Worker |-> NoResult]
  /\ executions = [j \in Job |-> 0]

JobOf(w)   == claim[w].job
TokenOf(w) == claim[w].token

StoreUnchanged == UNCHANGED vars

(* The store finds the lease invalid: certainly when it was lost, possibly *)
(* when its deadline is near.                                              *)
LeaseRefused(w) ==
  ~(/\ jobs[JobOf(w)].state = "running"
    /\ jobs[JobOf(w)].leaseOwner = TokenOf(w)
    /\ jobs[JobOf(w)].lease = "ahead")

Advance(w, next) ==
  /\ stage' = [stage EXCEPT ![w] = next]
  /\ UNCHANGED <<claim, aborted, result, executions>>

(* once() returns or throws; its locals are gone and the timer is cleared. *)
GoIdle(w) ==
  /\ stage' = [stage EXCEPT ![w] = "idle"]
  /\ claim' = [claim EXCEPT ![w] = NoClaim]
  /\ aborted' = [aborted EXCEPT ![w] = FALSE]
  /\ result' = [result EXCEPT ![w] = NoResult]
  /\ UNCHANGED executions
-----------------------------------------------------------------------------
(* run(): every pass starts with reconcile() and cleanup(); a claim may    *)
(* find a job that waited too long and end it.  A worker in the middle of  *)
(* reconcile is idle here: until it writes or fails, no transaction of an  *)
(* idle worker gets the lock.                                              *)
Maintain(w) ==
  /\ stage[w] = "idle"
  /\ Maintenance
  /\ UNCHANGED workerVars

ClaimJob(w) ==
  /\ stage[w] = "idle"
  /\ \E j \in Job :
       /\ Claim(j)
       /\ claim' = [claim EXCEPT ![w] = [job |-> j, token |-> jobs[j].claims + 1]]
  /\ stage' = [stage EXCEPT ![w] = "claimed"]
  /\ UNCHANGED <<aborted, result, executions>>

Prepare(w) ==
  /\ stage[w] = "claimed"
  /\ StoreUnchanged
  /\ Advance(w, "prepared")

(* bridge.prepare threw; the job is failed if it is still this worker's.   *)
PrepareFails(w) ==
  /\ stage[w] = "claimed"
  /\ \/ FailPreparation(JobOf(w), TokenOf(w))
     \/ /\ LockFree
        /\ LeaseRefused(w) \/ ~MayDispatch(JobOf(w), TokenOf(w))
        /\ StoreUnchanged
  /\ GoIdle(w)

(* markDispatch answered: with the dispatched job, or with nothing.        *)
Dispatch(w) ==
  /\ stage[w] = "prepared"
  /\ \/ /\ MarkDispatch(JobOf(w), TokenOf(w))
        /\ Advance(w, "dispatched")
     \/ /\ \/ DispatchCancelled(JobOf(w), TokenOf(w))
           \/ DispatchRevoked(JobOf(w), TokenOf(w))
           \/ /\ LockFree
              /\ LeaseRefused(w) \/ ~MayDispatch(JobOf(w), TokenOf(w))
              /\ StoreUnchanged
        /\ GoIdle(w)

(* Fault variant: the provider is called although the commit is uncertain. *)
DispatchUncertainGoesOn(w) ==
  /\ stage[w] = "prepared"
  /\ MarkDispatch(JobOf(w), TokenOf(w)) \/ StoreUnchanged
  /\ Advance(w, "dispatched")

(* markDispatch threw: the dispatch was recorded or it was not.            *)
DispatchUncertain(w) ==
  /\ stage[w] = "prepared"
  /\ MarkDispatch(JobOf(w), TokenOf(w)) \/ StoreUnchanged
  /\ GoIdle(w)

(* prepared.execute(signal): the provider is called.                       *)
Execute(w) ==
  /\ stage[w] = "dispatched"
  /\ executions' = [executions EXCEPT ![JobOf(w)] = @ + 1]
  /\ stage' = [stage EXCEPT ![w] = "executing"]
  /\ UNCHANGED <<claim, aborted, result>>
  /\ StoreUnchanged

(* The call returned, with whatever status the SDK gives it, or it threw,  *)
(* which counts as cancelled when the worker aborted it and failed if not. *)
Return(w) ==
  /\ stage[w] = "executing"
  /\ \/ \E c \in Completion : result' = [result EXCEPT ![w] = c]
     \/ result' = [result EXCEPT ![w] =
          [state |-> IF aborted[w] THEN "cancelled" ELSE "failed", artifact |-> None]]
  /\ stage' = [stage EXCEPT ![w] = "returned"]
  /\ UNCHANGED <<claim, aborted, executions>>
  /\ StoreUnchanged

(* The result is handed in, and dropped if the job is no longer this       *)
(* worker's.                                                               *)
HandIn(w) ==
  /\ stage[w] = "returned"
  /\ \/ Complete(JobOf(w), TokenOf(w), result[w])
     \/ /\ LockFree
        /\ LeaseRefused(w) \/ ~(ValidLease(JobOf(w), TokenOf(w)) /\ jobs[JobOf(w)].dispatched)
        /\ StoreUnchanged
  /\ GoIdle(w)

(* The timer: the lease is renewed, or found lost; the call is aborted     *)
(* when it is lost, cancelled, or the database did not answer -- in which  *)
(* case it may have been renewed all the same.                             *)
Beat(w) ==
  /\ stage[w] # "idle"
  /\ \/ /\ Heartbeat(JobOf(w), TokenOf(w))
        /\ aborted' = [aborted EXCEPT ![w] = @ \/ jobs[JobOf(w)].cancel]
     \/ /\ LeaseRefused(w)
        /\ StoreUnchanged
        /\ aborted' = [aborted EXCEPT ![w] = TRUE]
  /\ UNCHANGED <<stage, claim, result, executions>>

BeatFails(w) ==
  /\ stage[w] # "idle"
  /\ ~aborted[w]
  /\ Heartbeat(JobOf(w), TokenOf(w)) \/ StoreUnchanged
  /\ aborted' = [aborted EXCEPT ![w] = TRUE]
  /\ UNCHANGED <<stage, claim, result, executions>>

(* The process dies, or a call to the store throws; the loop starts over.  *)
Crash(w) ==
  /\ stage[w] # "idle"
  /\ StoreUnchanged
  /\ GoIdle(w)

Step(w) ==
  \/ ClaimJob(w) \/ Prepare(w) \/ PrepareFails(w)
  \/ Dispatch(w) \/ DispatchUncertain(w) \/ Execute(w) \/ Return(w) \/ HandIn(w)

Outside == (Request \/ Time) /\ UNCHANGED workerVars

WorkerNext ==
  \/ \E w \in Worker : Maintain(w) \/ Step(w) \/ Beat(w) \/ BeatFails(w) \/ Crash(w)
  \/ Outside

WorkerSpec == WorkerInit /\ [][WorkerNext]_allVars

(***************************************************************************)
(* Fairness.  A worker's awaits end: the store answers or throws, and the  *)
(* provider call carries a timeout signal.  Every pass of the loop looks   *)
(* at every lost job, and a reconciler does not die each time just before  *)
(* it writes.  Deadlines pass.  Nothing is assumed of the timer, of        *)
(* clients, or of crashes ceasing.                                         *)
(***************************************************************************)
SomeoneIdle == \E w \in Worker : stage[w] = "idle"

Fairness ==
  /\ \A w \in Worker : WF_allVars(Step(w))
  /\ \A j \in Job :
       /\ WF_allVars(ReconcileReads(j) /\ SomeoneIdle /\ UNCHANGED workerVars)
       /\ SF_allVars(ReconcileWrites(j) /\ SomeoneIdle /\ UNCHANGED workerVars)
       /\ WF_allVars(LeaseRunsOut(j) /\ UNCHANGED workerVars)
       /\ WF_allVars(QueueRunsOut(j) /\ UNCHANGED workerVars)

FairSpec == WorkerSpec /\ Fairness
-----------------------------------------------------------------------------
(* A worker that is not idle holds a claim that the store could have given *)
(* it, and one that hands in has a result to hand in.                      *)
WorkerTypeOK ==
  /\ stage \in [Worker -> Stage]
  /\ claim \in [Worker -> [job : Job \cup {None}, token : 0..MaxClaims]]
  /\ aborted \in [Worker -> BOOLEAN]
  /\ result \in [Worker -> Completion \cup {NoResult}]
  /\ executions \in [Job -> Nat]
  /\ \A w \in Worker : stage[w] = "idle" => claim[w] = NoClaim
  /\ \A w \in Worker : stage[w] # "idle" => JobOf(w) \in Job /\ TokenOf(w) \in 1..MaxClaims
  /\ \A w \in Worker : stage[w] = "returned" => result[w] \in Completion

(* The provider is called at most once for a job, whatever crashes, lost   *)
(* leases, retries and lost replies happen on the way.                     *)
AtMostOnce == \A j \in Job : executions[j] <= 1

(* No work for free, no uncertain work refunded: from the call of the      *)
(* provider on the dispatch is on record and its units are not given back. *)
WorkIsCharged ==
  \A j \in Job : executions[j] > 0 /\ jobs[j] # DeletedJob =>
    /\ jobs[j].dispatched
    /\ reservations[j].state \in {"reserved", "settled"}

(* Every admitted job ends: if workers come and go, crash and lose their   *)
(* leases, if nobody claims it, and if its owner loses access.             *)
EveryJobEnds == \A j \in Job : Active(j) ~> ~Active(j)

(* The store and its workers keep the contract: see JobContract.           *)
ContractOutcome(j) ==
  IF Active(j) THEN "open"
  ELSE IF Ended(j) THEN jobs[j].state
  ELSE IF jobs[j] = AbsentJob THEN "none" ELSE "forgotten"

ContractPermitted(j) ==
  IF Active(j) \/ Ended(j) THEN jobs[j].dispatched
  ELSE reservations[j].state = "settled"

Contract == INSTANCE JobContract WITH
  outcome   <- [j \in Job |-> ContractOutcome(j)],
  permitted <- [j \in Job |-> ContractPermitted(j)],
  calls     <- executions,
  bill      <- [j \in Job |-> reservations[j].state]

(* Store and workers implement JobContract.                                *)
KeepsContract == Contract!Spec
=============================================================================
