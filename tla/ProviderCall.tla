---------------------------- MODULE ProviderCall ----------------------------
(***************************************************************************)
(* The provider call of one claimed job: the bridge that prepares and runs *)
(* the SDK, and the transport through which the SDK sends its requests.    *)
(*                                                                         *)
(* The SDK is external.  It may send any number of requests, one beside    *)
(* the other, and return or throw whatever it likes at any time, also with *)
(* requests in flight and whatever became of them.  The network and the    *)
(* resolver may answer or stay silent.  The worker's timer may abort the   *)
(* call at any time, and two deadlines run.                                *)
(*                                                                         *)
(* An abort signal calls its listeners when it fires and at no other time; *)
(* who comes later has to look.  A rejected promise reaches its `catch' in *)
(* a later reaction, in any order with those of others.                    *)
(***************************************************************************)
EXTENDS Naturals, FiniteSets

CONSTANTS
  Send,         \* requests the SDK may send
  MaxRequests   \* plan.budget.provider_calls

ASSUME CallAssumption == IsFiniteSet(Send) /\ MaxRequests \in Nat \ {0}

VARIABLES
  run,        \* where CloudWorker.once stands
  aborted,    \* its AbortController
  timedOut,   \* AbortSignal.timeout of the execution
  deadline,   \* AbortSignal.timeout of the transport
  requests,   \* CloudPinnedHttpTransport.requests
  violation,  \* whether CloudPinnedHttpTransport.violation is set
  sends,      \* where each request is
  completion  \* what the worker hands in

callVars == <<run, aborted, timedOut, deadline, requests, violation, sends, completion>>

(* handingIn: the SDK has returned or thrown, and once() awaits the store  *)
(* and the observer; what the SDK left in flight goes on.                  *)
Run == {"preparing", "prepared", "running", "handingIn", "over"}

(* Phases of a request.  resolving, connecting and sent listen to the      *)
(* signal; resolved, answered and failing are promises whose reaction is   *)
(* due.                                                                    *)
Listening == {"resolving", "connecting", "sent"}
Due       == {"resolved", "answered", "failing"}
Settled   == {"done", "rejected", "tooLarge"}
Phase     == {"none"} \cup Listening \cup Due \cup Settled

(* error: what a failing request failed with -- an EgressError, a          *)
(* ResponseLimitError, or any other.  wire: the request was written.       *)
Failure == {"egress", "limit", "other"}
SendRow == [phase : Phase, error : Failure \cup {"none"}, wire : BOOLEAN]

Completion == [state : {"succeeded", "failed", "cancelled"},
               error : {"none", "CANCELLED", "DEADLINE_EXCEEDED", "OUTPUT_TOO_LARGE",
                        "PROVIDER_UNAVAILABLE"}]
NoCompletion == [state |-> "none"]

CallInit ==
  /\ run = "preparing"
  /\ aborted = FALSE /\ timedOut = FALSE /\ deadline = FALSE
  /\ requests = 0
  /\ violation = FALSE
  /\ sends = [s \in Send |-> [phase |-> "none", error |-> "none", wire |-> FALSE]]
  /\ completion = NoCompletion

(* The signal of a request: the execution's or the transport's.            *)
Cut == aborted \/ timedOut \/ deadline

At(s, phase)   == sends[s].phase = phase
Goes(s, phase) == sends' = [sends EXCEPT ![s].phase = phase]
Fails(s, error) ==
  sends' = [sends EXCEPT ![s].phase = "failing", ![s].error = error]

(* The SDK was called; it may send at any time from then on.               *)
SdkCalled == run = "running" \/ completion # NoCompletion

(* The signal fires: every listener fails its request.                     *)
Listeners ==
  sends' = IF Cut THEN sends
           ELSE [s \in Send |->
                   IF sends[s].phase \in Listening
                   THEN [sends[s] EXCEPT !.phase = "failing", !.error = "egress"]
                   ELSE sends[s]]
-----------------------------------------------------------------------------
(* bridge.prepare: versions, configurations, credentials, endpoints and    *)
(* for a fetch the screening of its URL are good or not; the transport is  *)
(* made with its deadline.                                                 *)
Prepare ==
  /\ run = "preparing"
  /\ run' \in {"prepared", "over"}
  /\ aborted' = (aborted \/ run' = "over")
  /\ UNCHANGED <<timedOut, deadline, requests, violation, sends, completion>>

(* markDispatch answered; without the dispatched job the claim is left.    *)
Dispatched ==
  /\ run = "prepared"
  /\ run' \in {"running", "over"}
  /\ aborted' = (aborted \/ run' = "over")
  /\ UNCHANGED <<timedOut, deadline, requests, violation, sends, completion>>

(* The heartbeat finds the lease lost or the job cancelled, or fails.      *)
HeartbeatAborts ==
  /\ run # "over" /\ ~aborted
  /\ aborted' = TRUE
  /\ Listeners
  /\ UNCHANGED <<run, timedOut, deadline, requests, violation, completion>>

(* After the run the signal has fired anyway.                              *)
ExecutionTimesOut ==
  /\ run \in {"running", "handingIn"} /\ ~timedOut
  /\ timedOut' = TRUE
  /\ Listeners
  /\ UNCHANGED <<run, aborted, deadline, requests, violation, completion>>

TransportTimesOut ==
  /\ run # "preparing" /\ ~deadline
  /\ deadline' = TRUE
  /\ Listeners
  /\ UNCHANGED <<run, aborted, timedOut, requests, violation, completion>>

(* What the SDK's status makes of the job, in worker.ts: "good" stands for *)
(* succeeded, partial and empty, "too_large" for a failure of that name.   *)
Status == {"good", "cancelled", "timed_out", "too_large", "failed"}

CompletionOf(status) ==
  CASE status = "good"      -> [state |-> "succeeded", error |-> "none"]
    [] status = "cancelled" -> [state |-> "cancelled", error |-> "CANCELLED"]
    [] status = "timed_out" -> [state |-> "failed", error |-> "DEADLINE_EXCEEDED"]
    [] status = "too_large" -> [state |-> "failed", error |-> "OUTPUT_TOO_LARGE"]
    [] status = "failed"    -> [state |-> "failed", error |-> "PROVIDER_UNAVAILABLE"]

HandsIn(status) ==
  /\ run = "running"
  /\ run' = "handingIn"
  /\ completion' = CompletionOf(status)
  /\ UNCHANGED <<aborted, timedOut, deadline, requests, violation, sends>>

(* PreparedExecution.execute: a violation of the transport prevails over   *)
(* what the SDK says.                                                      *)
SdkReturns(status) == HandsIn(IF violation THEN "failed" ELSE status)

SdkThrows == HandsIn(IF aborted THEN "cancelled" ELSE "failed")

(* store.complete and the observer answered or threw.  `finally': the      *)
(* worker's timer is cleared and the signal fires.                         *)
EndRun ==
  /\ run = "handingIn"
  /\ run' = "over"
  /\ aborted' = TRUE
  /\ Listeners
  /\ UNCHANGED <<timedOut, deadline, requests, violation, completion>>
-----------------------------------------------------------------------------
(* Fault variant: the counter is compared before it is incremented.        *)
SendStartsCountingAfter(s) ==
  /\ SdkCalled /\ At(s, "none")
  /\ \/ Fails(s, "egress") /\ UNCHANGED requests
     \/ /\ requests' = requests + 1
        /\ IF requests > MaxRequests \/ Cut
           THEN Fails(s, "egress")
           ELSE Fails(s, "egress") \/ Goes(s, "resolving") \/ Goes(s, "resolved")
  /\ UNCHANGED <<run, aborted, timedOut, deadline, violation, completion>>

(* send(), up to its first await.  The target and the method are refused   *)
(* before the request is counted, its headers and its body after; an       *)
(* address needs no resolver.                                              *)
SendStarts(s) ==
  /\ SdkCalled /\ At(s, "none")
  /\ \/ Fails(s, "egress") /\ UNCHANGED requests
     \/ /\ requests' = requests + 1
        /\ IF requests' > MaxRequests \/ Cut
           THEN Fails(s, "egress")
           ELSE Fails(s, "egress") \/ Goes(s, "resolving") \/ Goes(s, "resolved")
  /\ UNCHANGED <<run, aborted, timedOut, deadline, violation, completion>>

(* resolvePinned: the resolver answers, fails, or five seconds pass.       *)
Resolved(s) ==
  /\ At(s, "resolving")
  /\ Goes(s, "resolved") \/ Fails(s, "egress")
  /\ UNCHANGED <<run, aborted, timedOut, deadline, requests, violation, completion>>

(* Fault variant: NodePinnedIo.request relies on its listener.             *)
ConnectWithoutLooking(s) ==
  /\ At(s, "resolved")
  /\ Goes(s, "connecting") \/ Fails(s, "egress")
  /\ UNCHANGED <<run, aborted, timedOut, deadline, requests, violation, completion>>

(* The rest of resolvePinned, which refuses addresses that are not public, *)
(* and the start of NodePinnedIo.request.                                  *)
Connect(s) ==
  /\ At(s, "resolved")
  /\ \/ ~Cut /\ Goes(s, "connecting")
     \/ Fails(s, "egress")
  /\ UNCHANGED <<run, aborted, timedOut, deadline, requests, violation, completion>>

(* secureConnect, with the pinned peer or another; or an error before.     *)
SecureConnect(s) ==
  /\ At(s, "connecting")
  /\ \/ ~Cut /\ sends' = [sends EXCEPT ![s].phase = "sent", ![s].wire = TRUE]
     \/ Fails(s, "egress")
  /\ UNCHANGED <<run, aborted, timedOut, deadline, requests, violation, completion>>

(* The response ends, is refused for its status, encoding or size, or the  *)
(* connection breaks.                                                      *)
Respond(s) ==
  /\ At(s, "sent")
  /\ Goes(s, "answered") \/ Fails(s, "egress") \/ Fails(s, "limit")
  /\ UNCHANGED <<run, aborted, timedOut, deadline, requests, violation, completion>>

(* Fault variant: the transport remembers how its last request went.       *)
FinishForgiving(s) ==
  /\ At(s, "answered")
  /\ \/ ~Cut /\ Goes(s, "done") /\ violation' = FALSE
     \/ (\E error \in Failure : Fails(s, error)) /\ UNCHANGED violation
  /\ UNCHANGED <<run, aborted, timedOut, deadline, requests, completion>>

(* The end of send(): the signal is looked at once more, the body decoded. *)
Finish(s) ==
  /\ At(s, "answered")
  /\ \/ ~Cut /\ Goes(s, "done")
     \/ \E error \in Failure : Fails(s, error)
  /\ UNCHANGED <<run, aborted, timedOut, deadline, requests, violation, completion>>

(* The catch of send().                                                    *)
Catch(s) ==
  /\ At(s, "failing")
  /\ Goes(s, IF sends[s].error = "limit" THEN "tooLarge" ELSE "rejected")
  /\ violation' = (violation \/ sends[s].error # "limit")
  /\ UNCHANGED <<run, aborted, timedOut, deadline, requests, completion>>

Reaction(s) == Connect(s) \/ Finish(s) \/ Catch(s)

CallNext ==
  \/ Prepare \/ Dispatched
  \/ HeartbeatAborts \/ ExecutionTimesOut \/ TransportTimesOut
  \/ (\E status \in Status : SdkReturns(status)) \/ SdkThrows \/ EndRun
  \/ \E s \in Send : SendStarts(s) \/ Resolved(s) \/ SecureConnect(s) \/ Respond(s) \/ Reaction(s)

CallSpec == CallInit /\ [][CallNext]_callVars

(* The reactions that are due run, and the transport's timer goes off.     *)
(* Nothing is assumed of the SDK, the resolver or the network.             *)
CallFairSpec ==
  /\ CallSpec
  /\ WF_callVars(TransportTimesOut)
  /\ \A s \in Send : WF_callVars(Reaction(s))
-----------------------------------------------------------------------------
(* When the SDK returns or throws and the transport has by then refused,   *)
(* aborted or failed to complete a request, the job is handed in as failed *)
(* for it, or, if the worker gave the call up, as cancelled: never as a    *)
(* success or for another reason, whatever the SDK makes of it and         *)
(* whatever other requests came back with (bridge.ts:78, worker.ts:36-46). *)
(* A request the SDK leaves in flight and that is rejected later is not    *)
(* asked for: it changes nothing of what is handed in.                     *)
RejectionIsReported ==
  [][completion' # completion =>
       /\ (\E s \in Send : At(s, "rejected")) =>
            \/ completion'.error = "PROVIDER_UNAVAILABLE"
            \/ aborted /\ completion'.error = "CANCELLED"
       /\ completion = NoCompletion]_callVars

(* No more requests are written than the plan's budget, which is what the  *)
(* job pays for, allows, although they are sent beside one another and     *)
(* resolve their names first (transport.ts:100-113).                       *)
CallsWithinBudget == Cardinality({s \in Send : sends[s].wire}) <= MaxRequests

(* Every request is settled, and no later than after the deadline, also    *)
(* one whose signal fires between two of its awaits, when nobody listens,  *)
(* and one that is left behind by a run that ended (transport.ts:20-76,    *)
(* address.ts:38-55).                                                      *)
EverySendSettles ==
  \A s \in Send : ~At(s, "none") ~> sends[s].phase \in Settled
=============================================================================
