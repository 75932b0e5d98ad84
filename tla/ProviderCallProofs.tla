------------------------- MODULE ProviderCallProofs -------------------------
(***************************************************************************)
(* The provider call, for any number of requests the SDK may send and any  *)
(* budget: no more requests are written than the budget allows, and what   *)
(* is handed in accounts for those that were rejected by then.             *)
(*                                                                         *)
(* A request that may yet be written, or was, counts (Counting): a slot of *)
(* the budget is taken by the request that starts, before its first await, *)
(* and by nothing else, whatever happens beside it.                        *)
(*                                                                         *)
(* Once the signal fired no request is left listening for what may never   *)
(* come, and a settled request stays as it settled (SignalsAreHeard).      *)
(***************************************************************************)
EXTENDS ProviderCall, FiniteSetTheorems, TLAPS

CallTypeOK ==
  /\ run \in Run
  /\ {aborted, timedOut, deadline, violation} \subseteq BOOLEAN
  /\ requests \in Nat
  /\ sends \in [Send -> SendRow]
  /\ completion \in Completion \cup {NoCompletion}

(* The requests that may be written, or were.                              *)
OnTheirWay == {"resolving", "resolved", "connecting", "sent", "answered"}
Counting == {s \in Send : sends[s].wire \/ sends[s].phase \in OnTheirWay}

(* The budget is not exceeded, and whoever was rejected is remembered.     *)
(* While the SDK runs nothing has been handed in.                          *)
CallInv ==
  /\ CallTypeOK
  /\ run \in {"preparing", "prepared", "running"} => completion = NoCompletion
  /\ Cardinality(Counting) <= requests
  /\ Cardinality(Counting) <= MaxRequests
  /\ (\E s \in Send : At(s, "rejected")) => violation

(* What a step makes of the requests is no more than they were.            *)
Shrinks ==
  /\ \A s \in Send : sends'[s] \in SendRow
  /\ sends' \in [Send -> SendRow]
  /\ Counting' \subseteq Counting
  /\ (\E s \in Send : At(s, "rejected")') => violation'

(* Sets of requests are finite and have a number.                          *)
LEMMA SendsFinite ==
  ASSUME NEW S \in SUBSET Send
  PROVE  IsFiniteSet(S) /\ Cardinality(S) \in Nat
<1>1. IsFiniteSet(S)
  BY FS_Subset, CallAssumption DEF CallAssumption
<1> QED
  BY <1>1, FS_CardinalityType

(* A step that starts no request keeps the budget.                         *)
LEMMA ShrinkingKeeps ==
  ASSUME CallInv, Shrinks, requests' \in Nat, requests' >= requests, run' \in Run,
         {aborted', timedOut', deadline', violation'} \subseteq BOOLEAN,
         completion' \in Completion \cup {NoCompletion},
         run' \in {"preparing", "prepared", "running"} => completion' = NoCompletion
  PROVE  CallInv'
<1>1. Counting \in SUBSET Send /\ Counting' \in SUBSET Send
  BY DEF Counting
<1>2. Cardinality(Counting') <= Cardinality(Counting)
  BY <1>1, SendsFinite, FS_Subset DEF Shrinks
<1>3. Cardinality(Counting) \in Nat /\ Cardinality(Counting') \in Nat
  BY <1>1, SendsFinite
<1>4. requests \in Nat /\ MaxRequests \in Nat
  BY CallAssumption DEF CallAssumption, CallInv, CallTypeOK
<1>5. CallTypeOK'
  BY DEF CallInv, CallTypeOK, Shrinks
<1> QED
  BY <1>2, <1>3, <1>4, <1>5 DEF CallInv, Shrinks, CallTypeOK

(* One request changes its phase; it does not become one that counts, and  *)
(* a rejection is remembered.                                              *)
LEMMA OneSend ==
  ASSUME CallInv, NEW s \in Send, NEW row \in SendRow, sends' = [sends EXCEPT ![s] = row],
         row.wire \/ row.phase \in OnTheirWay => s \in Counting,
         violation => violation', row.phase = "rejected" => violation'
  PROVE  Shrinks
<1>1. /\ sends'[s] = row
      /\ \A t \in Send \ {s} : sends'[t] = sends[t]
      /\ sends' \in [Send -> SendRow]
  BY DEF CallInv, CallTypeOK
<1>2. Counting' \subseteq Counting
  BY <1>1 DEF Counting
<1>3. ASSUME NEW t \in Send, sends'[t].phase = "rejected"
      PROVE  violation'
  <2>1. CASE t = s
    BY <1>1, <1>3, <2>1
  <2>2. CASE t # s
    BY <1>1, <1>3, <2>2 DEF CallInv, At
  <2> QED
    BY <2>1, <2>2
<1> QED
  BY <1>1, <1>2, <1>3 DEF Shrinks, At

(* The signal fires: requests fail, none of them newly counts.             *)
LEMMA ListenersOK ==
  ASSUME CallInv, Listeners, violation' = violation
  PROVE  Shrinks
<1>1. CASE Cut
  <2>1. sends' = sends
    BY <1>1 DEF Listeners
  <2> QED
    BY <2>1 DEF Shrinks, CallInv, CallTypeOK, Counting, At
<1>2. CASE ~Cut
  <2> DEFINE failed(s) == [sends[s] EXCEPT !.phase = "failing", !.error = "egress"]
  <2>1. \A s \in Send : sends'[s] = IF sends[s].phase \in Listening THEN failed(s) ELSE sends[s]
    BY <1>2 DEF Listeners
  <2>2. \A s \in Send : /\ sends[s] \in SendRow /\ failed(s) \in SendRow
                        /\ failed(s).phase = "failing" /\ failed(s).wire = sends[s].wire
    BY DEF CallInv, CallTypeOK, SendRow, Phase, Due, Failure
  <2> HIDE DEF failed
  <2>3. sends' \in [Send -> SendRow]
    <3>1. sends' = [s \in Send |-> sends'[s]]
      BY <1>2 DEF Listeners
    <3> QED
      BY <2>1, <2>2, <3>1
  <2>4. Counting' \subseteq Counting
    BY <2>1, <2>2 DEF Counting, OnTheirWay
  <2>5. ASSUME NEW s \in Send, sends'[s].phase = "rejected"
        PROVE  violation'
    BY <2>1, <2>2, <2>5 DEF CallInv, At
  <2> QED
    BY <2>3, <2>4, <2>5 DEF Shrinks, At
<1> QED
  BY <1>1, <1>2

(* A request fails.                                                        *)
LEMMA FailingShrinks ==
  ASSUME CallInv, NEW s \in Send, NEW error \in Failure, Fails(s, error), violation' = violation
  PROVE  Shrinks
<1> DEFINE row == [sends[s] EXCEPT !.phase = "failing", !.error = error]
<1>1. sends[s] \in SendRow
  BY DEF CallInv, CallTypeOK
<1>2. /\ row \in SendRow
      /\ row.phase = "failing" /\ row.wire = sends[s].wire
  BY <1>1 DEF SendRow, Phase, Due
<1>3. sends' = [sends EXCEPT ![s] = row]
  BY DEF Fails
<1> HIDE DEF row
<1>4. row.wire \/ row.phase \in OnTheirWay => s \in Counting
  BY <1>2 DEF Counting, OnTheirWay
<1> QED
  BY <1>2, <1>3, <1>4, OneSend

(* A request moves on, and does not start.                                 *)
LEMMA GoingShrinks ==
  ASSUME CallInv, NEW s \in Send, NEW phase \in Phase, Goes(s, phase),
         phase \in OnTheirWay => s \in Counting,
         violation => violation', phase = "rejected" => violation'
  PROVE  Shrinks
<1> DEFINE row == [sends[s] EXCEPT !.phase = phase]
<1>1. sends[s] \in SendRow
  BY DEF CallInv, CallTypeOK
<1>2. /\ row \in SendRow
      /\ row.phase = phase /\ row.wire = sends[s].wire
  BY <1>1 DEF SendRow
<1>3. sends' = [sends EXCEPT ![s] = row]
  BY DEF Goes
<1> HIDE DEF row
<1>4. row.wire \/ row.phase \in OnTheirWay => s \in Counting
  BY <1>2 DEF Counting
<1> QED
  BY <1>2, <1>3, <1>4, OneSend

(* A request that starts to count takes one place of the budget.           *)
LEMMA StartingCounts ==
  ASSUME CallInv, NEW s \in Send, NEW phase \in {"resolving", "resolved"}, Goes(s, phase),
         requests' = requests + 1, requests' <= MaxRequests,
         UNCHANGED <<run, aborted, timedOut, deadline, violation, completion>>
  PROVE  CallInv'
<1>1. /\ sends' \in [Send -> SendRow]
      /\ sends'[s].phase = phase
      /\ \A t \in Send \ {s} : sends'[t] = sends[t]
  <2>1. [sends[s] EXCEPT !.phase = phase] \in SendRow
    BY DEF CallInv, CallTypeOK, SendRow, Phase, Listening, Due
  <2> QED
    BY <2>1 DEF Goes, CallInv, CallTypeOK
<1>2. Counting' \subseteq Counting \cup {s}
  BY <1>1 DEF Counting
<1>3. Counting \in SUBSET Send /\ Counting' \in SUBSET Send
  BY DEF Counting
<1>4. Cardinality(Counting \cup {s}) <= Cardinality(Counting) + 1
  <2>1. IsFiniteSet(Counting) /\ Cardinality(Counting) \in Nat
    BY <1>3, SendsFinite
  <2> QED
    BY <2>1, FS_AddElement
<1>5. Cardinality(Counting') <= Cardinality(Counting \cup {s})
  <2>1. IsFiniteSet(Counting \cup {s})
    BY <1>3, SendsFinite
  <2> QED
    BY <1>2, <2>1, FS_Subset
<1>6. /\ Cardinality(Counting) \in Nat /\ Cardinality(Counting') \in Nat
      /\ Cardinality(Counting \cup {s}) \in Nat
  BY <1>3, SendsFinite
<1>7. requests \in Nat /\ MaxRequests \in Nat /\ Cardinality(Counting) <= requests
  BY CallAssumption DEF CallAssumption, CallInv, CallTypeOK
<1>8. Cardinality(Counting') <= requests' /\ Cardinality(Counting') <= MaxRequests
  BY <1>4, <1>5, <1>6, <1>7
<1>9. ASSUME NEW t \in Send, sends'[t].phase = "rejected"
      PROVE  violation'
  BY <1>1, <1>9 DEF CallInv, At
<1>10. CallTypeOK'
  BY <1>1, <1>7 DEF CallInv, CallTypeOK
<1> QED
  BY <1>8, <1>9, <1>10 DEF CallInv, At

(* A completion the worker hands in.                                       *)
LEMMA CompletionType ==
  ASSUME NEW status \in Status
  PROVE  CompletionOf(status) \in Completion
BY DEF CompletionOf, Completion, Status

(* At first no request counts and none was rejected.                       *)
LEMMA CallStart == CallInit => CallInv
<1> SUFFICES ASSUME CallInit PROVE CallInv
  OBVIOUS
<1>1. CallTypeOK
  BY DEF CallInit, CallTypeOK, Run, SendRow, Phase
<1>2. Counting = {}
  BY DEF CallInit, Counting, OnTheirWay
<1>3. Cardinality(Counting) = 0
  BY <1>2, FS_EmptySet
<1> QED
  BY <1>1, <1>3, CallAssumption DEF CallInv, CallInit, At, CallAssumption

(* A step of one request keeps the budget.                                 *)
LEMMA RequestStep ==
  ASSUME CallInv, NEW s \in Send,
         SendStarts(s) \/ Resolved(s) \/ SecureConnect(s) \/ Respond(s) \/ Reaction(s)
  PROVE  CallInv'
<1> USE DEF At
<1>0. /\ {"egress", "limit", "other"} = Failure
      /\ {"resolving", "resolved", "connecting", "sent", "answered"} \subseteq Phase
      /\ {"done", "tooLarge", "rejected"} \subseteq Phase
  BY DEF Failure, Phase, Listening, Due, Settled
<1>1. CallTypeOK /\ requests \in Nat /\ sends[s] \in SendRow
  BY DEF CallInv, CallTypeOK
<1>2. ASSUME Shrinks, requests' = requests \/ requests' = requests + 1, violation' \in BOOLEAN,
             UNCHANGED <<run, aborted, timedOut, deadline, completion>>
      PROVE  CallInv'
  BY <1>1, <1>2, ShrinkingKeeps DEF CallTypeOK, CallInv
<1>3. CASE SendStarts(s)
  <2>1. CASE \E error \in Failure : Fails(s, error)
    BY <1>2, <1>1, <1>3, <2>1, FailingShrinks DEF SendStarts, CallTypeOK
  <2>2. CASE ~\E error \in Failure : Fails(s, error)
    <3>1. /\ requests' = requests + 1
          /\ requests' <= MaxRequests
          /\ Goes(s, "resolving") \/ Goes(s, "resolved")
          /\ UNCHANGED <<run, aborted, timedOut, deadline, violation, completion>>
      <4>1. MaxRequests \in Nat
        BY CallAssumption DEF CallAssumption
      <4> QED
        BY <1>0, <1>1, <1>3, <2>2, <4>1 DEF SendStarts
    <3> QED
      BY <3>1, StartingCounts
  <2> QED
    BY <2>1, <2>2
<1>4. CASE Resolved(s)
  <2>1. s \in Counting
    BY <1>4 DEF Resolved, Counting, OnTheirWay
  <2>2. Shrinks
    BY <1>0, <1>4, <2>1, FailingShrinks, GoingShrinks DEF Resolved
  <2> QED
    BY <1>1, <1>2, <1>4, <2>2 DEF Resolved, CallTypeOK
<1>5. CASE SecureConnect(s)
  <2>1. s \in Counting
    BY <1>5 DEF SecureConnect, Counting, OnTheirWay
  <2>2. CASE Fails(s, "egress")
    <3>1. Shrinks
      BY <1>0, <1>5, <2>2, FailingShrinks DEF SecureConnect
    <3> QED
      BY <1>1, <1>2, <1>5, <3>1 DEF SecureConnect, CallTypeOK
  <2>3. CASE ~Fails(s, "egress")
    <3> DEFINE row == [sends[s] EXCEPT !.phase = "sent", !.wire = TRUE]
    <3>1. row \in SendRow /\ row.phase = "sent"
      BY <1>0, <1>1 DEF SendRow
    <3>2. sends' = [sends EXCEPT ![s] = row]
      BY <1>5, <2>3 DEF SecureConnect
    <3> HIDE DEF row
    <3>3. Shrinks
      BY <1>5, <2>1, <3>1, <3>2, OneSend DEF SecureConnect
    <3> QED
      BY <1>1, <1>2, <1>5, <3>3 DEF SecureConnect, CallTypeOK
  <2> QED
    BY <2>2, <2>3
<1>6. CASE Respond(s)
  <2>1. s \in Counting
    BY <1>6 DEF Respond, Counting, OnTheirWay
  <2>2. Shrinks
    BY <1>0, <1>6, <2>1, FailingShrinks, GoingShrinks DEF Respond
  <2> QED
    BY <1>1, <1>2, <1>6, <2>2 DEF Respond, CallTypeOK
<1>7. CASE Connect(s)
  <2>1. s \in Counting
    BY <1>7 DEF Connect, Counting, OnTheirWay
  <2>2. Shrinks
    BY <1>0, <1>7, <2>1, FailingShrinks, GoingShrinks DEF Connect
  <2> QED
    BY <1>1, <1>2, <1>7, <2>2 DEF Connect, CallTypeOK
<1>8. CASE Finish(s)
  <2>1. Shrinks
    BY <1>0, <1>8, FailingShrinks, GoingShrinks DEF Finish, OnTheirWay
  <2> QED
    BY <1>1, <1>2, <1>8, <2>1 DEF Finish, CallTypeOK
<1>9. CASE Catch(s)
  <2>1. violation \in BOOLEAN /\ violation' = (violation \/ sends[s].error # "limit")
    BY <1>1, <1>9 DEF Catch, CallTypeOK
  <2>2. PICK phase \in {"tooLarge", "rejected"} :
          Goes(s, phase) /\ (phase = "rejected" => sends[s].error # "limit")
    BY <1>9 DEF Catch
  <2>3. Shrinks
    BY <1>0, <2>1, <2>2, GoingShrinks DEF OnTheirWay
  <2> QED
    BY <1>1, <1>2, <1>9, <2>1, <2>3 DEF Catch, CallTypeOK
<1> QED
  BY <1>3, <1>4, <1>5, <1>6, <1>7, <1>8, <1>9 DEF Reaction

(* No step loses the budget or forgets a rejection.                        *)
LEMMA CallStep == CallInv /\ [CallNext]_callVars => CallInv'
<1> SUFFICES ASSUME CallInv, [CallNext]_callVars PROVE CallInv'
  OBVIOUS
<1>1. CallTypeOK /\ requests \in Nat
  BY DEF CallInv, CallTypeOK
<1>2. ASSUME UNCHANGED <<sends, violation>> PROVE Shrinks
  BY <1>1, <1>2 DEF Shrinks, CallTypeOK, Counting, CallInv, At
<1>3. ASSUME Shrinks, UNCHANGED <<requests, violation>>, run' \in Run,
             {aborted', timedOut', deadline'} \subseteq BOOLEAN,
             completion' \in Completion \cup {NoCompletion},
             run' \in {"preparing", "prepared", "running"} => completion' = NoCompletion
      PROVE  CallInv'
  BY <1>1, <1>3, ShrinkingKeeps DEF CallTypeOK
<1>4. CASE UNCHANGED callVars
  BY <1>1, <1>2, <1>3, <1>4 DEF callVars, CallTypeOK, CallInv
<1>5. CASE Prepare \/ Dispatched
  BY <1>1, <1>2, <1>3, <1>5 DEF Prepare, Dispatched, CallTypeOK, CallInv, Run
<1>6. CASE HeartbeatAborts
  BY <1>1, <1>3, <1>6, ListenersOK DEF HeartbeatAborts, CallTypeOK, CallInv
<1>7. CASE ExecutionTimesOut
  BY <1>1, <1>3, <1>7, ListenersOK DEF ExecutionTimesOut, CallTypeOK, CallInv
<1>8. CASE TransportTimesOut
  BY <1>1, <1>3, <1>8, ListenersOK DEF TransportTimesOut, CallTypeOK, CallInv
<1>9. CASE EndRun
  BY <1>1, <1>3, <1>9, ListenersOK DEF EndRun, CallTypeOK, Run
<1>10. ASSUME NEW status \in Status, HandsIn(status)
       PROVE  CallInv'
  BY <1>1, <1>2, <1>3, <1>10, CompletionType DEF HandsIn, CallTypeOK, Run
<1>11. CASE (\E status \in Status : SdkReturns(status)) \/ SdkThrows
  <2>1. PICK status \in Status : HandsIn(status)
    BY <1>11 DEF SdkReturns, SdkThrows, Status
  <2> QED
    BY <1>10, <2>1
<1>12. CASE \E s \in Send : \/ SendStarts(s) \/ Resolved(s) \/ SecureConnect(s)
                            \/ Respond(s) \/ Reaction(s)
  BY <1>12, RequestStep
<1> QED
  BY <1>4, <1>5, <1>6, <1>7, <1>8, <1>9, <1>11, <1>12 DEF CallNext

(* The invariant holds of every call.                                      *)
THEOREM CallInvariant == CallSpec => []CallInv
BY CallStart, CallStep, PTL DEF CallSpec

(* However many requests the SDK sends, and however they overlap, no more  *)
(* of them are written than the plan's budget allows (transport.ts:100).   *)
THEOREM CallsStayWithinBudget == CallSpec => []CallsWithinBudget
<1>1. CallInv => CallsWithinBudget
  <2> SUFFICES ASSUME CallInv PROVE CallsWithinBudget
    OBVIOUS
  <2> DEFINE W == {s \in Send : sends[s].wire}
  <2>1. W \subseteq Counting /\ Counting \in SUBSET Send /\ W \in SUBSET Send
    BY DEF Counting
  <2>2. Cardinality(W) <= Cardinality(Counting)
    BY <2>1, SendsFinite, FS_Subset
  <2>3. Cardinality(W) \in Nat /\ Cardinality(Counting) \in Nat /\ MaxRequests \in Nat
    BY <2>1, SendsFinite, CallAssumption DEF CallAssumption
  <2>4. Cardinality(Counting) <= MaxRequests
    BY DEF CallInv
  <2>5. Cardinality(W) <= MaxRequests
    <3> HIDE DEF W
    <3> QED
      BY <2>2, <2>3, <2>4
  <2> QED
    BY <2>5 DEF CallsWithinBudget
<1> QED
  BY <1>1, CallInvariant, PTL

(* A rejection the transport has seen when the SDK returns is what the job *)
(* is handed in for, unless the worker gave the call up; and once handed   *)
(* in, the completion stays (bridge.ts:78, worker.ts:36-46).               *)
THEOREM RejectionsAreReported == CallSpec => RejectionIsReported
<1>1. CallInv /\ [CallNext]_callVars
        => [completion' # completion =>
              /\ (\E s \in Send : At(s, "rejected")) =>
                   \/ completion'.error = "PROVIDER_UNAVAILABLE"
                   \/ aborted /\ completion'.error = "CANCELLED"
              /\ completion = NoCompletion]_callVars
  <2> SUFFICES ASSUME CallInv, CallNext, completion' # completion
               PROVE  /\ (\E s \in Send : At(s, "rejected")) =>
                           \/ completion'.error = "PROVIDER_UNAVAILABLE"
                           \/ aborted /\ completion'.error = "CANCELLED"
                      /\ completion = NoCompletion
    OBVIOUS
  <2>1. (\E s \in Send : At(s, "rejected")) => violation
    BY DEF CallInv
  <2>2. (\E status \in Status : SdkReturns(status)) \/ SdkThrows
    BY DEF CallNext, Prepare, Dispatched, HeartbeatAborts, ExecutionTimesOut, TransportTimesOut,
           EndRun, SendStarts, Resolved, SecureConnect, Respond, Reaction, Connect, Finish, Catch
  <2>3. violation => \/ completion' = CompletionOf("failed")
                     \/ aborted /\ completion' = CompletionOf("cancelled")
    BY <2>2 DEF SdkReturns, SdkThrows, HandsIn
  <2>4. completion = NoCompletion
    BY <2>2 DEF SdkReturns, SdkThrows, HandsIn, CallInv
  <2>5. /\ CompletionOf("failed").error = "PROVIDER_UNAVAILABLE"
        /\ CompletionOf("cancelled").error = "CANCELLED"
    BY DEF CompletionOf
  <2> QED
    BY <2>1, <2>3, <2>4, <2>5
<1> QED
  BY <1>1, CallInvariant, PTL DEF CallSpec, RejectionIsReported
-----------------------------------------------------------------------------
(* Once the signal of the requests has fired, none of them waits for the   *)
(* resolver, a connection or a response: what is not settled has a         *)
(* reaction that is due.                                                   *)
NobodyListens == Cut => \A s \in Send : sends[s].phase \notin Listening

(* There are no requests before the SDK is called.                         *)
NoneBefore == ~SdkCalled => \A s \in Send : At(s, "none")

(* What is settled stays as it is.                                         *)
SettledStays(s) == sends[s].phase \in Settled => sends'[s] = sends[s]

GoesOn == NobodyListens' /\ NoneBefore' /\ \A s \in Send : SettledStays(s)

(* The signal fires, or fires again.                                       *)
LEMMA ListenersGo ==
  ASSUME CallTypeOK, NobodyListens, NoneBefore, Listeners, SdkCalled' = SdkCalled
  PROVE  GoesOn
<1>1. ASSUME NEW s \in Send
      PROVE  /\ sends'[s].phase \notin Listening
             /\ SettledStays(s)
             /\ At(s, "none") => sends'[s] = sends[s]
  <2>1. CASE Cut
    BY <2>1 DEF Listeners, NobodyListens, SettledStays
  <2>2. CASE ~Cut /\ sends[s].phase \in Listening
    <3>1. sends[s] \in SendRow
      BY DEF CallTypeOK
    <3>2. sends'[s] = [sends[s] EXCEPT !.phase = "failing", !.error = "egress"]
      BY <2>2 DEF Listeners
    <3>3. sends'[s].phase = "failing"
      BY <3>1, <3>2 DEF SendRow
    <3> QED
      BY <2>2, <3>3 DEF Listening, Settled, SettledStays, At
  <2>3. CASE ~Cut /\ sends[s].phase \notin Listening
    BY <2>3 DEF Listeners, SettledStays
  <2> QED
    BY <2>1, <2>2, <2>3
<1> QED
  BY <1>1 DEF GoesOn, NobodyListens, NoneBefore, At

(* One request goes on; it starts to listen only if nothing has fired.     *)
LEMMA OneGoes ==
  ASSUME CallTypeOK, NobodyListens, NoneBefore, NEW s \in Send, NEW phase,
         UNCHANGED <<run, aborted, timedOut, deadline, completion>>, SdkCalled,
         sends[s].phase \notin Settled,
         \/ /\ Goes(s, phase)
            /\ phase \in Listening => ~Cut
         \/ \E error \in Failure : Fails(s, error)
         \/ ~Cut /\ sends' = [sends EXCEPT ![s].phase = "sent", ![s].wire = TRUE]
  PROVE  GoesOn
<1>1. \A t \in Send \ {s} : sends'[t] = sends[t]
  BY DEF Goes, Fails, CallTypeOK
<1>2. sends[s] \in SendRow /\ Cut' = Cut
  BY DEF CallTypeOK, Cut
<1>3. Cut => sends'[s].phase \notin Listening
  BY <1>2 DEF Goes, Fails, CallTypeOK, SendRow, Listening
<1>4. NobodyListens'
  BY <1>1, <1>2, <1>3 DEF NobodyListens
<1> QED
  BY <1>1, <1>4 DEF SettledStays, GoesOn, NoneBefore, SdkCalled

(* A step of one request.                                                  *)
LEMMA RequestGoes ==
  ASSUME CallTypeOK, NobodyListens, NoneBefore, NEW s \in Send,
         SendStarts(s) \/ Resolved(s) \/ SecureConnect(s) \/ Respond(s) \/ Reaction(s)
  PROVE  GoesOn
<1>1. /\ UNCHANGED <<run, aborted, timedOut, deadline, completion>>
      /\ sends[s].phase \notin Settled
  BY DEF SendStarts, Resolved, SecureConnect, Respond, Reaction, Connect, Finish, Catch, At, Settled
<1>2. SdkCalled
  BY DEF NoneBefore, SendStarts, Resolved, SecureConnect, Respond, Reaction, Connect, Finish,
         Catch, At
<1>3. \/ \E phase : Goes(s, phase) /\ (phase \in Listening => ~Cut)
      \/ \E error \in Failure : Fails(s, error)
      \/ ~Cut /\ sends' = [sends EXCEPT ![s].phase = "sent", ![s].wire = TRUE]
  <2>1. CASE SendStarts(s)
    BY <2>1 DEF SendStarts, Failure, Listening
  <2>2. CASE Resolved(s)
    BY <2>2 DEF Resolved, Failure, Listening
  <2>3. CASE SecureConnect(s) \/ Respond(s)
    BY <2>3 DEF SecureConnect, Respond, Failure, Listening
  <2>4. CASE Connect(s) \/ Finish(s)
    BY <2>4 DEF Connect, Finish, Failure, Listening
  <2>5. CASE Catch(s)
    BY <2>5 DEF Catch, Listening
  <2> QED
    BY <2>1, <2>2, <2>3, <2>4, <2>5 DEF Reaction
<1> QED
  BY <1>1, <1>2, <1>3, OneGoes

(* Every step of a call.                                                   *)
LEMMA CallGoesOn ==
  ASSUME CallInv, NobodyListens, NoneBefore, [CallNext]_callVars
  PROVE  GoesOn
<1>1. CallTypeOK
  BY DEF CallInv
<1>2. CASE Prepare \/ Dispatched
  <2>1. ~SdkCalled /\ \A s \in Send : At(s, "none")
    BY <1>2 DEF Prepare, Dispatched, CallInv, SdkCalled, NoneBefore
  <2>2. sends' = sends
    BY <1>2 DEF Prepare, Dispatched
  <2> QED
    BY <2>1, <2>2 DEF NobodyListens, NoneBefore, GoesOn, SettledStays, Listening, At
<1>3. CASE HeartbeatAborts \/ ExecutionTimesOut \/ TransportTimesOut \/ EndRun
  <2>1. SdkCalled' = SdkCalled
    BY <1>3 DEF HeartbeatAborts, ExecutionTimesOut, TransportTimesOut, EndRun, SdkCalled
  <2> QED
    BY <1>1, <1>3, <2>1, ListenersGo
    DEF HeartbeatAborts, ExecutionTimesOut, TransportTimesOut, EndRun
<1>4. CASE (\E status \in Status : SdkReturns(status)) \/ SdkThrows
  <2>1. PICK status \in Status : HandsIn(status)
    BY <1>4 DEF SdkReturns, SdkThrows, Status
  <2>2. completion' # NoCompletion
    BY <2>1 DEF HandsIn, CompletionOf, NoCompletion, Status
  <2> QED
    BY <2>1, <2>2 DEF HandsIn, NobodyListens, NoneBefore, SdkCalled, GoesOn, SettledStays, Cut
<1>5. CASE \E s \in Send : \/ SendStarts(s) \/ Resolved(s) \/ SecureConnect(s)
                           \/ Respond(s) \/ Reaction(s)
  BY <1>1, <1>5, RequestGoes
<1>6. CASE UNCHANGED callVars
  BY <1>6 DEF callVars, NobodyListens, NoneBefore, GoesOn, SettledStays, Cut, At, SdkCalled
<1> QED
  BY <1>2, <1>3, <1>4, <1>5, <1>6 DEF CallNext

(* Whenever the signal fired, between whichever two awaits of a request,   *)
(* nobody is left listening for what may never come; and what was settled  *)
(* is settled once (transport.ts:20-76, address.ts:38-55).  It is what     *)
(* EverySendSettles needs of the steps themselves.                         *)
THEOREM SignalsAreHeard ==
  CallSpec => /\ []NobodyListens
              /\ [][\A s \in Send : SettledStays(s)]_callVars
<1>1. CallInit => NobodyListens /\ NoneBefore
  BY DEF CallInit, NobodyListens, NoneBefore, Cut, At, SdkCalled
<1>2. CallInv /\ NobodyListens /\ NoneBefore /\ [CallNext]_callVars =>
        NobodyListens' /\ NoneBefore' /\ [\A s \in Send : SettledStays(s)]_callVars
  BY CallGoesOn DEF GoesOn
<1> QED
  BY <1>1, <1>2, CallInvariant, PTL DEF CallSpec
=============================================================================
