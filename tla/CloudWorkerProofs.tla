-------------------------- MODULE CloudWorkerProofs --------------------------
(***************************************************************************)
(* The workers and the store together, for any number of workers and jobs: *)
(* the provider is called at most once for a job, never for free, and the  *)
(* whole implements JobContract.                                           *)
(*                                                                         *)
(* Every step of a worker is a step of the store, or leaves it alone, so   *)
(* the store's invariant holds here too.  What connects the workers with   *)
(* the store is the dispatch on record: ContractPermitted(j) of a job for  *)
(* which a call was made or is about to be made.  It is taken back by no   *)
(* step, and given only once, which is why a worker that stands at its     *)
(* call is alone there (CallsOK).                                          *)
(*                                                                         *)
(* Service puts the tables of the administration in the place of the sets  *)
(* the store reads.  What it does to them is among the changes these may   *)
(* undergo, so all this holds over the tables too; and what is identified  *)
(* in the sets has a key that works in the tables.                         *)
(***************************************************************************)
EXTENDS Service, JobStoreProofs

(* A call is made once its dispatch is on record, by the one worker that   *)
(* recorded it; a result is handed in after a call.                        *)
CallsOK ==
  /\ \A j \in Job : executions[j] \in {0, 1}
  /\ \A j \in Job : executions[j] = 1 => ContractPermitted(j)
  /\ \A w \in Worker : stage[w] = "dispatched" =>
       executions[JobOf(w)] = 0 /\ ContractPermitted(JobOf(w))
  /\ \A v, w \in Worker : stage[v] = "dispatched" /\ stage[w] = "dispatched" /\ JobOf(v) = JobOf(w)
       => v = w
  /\ \A w \in Worker : stage[w] \in {"executing", "returned"} => executions[JobOf(w)] = 1

(* What a step of the store may do to a job, as the contract sees it.      *)
Keeps(j) ==
  /\ ContractOutcome(j)' = ContractOutcome(j)
  /\ ContractPermitted(j)' = ContractPermitted(j)
  /\ reservations'[j].state = reservations[j].state

Submits(j) ==
  /\ ContractOutcome(j) = "none" /\ ContractOutcome(j)' = "open"
  /\ ~ContractPermitted(j) /\ ~ContractPermitted(j)'
  /\ reservations'[j].state = "reserved"

Permits(j) ==
  /\ ContractOutcome(j) = "open" /\ ContractOutcome(j)' = "open"
  /\ ~ContractPermitted(j) /\ ContractPermitted(j)'
  /\ reservations'[j].state = reservations[j].state

Closes(j) ==
  /\ ContractOutcome(j) = "open" /\ ContractOutcome(j)' \in Terminal
  /\ ContractPermitted(j)' = ContractPermitted(j)
  /\ ContractPermitted(j) => reservations'[j].state = "settled"
  /\ ~ContractPermitted(j) => reservations'[j].state = "released"

Forgets(j) ==
  /\ ContractOutcome(j) \in Terminal /\ ContractOutcome(j)' = "forgotten"
  /\ ContractPermitted(j)' = ContractPermitted(j)
  /\ reservations'[j].state = reservations[j].state

(* One job at most is concerned.                                           *)
StoreKind ==
  \/ \A j \in Job : Keeps(j)
  \/ \E j \in Job : /\ \A i \in Job \ {j} : Keeps(i)
                    /\ \/ Submits(j) \/ Forgets(j)
                       \/ Closes(j) /\ ContractOutcome(j)' # "succeeded"
-----------------------------------------------------------------------------
(* A job that is not touched keeps its view.                               *)
LEMMA UntouchedKeeps ==
  ASSUME NEW j \in Job, Untouched(j)
  PROVE  Keeps(j)
BY DEF Untouched, Keeps, ContractOutcome, ContractPermitted, Active, Ended

(* The view of an open job, and of one that has ended.                     *)
LEMMA OpenView ==
  ASSUME NEW j \in Job, Active(j)
  PROVE  ContractOutcome(j) = "open" /\ ContractPermitted(j) = jobs[j].dispatched
BY DEF ContractOutcome, ContractPermitted

(* An ended job is seen as closed, and permitted if it was dispatched.     *)
LEMMA EndedView ==
  ASSUME NEW j \in Job, Ended(j)
  PROVE  /\ ContractOutcome(j) = jobs[j].state /\ ContractOutcome(j) \in Terminal
         /\ ContractPermitted(j) = jobs[j].dispatched
BY DEF ContractOutcome, ContractPermitted, Active, Ended, Terminal

(* The permission is a truth value.                                        *)
PermissionTyped == \A j \in Job : ContractPermitted(j) \in BOOLEAN

(* The row of a job that is there says whether it was dispatched.          *)
LEMMA PermittedBoolean == RowsOK => PermissionTyped
<1> SUFFICES ASSUME RowsOK, NEW j \in Job
             PROVE  ContractPermitted(j) \in BOOLEAN
  BY DEF PermissionTyped
<1>1. Active(j) \/ Ended(j) => jobs[j] \in JobRow
  BY RowOf
<1>2. Active(j) \/ Ended(j) => jobs[j].dispatched \in BOOLEAN
  BY <1>1 DEF JobRow
<1> QED
  BY <1>2 DEF ContractPermitted

(* finish() closes a job.                                                  *)
LEMMA FinishCloses ==
  ASSUME StoreInv, NEW j \in Job, Active(j), NEW row \in JobRow, NEW state \in Terminal,
         NEW envelope \in Terminal \cup {None}, Finish(j, row, state, envelope),
         row.dispatched = jobs[j].dispatched, StepOK(j)
  PROVE  Closes(j) /\ ContractOutcome(j)' = state
<1>1. jobs'[j] = [row EXCEPT !.state = state, !.envelope = envelope,
                    !.expiry = "ahead", !.leaseOwner = 0, !.lease = "ahead", !.queue = "ahead"]
  BY FinishRows DEF StoreInv
<1>2. jobs'[j].state = state /\ jobs'[j].dispatched = jobs[j].dispatched
  BY <1>1 DEF JobRow
<1>3. Ended(j)' /\ ~Active(j)' /\ ClosedJob(j)'
  BY <1>2 DEF Ended, Active, Terminal, StepOK, JobOK
<1>4. ContractOutcome(j)' = state /\ ContractPermitted(j)' = jobs[j].dispatched
  BY <1>2, <1>3 DEF ContractOutcome, ContractPermitted
<1>5. ContractOutcome(j) = "open" /\ ContractPermitted(j) = jobs[j].dispatched
  BY OpenView
<1>6. /\ jobs[j].dispatched => reservations'[j].state = "settled"
      /\ ~jobs[j].dispatched => reservations'[j].state = "released"
  BY <1>2, <1>3 DEF ClosedJob
<1> QED
  BY <1>4, <1>5, <1>6 DEF Closes

(* The calls that end a job close it, and only complete() as a success.    *)
LEMMA EndingCloses ==
  ASSUME StoreInv, NEW j \in Job, NEW token,
         \/ Cancel(j) /\ jobs[j].state = "queued"
         \/ ClaimExpired(j)
         \/ DispatchCancelled(j, token)
         \/ DispatchRevoked(j, token)
         \/ FailPreparation(j, token)
         \/ GiveUp(j)
  PROVE  /\ Closes(j) /\ ContractOutcome(j)' # "succeeded"
         /\ \A i \in Job \ {j} : Keeps(i)
<1>1. StepOK(j) /\ \A i \in Job \ {j} : Untouched(i)
  BY EndingOK
<1>2. Active(j) => jobs[j] \in JobRow
  BY RowOf DEF StoreInv
<1>3. ASSUME Active(j), NEW row \in JobRow, NEW state \in {"failed", "cancelled"},
             Finish(j, row, state, None), row.dispatched = jobs[j].dispatched
      PROVE  Closes(j) /\ ContractOutcome(j)' # "succeeded"
  <2>1. state \in Terminal /\ None \in Terminal \cup {None} /\ state # "succeeded"
    BY DEF Terminal
  <2> QED
    BY <1>1, <1>3, <2>1, FinishCloses
<1>4. CASE Cancel(j) /\ jobs[j].state = "queued"
  <2> DEFINE row == [jobs[j] EXCEPT !.cancel = TRUE]
  <2>1. Active(j) /\ jobs[j] \in JobRow
    BY <1>2, <1>4 DEF Cancel
  <2>2. row \in JobRow /\ row.state = "queued" /\ row.dispatched = jobs[j].dispatched
    BY <1>4, <2>1 DEF JobRow
  <2>3. Finish(j, row, "cancelled", None)
    BY <1>4, <2>2 DEF Cancel
  <2> QED
    BY <1>1, <1>3, <2>1, <2>2, <2>3, UntouchedKeeps
<1>5. CASE ClaimExpired(j)
  BY <1>1, <1>2, <1>3, <1>5, UntouchedKeeps DEF ClaimExpired, NextInQueue, Active
<1>6. CASE DispatchCancelled(j, token)
  BY <1>1, <1>2, <1>3, <1>6, UntouchedKeeps DEF DispatchCancelled, MayDispatch, ValidLease, Active
<1>7. CASE DispatchRevoked(j, token)
  BY <1>1, <1>2, <1>3, <1>7, UntouchedKeeps DEF DispatchRevoked, MayDispatch, ValidLease, Active
<1>8. CASE FailPreparation(j, token)
  BY <1>1, <1>2, <1>3, <1>8, UntouchedKeeps DEF FailPreparation, MayDispatch, ValidLease, Active
<1>9. CASE GiveUp(j)
  BY <1>1, <1>2, <1>3, <1>9, UntouchedKeeps, WrittenJob DEF GiveUp, StoreInv
<1> QED
  BY <1>4, <1>5, <1>6, <1>7, <1>8, <1>9

(* complete() closes the job it is called for, and no other.               *)
LEMMA CompleteCloses ==
  ASSUME StoreInv, NEW j \in Job, NEW token, NEW c \in Completion, Complete(j, token, c)
  PROVE  Closes(j) /\ \A i \in Job \ {j} : Keeps(i)
<1>1. StepOK(j) /\ \A i \in Job \ {j} : Untouched(i)
  BY EndingOK
<1>2. Outcome(j, c) \in Terminal /\ Envelope(j, c) \in Terminal \cup {None}
  BY OutcomeType
<1>3. Active(j) /\ Finish(j, jobs[j], Outcome(j, c), Envelope(j, c))
  BY DEF Complete, ValidLease, Active
<1>4. jobs[j] \in JobRow
  BY <1>3, RowOf DEF StoreInv
<1>5. Closes(j)
  BY <1>1, <1>2, <1>3, <1>4, FinishCloses
<1> QED
  BY <1>1, <1>5, UntouchedKeeps

(* A call that leaves the job open, and what it was allowed.               *)
LEMMA StaysOpenKeeps ==
  ASSUME NEW j \in Job, Active(j), NEW row \in JobRow, jobs'[j] = row,
         row.state \in {"queued", "running"}, row.dispatched = jobs[j].dispatched,
         reservations'[j] = reservations[j]
  PROVE  Keeps(j)
<1>1. Active(j)'
  BY DEF Active
<1>2. ContractOutcome(j)' = "open" /\ ContractPermitted(j)' = jobs[j].dispatched
  BY <1>1 DEF ContractOutcome, ContractPermitted
<1> QED
  BY <1>2, OpenView DEF Keeps

(* A change of an ended job that leaves its end.                           *)
LEMMA StaysEndedKeeps ==
  ASSUME NEW j \in Job, Ended(j), NEW row \in JobRow, jobs'[j] = row,
         row.state = jobs[j].state, row.dispatched = jobs[j].dispatched,
         reservations'[j] = reservations[j]
  PROVE  Keeps(j)
<1>1. Ended(j)' /\ ~Active(j)'
  BY DEF Ended, Active, Terminal
<1>2. ContractOutcome(j)' = jobs[j].state /\ ContractPermitted(j)' = jobs[j].dispatched
  BY <1>1 DEF ContractOutcome, ContractPermitted
<1> QED
  BY <1>2, EndedView DEF Keeps

(* The calls that rewrite one row change nothing that the contract sees,   *)
(* except the dispatch.                                                    *)
LEMMA RowCallsKeep ==
  ASSUME StoreInv, NEW j \in Job, NEW token,
         \/ Cancel(j) /\ jobs[j].state # "queued"
         \/ Claim(j)
         \/ Heartbeat(j, token)
         \/ Requeue(j)
         \/ LeaseRunsOut(j) \/ QueueRunsOut(j) \/ RetentionRunsOut(j)
         \/ Purge(j)
  PROVE  \A i \in Job : Keeps(i)
<1>1. ChangesRow(j)
  BY RowCalls DEF StoreInv
<1>2. reservations'[j] = reservations[j] /\ jobs \in [Job -> JobRow \cup {AbsentJob, DeletedJob}]
  BY <1>1 DEF ChangesRow, ledgerVars, StoreInv, RowsOK
<1>3. PICK row \in JobRow : jobs' = [jobs EXCEPT ![j] = row]
  BY <1>1 DEF ChangesRow
<1>4. jobs'[j] = row
  BY <1>2, <1>3
<1>5. Active(j) \/ Ended(j) => jobs[j] \in JobRow
  BY RowOf DEF StoreInv
<1>6. \A i \in Job \ {j} : Keeps(i)
  BY RowCallsOK, UntouchedKeeps
<1>7. CASE \/ Cancel(j) /\ jobs[j].state # "queued"
           \/ Claim(j)
           \/ Heartbeat(j, token)
           \/ Requeue(j)
           \/ LeaseRunsOut(j) \/ QueueRunsOut(j)
  <2>1. Active(j)
    BY <1>7, WrittenJob DEF Cancel, Claim, NextInQueue, Heartbeat, ValidLease, StoreInv,
                            LeaseRunsOut, QueueRunsOut, Active
  <2>2. jobs[j] \in JobRow
    BY <1>5, <2>1
  <2>3. row.state \in {"queued", "running"} /\ row.dispatched = jobs[j].dispatched
    <3>1. CASE Cancel(j) /\ jobs[j].state # "queued"
      <4>1. [jobs[j] EXCEPT !.cancel = TRUE].state = jobs[j].state
        BY <2>2 DEF JobRow
      <4>2. jobs'[j] = [jobs[j] EXCEPT !.cancel = TRUE]
        BY <1>2, <3>1, <4>1, <2>1 DEF Cancel, Active
      <4> QED
        BY <1>4, <2>1, <2>2, <4>2 DEF JobRow, Active
    <3>2. CASE Claim(j)
      BY <1>2, <1>4, <2>2, <3>2 DEF Claim, JobRow
    <3>3. CASE Heartbeat(j, token) \/ LeaseRunsOut(j)
      BY <1>2, <1>4, <2>2, <3>3 DEF Heartbeat, ValidLease, LeaseRunsOut, JobRow
    <3>4. CASE Requeue(j)
      BY <1>2, <1>4, <2>2, <3>4 DEF Requeue, JobRow
    <3>5. CASE QueueRunsOut(j)
      BY <1>2, <1>4, <2>1, <2>2, <3>5 DEF QueueRunsOut, JobRow, Active
    <3> QED
      BY <1>7, <3>1, <3>2, <3>3, <3>4, <3>5
  <2> QED
    BY <1>2, <1>4, <1>6, <2>1, <2>3, StaysOpenKeeps
<1>8. CASE RetentionRunsOut(j) \/ Purge(j)
  <2>1. Ended(j) /\ jobs[j] \in JobRow
    BY <1>5, <1>8 DEF RetentionRunsOut, Purge
  <2>2. row.state = jobs[j].state /\ row.dispatched = jobs[j].dispatched
    <3>1. CASE RetentionRunsOut(j)
      BY <1>2, <1>4, <2>1, <3>1 DEF RetentionRunsOut, JobRow
    <3>2. CASE Purge(j)
      <4>1. row = Purged(jobs[j])
        BY <1>2, <1>4, <3>2 DEF Purge
      <4> QED
        BY <2>1, <4>1 DEF Purged, JobRow
    <3> QED
      BY <1>8, <3>1, <3>2
  <2> QED
    BY <1>2, <1>4, <1>6, <2>1, <2>2, StaysEndedKeeps
<1> QED
  BY <1>7, <1>8

(* The recorded dispatch is the permission, given once.                    *)
LEMMA DispatchPermits ==
  ASSUME StoreInv, NEW j \in Job, NEW token, MarkDispatch(j, token)
  PROVE  Permits(j) /\ \A i \in Job \ {j} : Keeps(i)
<1>1. Active(j) /\ ~jobs[j].dispatched
  BY DEF MarkDispatch, MayDispatch, ValidLease, Active
<1>2. jobs[j] \in JobRow
  BY <1>1, RowOf DEF StoreInv
<1>3. /\ jobs'[j].state = jobs[j].state /\ jobs'[j].dispatched
      /\ reservations'[j] = reservations[j]
  BY <1>2 DEF MarkDispatch, StoreInv, RowsOK, JobRow, ledgerVars
<1>4. Active(j)'
  BY <1>1, <1>3 DEF Active
<1>5. ContractOutcome(j)' = "open" /\ ContractPermitted(j)'
  BY <1>3, <1>4 DEF ContractOutcome, ContractPermitted
<1>6. \A i \in Job \ {j} : Keeps(i)
  BY RowCallsOK, UntouchedKeeps
<1> QED
  BY <1>1, <1>3, <1>5, <1>6, OpenView DEF Permits

(* The deletion of an old job keeps its charge.                            *)
LEMMA DeletionForgets ==
  ASSUME StoreInv, NEW j \in Job, DeleteOld(j)
  PROVE  Forgets(j) /\ \A i \in Job \ {j} : Keeps(i)
<1>1. Ended(j) /\ ClosedJob(j)
  BY DEF StoreInv, JobOK, DeleteOld
<1>2. jobs'[j] = DeletedJob /\ UNCHANGED reservations
  BY DEF DeleteOld, EraseUsage, StoreInv, RowsOK
<1>3. ~Active(j)' /\ ~Ended(j)' /\ jobs'[j] # AbsentJob
  BY <1>2 DEF Active, Ended, Terminal, AbsentJob, DeletedJob
<1>4. ContractOutcome(j)' = "forgotten" /\ ContractPermitted(j)' = (reservations[j].state = "settled")
  BY <1>2, <1>3 DEF ContractOutcome, ContractPermitted
<1>5. jobs[j].dispatched \in BOOLEAN
  BY <1>1, RowOf DEF StoreInv, JobRow
<1>6. jobs[j].dispatched = (reservations[j].state = "settled")
  BY <1>1, <1>5 DEF ClosedJob
<1>7. \A i \in Job \ {j} : Keeps(i)
  BY DeleteOldOK, UntouchedKeeps
<1> QED
  BY <1>1, <1>2, <1>4, <1>6, <1>7, EndedView DEF Forgets

(* An admission opens its job, and changes the view of no other, although  *)
(* it may purge the job that held the key.                                 *)
LEMMA AdmissionSubmits ==
  ASSUME StoreInv, NEW p \in Principal, NEW j \in Job, NEW u \in Units,
         \/ AdmitSync(p, j, u)
         \/ \E i \in IdemKey : AdmitAsync(p, j, i, u)
  PROVE  Submits(j) /\ \A i \in Job \ {j} : Keeps(i)
<1>1. jobs[j].state = "absent" /\ Reserve(j, p, u)
  BY DEF AdmitSync, AdmitAsync, Admission
<1>2. jobs[j] = AbsentJob
  BY <1>1 DEF StoreInv, RowsOK, JobRow, Terminal, AbsentJob, DeletedJob
<1>3. ContractOutcome(j) = "none" /\ ~ContractPermitted(j)
  <2>1. ~Active(j) /\ ~Ended(j)
    BY <1>1 DEF Active, Ended, Terminal
  <2>2. reservations[j].state = "none"
    BY <1>2 DEF StoreInv, JobOK, NoReservation
  <2> QED
    BY <1>2, <2>1, <2>2 DEF ContractOutcome, ContractPermitted
<1>4. /\ reservations'[j].state = "reserved"
      /\ \A i \in Job \ {j} : reservations'[i] = reservations[i]
  BY <1>1, ReserveEffect DEF StoreInv
<1>5. ASSUME NEW d, NEW n, jobs'[j] = NewJob(p, d, n)
      PROVE  Submits(j)
  <2>1. jobs'[j].state = "queued" /\ jobs'[j].dispatched = FALSE
    BY <1>5 DEF NewJob
  <2>2. Active(j)'
    BY <2>1 DEF Active
  <2>3. ContractOutcome(j)' = "open" /\ ~ContractPermitted(j)'
    BY <2>1, <2>2 DEF ContractOutcome, ContractPermitted
  <2> QED
    BY <1>3, <1>4, <2>3 DEF Submits
<1>6. CASE AdmitSync(p, j, u)
  <2>1. PICK n \in Position : jobs' = [jobs EXCEPT ![j] = NewJob(p, "sync", n)]
    BY <1>6 DEF AdmitSync
  <2>2. jobs'[j] = NewJob(p, "sync", n) /\ artifacts' = artifacts
    BY <1>6, <2>1 DEF AdmitSync, StoreInv, RowsOK
  <2>3. \A i \in Job \ {j} : Untouched(i)
    BY <1>4, <2>1, <2>2 DEF StoreInv, RowsOK, Untouched
  <2> QED
    BY <1>5, <2>2, <2>3, UntouchedKeeps
<1>7. ASSUME NEW i \in IdemKey, AdmitAsync(p, j, i, u)
      PROVE  Submits(j) /\ \A k \in Job \ {j} : Keeps(k)
  <2> DEFINE prior == {k \in Job : idempotency[<<p.user, i>>] = k}
  <2>1. PICK n \in Position : jobs' = [k \in Job |->
               IF k = j THEN NewJob(p, "async", n)
               ELSE IF k \in prior THEN Purged(jobs[k]) ELSE jobs[k]]
    BY <1>7 DEF AdmitAsync
  <2>2. artifacts' = artifacts \ prior /\ \A k \in prior : Ended(k)
    BY <1>7 DEF AdmitAsync
  <2> HIDE DEF prior
  <2>3. ASSUME NEW k \in Job \ {j}, k \in prior
        PROVE  Keeps(k)
    <3>1. Ended(k) /\ jobs[k] \in JobRow
      BY <2>2, <2>3, RowOf DEF StoreInv
    <3>2. jobs'[k] = Purged(jobs[k]) /\ Purged(jobs[k]) \in JobRow
      BY <2>1, <2>3, <3>1, PurgedRow
    <3>3. Purged(jobs[k]).state = jobs[k].state /\ Purged(jobs[k]).dispatched = jobs[k].dispatched
      BY <3>1 DEF Purged, JobRow
    <3> QED
      BY <1>4, <3>1, <3>2, <3>3, StaysEndedKeeps
  <2>4. ASSUME NEW k \in Job \ {j}, k \notin prior
        PROVE  Keeps(k)
    <3>1. Untouched(k)
      BY <1>4, <2>1, <2>2, <2>4 DEF Untouched
    <3> QED
      BY <3>1, UntouchedKeeps
  <2>5. jobs'[j] = NewJob(p, "async", n)
    BY <2>1
  <2> QED
    BY <1>5, <2>3, <2>4, <2>5
<1> QED
  BY <1>6, <1>7

(* A step of the store but the two that speak of the work itself.          *)
QuietNext ==
  \/ Request
  \/ Maintenance
  \/ \E j \in Job : Claim(j)
  \/ \E j \in Job, token \in 1..MaxClaims :
       \/ Heartbeat(j, token) \/ FailPreparation(j, token)
       \/ DispatchCancelled(j, token) \/ DispatchRevoked(j, token)
  \/ Time

(* It is seen as the submission of a job, its deletion, an end without     *)
(* success, or not at all.                                                 *)
LEMMA QuietStep ==
  ASSUME StoreInv, QuietNext \/ UNCHANGED vars
  PROVE  StoreKind /\ [Next]_vars
<1>1. [Next]_vars
  BY DEF QuietNext, Next, LeaseCall
<1>2. ASSUME NEW p \in Principal, NEW j \in Job, NEW u \in Units,
             AdmitSync(p, j, u) \/ \E i \in IdemKey : AdmitAsync(p, j, i, u)
      PROVE  StoreKind
  BY <1>2, AdmissionSubmits DEF StoreKind
<1>3. ASSUME NEW j \in Job,
             (Cancel(j) /\ jobs[j].state = "queued") \/ ClaimExpired(j) \/ GiveUp(j)
      PROVE  StoreKind
  BY <1>3, EndingCloses DEF StoreKind
<1>4. ASSUME NEW j \in Job,
             \/ (Cancel(j) /\ jobs[j].state # "queued") \/ Claim(j) \/ Requeue(j) \/ Purge(j)
             \/ LeaseRunsOut(j) \/ QueueRunsOut(j) \/ RetentionRunsOut(j)
      PROVE  StoreKind
  BY <1>4, RowCallsKeep DEF StoreKind
<1>5. ASSUME NEW j \in Job, DeleteOld(j)
      PROVE  StoreKind
  BY <1>5, DeletionForgets DEF StoreKind
<1>6. ASSUME UNCHANGED <<jobs, reservations, artifacts>>
      PROVE  StoreKind
  BY <1>6, UntouchedKeeps DEF StoreKind, Untouched
<1>7. ASSUME NEW j \in Job, NEW token,
             \/ Heartbeat(j, token) \/ FailPreparation(j, token)
             \/ DispatchCancelled(j, token) \/ DispatchRevoked(j, token)
      PROVE  StoreKind
  BY <1>7, EndingCloses, RowCallsKeep DEF StoreKind
<1>8. CASE Request
  <2>1. ASSUME NEW k \in Key, ResetQuota(k)
        PROVE  StoreKind
    BY <1>6, <2>1 DEF ResetQuota, ResetKeyQuota, storeVars
  <2>2. ASSUME NEW live \in SUBSET Principal, ChangeKeys(live)
        PROVE  StoreKind
    BY <1>6, <2>2 DEF ChangeKeys, SetKeyQuota, ledgerVars
  <2>3. ASSUME NEW granted \in SUBSET (User \X Group), ChangeMembers(granted)
        PROVE  StoreKind
    BY <1>6, <2>3 DEF ChangeMembers, SetDailyQuota, ledgerVars
  <2>4. ASSUME NEW j \in Job, Cancel(j)
        PROVE  StoreKind
    BY <1>3, <1>4, <2>4
  <2> QED
    BY <1>1, <1>2, <1>8, <2>1, <2>2, <2>3, <2>4 DEF Request
<1>9. CASE Maintenance
  <2>1. ASSUME NEW j \in Job, ReconcileReads(j)
        PROVE  StoreKind
    BY <1>6, <2>1 DEF ReconcileReads, ledgerVars
  <2>2. ReconcileFails => StoreKind
    BY <1>6 DEF ReconcileFails, ledgerVars
  <2> QED
    BY <1>1, <1>3, <1>4, <1>5, <1>9, <2>1, <2>2 DEF Maintenance, ReconcileWrites
<1>10. CASE Time
  <2>1. Midnight => StoreKind
    BY <1>6 DEF Midnight, NextDay, storeVars
  <2> QED
    BY <1>1, <1>4, <1>10, <2>1 DEF Time
<1>11. CASE UNCHANGED vars
  BY <1>1, <1>6, <1>11 DEF vars, storeVars, ledgerVars
<1> QED
  BY <1>1, <1>4, <1>7, <1>8, <1>9, <1>10, <1>11 DEF QuietNext
-----------------------------------------------------------------------------
(* What the contract sees of a step in which the provider is not called.   *)
Seen ==
  \/ \A j \in Job : Keeps(j)
  \/ \E j \in Job : /\ \A i \in Job \ {j} : Keeps(i)
                    /\ \/ Submits(j) \/ Permits(j) \/ Forgets(j)
                       \/ Closes(j) /\ (ContractOutcome(j)' = "succeeded" => executions[j] = 1)

(* Nobody comes to the point where the provider may be called.             *)
Resting ==
  /\ executions' = executions
  /\ \A v \in Worker : stage'[v] \in {"dispatched", "executing", "returned"} =>
       /\ JobOf(v)' = JobOf(v)
       /\ \/ stage'[v] = stage[v]
          \/ stage[v] = "executing" /\ stage'[v] = "returned"

(* A worker is told that its dispatch is recorded.                         *)
Permitted(w) ==
  /\ stage[w] = "prepared"
  /\ MarkDispatch(JobOf(w), TokenOf(w))
  /\ Advance(w, "dispatched")

(* Every kind of step of the store is one the contract can see.            *)
LEMMA KindSeen ==
  ASSUME StoreKind
  PROVE  Seen
BY DEF StoreKind, Seen

(* A worker that starts over forgets its claim.                            *)
LEMMA GoIdleOK ==
  ASSUME WorkerTypeOK, NEW w \in Worker, GoIdle(w)
  PROVE  WorkerTypeOK' /\ Resting
<1>1. NoClaim \in [job : Job \cup {None}, token : 0..MaxClaims]
  BY DEF NoClaim, MaxClaims
<1>2. WorkerTypeOK'
  BY <1>1 DEF WorkerTypeOK, GoIdle, Stage, JobOf, TokenOf
<1> QED
  BY <1>2 DEF WorkerTypeOK, GoIdle, Resting, JobOf

(* One that goes on keeps it.                                              *)
LEMMA AdvanceOK ==
  ASSUME WorkerTypeOK, NEW w \in Worker, stage[w] # "idle",
         NEW next \in {"prepared", "dispatched", "executing"},
         stage' = [stage EXCEPT ![w] = next], UNCHANGED <<claim, aborted, result>>,
         executions' \in [Job -> Nat]
  PROVE  WorkerTypeOK'
BY DEF WorkerTypeOK, Stage, JobOf, TokenOf

(* The timer changes nothing but the signal.                               *)
LEMMA SignalOK ==
  ASSUME WorkerTypeOK, NEW w \in Worker, NEW signal \in BOOLEAN,
         aborted' = [aborted EXCEPT ![w] = signal],
         UNCHANGED <<stage, claim, result, executions>>
  PROVE  WorkerTypeOK' /\ Resting
BY DEF WorkerTypeOK, Resting, JobOf, TokenOf

(* A step without the workers leaves them where they stand.                *)
LEMMA StillOK ==
  ASSUME WorkerTypeOK, UNCHANGED workerVars
  PROVE  WorkerTypeOK' /\ Resting
BY DEF WorkerTypeOK, Resting, JobOf, TokenOf, workerVars

(* A claim is given out with a token the store accepts: a job that waits   *)
(* has been given to fewer than MaxClaims workers.                         *)
LEMMA ClaimJobOK ==
  ASSUME StoreInv, WorkerTypeOK, NEW w \in Worker, ClaimJob(w)
  PROVE  WorkerTypeOK' /\ Resting /\ \E j \in Job : Claim(j)
<1>1. PICK j \in Job : /\ Claim(j)
                       /\ claim' = [claim EXCEPT ![w] = [job |-> j, token |-> jobs[j].claims + 1]]
  BY DEF ClaimJob
<1>2. Active(j) /\ jobs[j].state = "queued"
  BY <1>1 DEF Claim, NextInQueue, Active
<1>3. jobs[j].claims \in Nat /\ jobs[j].claims < MaxClaims
  BY <1>2, RowOf DEF StoreInv, JobOK, OpenJob, JobRow
<1>4. PICK n \in 1..MaxClaims : n = jobs[j].claims + 1
  BY <1>3 DEF MaxClaims
<1>5. claim' = [claim EXCEPT ![w] = [job |-> j, token |-> n]] /\ n \in 0..MaxClaims
  BY <1>1, <1>4 DEF MaxClaims
<1>6. stage[w] = "idle" /\ stage' = [stage EXCEPT ![w] = "claimed"]
      /\ UNCHANGED <<aborted, result, executions>>
  BY DEF ClaimJob
<1>7. WorkerTypeOK'
  BY <1>5, <1>6 DEF WorkerTypeOK, Stage, JobOf, TokenOf
<1>8. Resting
  BY <1>5, <1>6 DEF WorkerTypeOK, Resting, JobOf
<1> QED
  BY <1>1, <1>7, <1>8

(* Whatever the call comes back with is a result the store knows.          *)
LEMMA ReturnOK ==
  ASSUME WorkerTypeOK, NEW w \in Worker, Return(w)
  PROVE  WorkerTypeOK' /\ Resting /\ UNCHANGED vars
<1>1. /\ [state |-> "cancelled", artifact |-> None] \in Completion
      /\ [state |-> "failed", artifact |-> None] \in Completion
  BY DEF Completion, Terminal, None
<1>2. PICK c \in Completion : result' = [result EXCEPT ![w] = c]
  BY <1>1 DEF Return
<1>3. stage[w] = "executing" /\ stage' = [stage EXCEPT ![w] = "returned"]
      /\ UNCHANGED <<claim, aborted, executions>> /\ UNCHANGED vars
  BY DEF Return, StoreUnchanged
<1>4. WorkerTypeOK'
  BY <1>2, <1>3 DEF WorkerTypeOK, Stage, JobOf, TokenOf
<1>5. Resting
  BY <1>3 DEF WorkerTypeOK, Resting, JobOf
<1> QED
  BY <1>3, <1>4, <1>5

(* A lease call of a worker, made with the claim it was given.             *)
LEMMA HeldClaim ==
  ASSUME WorkerTypeOK, NEW w \in Worker, stage[w] # "idle"
  PROVE  JobOf(w) \in Job /\ TokenOf(w) \in 1..MaxClaims
BY DEF WorkerTypeOK

(* A recorded dispatch and a completion are steps of the store too.        *)
LEMMA LeaseCallIsNext ==
  ASSUME NEW j \in Job, NEW token \in 1..MaxClaims, LeaseCall(j, token)
  PROVE  [Next]_vars
BY DEF Next

(* Every step of the whole: nobody comes to its call, or one worker is     *)
(* told that it may call, or one calls.                                    *)
LEMMA WorkerStep ==
  ASSUME StoreInv, WorkerTypeOK, CallsOK, [WorkerNext]_allVars
  PROVE  /\ WorkerTypeOK' /\ [Next]_vars
         /\ \/ Resting /\ Seen
            \/ \E w \in Worker : Permitted(w)
            \/ \E w \in Worker : Execute(w)
<1> DEFINE Quiet == QuietNext \/ UNCHANGED vars
<1>1. Quiet => Seen /\ [Next]_vars
  BY QuietStep, KindSeen
<1>2. ASSUME NEW w \in Worker, Maintain(w)
      PROVE  WorkerTypeOK' /\ Resting /\ Quiet
  BY <1>2, StillOK DEF Maintain, QuietNext
<1>3. ASSUME NEW w \in Worker, ClaimJob(w)
      PROVE  WorkerTypeOK' /\ Resting /\ Quiet
  BY <1>3, ClaimJobOK DEF QuietNext
<1>4. ASSUME NEW w \in Worker, Prepare(w)
      PROVE  WorkerTypeOK' /\ Resting /\ Quiet
  <2>1. /\ stage[w] = "claimed" /\ stage' = [stage EXCEPT ![w] = "prepared"]
        /\ UNCHANGED <<claim, aborted, result, executions>> /\ UNCHANGED vars
    BY <1>4 DEF Prepare, Advance, StoreUnchanged
  <2>2. WorkerTypeOK'
    BY <2>1, AdvanceOK DEF WorkerTypeOK
  <2> QED
    BY <2>1, <2>2 DEF WorkerTypeOK, Resting, JobOf
<1>5. ASSUME NEW w \in Worker, PrepareFails(w)
      PROVE  WorkerTypeOK' /\ Resting /\ Quiet
  <2>1. stage[w] # "idle" /\ GoIdle(w)
        /\ (FailPreparation(JobOf(w), TokenOf(w)) \/ UNCHANGED vars)
    BY <1>5 DEF PrepareFails, StoreUnchanged
  <2> QED
    BY <2>1, GoIdleOK, HeldClaim DEF QuietNext
<1>6. ASSUME NEW w \in Worker, Dispatch(w), ~Permitted(w)
      PROVE  WorkerTypeOK' /\ Resting /\ Quiet
  <2>1. /\ stage[w] # "idle" /\ GoIdle(w)
        /\ \/ DispatchCancelled(JobOf(w), TokenOf(w))
           \/ DispatchRevoked(JobOf(w), TokenOf(w))
           \/ UNCHANGED vars
    BY <1>6 DEF Dispatch, Permitted, StoreUnchanged
  <2> QED
    BY <2>1, GoIdleOK, HeldClaim DEF QuietNext
<1>7. ASSUME NEW w \in Worker, Permitted(w)
      PROVE  WorkerTypeOK' /\ [Next]_vars
  <2>1. /\ stage[w] # "idle" /\ MarkDispatch(JobOf(w), TokenOf(w))
        /\ stage' = [stage EXCEPT ![w] = "dispatched"]
        /\ UNCHANGED <<claim, aborted, result, executions>>
    BY <1>7 DEF Permitted, Advance
  <2>2. WorkerTypeOK'
    BY <2>1, AdvanceOK DEF WorkerTypeOK
  <2> QED
    BY <2>1, <2>2, HeldClaim, LeaseCallIsNext DEF LeaseCall
<1>8. ASSUME NEW w \in Worker, DispatchUncertain(w)
      PROVE  WorkerTypeOK' /\ Resting /\ Seen /\ [Next]_vars
  <2>1. /\ stage[w] # "idle" /\ GoIdle(w)
        /\ (MarkDispatch(JobOf(w), TokenOf(w)) \/ UNCHANGED vars)
    BY <1>8 DEF DispatchUncertain, StoreUnchanged
  <2>2. WorkerTypeOK' /\ Resting /\ JobOf(w) \in Job /\ TokenOf(w) \in 1..MaxClaims
    BY <2>1, GoIdleOK, HeldClaim
  <2>3. CASE MarkDispatch(JobOf(w), TokenOf(w))
    <3>1. Seen
      BY <2>2, <2>3, DispatchPermits DEF Seen
    <3> QED
      BY <2>2, <2>3, <3>1, LeaseCallIsNext DEF LeaseCall
  <2> QED
    BY <1>1, <2>1, <2>2, <2>3
<1>9. ASSUME NEW w \in Worker, Execute(w)
      PROVE  WorkerTypeOK' /\ [Next]_vars
  <2>1. /\ stage[w] # "idle" /\ stage' = [stage EXCEPT ![w] = "executing"]
        /\ UNCHANGED <<claim, aborted, result>> /\ UNCHANGED vars
        /\ executions' = [executions EXCEPT ![JobOf(w)] = @ + 1]
    BY <1>9 DEF Execute, StoreUnchanged
  <2>2. executions' \in [Job -> Nat]
    BY <2>1, HeldClaim DEF WorkerTypeOK
  <2> QED
    BY <2>1, <2>2, AdvanceOK
<1>10. ASSUME NEW w \in Worker, Return(w)
       PROVE  WorkerTypeOK' /\ Resting /\ Quiet
  BY <1>10, ReturnOK
<1>11. ASSUME NEW w \in Worker, HandIn(w)
       PROVE  WorkerTypeOK' /\ Resting /\ Seen /\ [Next]_vars
  <2>1. /\ stage[w] = "returned" /\ GoIdle(w)
        /\ (Complete(JobOf(w), TokenOf(w), result[w]) \/ UNCHANGED vars)
    BY <1>11 DEF HandIn, StoreUnchanged
  <2>2. WorkerTypeOK' /\ Resting /\ JobOf(w) \in Job /\ TokenOf(w) \in 1..MaxClaims
    BY <2>1, GoIdleOK, HeldClaim
  <2>3. CASE Complete(JobOf(w), TokenOf(w), result[w])
    <3>1. result[w] \in Completion /\ executions[JobOf(w)] = 1
      BY <2>1 DEF WorkerTypeOK, CallsOK
    <3>2. Closes(JobOf(w)) /\ \A i \in Job \ {JobOf(w)} : Keeps(i)
      BY <2>2, <2>3, <3>1, CompleteCloses
    <3>3. Seen
      BY <2>2, <3>1, <3>2 DEF Seen
    <3> QED
      BY <2>2, <2>3, <3>1, <3>3, LeaseCallIsNext DEF LeaseCall
  <2> QED
    BY <1>1, <2>1, <2>2, <2>3
<1>12. ASSUME NEW w \in Worker, Beat(w) \/ BeatFails(w)
       PROVE  WorkerTypeOK' /\ Resting /\ Quiet
  <2>1. /\ stage[w] # "idle" /\ UNCHANGED <<stage, claim, result, executions>>
        /\ (Heartbeat(JobOf(w), TokenOf(w)) \/ UNCHANGED vars)
    BY <1>12 DEF Beat, BeatFails, StoreUnchanged
  <2>2. JobOf(w) \in Job /\ TokenOf(w) \in 1..MaxClaims
    BY <2>1, HeldClaim
  <2>3. PICK signal \in BOOLEAN : aborted' = [aborted EXCEPT ![w] = signal]
    <3>1. CASE Heartbeat(JobOf(w), TokenOf(w)) /\ aborted' # [aborted EXCEPT ![w] = TRUE]
      <4>1. Active(JobOf(w))
        BY <3>1 DEF Heartbeat, ValidLease, Active
      <4>2. jobs[JobOf(w)].cancel \in BOOLEAN /\ aborted[w] \in BOOLEAN
        BY <2>2, <4>1, RowOf DEF StoreInv, JobRow, WorkerTypeOK
      <4>3. aborted' = [aborted EXCEPT ![w] = @ \/ jobs[JobOf(w)].cancel]
        BY <1>12, <3>1 DEF Beat, BeatFails
      <4> QED
        BY <4>2, <4>3
    <3> QED
      BY <1>12, <3>1 DEF Beat, BeatFails
  <2> QED
    BY <2>1, <2>2, <2>3, SignalOK DEF QuietNext
<1>13. ASSUME NEW w \in Worker, Crash(w)
       PROVE  WorkerTypeOK' /\ Resting /\ Quiet
  BY <1>13, GoIdleOK DEF Crash, StoreUnchanged
<1>14. CASE Outside
  BY <1>1, <1>14, StillOK DEF Outside, QuietNext
<1>15. CASE UNCHANGED allVars
  BY <1>1, <1>15, StillOK DEF allVars
<1> HIDE DEF Quiet
<1> QED
  BY <1>1, <1>2, <1>3, <1>4, <1>5, <1>6, <1>7, <1>8, <1>9, <1>10, <1>11, <1>12, <1>13, <1>14,
     <1>15 DEF WorkerNext, Step
-----------------------------------------------------------------------------
(* A permission is never taken back.                                       *)
LEMMA PermissionStays ==
  ASSUME Seen, NEW j \in Job, ContractPermitted(j)
  PROVE  ContractPermitted(j)'
BY DEF Seen, Keeps, Submits, Permits, Forgets, Closes

(* A step keeps the calls in order.                                        *)
LEMMA CallsStep ==
  ASSUME StoreInv, WorkerTypeOK, CallsOK,
         \/ Resting /\ Seen
         \/ \E w \in Worker : Permitted(w)
         \/ \E w \in Worker : Execute(w)
  PROVE  CallsOK'
<1>1. CASE Resting /\ Seen
  <2>1. \A j \in Job : ContractPermitted(j) => ContractPermitted(j)'
    BY <1>1, PermissionStays
  <2>2. \A w \in Worker : stage[w] # "idle" => JobOf(w) \in Job
    BY HeldClaim
  <2>3. executions' = executions
    BY <1>1 DEF Resting
  <2>4. ASSUME NEW w \in Worker, stage'[w] = "dispatched"
        PROVE  /\ stage[w] = "dispatched" /\ JobOf(w)' = JobOf(w)
               /\ executions[JobOf(w)] = 0 /\ ContractPermitted(JobOf(w))'
    <3>1. stage[w] = "dispatched" /\ JobOf(w)' = JobOf(w)
      BY <1>1, <2>4 DEF Resting
    <3>2. PICK j \in Job : j = JobOf(w)
      BY <2>2, <3>1
    <3>3. executions[j] = 0 /\ ContractPermitted(j)
      BY <3>1, <3>2 DEF CallsOK, ContractPermitted, Active, Ended
    <3>4. ContractPermitted(j)'
      BY <2>1, <3>3
    <3> QED
      BY <3>1, <3>2, <3>3, <3>4 DEF ContractPermitted, Active, Ended
  <2>5. ASSUME NEW w \in Worker, stage'[w] \in {"executing", "returned"}
        PROVE  executions[JobOf(w)'] = 1
    BY <1>1, <2>5 DEF Resting, CallsOK
  <2> QED
    BY <2>1, <2>3, <2>4, <2>5 DEF CallsOK
<1>2. ASSUME NEW w \in Worker, Permitted(w)
      PROVE  CallsOK'
  <2> DEFINE j == JobOf(w)
  <2>1. /\ stage[w] = "prepared" /\ stage' = [stage EXCEPT ![w] = "dispatched"]
        /\ UNCHANGED <<claim, executions>> /\ j \in Job /\ MarkDispatch(j, TokenOf(w))
    BY <1>2, HeldClaim DEF Permitted, Advance
  <2>2. Permits(j) /\ \A i \in Job \ {j} : Keeps(i)
    BY <2>1, DispatchPermits
  <2>3. \A i \in Job : ContractPermitted(i) => ContractPermitted(i)'
    BY <2>2, PermissionStays DEF Seen
  <2>4. executions[j] = 0 /\ \A v \in Worker : stage[v] = "dispatched" => JobOf(v) # j
    BY <2>1, <2>2 DEF CallsOK, Permits
  <2>5. \A v \in Worker : JobOf(v)' = JobOf(v) /\ (stage[v] # "idle" => JobOf(v) \in Job)
    BY <2>1, HeldClaim DEF JobOf
  <2>6. \A v \in Worker : stage'[v] = IF v = w THEN "dispatched" ELSE stage[v]
    BY <2>1 DEF WorkerTypeOK
  <2>7. ContractPermitted(j)'
    BY <2>2 DEF Permits
  <2> QED
    BY <2>1, <2>3, <2>4, <2>5, <2>6, <2>7 DEF CallsOK
<1>3. ASSUME NEW w \in Worker, Execute(w)
      PROVE  CallsOK'
  <2> DEFINE j == JobOf(w)
  <2>1. /\ stage[w] = "dispatched" /\ stage' = [stage EXCEPT ![w] = "executing"]
        /\ UNCHANGED claim /\ j \in Job /\ UNCHANGED vars
        /\ executions' = [executions EXCEPT ![j] = @ + 1]
    BY <1>3, HeldClaim DEF Execute, StoreUnchanged
  <2>2. executions[j] = 0 /\ ContractPermitted(j)
    BY <2>1 DEF CallsOK
  <2>3. \A i \in Job : executions'[i] = IF i = j THEN 1 ELSE executions[i]
    BY <2>1, <2>2 DEF WorkerTypeOK
  <2>4. \A v \in Worker : /\ JobOf(v)' = JobOf(v) /\ (stage[v] # "idle" => JobOf(v) \in Job)
                          /\ stage'[v] = IF v = w THEN "executing" ELSE stage[v]
    BY <2>1, HeldClaim DEF JobOf, WorkerTypeOK
  <2>5. \A i \in Job : ContractPermitted(i)' = ContractPermitted(i)
    BY <2>1 DEF ContractPermitted, Active, Ended, vars, storeVars, ledgerVars
  <2> QED
    BY <2>1, <2>2, <2>3, <2>4, <2>5 DEF CallsOK
<1> QED
  BY <1>1, <1>2, <1>3
-----------------------------------------------------------------------------
(* What is seen of a job is what the contract calls it.                    *)
LEMMA ContractStart ==
  ASSUME WorkerInit
  PROVE  Contract!Init
<1>1. \A j \in Job : ~Active(j) /\ ~Ended(j) /\ jobs[j] = AbsentJob /\ reservations[j] = NoReservation
  BY DEF WorkerInit, Init, LedgerInit, Active, Ended, Terminal, AbsentJob
<1>2. \A j \in Job : /\ ContractOutcome(j) = "none" /\ ContractPermitted(j) = FALSE
                     /\ reservations[j].state = "none"
  BY <1>1 DEF ContractOutcome, ContractPermitted, NoReservation
<1>3. executions = [j \in Job |-> 0]
  BY DEF WorkerInit
<1> QED
  BY <1>2, <1>3 DEF Contract!Init

(* A step in which the provider is not called is a step of the contract.   *)
LEMMA SeenContract ==
  ASSUME RowsOK, RowsOK', Seen, executions' = executions
  PROVE  [Contract!Next]_(Contract!contractVars)
<1>1. \A j \in Job : ContractPermitted(j) \in BOOLEAN /\ ContractPermitted(j)' \in BOOLEAN
  <2>1. PermissionTyped /\ PermissionTyped'
    BY PermittedBoolean, PTL
  <2> QED
    BY <2>1 DEF PermissionTyped
<1>2. CASE \A j \in Job : Keeps(j)
  BY <1>2 DEF Keeps, Contract!contractVars
<1>3. ASSUME NEW j \in Job, \A i \in Job \ {j} : Keeps(i), Submits(j)
      PROVE  Contract!Submit(j)
  BY <1>1, <1>3 DEF Keeps, Submits, Contract!Submit
<1>4. ASSUME NEW j \in Job, \A i \in Job \ {j} : Keeps(i), Permits(j)
      PROVE  Contract!Permit(j)
  BY <1>1, <1>4 DEF Keeps, Permits, Contract!Permit
<1>5. ASSUME NEW j \in Job, \A i \in Job \ {j} : Keeps(i), Forgets(j)
      PROVE  Contract!Forget(j)
  BY <1>1, <1>5 DEF Keeps, Forgets, Contract!Forget, Contract!Result, Terminal
<1>6. ASSUME NEW j \in Job, \A i \in Job \ {j} : Keeps(i), Closes(j),
             ContractOutcome(j)' = "succeeded" => executions[j] = 1
      PROVE  \E end \in Contract!Result : Contract!Close(j, end)
  <2>1. PICK end \in Contract!Result : end = ContractOutcome(j)'
    BY <1>6 DEF Closes, Contract!Result, Terminal
  <2>2. Contract!Close(j, end)
    BY <1>1, <1>6, <2>1 DEF Keeps, Closes, Contract!Close
  <2> QED
    BY <2>2
<1> QED
  BY <1>2, <1>3, <1>4, <1>5, <1>6 DEF Seen, Contract!Next

(* So is a call.                                                           *)
LEMMA CallContract ==
  ASSUME WorkerTypeOK, CallsOK, NEW w \in Worker, Execute(w)
  PROVE  Contract!Next
<1>1. PICK j \in Job : j = JobOf(w)
  BY HeldClaim DEF Execute
<1>2. /\ stage[w] = "dispatched" /\ UNCHANGED vars
      /\ executions' = [executions EXCEPT ![j] = @ + 1]
  BY <1>1 DEF Execute, StoreUnchanged
<1>3. executions[j] = 0 /\ ContractPermitted(j)
  BY <1>1, <1>2 DEF CallsOK, ContractPermitted, Active, Ended
<1>4. executions' = [executions EXCEPT ![j] = 1]
  BY <1>2, <1>3
<1>5. \A i \in Job : Keeps(i)
  BY <1>2, UntouchedKeeps DEF Untouched, vars, storeVars, ledgerVars
<1>6. Contract!Call(j)
  BY <1>3, <1>4, <1>5 DEF Keeps, Contract!Call
<1> QED
  BY <1>6 DEF Contract!Next
-----------------------------------------------------------------------------
(* The store and the workers, as they stand between two steps.             *)
WholeInv ==
  RowsOK /\ JudgedOK /\ LedgerInv /\ (\A j \in Job : JobOK(j)) /\ WorkerTypeOK /\ CallsOK

(* The invariant of the whole contains that of the store.                  *)
LEMMA WholeStore ==
  ASSUME WholeInv
  PROVE  StoreInv
BY DEF WholeInv, StoreInv, LedgerInv

(* No worker has a claim at first, and no job is there.                    *)
LEMMA WholeStart ==
  ASSUME WorkerInit
  PROVE  WholeInv
<1>1. Init
  BY DEF WorkerInit
<1>2. RowsOK /\ JudgedOK /\ LedgerInv /\ \A j \in Job : JobOK(j)
  BY <1>1, InitRows, LedgerInitInv, InitJobs DEF Init
<1>3. NoClaim \in [job : Job \cup {None}, token : 0..MaxClaims]
  BY DEF NoClaim, MaxClaims
<1>4. WorkerTypeOK
  BY <1>3 DEF WorkerInit, WorkerTypeOK, Stage
<1>5. CallsOK
  BY DEF WorkerInit, CallsOK
<1> QED
  BY <1>2, <1>4, <1>5 DEF WholeInv

(* A step keeps it, is a step of the store and one of the contract.        *)
LEMMA WholeStep ==
  ASSUME WholeInv, [WorkerNext]_allVars
  PROVE  WholeInv' /\ [Next]_vars /\ [Contract!Next]_(Contract!contractVars)
<1>1. StoreInv /\ WorkerTypeOK /\ CallsOK
  BY WholeStore DEF WholeInv
<1>2. /\ WorkerTypeOK' /\ [Next]_vars
      /\ \/ Resting /\ Seen
         \/ \E w \in Worker : Permitted(w)
         \/ \E w \in Worker : Execute(w)
  BY <1>1, WorkerStep
<1>3. RowsOK /\ RowsOK' /\ JudgedOK' /\ [LedgerNext]_ledgerVars
  BY <1>1, <1>2, RowsStep, JudgedStep DEF StoreInv
<1>4. LedgerInv'
  BY <1>3, LedgerStepInv DEF WholeInv
<1>5. \A j \in Job : JobOK(j)'
  BY <1>1, <1>2, JobsStep DEF Admits, StepOK
<1>6. CallsOK'
  BY <1>1, <1>2, CallsStep
<1>7. [Contract!Next]_(Contract!contractVars)
  <2>1. CASE Resting /\ Seen
    BY <1>3, <2>1, SeenContract DEF Resting
  <2>2. ASSUME NEW w \in Worker, Permitted(w)
        PROVE  [Contract!Next]_(Contract!contractVars)
    <3>1. stage[w] # "idle" /\ MarkDispatch(JobOf(w), TokenOf(w)) /\ executions' = executions
      BY <2>2 DEF Permitted, Advance
    <3>2. Seen
      BY <1>1, <3>1, HeldClaim, DispatchPermits DEF Seen
    <3> QED
      BY <1>3, <3>1, <3>2, SeenContract
  <2> QED
    BY <1>1, <1>2, <2>1, <2>2, CallContract
<1> QED
  BY <1>2, <1>3, <1>4, <1>5, <1>6, <1>7 DEF WholeInv

(* The invariant of the store and its workers (store.ts, worker.ts).       *)
THEOREM WholeInvariant == WorkerSpec => []WholeInv
<1>1. WorkerInit => WholeInv
  BY WholeStart
<1>2. WholeInv /\ [WorkerNext]_allVars => WholeInv'
  BY WholeStep
<1> QED
  BY <1>1, <1>2, PTL DEF WorkerSpec

(* The workers' variables keep their types.                                *)
THEOREM WorkersTyped == WorkerSpec => []WorkerTypeOK
<1>1. WholeInv => WorkerTypeOK
  BY DEF WholeInv
<1> QED
  BY <1>1, WholeInvariant, PTL

(* The workers make only calls that the store allows for: what is proved   *)
(* of the store holds with them.                                           *)
THEOREM WorkersUseTheStore == WorkerSpec => Spec
<1>1. WorkerInit => Init
  BY DEF WorkerInit
<1>2. WholeInv /\ [WorkerNext]_allVars => [Next]_vars
  BY WholeStep
<1> QED
  BY <1>1, <1>2, WholeInvariant, PTL DEF WorkerSpec, Spec

(* The provider is called at most once for a job, however many workers are *)
(* given it, lose it, and go on with it.                                   *)
THEOREM ProviderCalledAtMostOnce == WorkerSpec => []AtMostOnce
<1>1. WholeInv => AtMostOnce
  BY DEF WholeInv, CallsOK, AtMostOnce
<1> QED
  BY <1>1, WholeInvariant, PTL

(* A call rests on a recorded dispatch and is never refunded.              *)
THEOREM CallsAreCharged == WorkerSpec => []WorkIsCharged
<1>1. WholeInv => WorkIsCharged
  <2> SUFFICES ASSUME WholeInv, NEW j \in Job, executions[j] > 0, jobs[j] # DeletedJob
               PROVE  jobs[j].dispatched /\ reservations[j].state \in {"reserved", "settled"}
    BY DEF WorkIsCharged
  <2>1. ContractPermitted(j) /\ JobOK(j)
    BY DEF WholeInv, CallsOK
  <2>2. CASE Active(j) \/ Ended(j)
    BY <2>1, <2>2 DEF ContractPermitted, JobOK, OpenJob, ClosedJob
  <2>3. CASE ~Active(j) /\ ~Ended(j)
    <3>1. jobs[j] = AbsentJob
      BY <2>3 DEF WholeInv, RowsOK, JobRow, Active, Ended
    <3> QED
      BY <2>1, <2>3, <3>1 DEF ContractPermitted, JobOK, NoReservation
  <2> QED
    BY <2>2, <2>3
<1> QED
  BY <1>1, WholeInvariant, PTL

(* Store and workers keep the contract about every job.                    *)
THEOREM ContractIsKept == WorkerSpec => KeepsContract
<1>1. WorkerInit => Contract!Init
  BY ContractStart
<1>2. WholeInv /\ [WorkerNext]_allVars => [Contract!Next]_(Contract!contractVars)
  BY WholeStep
<1> QED
  BY <1>1, <1>2, WholeInvariant, PTL DEF WorkerSpec, KeepsContract, Contract!Spec
-----------------------------------------------------------------------------
(* The jobs for which the provider was called, by the bucket they are      *)
(* accounted in.                                                           *)
CalledForKey(b)   == {j \in Job : executions[j] > 0 /\ reservations[j].key = b}
CalledInGroup(b)  == {j \in Job : executions[j] > 0 /\ reservations[j].group = b}

(* A called job holds its units or was charged, deleted or not.            *)
LEMMA CalledIsCharged ==
  ASSUME WholeInv, NEW j \in Job, executions[j] > 0
  PROVE  reservations[j].state \in {"reserved", "settled"}
<1>1. ContractPermitted(j) /\ JobOK(j)
  BY DEF WholeInv, CallsOK
<1> QED
  BY <1>1 DEF ContractPermitted, JobOK, OpenJob, ClosedJob

(* Units of jobs all of which are in one of two sets.                      *)
LEMMA UnitsCovered ==
  ASSUME NEW A \in SUBSET Job, NEW B \in SUBSET Job, NEW C \in SUBSET Job,
         C \subseteq A \cup B, NEW q \in Nat,
         Cardinality(UnitsOf(A)) + Cardinality(UnitsOf(B)) <= q
  PROVE  Cardinality(UnitsOf(C)) <= q
<1> DEFINE a == UnitsOf(A)
           b == UnitsOf(B)
           c == UnitsOf(C)
<1>1. /\ IsFiniteSet(a) /\ Cardinality(a) \in Nat
      /\ IsFiniteSet(b) /\ Cardinality(b) \in Nat
      /\ IsFiniteSet(c) /\ Cardinality(c) \in Nat
  BY UnitsInFinite DEF UnitsIn, UnitsOf
<1>2. c \in SUBSET (a \cup b)
  BY DEF UnitsOf
<1> HIDE DEF a, b, c
<1>3. /\ IsFiniteSet(a \cup b)
      /\ Cardinality(a \cup b) = Cardinality(a) + Cardinality(b) - Cardinality(a \cap b)
  BY <1>1, FS_Union
<1>4. Cardinality(a \cap b) \in Nat
  BY <1>1, FS_Intersection, FS_CardinalityType
<1>5. Cardinality(c) <= Cardinality(a \cup b)
  BY <1>2, <1>3, FS_Subset
<1>6. Cardinality(a) + Cardinality(b) <= q
  BY DEF a, b
<1>7. Cardinality(c) <= q
  BY <1>1, <1>3, <1>4, <1>5, <1>6
<1> QED
  BY <1>7 DEF c

(* The quotas bound the work itself, and not only the books: for a key the *)
(* quota of which was never above N, nor lifted, the provider is called    *)
(* for at most N units in an epoch -- with workers that crash and come too *)
(* late, quota resets, and jobs whose rows were deleted (store.ts:49-50,   *)
(* 198-205, 246-251; worker.ts:36).                                        *)
THEOREM KeyQuotasBoundTheCalls ==
  ASSUME NEW b \in KeyBucket, NEW N \in Nat
  PROVE  WorkerSpec /\ [](keyQuota[b[1]] \in 1..N)
           => [](Cardinality(UnitsOf(CalledForKey(b))) <= N)
<1>1. WholeInv /\ KeyTotal(b) <= N => Cardinality(UnitsOf(CalledForKey(b))) <= N
  <2> SUFFICES ASSUME WholeInv, KeyTotal(b) <= N
               PROVE  Cardinality(UnitsOf(CalledForKey(b))) <= N
    OBVIOUS
  <2>1. CalledForKey(b) \subseteq OfKey(b, "reserved") \cup OfKey(b, "settled")
    BY CalledIsCharged DEF CalledForKey, OfKey
  <2>2. /\ OfKey(b, "reserved") \in SUBSET Job /\ OfKey(b, "settled") \in SUBSET Job
        /\ CalledForKey(b) \in SUBSET Job
    BY DEF OfKey, CalledForKey
  <2> QED
    BY <2>1, <2>2, UnitsCovered DEF KeyTotal
<1>2. LedgerSpec /\ [](keyQuota[b[1]] \in 1..N) => [](KeyTotal(b) <= N)
  BY KeyQuotaBounds
<1> QED
  BY <1>1, <1>2, WholeInvariant, WorkersUseTheStore, StoreKeepsLedger, PTL

(* So do the daily ones, for what a user may spend in a group on a day.    *)
THEOREM DailyQuotasBoundTheCalls ==
  ASSUME NEW b \in GroupBucket, NEW N \in Nat
  PROVE  WorkerSpec /\ [](dailyQuota[b[2]] \in 1..N)
           => [](Cardinality(UnitsOf(CalledInGroup(b))) <= N)
<1>1. WholeInv /\ GroupTotal(b) <= N => Cardinality(UnitsOf(CalledInGroup(b))) <= N
  <2> SUFFICES ASSUME WholeInv, GroupTotal(b) <= N
               PROVE  Cardinality(UnitsOf(CalledInGroup(b))) <= N
    OBVIOUS
  <2>1. CalledInGroup(b) \subseteq InGroup(b, "reserved") \cup InGroup(b, "settled")
    BY CalledIsCharged DEF CalledInGroup, InGroup
  <2>2. /\ InGroup(b, "reserved") \in SUBSET Job /\ InGroup(b, "settled") \in SUBSET Job
        /\ CalledInGroup(b) \in SUBSET Job
    BY DEF InGroup, CalledInGroup
  <2> QED
    BY <2>1, <2>2, UnitsCovered DEF GroupTotal
<1>2. LedgerSpec /\ [](dailyQuota[b[2]] \in 1..N) => [](GroupTotal(b) <= N)
  BY DailyQuotaBounds
<1> QED
  BY <1>1, <1>2, WholeInvariant, WorkersUseTheStore, StoreKeepsLedger, PTL
-----------------------------------------------------------------------------
(* The tables of the administration (Service).  What the store will read   *)
(* is what the tables say: keys in one set, users and groups in the other. *)
AccessAgrees == liveKeys = LiveKeys /\ members = MayUse

ServiceInv == WholeInv /\ AccessAgrees

(* The columns a request may change: those of the keys, their quota among  *)
(* them, or those of users and groups.                                     *)
KeysOnly ==
  /\ UNCHANGED <<users, groups, allowed, dailyQuota>>
  /\ \/ \E k \in Key, quota \in KeyQuotas : keyQuota' = [keyQuota EXCEPT ![k] = quota]
     \/ UNCHANGED keyQuota

GroupsOnly ==
  /\ UNCHANGED <<apiKeys, keyQuota>>
  /\ \/ \E g \in Group, quota \in DailyQuotas : dailyQuota' = [dailyQuota EXCEPT ![g] = quota]
     \/ UNCHANGED dailyQuota

(* A request changes keys, or users and groups, never both.                *)
LEMMA RequestsAreOneSided ==
  ASSUME Grants!GrantsNext
  PROVE  KeysOnly \/ GroupsOnly
<1>1. ASSUME NEW a \in User, NEW u \in User, NEW status, NEW restricted,
             Grants!PatchMember(a, u, status, restricted)
      PROVE  GroupsOnly
  BY <1>1 DEF Grants!PatchMember, Grants!quotaVars, GroupsOnly
<1>2. ASSUME NEW a \in User, NEW u \in User, NEW gs, Grants!ReplaceGroups(a, u, gs)
      PROVE  GroupsOnly
  BY <1>2 DEF Grants!ReplaceGroups, Grants!quotaVars, GroupsOnly
<1>3. ASSUME NEW a \in User, NEW g \in Group, NEW status, NEW exclusive, NEW quota \in DailyQuotas,
             \/ Grants!CreateGroup(a, g, exclusive, quota)
             \/ Grants!PatchGroup(a, g, status, exclusive, quota)
      PROVE  GroupsOnly
  BY <1>3 DEF Grants!CreateGroup, Grants!PatchGroup, GroupsOnly
<1>4. ASSUME NEW a \in User, NEW g \in Group, Grants!DeleteGroup(a, g)
      PROVE  GroupsOnly
  BY <1>4 DEF Grants!DeleteGroup, Grants!quotaVars, GroupsOnly
<1>5. ASSUME NEW a \in User, NEW k \in Key, NEW owner, NEW g, NEW status, NEW renew,
             NEW quota \in KeyQuotas,
             \/ Grants!CreateKey(a, k, owner, g, quota)
             \/ Grants!PatchKey(a, k, g, status, renew, quota)
      PROVE  KeysOnly
  BY <1>5 DEF Grants!CreateKey, Grants!PatchKey, KeysOnly
<1>6. ASSUME NEW a \in User, NEW k \in Key, Grants!DeleteKey(a, k)
      PROVE  KeysOnly
  BY <1>6 DEF Grants!DeleteKey, Grants!quotaVars, KeysOnly
<1>7. ASSUME NEW k \in Key, Grants!KeyExpires(k)
      PROVE  KeysOnly
  BY <1>7 DEF Grants!KeyExpires, Grants!quotaVars, KeysOnly
<1> QED
  BY <1>1, <1>2, <1>3, <1>4, <1>5, <1>6, <1>7 DEF Grants!GrantsNext

(* So the store sees one change of one of its sets and of one quota, or    *)
(* none.                                                                   *)
LEMMA ChangesAreForeseen ==
  ASSUME AccessAgrees, TablesChange, (KeysOnly /\ UNCHANGED ready) \/ GroupsOnly
  PROVE  [WorkerNext]_allVars
<1>1. /\ liveKeys' = LiveKeys' /\ members' = MayUse' /\ TenantLock
      /\ UNCHANGED <<reservations, groupBuckets, keyBuckets, usageEvents, quotaEpoch,
                     today, erased, jobs, artifacts, idempotency>> /\ UNCHANGED workerVars
  BY DEF TablesChange
<1>2. liveKeys' \in SUBSET Principal /\ members' \in SUBSET (User \X Group)
  BY <1>1 DEF LiveKeys, MayUse
<1>3. CASE KeysOnly /\ UNCHANGED ready
  <2>1. \A p, q \in liveKeys' : p.key = q.key => p = q
    BY <1>1 DEF LiveKeys, StandsFor
  <2>2. MayUse' = MayUse
    BY <1>3 DEF KeysOnly, MayUse, Grants!CanUserBindGroup, Grants!LiveGroup
  <2>3. UNCHANGED members
    BY <1>1, <2>2 DEF AccessAgrees
  <2>4. \/ \E k \in Key, quota \in KeyQuotas : SetKeyQuota(k, quota)
        \/ UNCHANGED ledgerVars
    BY <1>1, <1>3 DEF KeysOnly, SetKeyQuota, ledgerVars
  <2>5. ChangeKeys(liveKeys')
    BY <1>1, <2>1, <2>3, <2>4 DEF ChangeKeys
  <2> QED
    BY <1>1, <1>2, <2>5 DEF Request, WorkerNext, Outside
<1>4. CASE GroupsOnly
  <2>1. LiveKeys' = LiveKeys
    BY <1>4 DEF GroupsOnly, LiveKeys, StandsFor, Grants!LiveKey
  <2>2. UNCHANGED liveKeys
    BY <1>1, <2>1 DEF AccessAgrees
  <2>3. \/ \E g \in Group, quota \in DailyQuotas : SetDailyQuota(g, quota)
        \/ UNCHANGED ledgerVars
    BY <1>1, <1>4 DEF GroupsOnly, SetDailyQuota, ledgerVars
  <2>4. ChangeMembers(members')
    BY <1>1, <2>2, <2>3 DEF ChangeMembers
  <2> QED
    BY <1>1, <1>2, <2>4 DEF Request, WorkerNext, Outside
<1> QED
  BY <1>3, <1>4

(* Nothing is granted at first.                                            *)
LEMMA ServiceStart ==
  ASSUME ServiceInit
  PROVE  ServiceInv
<1>1. WorkerInit /\ Grants!GrantsInit
  BY DEF ServiceInit
<1>2. WholeInv
  BY <1>1, WholeStart
<1>3. \A k \in Key : ~Grants!LiveKey(k)
  BY <1>1 DEF Grants!GrantsInit, Grants!LiveKey
<1>4. LiveKeys = {}
  BY <1>3, LedgerAssumption DEF LedgerAssumption, LiveKeys
<1>5. MayUse = {}
  BY <1>1 DEF MayUse, Grants!GrantsInit, Grants!CanUserBindGroup, Grants!LiveGroup
<1> QED
  BY <1>1, <1>2, <1>4, <1>5 DEF ServiceInv, AccessAgrees, WorkerInit, Init

(* A step is one of the store and its workers, or none; what is done with  *)
(* the tables is one of the administration, or none; the two agree again.  *)
LEMMA ServiceStep ==
  ASSUME ServiceInv, [ServiceNext]_serviceVars
  PROVE  /\ ServiceInv' /\ [WorkerNext]_allVars
         /\ [Grants!GrantsNext]_(Grants!grantVars)
<1>1. WholeInv /\ AccessAgrees
  BY DEF ServiceInv
<1>2. CASE Administer
  <2>1. Grants!GrantsNext /\ UNCHANGED ready /\ TablesChange
    BY <1>2 DEF Administer
  <2>2. [WorkerNext]_allVars
    BY <1>1, <2>1, RequestsAreOneSided, ChangesAreForeseen
  <2>3. WholeInv' /\ AccessAgrees'
    BY <1>1, <2>1, <2>2, WholeStep DEF TablesChange, AccessAgrees
  <2> QED
    BY <2>1, <2>2, <2>3 DEF ServiceInv
<1>3. CASE \E enabled \in SUBSET Group : ChangeLanes(enabled)
  <2>1. UNCHANGED <<tableVars, quotaVars>> /\ TablesChange
    BY <1>3 DEF ChangeLanes
  <2>2. GroupsOnly
    BY <2>1 DEF GroupsOnly, tableVars, quotaVars
  <2>4. [WorkerNext]_allVars
    BY <1>1, <2>1, <2>2, ChangesAreForeseen
  <2>3. WholeInv' /\ AccessAgrees'
    BY <1>1, <2>1, <2>4, WholeStep DEF TablesChange, AccessAgrees
  <2> QED
    BY <2>1, <2>3, <2>4 DEF ServiceInv, tableVars, quotaVars, Grants!grantVars, Grants!quotaVars
<1>4. CASE Work \/ UNCHANGED serviceVars
  <2>1. UNCHANGED <<accessVars, tableVars, quotaVars, ready>> /\ [WorkerNext]_allVars
    BY <1>4 DEF Work, serviceVars, quotaVars, allVars, vars, storeVars, ledgerVars
  <2>2. WholeInv'
    BY <1>1, <2>1, WholeStep
  <2>3. AccessAgrees'
    BY <1>1, <2>1
       DEF AccessAgrees, accessVars, tableVars, LiveKeys, StandsFor, MayUse,
           Grants!LiveKey, Grants!CanUserBindGroup, Grants!LiveGroup
  <2> QED
    BY <2>1, <2>2, <2>3 DEF ServiceInv, tableVars, quotaVars, Grants!grantVars, Grants!quotaVars
<1> QED
  BY <1>2, <1>3, <1>4 DEF ServiceNext

(* What the store will read of keys, users, groups and lanes is at all     *)
(* times what the tables say (policy.ts:9-39).                             *)
THEOREM AccessIsRead == ServiceSpec => []ServiceInv
<1>1. ServiceInit => ServiceInv
  BY ServiceStart
<1>2. ServiceInv /\ [ServiceNext]_serviceVars => ServiceInv'
  BY ServiceStep
<1> QED
  BY <1>1, <1>2, PTL DEF ServiceSpec

(* What administrators do is among the changes of access that the store    *)
(* and the workers are proved for: all theorems about them hold over the   *)
(* tables of the administration, the contract among them.                  *)
THEOREM ServiceUsesTheWorkers == ServiceSpec => WorkerSpec
<1>1. ServiceInit => WorkerInit
  BY DEF ServiceInit
<1>2. ServiceInv /\ [ServiceNext]_serviceVars => [WorkerNext]_allVars
  BY ServiceStep
<1> QED
  BY <1>1, <1>2, AccessIsRead, PTL DEF ServiceSpec, WorkerSpec

(* The store and the workers do nothing to the tables: what is proved of   *)
(* the grants holds beside them.                                           *)
THEOREM ServiceAdministers == ServiceSpec => Grants!GrantsSpec
<1>1. ServiceInit => Grants!GrantsInit
  BY DEF ServiceInit
<1>2. ServiceInv /\ [ServiceNext]_serviceVars => [Grants!GrantsNext]_(Grants!grantVars)
  BY ServiceStep
<1> QED
  BY <1>1, <1>2, AccessIsRead, PTL DEF ServiceSpec, Grants!GrantsSpec
-----------------------------------------------------------------------------
(* Whose job is admitted or dispatched by this step is identified.         *)
Asked(j) == Admitted(j) \/ Dispatched(j) => Identified(jobs'[j].owner)

(* A job whose row stays, or that is not active after the step.            *)
LEMMA NothingAsked ==
  ASSUME NEW j \in Job, jobs'[j] = jobs[j] \/ jobs'[j].state \notin {"queued", "running"}
  PROVE  Asked(j)
BY DEF Asked, Admitted, Dispatched, Active

(* Of the calls that rewrite the row of a job one asks, MarkDispatch.      *)
LEMMA RowCallsAsk ==
  ASSUME RowsOK, JudgedOK, NEW j \in Job, NEW token,
         \/ Cancel(j) /\ jobs[j].state # "queued"
         \/ Claim(j)
         \/ Heartbeat(j, token)
         \/ MarkDispatch(j, token)
         \/ Requeue(j)
         \/ LeaseRunsOut(j) \/ QueueRunsOut(j) \/ RetentionRunsOut(j)
         \/ Purge(j)
  PROVE  Asked(j)
<1>1. DOMAIN jobs = Job
  BY DEF RowsOK
<1>2. CASE Active(j)
  <2>1. jobs[j] \in JobRow
    BY <1>2, RowOf
  <2>2. CASE MarkDispatch(j, token)
    <3>1. Identified(jobs[j].owner) /\ jobs' = [jobs EXCEPT ![j].dispatched = TRUE]
      BY <2>2 DEF MarkDispatch, OwnerAccess
    <3>2. jobs'[j].owner = jobs[j].owner
      BY <1>1, <2>1, <3>1 DEF JobRow
    <3> QED
      BY <3>1, <3>2 DEF Asked
  <2>3. CASE ~MarkDispatch(j, token)
    <3>1. CASE RetentionRunsOut(j) \/ Purge(j)
      BY <1>2, <3>1, ActiveNotEnded DEF RetentionRunsOut, Purge
    <3>2. CASE \/ Cancel(j) /\ jobs[j].state # "queued"
               \/ Claim(j) \/ Heartbeat(j, token) \/ Requeue(j)
               \/ LeaseRunsOut(j) \/ QueueRunsOut(j)
      <4>1. jobs'[j].dispatched = jobs[j].dispatched
        <5>1. Cancel(j) /\ jobs[j].state # "queued" => jobs'[j].dispatched = jobs[j].dispatched
          BY <1>1, <2>1 DEF Cancel, JobRow
        <5>2. Claim(j) => jobs'[j].dispatched = jobs[j].dispatched
          BY <1>1, <2>1 DEF Claim, JobRow
        <5>3. Heartbeat(j, token) => jobs'[j].dispatched = jobs[j].dispatched
          BY <1>1, <2>1 DEF Heartbeat, JobRow
        <5>4. Requeue(j) => jobs'[j].dispatched = jobs[j].dispatched
          BY <1>1, <2>1 DEF Requeue, JobRow
        <5>5. LeaseRunsOut(j) \/ QueueRunsOut(j) => jobs'[j].dispatched = jobs[j].dispatched
          BY <1>1, <2>1 DEF LeaseRunsOut, QueueRunsOut, JobRow
        <5> QED
          BY <3>2, <5>1, <5>2, <5>3, <5>4, <5>5
      <4> QED
        BY <1>2, <2>1, <4>1 DEF Asked, Admitted, Dispatched, JobRow
    <3> QED
      BY <2>3, <3>1, <3>2
  <2> QED
    BY <2>2, <2>3
<1>3. CASE ~Active(j)
  <2>1. Ended(j) /\ (RetentionRunsOut(j) \/ Purge(j))
    BY <1>3, WrittenJob
       DEF Active, Cancel, Claim, NextInQueue, Heartbeat, MarkDispatch, MayDispatch, ValidLease,
           LeaseRunsOut, QueueRunsOut, RetentionRunsOut, Purge
  <2>2. jobs[j] \in JobRow
    BY <2>1, RowOf
  <2>3. jobs'[j].state = jobs[j].state
    BY <1>1, <2>1, <2>2 DEF RetentionRunsOut, Purge, Purged, JobRow
  <2> QED
    BY <2>1, <2>3, NothingAsked DEF Ended, Terminal
<1> QED
  BY <1>2, <1>3

(* Every step of the store.                                                *)
LEMMA StoreAsks ==
  ASSUME RowsOK, JudgedOK, [Next]_vars
  PROVE  \A j \in Job : Asked(j)
<1> DEFINE Goal == \A j \in Job : Asked(j)
<1>1. ASSUME NEW p \in Principal, NEW j \in Job, NEW u \in Units,
             AdmitSync(p, j, u) \/ \E i \in IdemKey : AdmitAsync(p, j, i, u)
      PROVE  Goal
  <2>1. Identified(p)
    BY <1>1 DEF AdmitSync, AdmitAsync, Admission
  <2>2. jobs'[j].owner = p
    <3>1. \E d \in Delivery, n \in Position : jobs'[j] = NewJob(p, d, n)
      BY <1>1 DEF AdmitSync, AdmitAsync, Delivery, RowsOK
    <3> QED
      BY <3>1 DEF NewJob
  <2>3. ASSUME NEW k \in Job, k # j
        PROVE  jobs'[k] = jobs[k] \/ (jobs'[k] = Purged(jobs[k]) /\ Ended(k))
    BY <1>1, <2>3 DEF AdmitSync, AdmitAsync, RowsOK
  <2>4. ASSUME NEW k \in Job, jobs'[k] = Purged(jobs[k]), Ended(k)
        PROVE  Asked(k)
    <3>1. jobs[k] \in JobRow
      BY <2>4, RowOf
    <3>2. jobs'[k].state = jobs[k].state
      BY <2>4, <3>1 DEF Purged, JobRow
    <3> QED
      BY <2>4, <3>2, NothingAsked DEF Ended, Terminal
  <2>5. ASSUME NEW k \in Job
        PROVE  Asked(k)
    <3>1. CASE k = j
      BY <2>1, <2>2, <3>1 DEF Asked
    <3>2. CASE k # j
      BY <2>3, <2>4, <3>2, NothingAsked
    <3> QED
      BY <3>1, <3>2
  <2> QED
    BY <2>5
<1>2. ASSUME NEW j \in Job, Ends(j)
      PROVE  Goal
  <2>1. jobs'[j].state \in Terminal /\ \A i \in Job \ {j} : jobs'[i] = jobs[i]
    BY <1>2 DEF Ends, Finish, JobRow, RowsOK
  <2> QED
    BY <2>1, NothingAsked DEF Terminal
<1>3. ASSUME NEW j \in Job, DeleteOld(j)
      PROVE  Goal
  <2>1. jobs'[j].state = "deleted" /\ \A i \in Job \ {j} : jobs'[i] = jobs[i]
    BY <1>3 DEF DeleteOld, DeletedJob, RowsOK
  <2> QED
    BY <2>1, NothingAsked
<1>4. ASSUME NEW j \in Job, Asked(j), \A i \in Job \ {j} : jobs'[i] = jobs[i]
      PROVE  Goal
  BY <1>4, NothingAsked
<1>5. CASE Elsewhere
  BY <1>5, NothingAsked DEF Elsewhere
<1> QED
  BY <1>1, <1>2, <1>3, <1>4, <1>5, StepKinds, EndingCalls, RowCallsAsk, RowCallsRipen

(* Who is identified has a key that works.                                 *)
LEMMA IdentifiedWorks ==
  ASSUME AccessAgrees, NEW p, Identified(p)
  PROVE  Grants!KeyWorks(p.key) /\ StandsFor(p.key) = p /\ p.group \in ready
<1>1. p \in LiveKeys /\ <<p.user, p.group>> \in MayUse
  BY DEF Identified, AccessAgrees
<1>2. /\ Grants!LiveKey(p.key) /\ apiKeys[p.key].status = "active" /\ ~apiKeys[p.key].expired
      /\ StandsFor(p.key) = p
  BY <1>1 DEF LiveKeys
<1>3. Grants!CanUserBindGroup(p.user, p.group) /\ p.group \in ready
  BY <1>1 DEF MayUse
<1>4. p.user = apiKeys[p.key].owner /\ p.group = apiKeys[p.key].group
  BY <1>2 DEF StandsFor
<1> QED
  BY <1>2, <1>3, <1>4 DEF Grants!KeyWorks

(* No job is admitted and no dispatch recorded but on a key that works at  *)
(* that moment, whatever administrators change before, between and after   *)
(* (store.ts:23, 106).                                                     *)
THEOREM WorkIsAlwaysGranted == ServiceSpec => WorkIsGranted
<1> DEFINE Granted(j) ==
      Admitted(j) \/ Dispatched(j) =>
        LET p == jobs'[j].owner IN
        Grants!KeyWorks(p.key) /\ StandsFor(p.key) = p /\ p.group \in ready
<1>1. ServiceInv /\ [ServiceNext]_serviceVars => [\A j \in Job : Granted(j)]_serviceVars
  <2> SUFFICES ASSUME ServiceInv, [ServiceNext]_serviceVars, NEW j \in Job
               PROVE  Granted(j)
    OBVIOUS
  <2>1. RowsOK /\ JudgedOK /\ AccessAgrees /\ [Next]_vars
    BY ServiceStep, WholeStep DEF ServiceInv, WholeInv
  <2>2. Asked(j)
    BY <2>1, StoreAsks
  <2> QED
    BY <2>1, <2>2, IdentifiedWorks DEF Asked
<1> QED
  BY <1>1, AccessIsRead, PTL DEF ServiceSpec, WorkIsGranted
=============================================================================
