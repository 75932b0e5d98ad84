--------------------------- MODULE JobStoreProofs ---------------------------
(***************************************************************************)
(* What JobStore keeps for any number of jobs, users, keys, quotas and     *)
(* lease tokens, and any interleaving of calls.                            *)
(*                                                                         *)
(* The rows are typed whatever the ledger does (RowsOK); hence every step  *)
(* of the store is a step of UsageLedger, or none, and the store inherits  *)
(* what UsageLedgerProofs shows.                                           *)
(*                                                                         *)
(* A reconciler reads a job in one step and writes it in another.  What it *)
(* judged by stays true in between, except for the lease, which a late     *)
(* heartbeat may renew (JudgedOK): so its write is still right, though the *)
(* worker may think the job its own.                                       *)
(*                                                                         *)
(* JobOK states what holds of a single job across its row, its reservation *)
(* and its artifact.  It is inductive once the tables and the ledger are   *)
(* typed, and implies five of the safety properties one by one.  A job a   *)
(* step does not touch keeps it (Untouched); what a step does to the job   *)
(* it is about is StepOK, which also says that an ended job stays as it    *)
(* ended, whence EndIsFinal, and that no job becomes active except by an   *)
(* admission, whence ActiveBounded.                                        *)
(***************************************************************************)
EXTENDS JobStore, UsageLedgerProofs

RowsOK ==
  /\ jobs \in [Job -> JobRow \cup {AbsentJob, DeletedJob}]
  /\ artifacts \subseteq Job
  /\ idempotency \in [User \X IdemKey -> Job \cup {None}]
  /\ liveKeys \subseteq Principal
  /\ members \subseteq User \X Group

(* The job that a reconciler has read stays as it judged it until it       *)
(* writes: the tenant lock leaves others nothing but the lease to renew.   *)
Judged(j) ==
  reconciling.job = j =>
    /\ Active(j)
    /\ reconciling.again => /\ jobs[j].state = "running" /\ jobs[j].claims < MaxClaims
                            /\ ~jobs[j].dispatched /\ ~jobs[j].cancel

JudgedOK ==
  /\ reconciling \in [job : Job \cup {None}, again : BOOLEAN]
  /\ \A j \in Job : Judged(j)

(* Hence what a reconciler writes is about a job that is still active, and *)
(* one that goes back to the queue may go there.                           *)
LEMMA WrittenJob ==
  ASSUME JudgedOK, NEW j \in Job
  PROVE  /\ GiveUp(j) => Active(j)
         /\ Requeue(j) => /\ Active(j) /\ jobs[j].state = "running" /\ jobs[j].claims < MaxClaims
                          /\ ~jobs[j].dispatched /\ ~jobs[j].cancel
BY DEF JudgedOK, Judged, GiveUp, Requeue

(* A job in a state of the table has a row of the table.                   *)
LEMMA RowOf ==
  ASSUME RowsOK, NEW j \in Job, Active(j) \/ Ended(j)
  PROVE  jobs[j] \in JobRow
BY DEF RowsOK, Active, Ended, Terminal, AbsentJob, DeletedJob

(* An inserted job is a row of the table.                                  *)
LEMMA NewJobRow ==
  ASSUME NEW p \in Principal, NEW d \in Delivery, NEW n \in Nat
  PROVE  NewJob(p, d, n) \in JobRow
BY DEF NewJob, JobRow, Delivery, Phase, Terminal, None

(* So is a purged one.                                                     *)
LEMMA PurgedRow ==
  ASSUME NEW row \in JobRow
  PROVE  Purged(row) \in JobRow
BY DEF Purged, JobRow, Phase, Terminal, None

(* A position is a natural number.                                         *)
LEMMA PositionNat == Position \subseteq Nat
<1>1. IsFiniteSet(Job) /\ {i \in Job : jobs[i].state # "absent"} \in SUBSET Job
  BY LedgerAssumption DEF LedgerAssumption
<1>2. Cardinality({i \in Job : jobs[i].state # "absent"}) \in Nat
  BY <1>1, FS_Subset, FS_CardinalityType
<1> QED
  BY <1>2 DEF Position

(* finish() writes a row of the table.                                     *)
LEMMA FinishRows ==
  ASSUME RowsOK, NEW j \in Job, NEW row \in JobRow,
         NEW state \in Terminal, NEW envelope \in Terminal \cup {None},
         Finish(j, row, state, envelope)
  PROVE  /\ jobs' \in [Job -> JobRow \cup {AbsentJob, DeletedJob}]
         /\ Settle(j, row.dispatched) /\ row.dispatched \in BOOLEAN
         /\ \A i \in Job \ {j} : jobs'[i] = jobs[i]
         /\ jobs'[j] = [row EXCEPT !.state = state, !.envelope = envelope,
                          !.expiry = "ahead", !.leaseOwner = 0,
                          !.lease = "ahead", !.queue = "ahead"]
<1> DEFINE end == [row EXCEPT !.state = state, !.envelope = envelope, !.expiry = "ahead",
                              !.leaseOwner = 0, !.lease = "ahead", !.queue = "ahead"]
<1>1. end \in JobRow
  BY DEF JobRow, Phase
<1>2. jobs' = [jobs EXCEPT ![j] = end]
  BY DEF Finish
<1>3. Settle(j, row.dispatched) /\ row.dispatched \in BOOLEAN
  BY DEF Finish, JobRow
<1> HIDE DEF end
<1>4. /\ jobs' \in [Job -> JobRow \cup {AbsentJob, DeletedJob}]
      /\ \A i \in Job \ {j} : jobs'[i] = jobs[i]
      /\ jobs'[j] = end
  BY <1>1, <1>2 DEF RowsOK
<1> QED
  BY <1>3, <1>4 DEF end
-----------------------------------------------------------------------------
(* The outcomes of the worker's result.                                    *)
LEMMA OutcomeType ==
  ASSUME NEW j \in Job, NEW result \in Completion
  PROVE  Outcome(j, result) \in Terminal /\ Envelope(j, result) \in Terminal \cup {None}
BY DEF Outcome, Envelope, Completion, Terminal

(* An admission keeps the types and reserves the units of the new job.     *)
LEMMA AdmitRows ==
  ASSUME RowsOK, NEW p \in Principal, NEW j \in Job, NEW u \in Units,
         \/ AdmitSync(p, j, u)
         \/ \E i \in IdemKey : AdmitAsync(p, j, i, u)
  PROVE  RowsOK' /\ Reserve(j, p, u)
<1>1. Position \subseteq Nat
  BY PositionNat
<1>2. "sync" \in Delivery /\ "async" \in Delivery
  BY DEF Delivery
<1>3. CASE AdmitSync(p, j, u)
  <2>1. PICK n \in Position : jobs' = [jobs EXCEPT ![j] = NewJob(p, "sync", n)]
    BY <1>3 DEF AdmitSync
  <2>2. NewJob(p, "sync", n) \in JobRow
    BY <1>1, <1>2, NewJobRow
  <2>3. jobs' \in [Job -> JobRow \cup {AbsentJob, DeletedJob}]
    BY <2>1, <2>2 DEF RowsOK
  <2> QED
    BY <1>3, <2>3 DEF AdmitSync, Admission, RowsOK, accessVars
<1>4. ASSUME NEW i \in IdemKey, AdmitAsync(p, j, i, u)
      PROVE  RowsOK' /\ Reserve(j, p, u)
  <2> DEFINE prior == {k \in Job : idempotency[<<p.user, i>>] = k}
  <2>1. PICK n \in Position : jobs' = [k \in Job |->
                IF k = j THEN NewJob(p, "async", n)
                ELSE IF k \in prior THEN Purged(jobs[k]) ELSE jobs[k]]
    BY <1>4 DEF AdmitAsync
  <2>2. NewJob(p, "async", n) \in JobRow
    BY <1>1, <1>2, NewJobRow
  <2>3. \A k \in prior : Purged(jobs[k]) \in JobRow
    <3>1. \A k \in prior : Ended(k)
      BY <1>4 DEF AdmitAsync
    <3> QED
      BY <3>1, RowOf, PurgedRow
  <2>4. p.user \in User
    BY LedgerAssumption DEF LedgerAssumption
  <2>5. /\ artifacts' = artifacts \ prior
        /\ idempotency' = [idempotency EXCEPT ![<<p.user, i>>] = j]
        /\ UNCHANGED accessVars /\ Reserve(j, p, u)
    BY <1>4 DEF AdmitAsync, Admission
  <2> HIDE DEF prior
  <2>6. jobs' \in [Job -> JobRow \cup {AbsentJob, DeletedJob}]
    BY <2>1, <2>2, <2>3 DEF RowsOK
  <2> QED
    BY <2>4, <2>5, <2>6 DEF RowsOK, accessVars
<1> QED
  BY <1>3, <1>4

(* A step that ends a job, as far as the rows and the ledger see it.       *)
Ends(j) ==
  \E row \in JobRow, state \in Terminal, envelope \in Terminal \cup {None} :
    Finish(j, row, state, envelope)

(* So is one that is marked for cancellation.                              *)
LEMMA CancelledRow ==
  ASSUME RowsOK, NEW j \in Job, Active(j)
  PROVE  [jobs[j] EXCEPT !.cancel = TRUE] \in JobRow
<1>1. jobs[j] \in JobRow
  BY RowOf
<1> QED
  BY <1>1 DEF JobRow

(* The calls that end a job do so by finish().                             *)
LEMMA EndingCalls ==
  ASSUME RowsOK, JudgedOK, NEW j \in Job, NEW token,
         \/ Cancel(j) /\ jobs[j].state = "queued"
         \/ ClaimExpired(j)
         \/ DispatchCancelled(j, token)
         \/ DispatchRevoked(j, token)
         \/ FailPreparation(j, token)
         \/ \E result \in Completion : Complete(j, token, result)
         \/ GiveUp(j)
  PROVE  Ends(j) /\ UNCHANGED <<idempotency, accessVars>> /\ artifacts' \subseteq Job
<1>1. "failed" \in Terminal /\ "cancelled" \in Terminal /\ None \in Terminal \cup {None}
  BY DEF Terminal
<1>2. Active(j) => jobs[j] \in JobRow
  BY RowOf
<1>3. CASE Cancel(j) /\ jobs[j].state = "queued"
  <2>1. Active(j) /\ Finish(j, [jobs[j] EXCEPT !.cancel = TRUE], "cancelled", None)
    <3>1. [jobs[j] EXCEPT !.cancel = TRUE].state = "queued"
      BY <1>2, <1>3 DEF Cancel, JobRow
    <3> QED
      BY <1>3, <3>1 DEF Cancel
  <2>2. [jobs[j] EXCEPT !.cancel = TRUE] \in JobRow
    BY <2>1, CancelledRow
  <2> QED
    BY <1>1, <1>3, <2>1, <2>2 DEF Cancel, Ends, RowsOK
<1>4. CASE ClaimExpired(j)
  BY <1>1, <1>2, <1>4 DEF ClaimExpired, NextInQueue, Active, Ends, RowsOK
<1>5. CASE DispatchCancelled(j, token)
  BY <1>1, <1>2, <1>5 DEF DispatchCancelled, MayDispatch, ValidLease, Active, Ends, RowsOK
<1>6. CASE DispatchRevoked(j, token)
  BY <1>1, <1>2, <1>6 DEF DispatchRevoked, MayDispatch, ValidLease, Active, Ends, RowsOK
<1>7. CASE FailPreparation(j, token)
  BY <1>1, <1>2, <1>7 DEF FailPreparation, MayDispatch, ValidLease, Active, Ends, RowsOK
<1>8. ASSUME NEW result \in Completion, Complete(j, token, result)
      PROVE  Ends(j) /\ UNCHANGED <<idempotency, accessVars>> /\ artifacts' \subseteq Job
  <2>1. Outcome(j, result) \in Terminal /\ Envelope(j, result) \in Terminal \cup {None}
    BY OutcomeType
  <2>2. /\ Finish(j, jobs[j], Outcome(j, result), Envelope(j, result))
        /\ Active(j)
        /\ UNCHANGED <<idempotency, accessVars>>
        /\ artifacts' = artifacts \cup {j} \/ artifacts' = artifacts
    BY <1>8 DEF Complete, ValidLease, Active
  <2> QED
    BY <1>2, <2>1, <2>2 DEF Ends, RowsOK
<1>9. CASE GiveUp(j)
  BY <1>1, <1>2, <1>9, WrittenJob DEF GiveUp, Ends, RowsOK
<1> QED
  BY <1>3, <1>4, <1>5, <1>6, <1>7, <1>8, <1>9

(* A step that changes the row of one job and leaves the ledger alone.     *)
ChangesRow(j) ==
  /\ \E row \in JobRow : jobs' = [jobs EXCEPT ![j] = row]
  /\ artifacts' \subseteq artifacts
  /\ idempotency' \in [User \X IdemKey -> Job \cup {None}]
  /\ UNCHANGED <<ledgerVars, accessVars>>

(* The calls that do not.                                                  *)
LEMMA RowCalls ==
  ASSUME RowsOK, JudgedOK, NEW j \in Job, NEW token,
         \/ Cancel(j) /\ jobs[j].state # "queued"
         \/ Claim(j)
         \/ Heartbeat(j, token)
         \/ MarkDispatch(j, token)
         \/ Requeue(j)
         \/ LeaseRunsOut(j) \/ QueueRunsOut(j) \/ RetentionRunsOut(j)
         \/ Purge(j)
  PROVE  ChangesRow(j)
<1>1. Active(j) \/ Ended(j) => jobs[j] \in JobRow
  BY RowOf
<1>2. idempotency \in [User \X IdemKey -> Job \cup {None}]
  BY DEF RowsOK
<1>3. CASE Cancel(j) /\ jobs[j].state # "queued"
  <2>1. Active(j) /\ jobs' = [jobs EXCEPT ![j] = [jobs[j] EXCEPT !.cancel = TRUE]]
    <3>1. Active(j)
      BY <1>3 DEF Cancel
    <3>2. [jobs[j] EXCEPT !.cancel = TRUE].state = jobs[j].state
      BY <1>1, <3>1 DEF JobRow
    <3> QED
      BY <1>3, <3>1, <3>2 DEF Cancel
  <2>2. [jobs[j] EXCEPT !.cancel = TRUE] \in JobRow
    BY <2>1, CancelledRow
  <2>3. [jobs[j] EXCEPT !.cancel = TRUE].state = jobs[j].state
    BY <1>1, <2>1 DEF JobRow
  <2>4. UNCHANGED <<ledgerVars, artifacts, idempotency, accessVars>>
    BY <1>3, <2>3 DEF Cancel
  <2> QED
    BY <1>2, <2>1, <2>2, <2>4 DEF ChangesRow
<1>4. CASE Claim(j)
  <2>1. jobs[j] \in JobRow
    BY <1>1, <1>4 DEF Claim, NextInQueue, Active
  <2>2. jobs[j].claims + 1 \in Nat
    BY <2>1 DEF JobRow
  <2>3. PICK n \in Nat : n = jobs[j].claims + 1
    BY <2>2
  <2> DEFINE row == [jobs[j] EXCEPT !.state = "running", !.claims = n,
                                    !.leaseOwner = n, !.lease = "ahead"]
  <2>4. row \in JobRow
    BY <2>1 DEF JobRow, Phase
  <2>5. jobs' = [jobs EXCEPT ![j] = row]
    BY <1>4, <2>3 DEF Claim
  <2> QED
    BY <1>2, <1>4, <2>4, <2>5 DEF Claim, ChangesRow
<1>5. CASE Heartbeat(j, token) \/ LeaseRunsOut(j)
  <2>1. jobs[j] \in JobRow
    BY <1>1, <1>5 DEF Heartbeat, ValidLease, LeaseRunsOut, Active
  <2>2. \A l \in Phase : [jobs[j] EXCEPT !.lease = l] \in JobRow
    BY <2>1 DEF JobRow
  <2>3. \E l \in Phase : jobs' = [jobs EXCEPT ![j] = [jobs[j] EXCEPT !.lease = l]]
    BY <1>5, <2>1 DEF Heartbeat, LeaseRunsOut, Later, Phase, JobRow
  <2> QED
    BY <1>2, <1>5, <2>2, <2>3 DEF Heartbeat, LeaseRunsOut, ChangesRow
<1>6. CASE QueueRunsOut(j)
  <2>1. jobs[j] \in JobRow
    BY <1>1, <1>6 DEF QueueRunsOut
  <2>2. [jobs[j] EXCEPT !.queue = Later(@)] \in JobRow
    BY <2>1 DEF JobRow, Later, Phase
  <2> QED
    BY <1>2, <1>6, <2>2 DEF QueueRunsOut, ChangesRow
<1>7. CASE RetentionRunsOut(j)
  <2>1. jobs[j] \in JobRow
    BY <1>1, <1>7 DEF RetentionRunsOut
  <2>2. [jobs[j] EXCEPT !.expiry = Later(@)] \in JobRow
    BY <2>1 DEF JobRow, Later, Phase
  <2> QED
    BY <1>2, <1>7, <2>2 DEF RetentionRunsOut, ChangesRow
<1>8. CASE MarkDispatch(j, token)
  <2>1. jobs[j] \in JobRow
    BY <1>1, <1>8 DEF MarkDispatch, MayDispatch, ValidLease, Active
  <2>2. [jobs[j] EXCEPT !.dispatched = TRUE] \in JobRow
    BY <2>1 DEF JobRow
  <2> QED
    BY <1>2, <1>8, <2>2 DEF MarkDispatch, ChangesRow
<1>9. CASE Requeue(j)
  <2> DEFINE row == [jobs[j] EXCEPT !.state = "queued", !.leaseOwner = 0, !.lease = "ahead"]
  <2>1. jobs[j] \in JobRow
    BY <1>1, <1>9, WrittenJob
  <2>2. row \in JobRow /\ jobs' = [jobs EXCEPT ![j] = row]
    BY <1>9, <2>1 DEF Requeue, JobRow, Phase
  <2> QED
    BY <1>2, <1>9, <2>2 DEF Requeue, ChangesRow
<1>10. CASE Purge(j)
  <2>1. Purged(jobs[j]) \in JobRow
    BY <1>1, <1>10, PurgedRow DEF Purge
  <2>2. idempotency' \in [User \X IdemKey -> Job \cup {None}]
    BY <1>2, <1>10 DEF Purge
  <2> QED
    BY <1>10, <2>1, <2>2 DEF Purge, ChangesRow
<1> QED
  BY <1>3, <1>4, <1>5, <1>6, <1>7, <1>8, <1>9, <1>10

(* The steps that leave the rows of jobs and artifacts alone.              *)
Elsewhere ==
  /\ UNCHANGED <<jobs, artifacts, idempotency>>
  /\ liveKeys' \subseteq Principal
  /\ members' \subseteq User \X Group
  /\ [LedgerNext]_ledgerVars
  /\ UNCHANGED <<reservations, erased>>

(* Every step of the store is of one of five kinds.                        *)
LEMMA StepKinds ==
  ASSUME RowsOK, [Next]_vars
  PROVE  \/ \E p \in Principal, j \in Job, u \in Units :
              AdmitSync(p, j, u) \/ \E i \in IdemKey : AdmitAsync(p, j, i, u)
         \/ \E j \in Job, token \in 1..MaxClaims :
              \/ Cancel(j) /\ jobs[j].state = "queued"
              \/ ClaimExpired(j)
              \/ DispatchCancelled(j, token)
              \/ DispatchRevoked(j, token)
              \/ FailPreparation(j, token)
              \/ \E result \in Completion : Complete(j, token, result)
              \/ GiveUp(j)
         \/ \E j \in Job, token \in 1..MaxClaims :
              \/ Cancel(j) /\ jobs[j].state # "queued"
              \/ Claim(j)
              \/ Heartbeat(j, token)
              \/ MarkDispatch(j, token)
              \/ Requeue(j)
              \/ LeaseRunsOut(j) \/ QueueRunsOut(j) \/ RetentionRunsOut(j)
              \/ Purge(j)
         \/ \E j \in Job : DeleteOld(j)
         \/ Elsewhere
<1>1. 1 \in 1..MaxClaims
  BY DEF MaxClaims
<1>2. CASE Request
  <2>1. ASSUME NEW k \in Key, ResetQuota(k)
        PROVE  Elsewhere
    BY <2>1 DEF ResetQuota, ResetKeyQuota, LedgerNext, storeVars, accessVars, Elsewhere, RowsOK
  <2>2. ASSUME NEW live \in SUBSET Principal, ChangeKeys(live)
        PROVE  Elsewhere
    BY <2>2 DEF ChangeKeys, SetKeyQuota, LedgerNext, ledgerVars, Elsewhere, RowsOK
  <2>3. ASSUME NEW granted \in SUBSET (User \X Group), ChangeMembers(granted)
        PROVE  Elsewhere
    BY <2>3 DEF ChangeMembers, SetDailyQuota, LedgerNext, ledgerVars, Elsewhere, RowsOK
  <2> QED
    BY <1>1, <1>2, <2>1, <2>2, <2>3 DEF Request
<1>3. CASE Maintenance
  <2>1. ASSUME NEW j \in Job, ReconcileReads(j)
        PROVE  Elsewhere
    BY <2>1 DEF ReconcileReads, ledgerVars, accessVars, Elsewhere, RowsOK
  <2>2. ReconcileFails => Elsewhere
    BY DEF ReconcileFails, ledgerVars, accessVars, Elsewhere, RowsOK
  <2> QED
    BY <1>1, <1>3, <2>1, <2>2 DEF Maintenance, ReconcileWrites
<1>4. CASE \E j \in Job : Claim(j)
  BY <1>1, <1>4
<1>5. CASE \E j \in Job, token \in 1..MaxClaims : LeaseCall(j, token)
  BY <1>5 DEF LeaseCall
<1>6. CASE Time
  <2>1. Midnight => Elsewhere
    BY DEF Midnight, NextDay, LedgerNext, storeVars, accessVars, Elsewhere, RowsOK
  <2> QED
    BY <1>1, <1>6, <2>1 DEF Time
<1>7. CASE UNCHANGED vars
  BY <1>7 DEF vars, storeVars, accessVars, ledgerVars, Elsewhere, RowsOK
<1> QED
  BY <1>2, <1>3, <1>4, <1>5, <1>6, <1>7 DEF Next

(* Every step keeps the types and is a step of the ledger, or none.        *)
LEMMA RowsStep ==
  ASSUME RowsOK, JudgedOK, [Next]_vars
  PROVE  RowsOK' /\ [LedgerNext]_ledgerVars
<1>1. ASSUME NEW p \in Principal, NEW j \in Job, NEW u \in Units,
             AdmitSync(p, j, u) \/ \E i \in IdemKey : AdmitAsync(p, j, i, u)
      PROVE  RowsOK' /\ LedgerNext
  BY <1>1, AdmitRows DEF LedgerNext
<1>2. ASSUME NEW j \in Job, Ends(j), UNCHANGED <<idempotency, accessVars>>, artifacts' \subseteq Job
      PROVE  RowsOK' /\ LedgerNext
  <2>1. PICK row \in JobRow, state \in Terminal, envelope \in Terminal \cup {None} :
               Finish(j, row, state, envelope)
    BY <1>2 DEF Ends
  <2>2. /\ jobs' \in [Job -> JobRow \cup {AbsentJob, DeletedJob}]
        /\ Settle(j, row.dispatched) /\ row.dispatched \in BOOLEAN
    BY <2>1, FinishRows
  <2> QED
    BY <1>2, <2>2 DEF RowsOK, LedgerNext, accessVars
<1>3. ASSUME NEW j \in Job, ChangesRow(j)
      PROVE  RowsOK' /\ UNCHANGED ledgerVars
  BY <1>3 DEF ChangesRow, RowsOK, accessVars
<1>4. ASSUME NEW j \in Job, DeleteOld(j)
      PROVE  RowsOK' /\ LedgerNext
  BY <1>4 DEF DeleteOld, RowsOK, LedgerNext, accessVars
<1>5. CASE Elsewhere
  BY <1>5 DEF Elsewhere, RowsOK
<1> QED
  BY <1>1, <1>2, <1>3, <1>4, <1>5, StepKinds, EndingCalls, RowCalls

(* Without the tenant lock a job keeps all that was read of it but the two *)
(* deadlines.                                                              *)
SameWork(j) ==
  /\ jobs'[j].state = jobs[j].state
  /\ jobs'[j].claims = jobs[j].claims
  /\ jobs'[j].dispatched = jobs[j].dispatched
  /\ jobs'[j].cancel = jobs[j].cancel

(* The steps that need no tenant lock.                                     *)
LEMMA LocklessWork ==
  ASSUME RowsOK, NEW j \in Job, NEW token,
         \/ Heartbeat(j, token)
         \/ LeaseRunsOut(j) \/ QueueRunsOut(j) \/ RetentionRunsOut(j)
  PROVE  UNCHANGED reconciling /\ \A i \in Job : SameWork(i)
<1>1. jobs[j] \in JobRow
  BY RowOf DEF Heartbeat, ValidLease, LeaseRunsOut, QueueRunsOut, RetentionRunsOut, Active
<1>2. CASE Heartbeat(j, token)
  BY <1>1, <1>2 DEF Heartbeat, SameWork, RowsOK, JobRow
<1>3. CASE LeaseRunsOut(j)
  BY <1>1, <1>3 DEF LeaseRunsOut, SameWork, RowsOK, JobRow
<1>4. CASE QueueRunsOut(j)
  BY <1>1, <1>4 DEF QueueRunsOut, SameWork, RowsOK, JobRow
<1>5. CASE RetentionRunsOut(j)
  BY <1>1, <1>5 DEF RetentionRunsOut, SameWork, RowsOK, JobRow
<1> QED
  BY <1>2, <1>3, <1>4, <1>5

(* What a reconciler has judged stays so.                                  *)
LEMMA JudgedStep ==
  ASSUME RowsOK, JudgedOK, [Next]_vars
  PROVE  JudgedOK'
<1>1. None \notin Job
  BY StoreAssumption DEF StoreAssumption, None
<1>2. ASSUME TenantLock \/ reconciling' = NoReconcile
      PROVE  JudgedOK'
  <2>1. reconciling' = [job |-> None, again |-> FALSE]
    BY <1>2 DEF TenantLock, LockFree, NoReconcile
  <2>2. reconciling'.job = None /\ reconciling' \in [job : Job \cup {None}, again : BOOLEAN]
    BY <2>1
  <2>3. \A j \in Job : Judged(j)'
    BY <1>1, <2>2 DEF Judged
  <2> QED
    BY <2>2, <2>3 DEF JudgedOK
<1>3. ASSUME UNCHANGED reconciling, \A j \in Job : SameWork(j)
      PROVE  JudgedOK'
  BY <1>3 DEF JudgedOK, Judged, SameWork, Active
<1>4. UNCHANGED jobs => \A j \in Job : SameWork(j)
  BY DEF SameWork
<1>5. CASE Request
  BY <1>2, <1>5 DEF Request, AdmitSync, AdmitAsync, Admission, Cancel, ResetQuota, ChangeKeys,
                    ChangeMembers
<1>6. CASE Maintenance
  <2>1. ASSUME NEW j \in Job, ReconcileReads(j)
        PROVE  JudgedOK'
    <3>1. PICK again \in BOOLEAN :
            /\ again => ~jobs[j].dispatched /\ ~jobs[j].cancel /\ MayRequeue(j)
            /\ reconciling' = [job |-> j, again |-> again]
      BY <2>1 DEF ReconcileReads
    <3>2. Active(j) /\ UNCHANGED jobs
      BY <2>1 DEF ReconcileReads, Lost
    <3>3. reconciling'.job = j /\ reconciling'.again = again
      BY <3>1
    <3>4. \A i \in Job : Judged(i)'
      BY <3>1, <3>2, <3>3 DEF Judged, MayRequeue, Active
    <3> QED
      BY <3>1, <3>4 DEF JudgedOK
  <2> QED
    BY <1>2, <1>6, <2>1 DEF Maintenance, ClaimExpired, Purge, DeleteOld, ReconcileWrites,
                            Requeue, GiveUp, ReconcileFails
<1>7. CASE \E j \in Job : Claim(j)
  BY <1>2, <1>7 DEF Claim
<1>8. CASE \E j \in Job, token \in 1..MaxClaims : LeaseCall(j, token)
  BY <1>2, <1>3, <1>8, LocklessWork DEF LeaseCall, MarkDispatch, DispatchCancelled, DispatchRevoked,
                                        FailPreparation, Complete
<1>9. CASE Time
  BY <1>3, <1>4, <1>9, LocklessWork DEF Time, Midnight, storeVars
<1>10. CASE UNCHANGED vars
  BY <1>3, <1>4, <1>10 DEF vars, storeVars
<1> QED
  BY <1>5, <1>6, <1>7, <1>8, <1>9, <1>10 DEF Next

(* The empty tables have their types, and no reconciler has read any.      *)
LEMMA InitRows ==
  ASSUME Init
  PROVE  RowsOK /\ JudgedOK
BY StoreAssumption DEF Init, RowsOK, JudgedOK, Judged, NoReconcile, StoreAssumption, None

(* The store uses the ledger as UsageLedger says: each of its transactions *)
(* makes one reservation, one settlement, one reset, one deletion, or none.*)
THEOREM StoreKeepsLedger == Spec => LedgerSpec
<1>1. Init => RowsOK /\ JudgedOK /\ LedgerInit
  BY InitRows DEF Init
<1>2. RowsOK /\ JudgedOK /\ [Next]_vars => RowsOK' /\ JudgedOK' /\ [LedgerNext]_ledgerVars
  BY RowsStep, JudgedStep
<1> QED
  BY <1>1, <1>2, PTL DEF Spec, LedgerSpec

(* The tables keep their types.                                            *)
THEOREM JobTypeCorrect == Spec => []JobTypeOK
<1>1. Init => RowsOK /\ JudgedOK
  BY InitRows
<1>2. RowsOK /\ JudgedOK /\ [Next]_vars => RowsOK' /\ JudgedOK'
  BY RowsStep, JudgedStep
<1>3. RowsOK /\ JudgedOK /\ LedgerTypeOK => JobTypeOK
  BY DEF RowsOK, JudgedOK, JobTypeOK
<1> QED
  BY <1>1, <1>2, <1>3, StoreKeepsLedger, LedgerTypeCorrect, PTL DEF Spec
-----------------------------------------------------------------------------
(* A queued or running job holds its units and has nothing to show yet; it *)
(* is queued only as long as its work cannot have reached a provider.      *)
OpenJob(j) ==
  /\ reservations[j].state = "reserved"
  /\ j \notin artifacts
  /\ ~jobs[j].purged
  /\ jobs[j].claims <= MaxClaims
  /\ jobs[j].state = "queued" =>
       jobs[j].claims < MaxClaims /\ ~jobs[j].dispatched /\ ~jobs[j].cancel

ClosedJob(j) ==
  /\ jobs[j].dispatched => reservations[j].state = "settled"
  /\ ~jobs[j].dispatched => reservations[j].state = "released"
  /\ jobs[j].cancel => jobs[j].state # "succeeded"
  /\ j \in artifacts => jobs[j].state = "succeeded" /\ jobs[j].dispatched /\ ~jobs[j].purged
  /\ jobs[j].envelope \in {None, jobs[j].state}
  /\ jobs[j].envelope # None => jobs[j].delivery = "sync" /\ ~jobs[j].purged
  /\ jobs[j].delivery = "sync" /\ jobs[j].state = "succeeded" /\ ~jobs[j].purged
       => jobs[j].envelope # None

JobOK(j) ==
  /\ ~Active(j) /\ ~Ended(j) => j \notin artifacts
  /\ jobs[j] = AbsentJob => reservations[j] = NoReservation
  /\ Active(j) => OpenJob(j)
  /\ Ended(j) => ClosedJob(j)

StoreInv == RowsOK /\ JudgedOK /\ LedgerTypeOK /\ \A j \in Job : JobOK(j)

Untouched(j) ==
  /\ jobs'[j] = jobs[j]
  /\ reservations'[j] = reservations[j]
  /\ j \in artifacts' <=> j \in artifacts

(* What EndIsFinal says of one job.                                        *)
StaysEnded(j) ==
  /\ \/ jobs'[j] = DeletedJob
     \/ /\ jobs'[j].state = jobs[j].state
        /\ jobs'[j].envelope \in {None, jobs[j].envelope}
        /\ jobs'[j].purged \/ jobs'[j].expiry \in {jobs[j].expiry, Later(jobs[j].expiry)}
  /\ reservations'[j] = reservations[j]
  /\ j \in artifacts' => j \in artifacts

(* What any step but its admission may do to a job.                        *)
StepOK(j) ==
  /\ JobOK(j)'
  /\ Ended(j) => StaysEnded(j)
  /\ Active(j)' => Active(j) /\ jobs'[j].owner = jobs[j].owner

(* A job that is queued or running has not ended.                          *)
LEMMA ActiveNotEnded ==
  ASSUME NEW j \in Job, Active(j)
  PROVE  ~Ended(j)
BY DEF Active, Ended, Terminal

(* A job that a step does not touch keeps what it had.                     *)
LEMMA UntouchedOK ==
  ASSUME NEW j \in Job, JobOK(j), Untouched(j)
  PROVE  StepOK(j)
<1>1. JobOK(j)'
  BY DEF JobOK, Untouched, Active, Ended, OpenJob, ClosedJob
<1> QED
  BY <1>1 DEF StepOK, Untouched, StaysEnded, Active
-----------------------------------------------------------------------------
(* The settlement of a reservation that is held: charged work is used,     *)
(* other work given back, and no other job's reservation changes.          *)
LEMMA SettleEffect ==
  ASSUME LedgerTypeOK, NEW j \in Job, NEW charged \in BOOLEAN,
         reservations[j].state = "reserved", Settle(j, charged)
  PROVE  /\ charged => reservations'[j].state = "settled"
         /\ ~charged => reservations'[j].state = "released"
         /\ \A i \in Job \ {j} : reservations'[i] = reservations[i]
<1>1. reservations' = [reservations EXCEPT ![j].state =
                         IF charged THEN "settled" ELSE "released"]
  BY DEF Settle
<1>2. reservations[j] \in Reservation
  BY ReservationRow
<1>3. reservations'[j] = [reservations[j] EXCEPT !.state =
                            IF charged THEN "settled" ELSE "released"]
  BY <1>1 DEF LedgerTypeOK
<1>4. /\ charged => reservations'[j].state = "settled"
      /\ ~charged => reservations'[j].state = "released"
  BY <1>2, <1>3 DEF Reservation
<1>5. \A i \in Job \ {j} : reservations'[i] = reservations[i]
  BY <1>1 DEF LedgerTypeOK
<1> QED
  BY <1>4, <1>5

(* The transaction that ends an active job leaves it closed, and touches   *)
(* no other.                                                               *)
LEMMA FinishOK ==
  ASSUME RowsOK, LedgerTypeOK, NEW j \in Job, Active(j), OpenJob(j),
         NEW row \in JobRow, NEW state \in Terminal, NEW envelope \in {None, state},
         Finish(j, row, state, envelope),
         ~row.purged,
         row.cancel => state # "succeeded",
         envelope # None => row.delivery = "sync",
         row.delivery = "sync" /\ state = "succeeded" => envelope # None,
         \/ artifacts' = artifacts
         \/ artifacts' = artifacts \cup {j} /\ state = "succeeded" /\ row.dispatched
  PROVE  StepOK(j) /\ \A i \in Job \ {j} : Untouched(i)
<1> DEFINE end == [row EXCEPT !.state = state, !.envelope = envelope, !.expiry = "ahead",
                              !.leaseOwner = 0, !.lease = "ahead", !.queue = "ahead"]
<1>1. envelope \in Terminal \cup {None}
  OBVIOUS
<1>2. /\ Settle(j, row.dispatched) /\ row.dispatched \in BOOLEAN
      /\ \A i \in Job \ {j} : jobs'[i] = jobs[i]
      /\ jobs'[j] = end
  BY <1>1, FinishRows
<1>3. reservations[j].state = "reserved"
  BY DEF OpenJob
<1>4. /\ row.dispatched => reservations'[j].state = "settled"
      /\ ~row.dispatched => reservations'[j].state = "released"
      /\ \A i \in Job \ {j} : reservations'[i] = reservations[i]
  BY <1>2, <1>3, SettleEffect
<1>5. /\ end.state = state /\ end.envelope = envelope /\ end.cancel = row.cancel
      /\ end.dispatched = row.dispatched /\ end.delivery = row.delivery
      /\ end.purged = row.purged
  BY DEF JobRow
<1> HIDE DEF end
<1>6. /\ jobs'[j].state = state /\ jobs'[j].envelope = envelope
      /\ jobs'[j].cancel = row.cancel /\ jobs'[j].dispatched = row.dispatched
      /\ jobs'[j].delivery = row.delivery /\ jobs'[j].purged = row.purged
  BY <1>2, <1>5
<1>7. j \in artifacts' => state = "succeeded" /\ row.dispatched
  BY DEF OpenJob
<1>8. Ended(j)' /\ ~Active(j)' /\ jobs'[j] # AbsentJob
  BY <1>6 DEF Ended, Active, Terminal, AbsentJob
<1>9. ClosedJob(j)'
  BY <1>4, <1>6, <1>7 DEF ClosedJob
<1>10. StepOK(j)
  BY <1>8, <1>9, ActiveNotEnded DEF StepOK, JobOK
<1>11. \A i \in Job \ {j} : i \in artifacts' <=> i \in artifacts
  OBVIOUS
<1> QED
  BY <1>2, <1>4, <1>10, <1>11 DEF Untouched
-----------------------------------------------------------------------------
(* The calls that end a job.                                               *)
LEMMA EndingOK ==
  ASSUME StoreInv, NEW j \in Job, NEW token,
         \/ Cancel(j) /\ jobs[j].state = "queued"
         \/ ClaimExpired(j)
         \/ DispatchCancelled(j, token)
         \/ DispatchRevoked(j, token)
         \/ FailPreparation(j, token)
         \/ \E result \in Completion : Complete(j, token, result)
         \/ GiveUp(j)
  PROVE  StepOK(j) /\ \A i \in Job \ {j} : Untouched(i)
<1>1. RowsOK /\ LedgerTypeOK /\ JobOK(j)
  BY DEF StoreInv
<1>2. "failed" \in Terminal /\ "cancelled" \in Terminal
  BY DEF Terminal
<1>3. Active(j) => jobs[j] \in JobRow /\ OpenJob(j) /\ ~jobs[j].purged
  BY <1>1, RowOf DEF JobOK, OpenJob
<1>4. ASSUME Active(j), NEW row \in JobRow, ~row.purged, NEW state \in {"failed", "cancelled"},
             Finish(j, row, state, None), artifacts' = artifacts
      PROVE  StepOK(j) /\ \A i \in Job \ {j} : Untouched(i)
  BY <1>1, <1>2, <1>3, <1>4, FinishOK
<1>5. CASE Cancel(j) /\ jobs[j].state = "queued"
  <2> DEFINE row == [jobs[j] EXCEPT !.cancel = TRUE]
  <2>1. Active(j) /\ jobs[j] \in JobRow
    BY <1>3, <1>5 DEF Cancel
  <2>2. row \in JobRow /\ row.state = "queued" /\ ~row.purged
    BY <1>3, <1>5, <2>1 DEF JobRow
  <2>3. Finish(j, row, "cancelled", None) /\ artifacts' = artifacts
    BY <1>5, <2>2 DEF Cancel
  <2> QED
    BY <1>4, <2>1, <2>2, <2>3
<1>6. CASE ClaimExpired(j)
  BY <1>3, <1>4, <1>6 DEF ClaimExpired, NextInQueue, Active
<1>7. CASE DispatchCancelled(j, token)
  BY <1>3, <1>4, <1>7 DEF DispatchCancelled, MayDispatch, ValidLease, Active
<1>8. CASE DispatchRevoked(j, token)
  BY <1>3, <1>4, <1>8 DEF DispatchRevoked, MayDispatch, ValidLease, Active
<1>9. CASE FailPreparation(j, token)
  BY <1>3, <1>4, <1>9 DEF FailPreparation, MayDispatch, ValidLease, Active
<1>10. CASE GiveUp(j)
  BY <1>3, <1>4, <1>10, WrittenJob DEF GiveUp, StoreInv
<1>11. ASSUME NEW result \in Completion, Complete(j, token, result)
       PROVE  StepOK(j) /\ \A i \in Job \ {j} : Untouched(i)
  <2> DEFINE state == Outcome(j, result)
             envelope == Envelope(j, result)
  <2>1. /\ Active(j) /\ jobs[j].dispatched
        /\ Finish(j, jobs[j], state, envelope)
        /\ \/ artifacts' = artifacts
           \/ artifacts' = artifacts \cup {j} /\ state = "succeeded"
    BY <1>11 DEF Complete, ValidLease, Active
  <2>2. state \in Terminal /\ envelope \in {None, state}
    BY DEF Outcome, Envelope, Overridden, Completion, Terminal
  <2>3. jobs[j].cancel => state # "succeeded"
    BY DEF Outcome
  <2>4. envelope # None => jobs[j].delivery = "sync"
    BY DEF Envelope
  <2>5. jobs[j].delivery = "sync" /\ state = "succeeded" => envelope # None
    BY DEF Outcome, Envelope, Overridden, None
  <2> HIDE DEF state, envelope
  <2> QED
    BY <1>1, <1>3, <2>1, <2>2, <2>3, <2>4, <2>5, FinishOK
<1> QED
  BY <1>5, <1>6, <1>7, <1>8, <1>9, <1>10, <1>11

(* A call that rewrites the row of one job and touches no other.           *)
LEMMA OneRow ==
  ASSUME StoreInv, NEW j \in Job, NEW row \in JobRow,
         jobs' = [jobs EXCEPT ![j] = row], UNCHANGED reservations,
         artifacts' = artifacts \/ artifacts' = artifacts \ {j}
  PROVE  /\ jobs'[j] = row
         /\ reservations'[j] = reservations[j]
         /\ \A i \in Job \ {j} : Untouched(i)
BY DEF StoreInv, RowsOK, Untouched

(* A call that leaves an active job active.                                *)
LEMMA StaysOpen ==
  ASSUME StoreInv, NEW j \in Job, Active(j), NEW row \in JobRow,
         jobs' = [jobs EXCEPT ![j] = row], UNCHANGED <<reservations, artifacts>>,
         row.state \in {"queued", "running"}, row.owner = jobs[j].owner,
         ~row.purged, row.claims <= MaxClaims,
         row.state = "queued" => row.claims < MaxClaims /\ ~row.dispatched /\ ~row.cancel
  PROVE  StepOK(j) /\ \A i \in Job \ {j} : Untouched(i)
<1>1. /\ jobs'[j] = row /\ reservations'[j] = reservations[j]
      /\ \A i \in Job \ {j} : Untouched(i)
  BY OneRow
<1>2. OpenJob(j)
  BY DEF StoreInv, JobOK
<1>3. OpenJob(j)'
  BY <1>1, <1>2 DEF OpenJob
<1>4. Active(j)' /\ ~Ended(j)' /\ jobs'[j] # AbsentJob
  BY <1>1 DEF Active, Ended, Terminal, AbsentJob
<1> QED
  BY <1>1, <1>3, <1>4, ActiveNotEnded DEF StepOK, JobOK

(* A purge keeps how the job ended and takes the rest.                     *)
LEMMA PurgedOK ==
  ASSUME NEW j \in Job, Ended(j), jobs[j] \in JobRow, ClosedJob(j),
         jobs'[j] = Purged(jobs[j]), reservations'[j] = reservations[j], j \notin artifacts'
  PROVE  StepOK(j)
<1>1. /\ jobs'[j].state = jobs[j].state /\ jobs'[j].dispatched = jobs[j].dispatched
      /\ jobs'[j].cancel = jobs[j].cancel
      /\ jobs'[j].purged /\ jobs'[j].envelope = None
  BY DEF Purged, JobRow
<1>2. Ended(j)' /\ ~Active(j)' /\ jobs'[j] # AbsentJob
  BY <1>1 DEF Ended, Active, Terminal, AbsentJob
<1>3. ClosedJob(j)'
  BY <1>1 DEF ClosedJob
<1> QED
  BY <1>1, <1>2, <1>3 DEF StepOK, JobOK, StaysEnded

(* The calls that rewrite one row and settle nothing.                      *)
LEMMA RowCallsOK ==
  ASSUME StoreInv, NEW j \in Job, NEW token,
         \/ Cancel(j) /\ jobs[j].state # "queued"
         \/ Claim(j)
         \/ Heartbeat(j, token)
         \/ MarkDispatch(j, token)
         \/ Requeue(j)
         \/ LeaseRunsOut(j) \/ QueueRunsOut(j) \/ RetentionRunsOut(j)
         \/ Purge(j)
  PROVE  StepOK(j) /\ \A i \in Job \ {j} : Untouched(i)
<1>1. RowsOK /\ JobOK(j)
  BY DEF StoreInv
<1>2. Active(j) => jobs[j] \in JobRow /\ OpenJob(j)
  BY <1>1, RowOf DEF JobOK
<1>3. Ended(j) => jobs[j] \in JobRow /\ ClosedJob(j) /\ ~Active(j)
  BY <1>1, RowOf, ActiveNotEnded DEF JobOK
<1>4. CASE Cancel(j) /\ jobs[j].state # "queued"
  <2> DEFINE row == [jobs[j] EXCEPT !.cancel = TRUE]
  <2>1. Active(j) /\ jobs[j] \in JobRow /\ OpenJob(j)
    BY <1>2, <1>4 DEF Cancel
  <2>2. /\ row \in JobRow /\ row.state = "running" /\ row.owner = jobs[j].owner
        /\ row.purged = jobs[j].purged /\ row.claims = jobs[j].claims
    BY <1>4, <2>1 DEF JobRow, Active
  <2>3. jobs' = [jobs EXCEPT ![j] = row] /\ UNCHANGED <<reservations, artifacts>>
    BY <1>4, <2>2 DEF Cancel, ledgerVars
  <2> HIDE DEF row
  <2> QED
    BY <2>1, <2>2, <2>3, StaysOpen DEF OpenJob
<1>5. CASE Claim(j)
  <2>1. Active(j) /\ jobs[j].state = "queued" /\ jobs[j] \in JobRow /\ OpenJob(j)
    BY <1>2, <1>5 DEF Claim, NextInQueue, Active
  <2>2. PICK n \in Nat : n = jobs[j].claims + 1
    BY <2>1 DEF JobRow
  <2> DEFINE row == [jobs[j] EXCEPT !.state = "running", !.claims = n,
                                    !.leaseOwner = n, !.lease = "ahead"]
  <2>3. /\ row \in JobRow /\ row.state = "running" /\ row.owner = jobs[j].owner
        /\ row.purged = jobs[j].purged /\ row.claims = n
    BY <2>1 DEF JobRow, Phase
  <2>4. jobs' = [jobs EXCEPT ![j] = row] /\ UNCHANGED <<reservations, artifacts>>
    BY <1>5, <2>2 DEF Claim, ledgerVars
  <2> HIDE DEF row
  <2>5. n <= MaxClaims /\ ~row.purged
    BY <2>1, <2>2, <2>3 DEF OpenJob, MaxClaims, JobRow
  <2> QED
    BY <2>1, <2>3, <2>4, <2>5, StaysOpen
<1>6. CASE Heartbeat(j, token) \/ LeaseRunsOut(j)
  <2>1. Active(j) /\ jobs[j].state = "running" /\ jobs[j] \in JobRow /\ OpenJob(j)
    BY <1>2, <1>6 DEF Heartbeat, ValidLease, LeaseRunsOut, Active
  <2>2. PICK l \in Phase : jobs' = [jobs EXCEPT ![j] = [jobs[j] EXCEPT !.lease = l]]
    BY <1>6, <2>1 DEF Heartbeat, LeaseRunsOut, Later, Phase, JobRow
  <2> DEFINE row == [jobs[j] EXCEPT !.lease = l]
  <2>3. /\ row \in JobRow /\ row.state = "running" /\ row.owner = jobs[j].owner
        /\ row.purged = jobs[j].purged /\ row.claims = jobs[j].claims
    BY <2>1 DEF JobRow
  <2>4. jobs' = [jobs EXCEPT ![j] = row] /\ UNCHANGED <<reservations, artifacts>>
    BY <1>6, <2>2 DEF Heartbeat, LeaseRunsOut, ledgerVars
  <2> HIDE DEF row
  <2> QED
    BY <2>1, <2>3, <2>4, StaysOpen DEF OpenJob
<1>7. CASE QueueRunsOut(j)
  <2>1. Active(j) /\ jobs[j] \in JobRow /\ OpenJob(j)
    BY <1>2, <1>7 DEF QueueRunsOut
  <2> DEFINE row == [jobs[j] EXCEPT !.queue = Later(@)]
  <2>2. /\ row \in JobRow /\ row.state = jobs[j].state /\ row.owner = jobs[j].owner
        /\ row.purged = jobs[j].purged /\ row.claims = jobs[j].claims
        /\ row.dispatched = jobs[j].dispatched /\ row.cancel = jobs[j].cancel
    BY <2>1 DEF JobRow, Later, Phase
  <2>3. jobs' = [jobs EXCEPT ![j] = row] /\ UNCHANGED <<reservations, artifacts>>
    BY <1>7 DEF QueueRunsOut, ledgerVars
  <2> HIDE DEF row
  <2> QED
    BY <2>1, <2>2, <2>3, StaysOpen DEF OpenJob, Active
<1>8. CASE MarkDispatch(j, token)
  <2>1. Active(j) /\ jobs[j].state = "running" /\ jobs[j] \in JobRow /\ OpenJob(j)
    BY <1>2, <1>8 DEF MarkDispatch, MayDispatch, ValidLease, Active
  <2> DEFINE row == [jobs[j] EXCEPT !.dispatched = TRUE]
  <2>2. /\ row \in JobRow /\ row.state = "running" /\ row.owner = jobs[j].owner
        /\ row.purged = jobs[j].purged /\ row.claims = jobs[j].claims
    BY <2>1 DEF JobRow
  <2>3. jobs' = [jobs EXCEPT ![j] = row] /\ UNCHANGED <<reservations, artifacts>>
    BY <1>8 DEF MarkDispatch, ledgerVars
  <2> HIDE DEF row
  <2> QED
    BY <2>1, <2>2, <2>3, StaysOpen DEF OpenJob
<1>9. CASE Requeue(j)
  <2> DEFINE row == [jobs[j] EXCEPT !.state = "queued", !.leaseOwner = 0, !.lease = "ahead"]
  <2>1. /\ Active(j) /\ jobs[j] \in JobRow /\ OpenJob(j)
        /\ jobs[j].claims < MaxClaims /\ ~jobs[j].dispatched /\ ~jobs[j].cancel
    BY <1>2, <1>9, WrittenJob DEF StoreInv
  <2>2. /\ row \in JobRow /\ row.state = "queued" /\ row.owner = jobs[j].owner
        /\ row.purged = jobs[j].purged /\ row.claims = jobs[j].claims
        /\ row.dispatched = jobs[j].dispatched /\ row.cancel = jobs[j].cancel
    BY <2>1 DEF JobRow, Phase
  <2>3. jobs' = [jobs EXCEPT ![j] = row] /\ UNCHANGED <<reservations, artifacts>>
    BY <1>9, <2>1 DEF Requeue, ledgerVars
  <2> HIDE DEF row
  <2>4. row.claims <= MaxClaims /\ ~row.purged
    BY <2>1, <2>2 DEF OpenJob
  <2> QED
    BY <2>1, <2>2, <2>3, <2>4, StaysOpen
<1>10. CASE RetentionRunsOut(j)
  <2>1. Ended(j) /\ ~Active(j) /\ jobs[j] \in JobRow /\ ClosedJob(j)
    BY <1>3, <1>10 DEF RetentionRunsOut
  <2> DEFINE row == [jobs[j] EXCEPT !.expiry = Later(@)]
  <2>2. /\ row \in JobRow /\ row.state = jobs[j].state /\ row.cancel = jobs[j].cancel
        /\ row.purged = jobs[j].purged /\ row.dispatched = jobs[j].dispatched
        /\ row.envelope = jobs[j].envelope /\ row.delivery = jobs[j].delivery
        /\ row.expiry = Later(jobs[j].expiry)
    BY <2>1 DEF JobRow, Later, Phase
  <2>3. jobs' = [jobs EXCEPT ![j] = row] /\ UNCHANGED <<reservations, artifacts>>
    BY <1>10 DEF RetentionRunsOut, ledgerVars
  <2> HIDE DEF row
  <2>4. /\ jobs'[j] = row /\ reservations'[j] = reservations[j]
        /\ \A i \in Job \ {j} : Untouched(i)
    BY <2>2, <2>3, OneRow
  <2>5. Ended(j)' /\ ~Active(j)' /\ jobs'[j] # AbsentJob
    BY <2>1, <2>2, <2>4 DEF Ended, Active, Terminal, AbsentJob
  <2>6. ClosedJob(j)'
    BY <2>1, <2>2, <2>3, <2>4 DEF ClosedJob
  <2>7. StaysEnded(j)
    BY <2>2, <2>3, <2>4 DEF StaysEnded
  <2> QED
    BY <2>4, <2>5, <2>6, <2>7 DEF StepOK, JobOK
<1>11. CASE Purge(j)
  <2>1. Ended(j) /\ ~Active(j) /\ jobs[j] \in JobRow /\ ClosedJob(j)
    BY <1>3, <1>11 DEF Purge
  <2>2. /\ Purged(jobs[j]) \in JobRow
        /\ jobs' = [jobs EXCEPT ![j] = Purged(jobs[j])]
        /\ UNCHANGED reservations /\ artifacts' = artifacts \ {j}
    BY <1>11, <2>1, PurgedRow DEF Purge, ledgerVars
  <2>3. /\ jobs'[j] = Purged(jobs[j]) /\ reservations'[j] = reservations[j]
        /\ \A i \in Job \ {j} : Untouched(i)
    BY <2>2, OneRow
  <2> QED
    BY <2>1, <2>2, <2>3, PurgedOK
<1> QED
  BY <1>4, <1>5, <1>6, <1>7, <1>8, <1>9, <1>10, <1>11

(* The deletion of the rows of an old job.                                 *)
LEMMA DeleteOldOK ==
  ASSUME StoreInv, NEW j \in Job, DeleteOld(j)
  PROVE  StepOK(j) /\ \A i \in Job \ {j} : Untouched(i)
<1>1. Ended(j) /\ jobs[j].purged /\ ClosedJob(j)
  BY DEF StoreInv, JobOK, DeleteOld
<1>2. /\ jobs' = [jobs EXCEPT ![j] = DeletedJob]
      /\ UNCHANGED <<reservations, artifacts>>
  BY DEF DeleteOld, EraseUsage
<1>3. jobs'[j] = DeletedJob /\ \A i \in Job \ {j} : Untouched(i)
  BY <1>2 DEF StoreInv, RowsOK, Untouched
<1>4. ~Active(j)' /\ ~Ended(j)' /\ jobs'[j] # AbsentJob /\ j \notin artifacts'
  BY <1>1, <1>2, <1>3 DEF Active, Ended, Terminal, AbsentJob, DeletedJob, ClosedJob
<1> QED
  BY <1>2, <1>3, <1>4 DEF StepOK, JobOK, StaysEnded

(* The reservation of a job that is being admitted.                        *)
LEMMA ReserveEffect ==
  ASSUME LedgerTypeOK, NEW p \in Principal, NEW j \in Job, NEW u \in Units,
         Reserve(j, p, u)
  PROVE  /\ reservations'[j].state = "reserved"
         /\ \A i \in Job \ {j} : reservations'[i] = reservations[i]
BY DEF LedgerTypeOK, Reserve

(* What an admission finds, and what it makes of every job.                *)
LEMMA AdmitOK ==
  ASSUME StoreInv, NEW p \in Principal, NEW j \in Job, NEW u \in Units,
         \/ AdmitSync(p, j, u)
         \/ \E i \in IdemKey : AdmitAsync(p, j, i, u)
  PROVE  /\ BelowLimits(p.user)
         /\ ~Active(j) /\ ~Ended(j)
         /\ JobOK(j)' /\ jobs'[j].owner = p
         /\ \A k \in Job \ {j} : StepOK(k)
<1>1. /\ jobs[j].state = "absent" /\ BelowLimits(p.user) /\ Reserve(j, p, u)
  BY DEF AdmitSync, AdmitAsync, Admission
<1>2. ~Active(j) /\ ~Ended(j)
  BY <1>1 DEF Active, Ended, Terminal
<1>3. j \notin artifacts
  BY <1>2 DEF StoreInv, JobOK
<1>4. /\ reservations'[j].state = "reserved"
      /\ \A k \in Job \ {j} : reservations'[k] = reservations[k]
  BY <1>1, ReserveEffect DEF StoreInv
<1>5. ASSUME NEW d \in Delivery, NEW n \in Nat, jobs'[j] = NewJob(p, d, n), j \notin artifacts'
      PROVE  JobOK(j)' /\ jobs'[j].owner = p
  <2>1. /\ jobs'[j].state = "queued" /\ ~jobs'[j].dispatched /\ ~jobs'[j].cancel
        /\ ~jobs'[j].purged /\ jobs'[j].claims = 0 /\ jobs'[j].owner = p
    BY <1>5 DEF NewJob
  <2>2. OpenJob(j)'
    BY <1>4, <1>5, <2>1 DEF OpenJob, MaxClaims
  <2>3. Active(j)' /\ ~Ended(j)' /\ jobs'[j] # AbsentJob
    BY <2>1 DEF Active, Ended, Terminal, AbsentJob
  <2> QED
    BY <2>1, <2>2, <2>3 DEF JobOK
<1>6. "sync" \in Delivery /\ "async" \in Delivery
  BY DEF Delivery
<1>7. CASE AdmitSync(p, j, u)
  <2>1. PICK n \in Position : jobs' = [jobs EXCEPT ![j] = NewJob(p, "sync", n)]
    BY <1>7 DEF AdmitSync
  <2>2. n \in Nat
    BY PositionNat
  <2>3. jobs'[j] = NewJob(p, "sync", n) /\ artifacts' = artifacts
    BY <1>7, <2>1 DEF AdmitSync, StoreInv, RowsOK
  <2>4. \A k \in Job \ {j} : Untouched(k)
    BY <1>4, <2>1, <2>3 DEF StoreInv, RowsOK, Untouched
  <2> QED
    BY <1>1, <1>2, <1>3, <1>5, <1>6, <2>2, <2>3, <2>4, UntouchedOK DEF StoreInv
<1>8. ASSUME NEW i \in IdemKey, AdmitAsync(p, j, i, u)
      PROVE  JobOK(j)' /\ jobs'[j].owner = p /\ \A k \in Job \ {j} : StepOK(k)
  <2> DEFINE prior == {k \in Job : idempotency[<<p.user, i>>] = k}
  <2>1. PICK n \in Position : jobs' = [k \in Job |->
               IF k = j THEN NewJob(p, "async", n)
               ELSE IF k \in prior THEN Purged(jobs[k]) ELSE jobs[k]]
    BY <1>8 DEF AdmitAsync
  <2>2. n \in Nat
    BY PositionNat
  <2>3. artifacts' = artifacts \ prior /\ \A k \in prior : Ended(k)
    BY <1>8 DEF AdmitAsync
  <2> HIDE DEF prior
  <2>4. jobs'[j] = NewJob(p, "async", n) /\ j \notin artifacts'
    BY <1>3, <2>1, <2>3
  <2>5. ASSUME NEW k \in Job \ {j}
        PROVE  StepOK(k)
    <3>1. JobOK(k)
      BY DEF StoreInv
    <3>2. CASE k \in prior
      <4>1. Ended(k) /\ jobs[k] \in JobRow /\ ClosedJob(k)
        BY <2>3, <3>1, <3>2, RowOf DEF StoreInv, JobOK
      <4>2. jobs'[k] = Purged(jobs[k]) /\ k \notin artifacts'
        BY <2>1, <2>3, <3>2
      <4> QED
        BY <1>4, <4>1, <4>2, PurgedOK
    <3>3. CASE k \notin prior
      <4>1. Untouched(k)
        BY <1>4, <2>1, <2>3, <3>3 DEF Untouched
      <4> QED
        BY <3>1, <4>1, UntouchedOK
    <3> QED
      BY <3>2, <3>3
  <2> QED
    BY <1>5, <1>6, <2>2, <2>4, <2>5
<1> QED
  BY <1>1, <1>2, <1>7, <1>8

(* An admission, as it concerns the jobs one by one.                       *)
Admits(p, j) ==
  /\ BelowLimits(p.user)
  /\ ~Active(j) /\ ~Ended(j)
  /\ JobOK(j)' /\ jobs'[j].owner = p
  /\ \A k \in Job \ {j} : StepOK(k)

(* Every step either admits one job or leaves every job in order.          *)
LEMMA JobsStep ==
  ASSUME StoreInv, [Next]_vars
  PROVE  \/ \E p \in Principal, j \in Job : Admits(p, j)
         \/ \A j \in Job : StepOK(j)
<1>1. ASSUME NEW j \in Job, StepOK(j), \A i \in Job \ {j} : Untouched(i)
      PROVE  \A i \in Job : StepOK(i)
  BY <1>1, UntouchedOK DEF StoreInv
<1>2. ASSUME NEW p \in Principal, NEW j \in Job, NEW u \in Units,
             AdmitSync(p, j, u) \/ \E i \in IdemKey : AdmitAsync(p, j, i, u)
      PROVE  Admits(p, j)
  BY <1>2, AdmitOK DEF Admits
<1>3. CASE Elsewhere
  <2>1. \A j \in Job : Untouched(j)
    BY <1>3 DEF Elsewhere, Untouched
  <2> QED
    BY <2>1, UntouchedOK DEF StoreInv
<1> QED
  BY <1>1, <1>2, <1>3, StepKinds, EndingOK, RowCallsOK, DeleteOldOK DEF StoreInv
-----------------------------------------------------------------------------
(* Initially there is no job.                                              *)
LEMMA InitJobs ==
  ASSUME Init
  PROVE  \A j \in Job : JobOK(j)
BY DEF Init, LedgerInit, JobOK, Active, Ended, Terminal, AbsentJob

(* Every job is in order at all times.                                     *)
THEOREM StoreInvariant == Spec => []StoreInv
<1> DEFINE EachOK == \A j \in Job : JobOK(j)
<1>1. Init => RowsOK /\ JudgedOK /\ EachOK
  BY InitRows, InitJobs
<1>2. RowsOK /\ JudgedOK /\ LedgerTypeOK /\ EachOK /\ [Next]_vars
        => RowsOK' /\ JudgedOK' /\ EachOK'
  <2> SUFFICES ASSUME RowsOK, JudgedOK, LedgerTypeOK, EachOK, [Next]_vars
               PROVE  RowsOK' /\ JudgedOK' /\ EachOK'
    OBVIOUS
  <2>1. RowsOK' /\ JudgedOK'
    BY RowsStep, JudgedStep
  <2>2. StoreInv
    BY DEF StoreInv
  <2>3. EachOK'
    BY <2>2, JobsStep DEF Admits, StepOK
  <2> QED
    BY <2>1, <2>3
<1>3. RowsOK /\ JudgedOK /\ LedgerTypeOK /\ EachOK <=> StoreInv
  BY DEF StoreInv
<1> HIDE DEF EachOK
<1>4. Spec => []LedgerTypeOK
  BY StoreKeepsLedger, LedgerTypeCorrect, PTL
<1> QED
  BY <1>1, <1>2, <1>3, <1>4, PTL DEF Spec

(* Units are held exactly while a job is open, charged if it was           *)
(* dispatched and given back otherwise.                                    *)
THEOREM LedgerFollowsEveryJob == Spec => []LedgerFollowsJob
<1>1. StoreInv => LedgerFollowsJob
  BY DEF StoreInv, JobOK, OpenJob, ClosedJob, LedgerFollowsJob
<1> QED
  BY <1>1, StoreInvariant, PTL

(* A job whose cancellation was accepted never delivers.                   *)
THEOREM CancellationIsHonoured == Spec => []CancelHonoured
<1>1. StoreInv => CancelHonoured
  BY DEF StoreInv, JobOK, ClosedJob, CancelHonoured, None
<1> QED
  BY <1>1, StoreInvariant, PTL

(* Artifacts belong to retained jobs that were dispatched and succeeded.   *)
THEOREM ArtifactsOfSuccess == Spec => []ArtifactOfSuccess
<1>1. StoreInv => ArtifactOfSuccess
  BY DEF StoreInv, RowsOK, JobOK, OpenJob, ClosedJob, ArtifactOfSuccess
<1> QED
  BY <1>1, StoreInvariant, PTL

(* The stored envelope tells what became of the job.                       *)
THEOREM EnvelopesAgree == Spec => []EnvelopeAgrees
<1>1. StoreInv => EnvelopeAgrees
  BY DEF StoreInv, JobOK, ClosedJob, EnvelopeAgrees
<1> QED
  BY <1>1, StoreInvariant, PTL

(* A job is given to at most two workers, and never again after a dispatch *)
(* or an accepted cancellation.                                            *)
THEOREM RetriesAreBounded == Spec => []RetriesBounded
<1>1. StoreInv => RetriesBounded
  BY DEF StoreInv, JobOK, OpenJob, RetriesBounded
<1> QED
  BY <1>1, StoreInvariant, PTL

(* No later call changes how a job ended, what was charged for it, or      *)
(* publishes a result for it.                                              *)
THEOREM EndsAreFinal == Spec => EndIsFinal
<1>1. StoreInv /\ [Next]_vars =>
        [\A j \in Job : Ended(j) =>
           /\ \/ jobs'[j] = DeletedJob
              \/ /\ jobs'[j].state = jobs[j].state
                 /\ jobs'[j].envelope \in {None, jobs[j].envelope}
                 /\ jobs'[j].purged \/ jobs'[j].expiry \in {jobs[j].expiry, Later(jobs[j].expiry)}
           /\ reservations'[j] = reservations[j]
           /\ j \in artifacts' => j \in artifacts]_vars
  BY JobsStep DEF Admits, StepOK, StaysEnded
<1> QED
  BY <1>1, StoreInvariant, PTL DEF Spec, EndIsFinal
-----------------------------------------------------------------------------
(* Sets of active jobs are finite and have a number.                       *)
LEMMA ActiveFinite ==
  ASSUME NEW S \in SUBSET Job
  PROVE  IsFiniteSet(S) /\ Cardinality(S) \in Nat
<1>1. IsFiniteSet(S)
  BY FS_Subset, LedgerAssumption DEF LedgerAssumption
<1> QED
  BY <1>1, FS_CardinalityType

(* A set of jobs that gains one job at most stays within a limit it was    *)
(* below.                                                                  *)
LEMMA OneMore ==
  ASSUME NEW S \in SUBSET Job, NEW T \in SUBSET Job, NEW limit \in Nat, NEW j \in Job,
         \/ T \subseteq S /\ Cardinality(S) <= limit
         \/ T \subseteq S \cup {j} /\ Cardinality(S) < limit
  PROVE  Cardinality(T) <= limit
<1>1. IsFiniteSet(S) /\ Cardinality(S) \in Nat /\ Cardinality(T) \in Nat
  BY ActiveFinite
<1>2. CASE T \subseteq S /\ Cardinality(S) <= limit
  <2>1. Cardinality(T) <= Cardinality(S)
    BY <1>1, <1>2, FS_Subset
  <2> QED
    BY <1>1, <1>2, <2>1
<1>3. CASE T \subseteq S \cup {j} /\ Cardinality(S) < limit
  <2>1. /\ IsFiniteSet(S \cup {j})
        /\ Cardinality(S \cup {j}) = IF j \in S THEN Cardinality(S) ELSE Cardinality(S) + 1
    BY <1>1, FS_AddElement
  <2>2. Cardinality(S \cup {j}) <= Cardinality(S) + 1
    BY <1>1, <2>1
  <2>3. Cardinality(T) <= Cardinality(S \cup {j})
    BY <1>3, <2>1, FS_Subset
  <2>4. Cardinality(S \cup {j}) \in Nat
    BY <1>1, <2>1
  <2> QED
    BY <1>1, <1>3, <2>2, <2>3, <2>4
<1> QED
  BY <1>2, <1>3

(* A step keeps the limits: only admissions add a job, below the limits.   *)
LEMMA ActiveStep ==
  ASSUME StoreInv, ActiveBounded, [Next]_vars
  PROVE  ActiveBounded'
<1>1. TenantActive \in Nat /\ UserActive \in Nat
  BY StoreAssumption DEF StoreAssumption
<1>2. CASE \A j \in Job : StepOK(j)
  <2>1. ActiveJobs' \subseteq ActiveJobs
        /\ \A user \in User : ActiveJobsOf(user)' \subseteq ActiveJobsOf(user)
    BY <1>2 DEF StepOK, ActiveJobs, ActiveJobsOf
  <2> QED
    BY <1>1, <2>1, OneMore DEF ActiveBounded, ActiveJobs, ActiveJobsOf
<1>3. ASSUME NEW p \in Principal, NEW j \in Job, Admits(p, j)
      PROVE  ActiveBounded'
  <2>1. ActiveJobs' \subseteq ActiveJobs \cup {j}
    BY <1>3 DEF Admits, StepOK, ActiveJobs
  <2>2. \A user \in User \ {p.user} : ActiveJobsOf(user)' \subseteq ActiveJobsOf(user)
    BY <1>3 DEF Admits, StepOK, ActiveJobs, ActiveJobsOf
  <2>3. ActiveJobsOf(p.user)' \subseteq ActiveJobsOf(p.user) \cup {j}
    BY <1>3 DEF Admits, StepOK, ActiveJobs, ActiveJobsOf
  <2>4. /\ ActiveJobs \subseteq Job /\ ActiveJobs' \subseteq Job
        /\ \A user \in User : ActiveJobsOf(user) \subseteq Job /\ ActiveJobsOf(user)' \subseteq Job
    BY DEF ActiveJobs, ActiveJobsOf
  <2>5. Cardinality(ActiveJobs') <= TenantActive
    BY <1>1, <1>3, <2>1, <2>4, OneMore DEF Admits, BelowLimits
  <2>6. ASSUME NEW user \in User
        PROVE  Cardinality(ActiveJobsOf(user)') <= UserActive
    <3>1. CASE user = p.user
      BY <1>1, <1>3, <2>3, <2>4, <3>1, OneMore DEF Admits, BelowLimits
    <3>2. CASE user # p.user
      BY <1>1, <2>2, <2>4, <3>2, OneMore DEF ActiveBounded
    <3> QED
      BY <3>1, <3>2
  <2> QED
    BY <2>5, <2>6 DEF ActiveBounded
<1> QED
  BY <1>2, <1>3, JobsStep

(* The limits on active jobs hold at all times.                            *)
THEOREM ActiveIsBounded == Spec => []ActiveBounded
<1>1. Init => ActiveBounded
  <2> SUFFICES ASSUME Init PROVE ActiveBounded
    OBVIOUS
  <2>1. ActiveJobs = {} /\ \A user \in User : ActiveJobsOf(user) = {}
    BY DEF Init, ActiveJobs, ActiveJobsOf, Active, AbsentJob
  <2>2. Cardinality({}) = 0
    BY FS_EmptySet
  <2> QED
    BY <2>1, <2>2, StoreAssumption DEF ActiveBounded, StoreAssumption
<1>2. StoreInv /\ ActiveBounded /\ [Next]_vars => ActiveBounded'
  BY ActiveStep
<1> QED
  BY <1>1, <1>2, StoreInvariant, PTL DEF Spec

(* Use that was charged stays charged, also when the job's rows go.        *)
THEOREM UseStaysCharged == Spec => UseIsNeverForgiven
<1>1. LedgerInv /\ [LedgerNext]_ledgerVars =>
        [/\ \A b \in KeyBucket : keyBuckets'[b].used >= keyBuckets[b].used
         /\ \A b \in GroupBucket : groupBuckets'[b].used >= groupBuckets[b].used]_vars
  BY UseStep DEF UseGrows
<1> QED
  BY <1>1, StoreKeepsLedger, LedgerInvariant, PTL DEF LedgerSpec, UseIsNeverForgiven
-----------------------------------------------------------------------------
(* A job that a repeated request must find.                                *)
Listed(j) == (Active(j) \/ Ended(j)) /\ jobs[j].delivery = "async" /\ ~jobs[j].purged

(* RetriesFindTheirJob, key by key: a key leads to a listed job of its     *)
(* user, no other key leads there, and every listed job has one.           *)
KeysOK ==
  /\ \A k \in User \X IdemKey : idempotency[k] # None =>
       Listed(idempotency[k]) /\ jobs[idempotency[k]].owner.user = k[1]
  /\ \A k, l \in User \X IdemKey : idempotency[k] # None /\ idempotency[k] = idempotency[l] => k = l
  /\ \A j \in Job : Listed(j) => \E k \in User \X IdemKey : idempotency[k] = j

(* A step does not change whether a job must be found, nor by whom.        *)
SameListing(j) ==
  /\ Listed(j)' <=> Listed(j)
  /\ Listed(j) => jobs'[j].owner = jobs[j].owner

(* With every listed job under one key of its user, the set of the keys    *)
(* that lead to it has one member.                                         *)
LEMMA KeysForm ==
  ASSUME RowsOK, KeysOK
  PROVE  RetriesFindTheirJob
<1>1. DOMAIN idempotency = User \X IdemKey
  BY DEF RowsOK
<1>2. ASSUME NEW j \in Job, Listed(j)
      PROVE  \E i \in IdemKey :
               {k \in DOMAIN idempotency : idempotency[k] = j} = {<<jobs[j].owner.user, i>>}
  <2>1. j # None
    BY StoreAssumption DEF StoreAssumption, None
  <2>2. PICK k \in User \X IdemKey : idempotency[k] = j
    BY <1>2 DEF KeysOK
  <2>3. PICK i \in IdemKey : k = <<jobs[j].owner.user, i>>
    BY <2>1, <2>2 DEF KeysOK
  <2>4. {l \in DOMAIN idempotency : idempotency[l] = j} = {k}
    BY <1>1, <2>1, <2>2 DEF KeysOK
  <2> QED
    BY <2>3, <2>4
<1> QED
  BY <1>1, <1>2 DEF RetriesFindTheirJob, Listed, KeysOK

(* A step that changes no key, nor which jobs must be found, keeps them.   *)
LEMMA SameKeys ==
  ASSUME RowsOK, KeysOK, UNCHANGED idempotency, \A j \in Job : SameListing(j)
  PROVE  KeysOK'
<1>1. ASSUME NEW k \in User \X IdemKey, idempotency[k] # None
      PROVE  Listed(idempotency[k])' /\ jobs'[idempotency[k]].owner.user = k[1]
  <2>1. PICK j \in Job : j = idempotency[k]
    BY <1>1 DEF RowsOK
  <2>2. Listed(j) /\ jobs[j].owner.user = k[1]
    BY <1>1, <2>1 DEF KeysOK
  <2>3. Listed(j)' /\ jobs'[j].owner.user = k[1]
    BY <2>2 DEF SameListing
  <2> QED
    BY <2>1, <2>3 DEF Listed, Active, Ended
<1> QED
  BY <1>1 DEF KeysOK, SameListing

(* The row of a job is rewritten, and it is owned, delivered and kept as   *)
(* before.                                                                 *)
LEMMA RewrittenListing ==
  ASSUME NEW j \in Job, Active(j) \/ Ended(j), jobs'[j].state \in {"queued", "running"} \cup Terminal,
         jobs'[j].owner = jobs[j].owner, jobs'[j].delivery = jobs[j].delivery,
         jobs'[j].purged = jobs[j].purged
  PROVE  SameListing(j)
BY DEF SameListing, Listed, Active, Ended

(* A job whose row stays as it is must be found as before.                 *)
LEMMA UntouchedListing ==
  ASSUME NEW j \in Job, jobs'[j] = jobs[j]
  PROVE  SameListing(j)
BY DEF SameListing, Listed, Active, Ended

(* The calls that end a job.                                               *)
LEMMA EndingListing ==
  ASSUME StoreInv, NEW j \in Job, NEW token,
         \/ Cancel(j) /\ jobs[j].state = "queued"
         \/ ClaimExpired(j)
         \/ DispatchCancelled(j, token)
         \/ DispatchRevoked(j, token)
         \/ FailPreparation(j, token)
         \/ \E result \in Completion : Complete(j, token, result)
         \/ GiveUp(j)
  PROVE  UNCHANGED idempotency /\ \A i \in Job : SameListing(i)
<1>1. \A i \in Job \ {j} : SameListing(i)
  BY EndingOK, UntouchedListing DEF Untouched
<1>2. Active(j) => jobs[j] \in JobRow
  BY RowOf DEF StoreInv
<1>3. None \in Terminal \cup {None} /\ "failed" \in Terminal /\ "cancelled" \in Terminal
  BY DEF Terminal
<1>4. ASSUME Active(j), NEW row \in JobRow, NEW state \in Terminal,
             NEW envelope \in Terminal \cup {None}, Finish(j, row, state, envelope),
             row.owner = jobs[j].owner, row.delivery = jobs[j].delivery,
             row.purged = jobs[j].purged
      PROVE  SameListing(j)
  <2> DEFINE end == [row EXCEPT !.state = state, !.envelope = envelope, !.expiry = "ahead",
                                !.leaseOwner = 0, !.lease = "ahead", !.queue = "ahead"]
  <2>1. jobs'[j] = end
    BY <1>4 DEF Finish, StoreInv, RowsOK
  <2>2. /\ jobs'[j].state = state /\ jobs'[j].owner = row.owner
        /\ jobs'[j].delivery = row.delivery /\ jobs'[j].purged = row.purged
    BY <2>1 DEF JobRow
  <2> QED
    BY <1>4, <2>2, RewrittenListing
<1>5. ASSUME Active(j), NEW state \in Terminal, NEW envelope \in Terminal \cup {None},
             Finish(j, jobs[j], state, envelope)
      PROVE  SameListing(j)
  BY <1>2, <1>4, <1>5
<1>6. CASE Cancel(j) /\ jobs[j].state = "queued"
  <2> DEFINE row == [jobs[j] EXCEPT !.cancel = TRUE]
  <2>1. Active(j) /\ jobs[j] \in JobRow /\ UNCHANGED idempotency
    BY <1>2, <1>6 DEF Cancel
  <2>2. /\ row \in JobRow /\ row.state = "queued" /\ row.owner = jobs[j].owner
        /\ row.delivery = jobs[j].delivery /\ row.purged = jobs[j].purged
    BY <1>6, <2>1 DEF JobRow
  <2>3. Finish(j, row, "cancelled", None)
    BY <1>6, <2>2 DEF Cancel
  <2> HIDE DEF row
  <2>4. SameListing(j)
    BY <1>3, <1>4, <2>1, <2>2, <2>3
  <2> QED
    BY <1>1, <2>1, <2>4
<1>7. CASE ClaimExpired(j)
  BY <1>1, <1>3, <1>5, <1>7 DEF ClaimExpired, NextInQueue, Active
<1>8. CASE DispatchCancelled(j, token)
  BY <1>1, <1>3, <1>5, <1>8 DEF DispatchCancelled, MayDispatch, ValidLease, Active
<1>9. CASE DispatchRevoked(j, token)
  BY <1>1, <1>3, <1>5, <1>9 DEF DispatchRevoked, MayDispatch, ValidLease, Active
<1>10. CASE FailPreparation(j, token)
  BY <1>1, <1>3, <1>5, <1>10 DEF FailPreparation, MayDispatch, ValidLease, Active
<1>11. CASE GiveUp(j)
  BY <1>1, <1>3, <1>5, <1>11, WrittenJob DEF GiveUp, StoreInv
<1>12. ASSUME NEW result \in Completion, Complete(j, token, result)
       PROVE  UNCHANGED idempotency /\ \A i \in Job : SameListing(i)
  <2>1. Outcome(j, result) \in Terminal /\ Envelope(j, result) \in Terminal \cup {None}
    BY OutcomeType
  <2>2. /\ Active(j) /\ UNCHANGED idempotency
        /\ Finish(j, jobs[j], Outcome(j, result), Envelope(j, result))
    BY <1>12 DEF Complete, ValidLease, Active
  <2>3. SameListing(j)
    BY <1>5, <2>1, <2>2
  <2> QED
    BY <1>1, <2>2, <2>3
<1> QED
  BY <1>6, <1>7, <1>8, <1>9, <1>10, <1>11, <1>12

(* The calls that rewrite a row, except the purge.                         *)
LEMMA RowListing ==
  ASSUME StoreInv, NEW j \in Job, NEW token,
         \/ Cancel(j) /\ jobs[j].state # "queued"
         \/ Claim(j)
         \/ Heartbeat(j, token)
         \/ MarkDispatch(j, token)
         \/ Requeue(j)
         \/ LeaseRunsOut(j) \/ QueueRunsOut(j) \/ RetentionRunsOut(j)
  PROVE  UNCHANGED idempotency /\ \A i \in Job : SameListing(i)
<1>1. \A i \in Job \ {j} : SameListing(i)
  BY RowCallsOK, UntouchedListing DEF Untouched
<1>2. Active(j) \/ Ended(j) => jobs[j] \in JobRow
  BY RowOf DEF StoreInv
<1>3. jobs \in [Job -> JobRow \cup {AbsentJob, DeletedJob}]
  BY DEF StoreInv, RowsOK
<1>4. UNCHANGED idempotency
  BY DEF Cancel, Claim, Heartbeat, MarkDispatch, Requeue, LeaseRunsOut, QueueRunsOut, RetentionRunsOut
<1>5. Active(j) \/ Ended(j)
  BY WrittenJob DEF Cancel, Claim, NextInQueue, Heartbeat, MarkDispatch, MayDispatch, ValidLease,
                    StoreInv, LeaseRunsOut, QueueRunsOut, RetentionRunsOut, Active
<1>6. jobs[j] \in JobRow
  BY <1>2, <1>5
<1> DEFINE Kept == /\ jobs'[j].state \in {"queued", "running"} \cup Terminal
                   /\ jobs'[j].owner = jobs[j].owner /\ jobs'[j].delivery = jobs[j].delivery
                   /\ jobs'[j].purged = jobs[j].purged
<1>7. CASE Cancel(j) /\ jobs[j].state # "queued"
  <2>1. [jobs[j] EXCEPT !.cancel = TRUE].state = jobs[j].state
    BY <1>6 DEF JobRow
  <2>2. jobs' = [jobs EXCEPT ![j] = [jobs[j] EXCEPT !.cancel = TRUE]]
    BY <1>7, <2>1 DEF Cancel
  <2>3. Kept
    BY <1>3, <1>6, <2>2 DEF JobRow
  <2> QED
    BY <1>1, <1>4, <1>5, <2>3, RewrittenListing
<1>8. CASE Claim(j)
  <2>1. Kept
    BY <1>3, <1>6, <1>8 DEF Claim, JobRow
  <2> QED
    BY <1>1, <1>4, <1>5, <2>1, RewrittenListing
<1>9. CASE Heartbeat(j, token) \/ LeaseRunsOut(j) \/ MarkDispatch(j, token)
  <2>1. Kept
    BY <1>3, <1>6, <1>9 DEF Heartbeat, LeaseRunsOut, MarkDispatch, JobRow
  <2> QED
    BY <1>1, <1>4, <1>5, <2>1, RewrittenListing
<1>10. CASE Requeue(j)
  <2>1. Kept
    BY <1>3, <1>6, <1>10 DEF Requeue, JobRow
  <2> QED
    BY <1>1, <1>4, <1>5, <2>1, RewrittenListing
<1>11. CASE QueueRunsOut(j) \/ RetentionRunsOut(j)
  <2>1. Kept
    BY <1>3, <1>6, <1>11 DEF QueueRunsOut, RetentionRunsOut, JobRow
  <2> QED
    BY <1>1, <1>4, <1>5, <2>1, RewrittenListing
<1> QED
  BY <1>7, <1>8, <1>9, <1>10, <1>11

(* A job that lost its rows was purged before, and no key led to it.       *)
LEMMA DeletionListing ==
  ASSUME StoreInv, NEW j \in Job, DeleteOld(j)
  PROVE  UNCHANGED idempotency /\ \A i \in Job : SameListing(i)
<1>1. \A i \in Job \ {j} : SameListing(i)
  BY DeleteOldOK, UntouchedListing DEF Untouched
<1>2. jobs'[j] = DeletedJob /\ jobs[j].purged /\ UNCHANGED idempotency
  BY DEF DeleteOld, StoreInv, RowsOK
<1>3. ~Listed(j) /\ ~Listed(j)'
  BY <1>2 DEF Listed, Active, Ended, Terminal, DeletedJob
<1> QED
  BY <1>1, <1>2, <1>3 DEF SameListing

(* Of the jobs that a step leaves, those it purges lose their keys and all *)
(* others keep theirs.                                                     *)
LEMMA PurgedKeys ==
  ASSUME RowsOK, KeysOK, NEW gone \in SUBSET Job,
         \A k \in gone : ~Listed(k)',
         \A k \in Job \ gone : SameListing(k),
         idempotency' = [k \in User \X IdemKey |->
                           IF idempotency[k] \in gone THEN None ELSE idempotency[k]]
  PROVE  KeysOK'
<1>1. None \notin Job
  BY StoreAssumption DEF StoreAssumption, None
<1>2. ASSUME NEW k \in User \X IdemKey, idempotency'[k] # None
      PROVE  /\ idempotency'[k] = idempotency[k] /\ idempotency[k] \in Job \ gone
             /\ Listed(idempotency[k])' /\ jobs'[idempotency'[k]].owner.user = k[1]
  <2>1. idempotency'[k] = idempotency[k] /\ idempotency[k] # None
    BY <1>2
  <2>2. PICK j \in Job \ gone : j = idempotency[k]
    BY <1>2, <2>1 DEF RowsOK
  <2>3. Listed(j) /\ jobs[j].owner.user = k[1]
    BY <2>1, <2>2 DEF KeysOK
  <2>4. Listed(j)' /\ jobs'[j].owner.user = k[1]
    BY <2>3 DEF SameListing
  <2> QED
    BY <2>1, <2>2, <2>4 DEF Listed, Active, Ended
<1>3. ASSUME NEW j \in Job, Listed(j)'
      PROVE  \E k \in User \X IdemKey : idempotency'[k] = j
  <2>1. j \notin gone /\ Listed(j)
    BY <1>3 DEF SameListing
  <2>2. PICK k \in User \X IdemKey : idempotency[k] = j
    BY <2>1 DEF KeysOK
  <2> QED
    BY <2>1, <2>2
<1>4. \A k, l \in User \X IdemKey :
        idempotency'[k] # None /\ idempotency'[k] = idempotency'[l] => k = l
  BY <1>2 DEF KeysOK
<1> QED
  BY <1>2, <1>3, <1>4 DEF KeysOK

(* A purge removes the job from the list and from under its key.           *)
LEMMA PurgeKeys ==
  ASSUME StoreInv, KeysOK, NEW j \in Job, Purge(j)
  PROVE  KeysOK'
<1>1. \A i \in Job \ {j} : SameListing(i)
  BY RowCallsOK, UntouchedListing DEF Untouched
<1>2. Ended(j) /\ jobs[j] \in JobRow
  BY RowOf DEF Purge, StoreInv
<1>3. jobs'[j].purged
  <2>1. jobs'[j] = Purged(jobs[j])
    BY DEF Purge, StoreInv, RowsOK
  <2> QED
    BY <1>2, <2>1 DEF Purged, JobRow
<1>4. PICK gone \in SUBSET Job : gone = {j}
  OBVIOUS
<1>5. idempotency' = [k \in User \X IdemKey |->
                        IF idempotency[k] \in gone THEN None ELSE idempotency[k]]
  BY <1>4 DEF Purge, StoreInv, RowsOK
<1>6. \A k \in gone : ~Listed(k)'
  BY <1>3, <1>4 DEF Listed
<1>7. \A k \in Job \ gone : SameListing(k)
  BY <1>1, <1>4
<1>8. RowsOK
  BY DEF StoreInv
<1> QED
  BY <1>5, <1>6, <1>7, <1>8, PurgedKeys

(* An admission under a key takes it from the job that was purged.         *)
LEMMA AdmitSyncKeys ==
  ASSUME StoreInv, KeysOK, NEW p \in Principal, NEW j \in Job, NEW u \in Units,
         AdmitSync(p, j, u)
  PROVE  KeysOK'
<1>1. PICK n \in Position : jobs' = [jobs EXCEPT ![j] = NewJob(p, "sync", n)]
  BY DEF AdmitSync
<1>2. jobs'[j] = NewJob(p, "sync", n) /\ \A i \in Job \ {j} : jobs'[i] = jobs[i]
  BY <1>1 DEF StoreInv, RowsOK
<1>3. ~Listed(j) /\ ~Listed(j)'
  BY <1>2 DEF AdmitSync, Admission, Listed, Active, Ended, Terminal, NewJob
<1>4. \A i \in Job : SameListing(i)
  BY <1>2, <1>3, UntouchedListing DEF SameListing
<1> QED
  BY <1>4, SameKeys DEF AdmitSync, StoreInv

(* An asynchronous admission puts the new job under its key, in the place  *)
(* of the one that it purges.                                              *)
LEMMA AdmitAsyncKeys ==
  ASSUME StoreInv, KeysOK, NEW p \in Principal, NEW j \in Job, NEW u \in Units,
         NEW i \in IdemKey, AdmitAsync(p, j, i, u)
  PROVE  KeysOK'
<1> DEFINE key == <<p.user, i>>
           prior == {k \in Job : idempotency[key] = k}
<1>1. PICK n \in Position : jobs' = [k \in Job |->
             IF k = j THEN NewJob(p, "async", n)
             ELSE IF k \in prior THEN Purged(jobs[k]) ELSE jobs[k]]
  BY DEF AdmitAsync
<1>2. /\ idempotency' = [idempotency EXCEPT ![key] = j] /\ key \in User \X IdemKey
      /\ jobs[j].state = "absent" /\ \A k \in prior : Ended(k)
  BY LedgerAssumption DEF LedgerAssumption, AdmitAsync, Admission
<1>3. idempotency \in [User \X IdemKey -> Job \cup {None}] /\ None \notin Job
  BY StoreAssumption DEF StoreAssumption, None, StoreInv, RowsOK
<1>4. /\ idempotency'[key] = j
      /\ \A k \in (User \X IdemKey) \ {key} : idempotency'[k] = idempotency[k]
  BY <1>2, <1>3
<1>5. prior \in SUBSET Job /\ \A k \in Job : k \in prior <=> idempotency[key] = k
  OBVIOUS
<1> HIDE DEF prior
<1>6. ~Listed(j) /\ j \notin prior
  BY <1>2 DEF Listed, Active, Ended, Terminal
<1>7. Listed(j)' /\ jobs'[j].owner.user = p.user
  <2>1. jobs'[j] = NewJob(p, "async", n)
    BY <1>1
  <2> QED
    BY <2>1 DEF Listed, Active, NewJob
<1>8. ASSUME NEW k \in Job \ {j}, k \notin prior
      PROVE  SameListing(k)
  BY <1>1, <1>8, UntouchedListing
<1>9. ASSUME NEW k \in Job \ {j}, k \in prior
      PROVE  ~Listed(k)'
  <2>1. jobs'[k] = Purged(jobs[k]) /\ jobs[k] \in JobRow
    BY <1>1, <1>2, <1>9, RowOf DEF StoreInv
  <2>2. jobs'[k].purged
    BY <2>1 DEF Purged, JobRow
  <2> QED
    BY <2>2 DEF Listed
<1>10. ASSUME NEW k \in (User \X IdemKey) \ {key}, idempotency'[k] # None
       PROVE  /\ idempotency'[k] # j
              /\ Listed(idempotency[k])' /\ jobs'[idempotency'[k]].owner.user = k[1]
  <2>1. PICK m \in Job : m = idempotency[k]
    BY <1>3, <1>4, <1>10
  <2>2. Listed(m) /\ jobs[m].owner.user = k[1] /\ m # j
    BY <1>3, <1>6, <2>1 DEF KeysOK
  <2>3. m \notin prior
    BY <1>2, <1>3, <1>5, <1>10, <2>1 DEF KeysOK
  <2>4. Listed(m)' /\ jobs'[m].owner.user = k[1]
    BY <1>8, <2>2, <2>3 DEF SameListing
  <2> QED
    BY <1>4, <2>1, <2>2, <2>4 DEF Listed, Active, Ended
<1>11. ASSUME NEW k \in User \X IdemKey, idempotency'[k] # None
       PROVE  Listed(idempotency[k])' /\ jobs'[idempotency'[k]].owner.user = k[1]
  <2>1. CASE k = key
    BY <1>4, <1>7, <2>1 DEF Listed, Active, Ended
  <2>2. CASE k # key
    BY <1>10, <1>11, <2>2
  <2> QED
    BY <2>1, <2>2
<1>12. ASSUME NEW k \in User \X IdemKey, NEW l \in User \X IdemKey,
              idempotency'[k] # None, idempotency'[k] = idempotency'[l]
       PROVE  k = l
  BY <1>2, <1>4, <1>10, <1>12 DEF KeysOK
<1>13. ASSUME NEW m \in Job, Listed(m)'
       PROVE  \E k \in User \X IdemKey : idempotency'[k] = m
  <2>1. CASE m = j
    BY <1>2, <1>4, <2>1
  <2>2. CASE m # j
    <3>1. m \notin prior /\ Listed(m)
      BY <1>8, <1>9, <1>13, <2>2 DEF SameListing
    <3>2. PICK k \in User \X IdemKey : idempotency[k] = m
      BY <3>1 DEF KeysOK
    <3>3. k # key
      BY <1>5, <3>1, <3>2
    <3> QED
      BY <1>4, <3>2, <3>3
  <2> QED
    BY <2>1, <2>2
<1> QED
  BY <1>11, <1>12, <1>13 DEF KeysOK

(* A repeated request finds the job of the first.                          *)
LEMMA KeysStep ==
  ASSUME StoreInv, KeysOK, [Next]_vars
  PROVE  KeysOK'
<1>1. RowsOK
  BY DEF StoreInv
<1>2. ASSUME UNCHANGED idempotency, \A j \in Job : SameListing(j)
      PROVE  KeysOK'
  BY <1>1, <1>2, SameKeys
<1>3. CASE Elsewhere
  <2>1. \A j \in Job : SameListing(j)
    BY <1>3, UntouchedListing DEF Elsewhere
  <2> QED
    BY <1>2, <1>3, <2>1 DEF Elsewhere
<1>4. ASSUME NEW p \in Principal, NEW j \in Job, NEW u \in Units,
             AdmitSync(p, j, u) \/ \E i \in IdemKey : AdmitAsync(p, j, i, u)
      PROVE  KeysOK'
  BY <1>4, AdmitSyncKeys, AdmitAsyncKeys
<1>5. ASSUME NEW j \in Job, NEW token,
             \/ Cancel(j) /\ jobs[j].state = "queued"
             \/ ClaimExpired(j)
             \/ DispatchCancelled(j, token)
             \/ DispatchRevoked(j, token)
             \/ FailPreparation(j, token)
             \/ \E result \in Completion : Complete(j, token, result)
             \/ GiveUp(j)
      PROVE  KeysOK'
  BY <1>2, <1>5, EndingListing
<1>6. ASSUME NEW j \in Job, NEW token,
             \/ Cancel(j) /\ jobs[j].state # "queued"
             \/ Claim(j)
             \/ Heartbeat(j, token)
             \/ MarkDispatch(j, token)
             \/ Requeue(j)
             \/ LeaseRunsOut(j) \/ QueueRunsOut(j) \/ RetentionRunsOut(j)
             \/ Purge(j)
      PROVE  KeysOK'
  BY <1>2, <1>6, RowListing, PurgeKeys
<1>7. ASSUME NEW j \in Job, DeleteOld(j)
      PROVE  KeysOK'
  BY <1>2, <1>7, DeletionListing
<1> QED
  BY <1>1, <1>3, <1>4, <1>5, <1>6, <1>7, StepKinds

(* A request that is repeated finds its job: every asynchronous job that   *)
(* is retained is under one key, which is its user's, and no key leads     *)
(* elsewhere (store.ts:25, 58, 240).                                       *)
THEOREM RetriesFindJobs == Spec => []RetriesFindTheirJob
<1>1. Init => KeysOK
  BY DEF Init, KeysOK, Listed, Active, Ended, Terminal, AbsentJob
<1>2. StoreInv /\ KeysOK /\ [Next]_vars => KeysOK'
  BY KeysStep
<1>3. StoreInv /\ KeysOK => RetriesFindTheirJob
  BY KeysForm DEF StoreInv
<1> QED
  BY <1>1, <1>2, <1>3, StoreInvariant, PTL DEF Spec
-----------------------------------------------------------------------------
(* A job that stays active comes nearer to its end: its place in the queue *)
(* only runs out, what was recorded of it is not taken back, each start    *)
(* counts, and it goes back to the queue only after the first of them, not *)
(* cancelled, when its work cannot have reached a provider.                *)
Ripens(j) ==
  Active(j) /\ Active(j)' =>
    /\ jobs'[j].owner = jobs[j].owner
    /\ jobs'[j].delivery = jobs[j].delivery
    /\ jobs'[j].created = jobs[j].created
    /\ jobs'[j].queue \in {jobs[j].queue, Later(jobs[j].queue)}
    /\ jobs[j].cancel => jobs'[j].cancel
    /\ jobs[j].dispatched => jobs'[j].dispatched
    /\ jobs'[j].claims = IF jobs[j].state = "queued" /\ jobs'[j].state = "running"
                         THEN jobs[j].claims + 1
                         ELSE jobs[j].claims
    /\ jobs[j].state = "running" /\ jobs'[j].state = "queued" =>
         /\ ~jobs[j].dispatched /\ ~jobs[j].cancel
         /\ jobs[j].claims < MaxClaims

(* A job that is what it was, or that is not active after the step.        *)
LEMMA RipeAlready ==
  ASSUME NEW j \in Job, jobs'[j] = jobs[j] \/ jobs'[j].state \notin {"queued", "running"}
  PROVE  Ripens(j)
BY DEF Ripens, Active

(* The calls that rewrite the row of an active job.                        *)
LEMMA RowCallsRipen ==
  ASSUME RowsOK, JudgedOK, NEW j \in Job, NEW token,
         \/ Cancel(j) /\ jobs[j].state # "queued"
         \/ Claim(j)
         \/ Heartbeat(j, token)
         \/ MarkDispatch(j, token)
         \/ Requeue(j)
         \/ LeaseRunsOut(j) \/ QueueRunsOut(j) \/ RetentionRunsOut(j)
         \/ Purge(j)
  PROVE  Ripens(j) /\ \A i \in Job \ {j} : jobs'[i] = jobs[i]
<1>1. \A i \in Job : jobs[i] = [jobs EXCEPT ![j] = jobs[j]][i]
  BY DEF RowsOK
<1>2. CASE Ended(j)
  <2>1. ~Requeue(j)
    BY <1>2, ActiveNotEnded, WrittenJob
  <2> QED
    BY <1>2, <2>1, ActiveNotEnded
       DEF Ripens, RowsOK, Cancel, Claim, NextInQueue, Heartbeat, MarkDispatch, MayDispatch,
           ValidLease, LeaseRunsOut, QueueRunsOut, RetentionRunsOut, Purge
<1>3. CASE Active(j)
  <2>1. jobs[j] \in JobRow
    BY <1>3, RowOf
  <2>2. DOMAIN jobs = Job
    BY DEF RowsOK
  <2>3. CASE Cancel(j) /\ jobs[j].state # "queued"
    BY <2>1, <2>2, <2>3 DEF Cancel, JobRow, Ripens, Active
  <2>4. CASE Claim(j)
    BY <2>1, <2>2, <2>4 DEF Claim, NextInQueue, JobRow, Ripens, Active
  <2>5. CASE Heartbeat(j, token)
    BY <2>1, <2>2, <2>5 DEF Heartbeat, JobRow, Ripens, Active
  <2>6. CASE MarkDispatch(j, token)
    BY <2>1, <2>2, <2>6 DEF MarkDispatch, JobRow, Ripens, Active
  <2>7. CASE Requeue(j)
    BY <2>1, <2>2, <2>7, WrittenJob DEF Requeue, JobRow, Ripens, Active
  <2>8. CASE LeaseRunsOut(j)
    BY <2>1, <2>2, <2>8 DEF LeaseRunsOut, JobRow, Ripens, Active
  <2>9. CASE QueueRunsOut(j)
    BY <2>1, <2>2, <2>9 DEF QueueRunsOut, JobRow, Ripens, Active
  <2>10. CASE RetentionRunsOut(j) \/ Purge(j)
    BY <1>3, <2>10, ActiveNotEnded DEF RetentionRunsOut, Purge
  <2> QED
    BY <2>3, <2>4, <2>5, <2>6, <2>7, <2>8, <2>9, <2>10
<1>4. Active(j) \/ Ended(j)
  BY WrittenJob
     DEF Active, Cancel, Claim, NextInQueue, Heartbeat, MarkDispatch, MayDispatch, ValidLease,
         LeaseRunsOut, QueueRunsOut, RetentionRunsOut, Purge
<1> QED
  BY <1>2, <1>3, <1>4

(* Every step of the store.                                                *)
LEMMA JobsRipen ==
  ASSUME RowsOK, JudgedOK, [Next]_vars
  PROVE  \A j \in Job : Ripens(j)
<1> DEFINE Goal == \A j \in Job : Ripens(j)
<1>1. ASSUME NEW p \in Principal, NEW j \in Job, NEW u \in Units,
             AdmitSync(p, j, u) \/ \E i \in IdemKey : AdmitAsync(p, j, i, u)
      PROVE  Goal
  <2>1. jobs[j].state = "absent"
    BY <1>1 DEF AdmitSync, AdmitAsync, Admission
  <2>2. ASSUME NEW k \in Job, k # j
        PROVE  jobs'[k] = jobs[k] \/ (jobs'[k] = Purged(jobs[k]) /\ Ended(k))
    BY <1>1, <2>2 DEF AdmitSync, AdmitAsync, RowsOK
  <2>3. ASSUME NEW k \in Job
        PROVE  Ripens(k)
    <3>1. CASE k = j
      BY <2>1, <3>1 DEF Ripens, Active
    <3>2. CASE k # j
      BY <2>2, <3>2, ActiveNotEnded, RipeAlready DEF Ripens
    <3> QED
      BY <3>1, <3>2
  <2> QED
    BY <2>3
<1>2. ASSUME NEW j \in Job, Ends(j)
      PROVE  Goal
  <2>1. jobs'[j].state \in Terminal /\ \A i \in Job \ {j} : jobs'[i] = jobs[i]
    BY <1>2 DEF Ends, Finish, JobRow, RowsOK
  <2> QED
    BY <2>1, RipeAlready DEF Terminal
<1>3. ASSUME NEW j \in Job, DeleteOld(j)
      PROVE  Goal
  <2>1. jobs'[j].state = "deleted" /\ \A i \in Job \ {j} : jobs'[i] = jobs[i]
    BY <1>3 DEF DeleteOld, DeletedJob, RowsOK
  <2> QED
    BY <2>1, RipeAlready
<1>4. ASSUME NEW j \in Job, Ripens(j), \A i \in Job \ {j} : jobs'[i] = jobs[i]
      PROVE  Goal
  BY <1>4, RipeAlready
<1>5. CASE Elsewhere
  BY <1>5, RipeAlready DEF Elsewhere
<1> QED
  BY <1>1, <1>2, <1>3, <1>4, <1>5, StepKinds, EndingCalls, RowCallsRipen

(* An active job is never set back, by whatever calls, crashes and late    *)
(* workers: with the two starts it has (RetriesAreBounded) its place in    *)
(* the queue and a lease are all that time has to take from it             *)
(* (store.ts:85-95, 151-163).                                              *)
THEOREM ActiveJobsRipen == Spec => [][\A j \in Job : Ripens(j)]_vars
<1>1. RowsOK /\ JudgedOK /\ [Next]_vars => [\A j \in Job : Ripens(j)]_vars
  BY JobsRipen
<1>2. StoreInv => RowsOK /\ JudgedOK
  BY DEF StoreInv
<1> QED
  BY <1>1, <1>2, StoreInvariant, PTL DEF Spec
=============================================================================
