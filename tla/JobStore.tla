------------------------------ MODULE JobStore ------------------------------
(***************************************************************************)
(* The execution store: the durable life of a job in PostgreSQL.           *)
(*                                                                         *)
(* Each action is one transaction of ExecutionStore.  All of them hold the *)
(* row lock of the job's tenant, except the heartbeat, a single UPDATE of  *)
(* the lease deadline, which may come between what another transaction     *)
(* reads of the job and what it writes.  For a transaction that finds the  *)
(* lease valid this is as if the heartbeat had come before it, and it is   *)
(* one step.  A reconciler finds it lost: reading and writing are two      *)
(* steps, the tenant locked in between.                                    *)
(*                                                                         *)
(* Spec lets any caller make any call, with any lease token that was ever  *)
(* handed out: a worker that lost its lease, was restarted, or did not     *)
(* learn that its transaction was committed is such a caller.  CloudWorker *)
(* puts the workers' own control around these operators.                   *)
(*                                                                         *)
(* A call that is refused changes nothing (the transaction is rolled back  *)
(* or returns early) and is not a step.                                    *)
(*                                                                         *)
(* Time.  A deadline is read with two clocks, now() of the database, fixed *)
(* when the transaction begins, before it waits for the tenant lock, and   *)
(* Date.now() of the process.  Each deadline is "ahead", then "near",      *)
(* while clocks may disagree about it, then "past".  A deadline that is    *)
(* NULL, or not read again, is kept at "ahead".                            *)
(***************************************************************************)
EXTENDS UsageLedger

CONSTANTS
  IdemKey,       \* idempotency keys (one per kind and client key)
  TenantActive,  \* LIMITS.tenantActive: 16
  UserActive     \* LIMITS.userActive: 4

(* "none" is the job of a key that is free.                                *)
ASSUME StoreAssumption ==
  /\ TenantActive \in Nat
  /\ UserActive \in Nat
  /\ "none" \notin Job

VARIABLES
  jobs,          \* the table jobs
  artifacts,     \* jobs with rows in artifacts and artifact_chunks
  idempotency,   \* idempotency_admissions: a job, by user and key
  liveKeys,      \* the principals whose API key is active and bound to the group
  members,       \* the users that may use a group and its lanes: both active,
                 \* the user allowed to bind it, provider and lanes enabled
  reconciling    \* the transaction of reconcile that has read its job and
                 \* not yet written: the job, and if it goes back to the queue

accessVars == <<liveKeys, members>>
storeVars  == <<jobs, artifacts, idempotency, accessVars, reconciling>>
vars == <<ledgerVars, storeVars>>

None == "none"
NoReconcile == [job |-> None, again |-> FALSE]

(* lockTenant: a transaction waits while reconcile holds the tenant's row. *)
LockFree   == reconciling = NoReconcile
TenantLock == LockFree /\ UNCHANGED reconciling

Phase == {"ahead", "near", "past"}
MaySeeAhead(deadline) == deadline # "past"
MaySeePast(deadline)  == deadline # "ahead"
Later(deadline) == IF deadline = "ahead" THEN "near" ELSE "past"

Terminal == {"succeeded", "failed", "cancelled"}
Delivery == {"sync", "async"}

(***************************************************************************)
(* A row of jobs.  The lease token, a fresh UUID per claim, is represented *)
(* by claim_count, which is fresh per claim of the job; 0 is NULL.         *)
(* "created" orders the jobs by created_at, "queue" is the deadline 300 s  *)
(* after it, "expiry" is expires_at.  A row that is not purged has its plan and  *)
(* its job_config_refs, a purged one has neither.                          *)
(***************************************************************************)
JobRow == [state : {"queued", "running"} \cup Terminal,
           owner : Principal, delivery : Delivery, created : Nat, queue : Phase,
           claims : Nat, leaseOwner : Nat, lease : Phase,
           cancel : BOOLEAN, dispatched : BOOLEAN,
           envelope : Terminal \cup {None}, expiry : Phase, purged : BOOLEAN]
AbsentJob  == [state |-> "absent"]
DeletedJob == [state |-> "deleted"]

NewJob(p, delivery, n) ==
  [state |-> "queued", owner |-> p, delivery |-> delivery, created |-> n,
   queue |-> "ahead", claims |-> 0, leaseOwner |-> 0, lease |-> "ahead",
   cancel |-> FALSE, dispatched |-> FALSE,
   envelope |-> None, expiry |-> "ahead", purged |-> FALSE]

Active(j) == jobs[j].state \in {"queued", "running"}
Ended(j)  == jobs[j].state \in Terminal

Init ==
  /\ LedgerInit
  /\ jobs = [j \in Job |-> AbsentJob]
  /\ artifacts = {}
  /\ idempotency = [i \in User \X IdemKey |-> None]
  /\ liveKeys = {}
  /\ members = {}
  /\ reconciling = NoReconcile
-----------------------------------------------------------------------------
(* currentIdentity: an active key of an active user, who may use the group *)
(* the key is bound to.                                                    *)
Identified(p) == p \in liveKeys /\ <<p.user, p.group>> \in members

(* jobAccess: the job is retained, and is one of the caller's user and     *)
(* group; a browser session of the user may do without a key.              *)
Retained(j) == ~jobs[j].purged /\ (Ended(j) => MaySeeAhead(jobs[j].expiry))

SessionAccess(j) ==
  Retained(j) /\ <<jobs[j].owner.user, jobs[j].owner.group>> \in members
OwnerAccess(j) == Retained(j) /\ Identified(jobs[j].owner)

ValidLease(j, token) ==
  /\ jobs[j].state = "running"
  /\ jobs[j].leaseOwner = token
  /\ MaySeeAhead(jobs[j].lease)

(* purgeOne of an ended job whose retention is over: its row keeps neither *)
(* plan nor envelope.                                                      *)
Purged(row) == [row EXCEPT !.envelope = None, !.purged = TRUE, !.expiry = "ahead"]

(* Fault variant: work that did not succeed is given back.                 *)
FinishChargingSuccess(j, row, state, envelope) ==
  /\ jobs' = [jobs EXCEPT ![j] =
       [row EXCEPT !.state = state, !.envelope = envelope, !.expiry = "ahead",
                   !.leaseOwner = 0, !.lease = "ahead", !.queue = "ahead"]]
  /\ Settle(j, row.dispatched /\ state = "succeeded")

(***************************************************************************)
(* Store.finish: row, the job's row as this transaction has changed it,    *)
(* ends in a state, gives up its lease, starts its 72 hours of retention   *)
(* and settles its reservation, charged when it was dispatched.            *)
(***************************************************************************)
Finish(j, row, state, envelope) ==
  /\ jobs' = [jobs EXCEPT ![j] =
       [row EXCEPT !.state = state, !.envelope = envelope, !.expiry = "ahead",
                   !.leaseOwner = 0, !.lease = "ahead", !.queue = "ahead"]]
  /\ Settle(j, row.dispatched)
-----------------------------------------------------------------------------
ActiveJobs == {j \in Job : Active(j)}
ActiveJobsOf(user) == {j \in ActiveJobs : jobs[j].owner.user = user}

(* Fault variant: only jobs that run are counted.                          *)
BelowLimitsRunning(user) ==
  /\ Cardinality({j \in Job : jobs[j].state = "running"}) < TenantActive
  /\ Cardinality({j \in ActiveJobsOf(user) : jobs[j].state = "running"}) < UserActive

BelowLimits(user) ==
  /\ Cardinality(ActiveJobs) < TenantActive
  /\ Cardinality(ActiveJobsOf(user)) < UserActive

(* Store.admit: the limits on active jobs, and the inserted job.           *)
Admission(p, j, u) ==
  /\ TenantLock
  /\ Identified(p)
  /\ jobs[j].state = "absent"
  /\ BelowLimits(p.user)
  /\ Reserve(j, p, u)
  /\ UNCHANGED accessVars

(* created_at is the start of the transaction, which may have waited for   *)
(* the tenant lock longer than another: a later admission can sort first.  *)
Position == 0..Cardinality({i \in Job : jobs[i].state # "absent"})

AdmitSync(p, j, u) ==
  /\ Admission(p, j, u)
  /\ \E n \in Position : jobs' = [jobs EXCEPT ![j] = NewJob(p, "sync", n)]
  /\ UNCHANGED <<artifacts, idempotency>>

(* Fault variant: the earlier admission under the key is not looked up.    *)
AdmitAsyncBlind(p, j, i, u) ==
  /\ Admission(p, j, u)
  /\ \E n \in Position : jobs' = [jobs EXCEPT ![j] = NewJob(p, "async", n)]
  /\ idempotency' = [idempotency EXCEPT ![<<p.user, i>>] = j]
  /\ UNCHANGED artifacts

(***************************************************************************)
(* An asynchronous admission under an idempotency key.  While an earlier   *)
(* job holds the key the call returns that job, or CONFLICT when its       *)
(* content differs, and changes nothing; one whose retention is over is    *)
(* purged here and its key taken again.                                    *)
(***************************************************************************)
AdmitAsync(p, j, i, u) ==
  LET prior == {k \in Job : idempotency[<<p.user, i>>] = k} IN
  /\ \A k \in prior : Ended(k) /\ MaySeePast(jobs[k].expiry)
  /\ Admission(p, j, u)
  /\ \E n \in Position : jobs' = [k \in Job |->
       IF k = j THEN NewJob(p, "async", n)
       ELSE IF k \in prior THEN Purged(jobs[k])
       ELSE jobs[k]]
  /\ artifacts' = artifacts \ prior
  /\ idempotency' = [idempotency EXCEPT ![<<p.user, i>>] = j]

(* Store.cancel: a queued job ends here, a running one is only marked.  A  *)
(* session of the user suffices; a service key satisfies SessionAccess too.*)
Cancel(j) ==
  LET row == [jobs[j] EXCEPT !.cancel = TRUE] IN
  /\ TenantLock
  /\ Active(j)
  /\ SessionAccess(j)
  /\ \/ /\ row.state = "queued"
        /\ Finish(j, row, "cancelled", None)
     \/ /\ row.state = "running"
        /\ jobs' = [jobs EXCEPT ![j] = row]
        /\ UNCHANGED ledgerVars
  /\ UNCHANGED <<artifacts, idempotency, accessVars>>
-----------------------------------------------------------------------------
(* Store.claim takes the oldest queued job.                                *)
NextInQueue(j) ==
  /\ jobs[j].state = "queued"
  /\ \A i \in Job : jobs[i].state = "queued" => jobs[j].created <= jobs[i].created

ClaimExpired(j) ==
  /\ TenantLock
  /\ NextInQueue(j)
  /\ MaySeePast(jobs[j].queue)
  /\ Finish(j, jobs[j], "failed", None)
  /\ UNCHANGED <<artifacts, idempotency, accessVars>>

Claim(j) ==
  /\ TenantLock
  /\ NextInQueue(j)
  /\ MaySeeAhead(jobs[j].queue)
  /\ jobs' = [jobs EXCEPT ![j] =
       [jobs[j] EXCEPT !.state = "running", !.claims = jobs[j].claims + 1,
                       !.leaseOwner = jobs[j].claims + 1, !.lease = "ahead"]]
  /\ UNCHANGED <<ledgerVars, artifacts, idempotency, accessVars>>

(* Store.heartbeat, which takes no lock.                                   *)
Heartbeat(j, token) ==
  /\ ValidLease(j, token)
  /\ jobs' = [jobs EXCEPT ![j].lease = "ahead"]
  /\ UNCHANGED <<ledgerVars, artifacts, idempotency, accessVars, reconciling>>

(* Store.markDispatch refuses a lost lease and a second dispatch, ends the *)
(* job that was cancelled or whose owner lost access, else commits the     *)
(* permission to call the provider.                                        *)
MayDispatch(j, token) == ValidLease(j, token) /\ ~jobs[j].dispatched

DispatchCancelled(j, token) ==
  /\ TenantLock
  /\ MayDispatch(j, token)
  /\ jobs[j].cancel
  /\ Finish(j, jobs[j], "cancelled", None)
  /\ UNCHANGED <<artifacts, idempotency, accessVars>>

DispatchRevoked(j, token) ==
  /\ TenantLock
  /\ MayDispatch(j, token)
  /\ ~jobs[j].cancel
  /\ ~OwnerAccess(j)
  /\ Finish(j, jobs[j], "failed", None)
  /\ UNCHANGED <<artifacts, idempotency, accessVars>>

MarkDispatch(j, token) ==
  /\ TenantLock
  /\ MayDispatch(j, token)
  /\ ~jobs[j].cancel
  /\ OwnerAccess(j)
  /\ jobs' = [jobs EXCEPT ![j].dispatched = TRUE]
  /\ UNCHANGED <<ledgerVars, artifacts, idempotency, accessVars>>

FailPreparation(j, token) ==
  /\ TenantLock
  /\ MayDispatch(j, token)
  /\ Finish(j, jobs[j], "failed", None)
  /\ UNCHANGED <<artifacts, idempotency, accessVars>>

(* Store.complete: what the worker brings back.  The status of the         *)
(* envelope it built agrees with the state; only a success has an artifact,*)
(* and a search that was asked for no output has none.                     *)
Completion ==
  {c \in [state : Terminal, artifact : {None, "fits", "oversize"}] :
     c.artifact # None => c.state = "succeeded"}

Overridden(j, result) == jobs[j].cancel \/ result.artifact = "oversize"

(* Fault variant: the cancellation requested meanwhile is not looked at.   *)
OutcomeIgnoringCancel(j, result) ==
  IF result.artifact = "oversize" THEN "failed" ELSE result.state

Outcome(j, result) ==
  IF jobs[j].cancel THEN "cancelled"
  ELSE IF result.artifact = "oversize" THEN "failed" ELSE result.state

(* Fault variant: a synchronous caller is answered with the envelope of    *)
(* the worker whatever became of the job.                                  *)
WorkerEnvelope(j, result) ==
  IF jobs[j].delivery = "sync" THEN result.state ELSE None

(* A result that is overridden gets an envelope of its own.                *)
Envelope(j, result) ==
  IF jobs[j].delivery # "sync" THEN None
  ELSE IF ~Overridden(j, result) THEN result.state
  ELSE IF jobs[j].cancel THEN "cancelled" ELSE "failed"

Complete(j, token, result) ==
  LET outcome == Outcome(j, result) IN
  /\ TenantLock
  /\ ValidLease(j, token)
  /\ jobs[j].dispatched
  /\ Finish(j, jobs[j], outcome, Envelope(j, result))
  /\ artifacts' = IF outcome = "succeeded" /\ result.artifact = "fits"
                  THEN artifacts \cup {j} ELSE artifacts
  /\ UNCHANGED <<idempotency, accessVars>>
-----------------------------------------------------------------------------
(* Fault variant: what was selected outside the transaction is taken at    *)
(* its word, the row is not looked at again.                               *)
LostAsSelected(j) ==
  /\ jobs[j].state \in {"queued", "running"} \cup Terminal
  /\ jobs[j].state = "running" => MaySeePast(jobs[j].lease)
  /\ jobs[j].state = "queued" => MaySeePast(jobs[j].queue)

(* Fault variant: only jobs that waited too long are looked for.           *)
LostQueued(j) == jobs[j].state = "queued" /\ MaySeePast(jobs[j].queue)

(* Store.reconcile: the check repeated under the lock, on a candidate that *)
(* was selected before it.                                                 *)
Lost(j) ==
  /\ Active(j)
  /\ jobs[j].state = "running" => MaySeePast(jobs[j].lease)
  /\ jobs[j].state = "queued" => MaySeePast(jobs[j].queue)

MaxClaims == 2

(* Fault variant: a third worker may try.                                  *)
ThirdClaim(j) ==
  /\ jobs[j].state = "running"
  /\ jobs[j].claims <= MaxClaims
  /\ MaySeeAhead(jobs[j].queue)

(* A job that may be given to another worker.                              *)
MayRequeue(j) ==
  /\ jobs[j].state = "running"
  /\ jobs[j].claims < MaxClaims
  /\ MaySeeAhead(jobs[j].queue)

MustGiveUp(j) ==
  \/ jobs[j].state = "queued"
  \/ jobs[j].claims >= MaxClaims
  \/ MaySeePast(jobs[j].queue)

(* The transaction of reconcile, up to what it decides from the row as     *)
(* read: work that never reached the provider may go back to the queue, a  *)
(* job that was dispatched, cancelled or cannot be tried again ends.       *)
ReconcileReads(j) ==
  /\ LockFree
  /\ Lost(j)
  /\ \E again \in BOOLEAN :
       /\ again => ~jobs[j].dispatched /\ ~jobs[j].cancel /\ MayRequeue(j)
       /\ ~again => jobs[j].dispatched \/ jobs[j].cancel \/ MustGiveUp(j)
       /\ reconciling' = [job |-> j, again |-> again]
  /\ UNCHANGED <<ledgerVars, jobs, artifacts, idempotency, accessVars>>

(* Its UPDATE and commit, whether or not the lease was renewed meanwhile.  *)
Requeue(j) ==
  /\ reconciling = [job |-> j, again |-> TRUE]
  /\ reconciling' = NoReconcile
  /\ jobs' = [jobs EXCEPT ![j].state = "queued", ![j].leaseOwner = 0, ![j].lease = "ahead"]
  /\ UNCHANGED <<ledgerVars, artifacts, idempotency, accessVars>>

(* Fault variant: a dispatched job is tried again, as if for the first time.*)
GiveUpUndispatched(j) ==
  /\ reconciling = [job |-> j, again |-> FALSE]
  /\ reconciling' = NoReconcile
  /\ \/ /\ jobs[j].dispatched
        /\ jobs' = [jobs EXCEPT ![j].state = "queued", ![j].leaseOwner = 0,
                                ![j].lease = "ahead", ![j].dispatched = FALSE]
        /\ UNCHANGED ledgerVars
     \/ /\ ~jobs[j].dispatched
        /\ Finish(j, jobs[j], IF jobs[j].cancel THEN "cancelled" ELSE "failed", None)
  /\ UNCHANGED <<artifacts, idempotency, accessVars>>

GiveUp(j) ==
  /\ reconciling = [job |-> j, again |-> FALSE]
  /\ reconciling' = NoReconcile
  /\ \/ /\ jobs[j].dispatched \/ ~jobs[j].cancel
        /\ Finish(j, jobs[j], "failed", None)
     \/ /\ ~jobs[j].dispatched
        /\ jobs[j].cancel
        /\ Finish(j, jobs[j], "cancelled", None)
  /\ UNCHANGED <<artifacts, idempotency, accessVars>>

ReconcileWrites(j) == Requeue(j) \/ GiveUp(j)

(* The process or its connection dies in between: nothing is written.      *)
ReconcileFails ==
  /\ ~LockFree
  /\ reconciling' = NoReconcile
  /\ UNCHANGED <<ledgerVars, jobs, artifacts, idempotency, accessVars>>

(* Fault variant: the purge leaves the artifact behind.                    *)
PurgeRowOnly(j) ==
  /\ TenantLock
  /\ Ended(j)
  /\ ~jobs[j].purged
  /\ MaySeePast(jobs[j].expiry)
  /\ jobs' = [jobs EXCEPT ![j] = Purged(@)]
  /\ idempotency' = [i \in DOMAIN idempotency |->
                       IF idempotency[i] = j THEN None ELSE idempotency[i]]
  /\ UNCHANGED <<ledgerVars, artifacts, accessVars>>

(* Store.cleanup, first part: purgeOne of a job whose retention is over.   *)
Purge(j) ==
  /\ TenantLock
  /\ Ended(j)
  /\ ~jobs[j].purged
  /\ MaySeePast(jobs[j].expiry)
  /\ jobs' = [jobs EXCEPT ![j] = Purged(@)]
  /\ artifacts' = artifacts \ {j}
  /\ idempotency' = [i \in DOMAIN idempotency |->
                       IF idempotency[i] = j THEN None ELSE idempotency[i]]
  /\ UNCHANGED <<ledgerVars, accessVars>>

(* Fault variant: the deletion of a job's rows takes its charge with them. *)
DeleteOldForgiving(j) ==
  LET r == reservations[j] IN
  /\ TenantLock
  /\ Ended(j)
  /\ jobs[j].purged
  /\ r.state = "settled"
  /\ j \notin erased
  /\ jobs' = [jobs EXCEPT ![j] = DeletedJob]
  /\ erased' = erased \cup {j}
  /\ keyBuckets' = [keyBuckets EXCEPT ![r.key].used = @ - r.units]
  /\ usageEvents' = {e \in usageEvents : e[1] # j}
  /\ UNCHANGED <<reservations, groupBuckets, quotaEpoch, keyQuota, dailyQuota, today,
                 artifacts, idempotency, accessVars>>

(* Store.cleanup, second part: 90 days after completion, any time after    *)
(* the purge, the rows of the job go; its charges stay in the buckets.     *)
DeleteOld(j) ==
  /\ TenantLock
  /\ Ended(j)
  /\ jobs[j].purged
  /\ jobs' = [jobs EXCEPT ![j] = DeletedJob]
  /\ EraseUsage(j)
  /\ UNCHANGED <<artifacts, idempotency, accessVars>>
-----------------------------------------------------------------------------
(* Store.resetKeyQuota, asked for by the key's owner or an administrator.  *)
ResetQuota(k) ==
  /\ TenantLock
  /\ ResetKeyQuota(k)
  /\ UNCHANGED storeVars

(* A request disables, deletes, moves or enables a key, with or without a  *)
(* new quota, or a key expires.  A key is bound to one group.              *)
ChangeKeys(live) ==
  /\ TenantLock
  /\ \A p, q \in live : p.key = q.key => p = q
  /\ liveKeys' = live
  /\ \/ \E k \in Key, quota \in KeyQuotas : SetKeyQuota(k, quota)
     \/ UNCHANGED ledgerVars
  /\ UNCHANGED <<jobs, artifacts, idempotency, members>>

(* A request changes a user, a group -- its daily quota included -- or the *)
(* lanes of groups.                                                        *)
ChangeMembers(granted) ==
  /\ TenantLock
  /\ members' = granted
  /\ \/ \E g \in Group, quota \in DailyQuotas : SetDailyQuota(g, quota)
     \/ UNCHANGED ledgerVars
  /\ UNCHANGED <<jobs, artifacts, idempotency, liveKeys>>

(* Time passes a deadline of a job, or midnight.                           *)
LeaseRunsOut(j) ==
  /\ jobs[j].state = "running"
  /\ jobs[j].lease # "past"
  /\ jobs' = [jobs EXCEPT ![j].lease = Later(@)]
  /\ UNCHANGED <<ledgerVars, artifacts, idempotency, accessVars, reconciling>>

QueueRunsOut(j) ==
  /\ Active(j)
  /\ jobs[j].queue # "past"
  /\ jobs' = [jobs EXCEPT ![j].queue = Later(@)]
  /\ UNCHANGED <<ledgerVars, artifacts, idempotency, accessVars, reconciling>>

RetentionRunsOut(j) ==
  /\ Ended(j)
  /\ ~jobs[j].purged
  /\ jobs[j].expiry # "past"
  /\ jobs' = [jobs EXCEPT ![j].expiry = Later(@)]
  /\ UNCHANGED <<ledgerVars, artifacts, idempotency, accessVars, reconciling>>

Midnight == NextDay /\ UNCHANGED storeVars

Time ==
  \/ \E j \in Job : LeaseRunsOut(j) \/ QueueRunsOut(j) \/ RetentionRunsOut(j)
  \/ Midnight

(* What clients and administrators ask for.                                *)
Request ==
  \/ \E p \in Principal, j \in Job, u \in Units : AdmitSync(p, j, u)
  \/ \E p \in Principal, j \in Job, i \in IdemKey, u \in Units : AdmitAsync(p, j, i, u)
  \/ \E j \in Job : Cancel(j)
  \/ \E k \in Key : ResetQuota(k)
  \/ \E live \in SUBSET Principal : ChangeKeys(live)
  \/ \E granted \in SUBSET (User \X Group) : ChangeMembers(granted)

(* What any process does between claims.                                   *)
Maintenance ==
  \/ \E j \in Job : ClaimExpired(j) \/ Purge(j) \/ DeleteOld(j)
  \/ \E j \in Job : ReconcileReads(j) \/ ReconcileWrites(j)
  \/ ReconcileFails

(* The calls of a worker that was once given the token of a claim.         *)
LeaseCall(j, token) ==
  \/ Heartbeat(j, token)
  \/ MarkDispatch(j, token)
  \/ DispatchCancelled(j, token)
  \/ DispatchRevoked(j, token)
  \/ FailPreparation(j, token)
  \/ \E result \in Completion : Complete(j, token, result)

Next ==
  \/ Request
  \/ Maintenance
  \/ \E j \in Job : Claim(j)
  \/ \E j \in Job, token \in 1..MaxClaims : LeaseCall(j, token)
  \/ Time

Spec == Init /\ [][Next]_vars
-----------------------------------------------------------------------------
(* The tables have their types, the counters of the buckets among them: no *)
(* transaction of the store is aborted by a CHECK of the tables.           *)
JobTypeOK ==
  /\ LedgerTypeOK
  /\ jobs \in [Job -> JobRow \cup {AbsentJob, DeletedJob}]
  /\ artifacts \subseteq Job
  /\ idempotency \in [User \X IdemKey -> Job \cup {None}]
  /\ liveKeys \subseteq Principal
  /\ members \subseteq User \X Group
  /\ reconciling \in [job : Job \cup {None}, again : BOOLEAN]

(* Money follows work: units are held exactly while the job is queued or   *)
(* running; a job that ended is charged if the provider may have been      *)
(* called -- whatever became of it -- and given back if it was not.        *)
LedgerFollowsJob ==
  \A j \in Job :
    /\ jobs[j] = AbsentJob => reservations[j] = NoReservation
    /\ Active(j) => reservations[j].state = "reserved"
    /\ Ended(j) => reservations[j].state =
                     IF jobs[j].dispatched THEN "settled" ELSE "released"

(* A job whose cancellation was accepted never delivers: whichever of the  *)
(* worker's result, the loss of its lease and the cancellation comes first.*)
CancelHonoured ==
  \A j \in Job : Ended(j) /\ jobs[j].cancel =>
    /\ jobs[j].state # "succeeded"
    /\ jobs[j].envelope # "succeeded"
    /\ j \notin artifacts

(* An artifact belongs to a job that succeeded after a recorded dispatch   *)
(* and whose retention has not been ended by a purge.                      *)
ArtifactOfSuccess ==
  \A j \in artifacts :
    jobs[j].state = "succeeded" /\ jobs[j].dispatched /\ ~jobs[j].purged

(* The limits on active jobs hold at all times, although a job that lost   *)
(* its worker goes back to the queue without asking for admission again.   *)
ActiveBounded ==
  /\ Cardinality(ActiveJobs) <= TenantActive
  /\ \A user \in User : Cardinality(ActiveJobsOf(user)) <= UserActive

(* What a synchronous caller is told is what became of the job: the stored *)
(* envelope has its state, and a retained success, for which the waiting   *)
(* request has no other answer, has one.                                   *)
EnvelopeAgrees ==
  \A j \in Job : Ended(j) =>
    /\ jobs[j].envelope \in {None, jobs[j].state}
    /\ jobs[j].envelope # None => jobs[j].delivery = "sync" /\ ~jobs[j].purged
    /\ jobs[j].delivery = "sync" /\ jobs[j].state = "succeeded" /\ ~jobs[j].purged
         => jobs[j].envelope # None

(* Retries are bounded: a job is given to at most two workers, is queued   *)
(* again only after the first, and never after a dispatch was recorded or  *)
(* a cancellation accepted.                                                *)
RetriesBounded ==
  \A j \in Job : Active(j) =>
    /\ jobs[j].claims <= MaxClaims
    /\ jobs[j].state = "queued" =>
         jobs[j].claims < MaxClaims /\ ~jobs[j].dispatched /\ ~jobs[j].cancel

(* A repeated request finds the job of the first: every retained           *)
(* asynchronous job is the admission of exactly one key of its user, and a *)
(* key never leads to a purged job.                                        *)
RetriesFindTheirJob ==
  /\ \A j \in Job :
       (Active(j) \/ Ended(j)) /\ jobs[j].delivery = "async" /\ ~jobs[j].purged =>
         \E i \in IdemKey :
           {k \in DOMAIN idempotency : idempotency[k] = j} = {<<jobs[j].owner.user, i>>}
  /\ \A k \in DOMAIN idempotency : idempotency[k] # None =>
       LET j == idempotency[k] IN
       /\ Active(j) \/ Ended(j)
       /\ jobs[j].delivery = "async" /\ ~jobs[j].purged

(* An end is final: no later call -- a reconciler that selected the job    *)
(* before it ended, a worker that lost its lease -- changes how it ended,  *)
(* what was charged, or publishes a result.                                *)
EndIsFinal ==
  [][\A j \in Job : Ended(j) =>
       /\ \/ jobs'[j] = DeletedJob
          \/ /\ jobs'[j].state = jobs[j].state
             /\ jobs'[j].envelope \in {None, jobs[j].envelope}
             /\ jobs'[j].purged \/ jobs'[j].expiry \in {jobs[j].expiry, Later(jobs[j].expiry)}
       /\ reservations'[j] = reservations[j]
       /\ j \in artifacts' => j \in artifacts]_vars

(* The buckets never forget: what was ever charged to a key's epoch or a   *)
(* user's day stays charged, also when the rows of the job are deleted.    *)
UseIsNeverForgiven ==
  [][/\ \A b \in KeyBucket : keyBuckets'[b].used >= keyBuckets[b].used
     /\ \A b \in GroupBucket : groupBuckets'[b].used >= groupBuckets[b].used]_vars
=============================================================================
