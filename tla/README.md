# NB Search Cloud in TLA+

TLA+ models of NB Search Cloud, the multi-tenant service that runs search and
fetch jobs for API keys against paid providers, with TLC configurations that
check them on small instances and TLAPS proofs of what holds for all sizes.
The models are written from the code; where a comment below names a line it is
a line of the repository.

## 1. The system

A Fastify process serves `/v1` (search and fetch, for service keys) and
`/api/admin` (the console). Everything durable is in PostgreSQL. A worker loop,
in the same image, takes jobs from the table and calls providers. Any number of
processes of either sort may run on one database.

| component | state | operations | interacts with |
|---|---|---|---|
| **Execution store** `src/execution/store.ts` | tables jobs, job_config_refs, idempotency_admissions, artifacts, artifact_chunks | admit, get, cancel, claim, heartbeat, markDispatch, failPreparation, complete, reconcile, read, cleanup | called by the routes and the worker; asks the policy; every call but the heartbeat holds the tenant's row lock |
| **Usage ledger**, part of the store | usage_reservations, usage_events, group_usage_buckets, key_usage_buckets, the quota and its epoch in api_keys, the daily quota in groups | reserve (in admit), settle (in finish), resetKeyQuota, changes of the quotas, deletion after 90 days | called by every store operation that creates or ends a job; quotas are set by the administration routes and the owners of keys |
| **Cloud worker** `src/execution/worker.ts` | the claimed row, an AbortController, a timer | once, run | store, bridge |
| **Policy** `src/execution/policy.ts`, `src/auth/policy.ts` | none; reads keys, users, groups, lanes, providers | currentIdentity, jobAccess, canUserBindGroup | read by the store inside its transactions, changed by the administration routes |
| **Remote routes** `src/routes/remote-v1.ts` | per request: the deadline of a synchronous wait | run, get, read, cancel | store, rate limits, API keys |
| **Plans and content** `plans.ts`, `idempotency.ts`, `capabilities.ts`, `catalog.ts`, `projections.ts`, `script-channels.ts` | none | pure functions of request and configuration | admit |
| **Providers, configurations, key pool** `providers.ts`, `key-pool.ts`, `crypto.ts` | providers, provider_configs (immutable, versioned), provider_config_keys, provider_key_counters | create, patch, remove, select a key | plans freeze a configuration, job_config_refs keep it, cleanup collects the rest |
| **Bridge and egress** `bridge.ts`, `egress/` | per call: requests made, violation, deadline | prepare, execute, pinned request | worker, providers |
| **Sessions and keys** `auth/session.ts`, `auth/api-key.ts`, `routes/admin-auth.ts` | sessions, CSRF hash, password version | login, authenticate, re-check under the lock, rotate CSRF, log out | all administration routes |
| **Rate limits** `auth/rate-limit.ts` | auth_rate_buckets | consume | login, service keys |
| **Hashing pool** `auth/password.ts` | active, waiters | boundedScrypt | login, password changes |
| **Administration routes** `routes/admin-*.ts` | users, keys, groups, lanes, audit | create, patch, remove, reset | sessions, store |
| **Database layer** `db/` | the pool | withTransaction, lockTenant, migrate, provision | everything |
| **Console** `web/src` | the session, pages of artifacts | views, `readFullJobArtifact` | administration routes |

### What is hard

* A worker is not told that it lost its lease: it finds out when a heartbeat or
  the store refuses it, and until then goes on. The heartbeat takes no tenant
  lock, so it races the reconciler.
* A commit may succeed although its caller gets an error (worker.ts:27), and a
  process may die between any two awaits.
* Deadlines are read with two clocks, `now()` of the database (of the start of
  the transaction, before it waits for the lock) and `Date.now()` of a process.
* Candidates of reconcile and cleanup are selected outside the transaction that
  treats them.
* Units are reserved on one day and settled on another, in an epoch that may be
  reset, under quotas that may be lowered below what is held already;
  rows that explain a charge are deleted while the charge stays.
* A cancellation, a revoked key or a repeated request may arrive at any time.
* A password is verified outside of any transaction, a session is looked at once
  before and once under the lock.
* A slot of the hashing pool is free while the caller it was freed for has not
  run yet; an abort signal calls only listeners that were there when it fired.
* The SDK may return while requests of its are in flight, and these go on until
  the worker, which stores the result first, aborts them.
* Answers reach the console in any order, also in a view opened since.

PROJECT.json lists the hazards one by one, at their lines.

### What makes each component correct

* Ledger: buckets agree with reservations; no admission exceeds the quotas in
  force at that moment; a reset leaves nothing in a closed epoch; a charge
  is never forgotten.
* Store: an end is final; money follows work; a cancelled job never delivers; a
  repeated request finds its job; retries and active jobs are bounded.
* Worker and store together: the provider is called at most once for a job and
  never for free; every job ends.
* Accounts: a usable session knows the present password and was never ended; a
  change is made with the authority its session has when the transaction runs;
  an active administrator remains.
* Grants: what the console offers is what a key may be bound to; what is deleted
  stays deleted.
* Configurations and pool: what a retained plan refers to exists; keys are drawn
  in turn, none that is disabled; the single secret stands for the pool.
* Lanes and plans: what the capabilities show as ready is accepted.
* Login gate: limits hold per window; slots are handed over; everyone is answered.
* Provider call: no request beyond the budget, none left open; a request that was
  rejected before the SDK returned is what the job fails for.
* Console: no update of a row with a revision is lost (what is done to users
  carries none); a result is shown whole or not at all.

## 2. The modules

| module | models | extends |
|---|---|---|
| `UsageLedger` | reservations, buckets, events, epochs, days | |
| `JobStore` | the store's transactions, each conjoined with what it does to the ledger | `UsageLedger` |
| `CloudWorker` | the worker loop and its timer around the store's operators | `JobStore` |
| `JobContract` | abstract: what the service promises about a job | |
| `Service` | the store and the workers over the tables of the administration | `CloudWorker`, with an instance of `Grants` |
| `Accounts` | users, sessions, logins and changes by sessions | |
| `Grants` | groups, memberships, keys, and the rule who may use what | |
| `ProviderConfigs` | providers, versions of configurations, key pools, retained plans | |
| `Routing` | lanes, capabilities of a group, and the plans built from them | `ProviderConfigs` |
| `LoginGate` | rate limits and the hashing pool in front of a login | |
| `ProviderCall` | bridge, SDK (external) and pinned transport, for one job | |
| `UsageView` | the usage page: report, job drawer, artifact reader | |
| `Console` | one tab of the console, with the server's side of its writes | `UsageView` |
| `MC...` | instances for TLC | |
| `UsageLedgerProofs` | theorems about the ledger | `UsageLedger` |
| `JobStoreProofs` | theorems about the store | `JobStore`, the ledger's theorems |
| `CloudWorkerProofs` | theorems about the workers, the contract and the service | `Service`, the store's theorems |
| `AccessProofs` | theorems about who somebody is and what they may use | `Accounts`, `Grants` |
| `RoutingProofs`, `LoginGateProofs`, `ProviderCallProofs`, `ConsoleProofs` | theorems about the module they are named for | that module |

How they meet: `JobStore` and `CloudWorker` take `liveKeys` and `members` as
sets that change in any way; `Grants` says in which ways they do, and
`Service` puts its tables in their place; `Accounts` says who may make the
changes. `ProviderConfigs` knows of a job only that it is admitted,
ends and is purged, in that order, as `JobStore` does it. `ProviderCall` is the
inside of the one step `Execute`/`Return` of `CloudWorker`. `LoginGate` ends
where the login of `Accounts` begins. `Console` is the other end of the
revisions that the administration routes check.

### State and actions

**UsageLedger.** `reservations[j]` is the row of a job in usage_reservations,
`groupBuckets` and `keyBuckets` are the two bucket tables (a bucket without a
row is a row of zeros, as admit inserts it), `usageEvents` the set of
(job, event) pairs, which the table keeps unique, `quotaEpoch` and `keyQuota`
columns of api_keys, `dailyQuota` one of groups, `today` the UTC day. `Reserve`
is admit from line 40 on, `Settle` the second half of finish, `ResetKeyQuota`
resetKeyQuota, `SetKeyQuota` and `SetDailyQuota` what patchKey and patchGroup do
to a quota at any time (zero lifts it), `EraseUsage` the deletion of a job's rows
in cleanup. Reservations stay in the model after
their rows are deleted (`erased` marks them), so that a bucket can be compared
with everything ever booked in it.

**JobStore.** One action per transaction, but two for that of reconcile:
`ReconcileReads` takes the tenant's lock, reads the row with a plain SELECT and
decides (`reconciling` is what it decided), `ReconcileWrites` writes and commits
(`ReconcileFails` if it does not). In between everything that needs the lock
waits (`TenantLock`); a heartbeat does not, and may still be told that its lease
is valid. The heartbeat is the only one that takes no lock, so the other
transactions are one step each. `jobs[j]` is the row; a job that does not exist
yet or any more is `AbsentJob` or `DeletedJob`. What is not kept:
plans, selections and errors (their presence is that of the row, until it is
`purged`), request ids, and timestamps that are only reported.

* The lease token is a fresh UUID per claim; the model uses `claim_count`,
  which is also fresh per claim of a job, with 0 for NULL.
* A deadline (lease, queue, retention) is `"ahead"`, `"near"` or `"past"`. Near
  it the two clocks may disagree: a check that wants it ahead and one that wants
  it past may both succeed. Checks at the same deadline with `<` in one place
  and `<=` in another are covered by the same phase.
* `Finish` is finish with the settlement; `Purged` and `Purge` are purgeOne;
  `AdmitAsync` purges the earlier job of the key when its retention is over, in
  the same step.
* Policy is read by two predicates. `liveKeys` holds the principals (user,
  group, key) whose key is active and bound to the group, `members` the users
  that may use a group with its lanes. `ChangeKeys` and `ChangeMembers` set them
  to anything, and with them the quotas, as administrators do in any order: each
  transaction sees one outcome of the checks, and any sequence of outcomes occurs.
* A call that is refused, or that only reads, changes nothing and is not a step.
* One tenant: everything the store does is within one, under its lock. (claim
  chooses the tenant with the oldest job; within it the job is the oldest.)
* `created` orders the jobs. It is the start of the transaction, not of the
  lock, so a later admission may sort first: `Position` leaves the order open.

**CloudWorker.** `stage[w]` is the await where `once` stands, `claim[w]` the row
it was given. Each stage is one action, and the transactions in it are those of
JobStore: `PrepareFails`, `Dispatch` and `HandIn` take a refusal too.
`DispatchUncertain` is an exception from markDispatch, with or without its
commit. `Beat` and `BeatFails` are the timer, at any time while `once` runs.
`Crash` is the process dying or any other exception out of `once`; the loop
starts again. Left out: a heartbeat still on its way when `once` has ended (it
can only renew a lease that is still valid, as that of another worker could),
observers, and the delay of 250 ms.

**Service.** `LiveKeys` and `MayUse` are the queries of currentIdentity and
jobAccess, written over the tables of `Grants`. `Administer` and `ChangeLanes`
change these tables and with them what the next transaction of the store reads;
`Work`, a step of `CloudWorker`, leaves them alone. Both sides take the same
tenant lock, hence interleaving. A request or the expiry of a key is one step of
`Grants`. `ready` is the set of groups whose lanes are enabled. jobAccess asks it
of the lanes a job has selected (policy.ts:34); a flag of the group stands for
these, as one job is followed: the lanes themselves are in `Routing`.

**JobContract.** No queue, workers, leases or clocks: a job is open, permitted
to be called, called at most once, closed once, and billed exactly if it had
been permitted. A permitted call may still be made after the job was closed,
because a slow worker is given up like a dead one.

**Accounts.** A request is idle, a login that has read its user and verifies the
password, or a change whose session was authenticated without a lock and that
may hash a new password. `LoginCommits`, `CreateUser`, `PatchUser`,
`ResetPassword`, `Logout` are the transactions, `InSession` and `AsAdmin` the
checks repeated in them; `ResetOffline` is the command line tool. A password is
the number `hash`, fresh when set; `proof` of a session is the hash its login
verified, a history variable. Nothing in the repository disables a tenant.

**Grants.** One action per administration request. `AvailableGroups` is the
query of the console's list, `CanUserBindGroup` the predicate used everywhere
else. The quotas are columns of keys and groups that the same requests set, and
`Service` hands them to the ledger. Roles do not change here, they do in
`Accounts`. `Member` is the set of
users' ids, `Standing` the column status.

**ProviderConfigs, Routing.** A configuration is a row of which only the
counter of its pool changes; it is `old` once it is 72 hours old. A pool is a
sequence of keys with an opaque secret each. `uses` counts the draws, a history
variable; the counter is the code's. `Capabilities` and `PlanAccepted` are the two readings
of a group, evaluated in any state. One group, one preset.

**LoginGate.** A step is a task of the event loop or a promise reaction
(`GoOn`); no task starts while a reaction is due. `window` is the window the
process's clock is in; it may move between two limits of one login.

**ProviderCall.** Each request of the SDK goes through resolving, connecting and
sending; an error sets it to "failing" and its `catch` runs in a later reaction
(`Catch`), where the violation is remembered. Signals call listeners once. The
SDK is external: it sends, returns and throws whatever and whenever it likes.
When it has returned or thrown, the completion is made from what the transport
remembers by then (`SdkReturns`, `SdkThrows`), and the run is `"handingIn"`: the
worker awaits the store and the observer while requests in flight go on and new
ones may start, until `EndRun`, its `finally`, fires the signal. What is rejected
in this time changes nothing of what is handed in.

**UsageView.** `asked` are the calls in flight; a window is a number. The reader
collects pages of chunks while `ResultExpires` may purge the result. Answers are
computed when they arrive, which loses nothing here: see the module's head.

**Console.** A row is its revision, a copy of it the pair of item and revision it
was read at. An editor holds the copy its fields show (`form`) and the copy whose
id and revision its save sends (`base`), which late answers may tear apart. The
session may be read again and the answer come after a logout. A
view that is left takes its state and its reads with it, its writes go on. All
views share the actions for lists, editors and buttons, each named for the view
with the differences in its guard.

Definitions named *fault variant* change the definition that follows them the
way a bug would. Nothing uses them; putting one in the place of the original
shows which property would notice (PROJECT.json lists the pairs).

## 3. Model checking

Run `tlc -config X.cfg M` in this directory.

| run | instance | states | shows |
|---|---|---|---|
| `usage_ledger` (MCUsageLedger) | 3 jobs, 1 user, a key whose quota is 2, 3 or none and a group whose daily quota is 2 or 4, changed at any time, costs 1 or 2, 2 days, 2 epochs | 58 thousand | `LedgerTypeOK`, `LedgerBalanced`, `QuotaHeld`, `HeldInCurrentEpoch`, `EventsMatchReservations` |
| `job_store` (MCJobStore) | 2 jobs of one user, 1 idempotency key, 2 units per key | 965 thousand | `JobTypeOK`, `LedgerFollowsJob`, `CancelHonoured`, `ArtifactOfSuccess`, `EnvelopeAgrees`, `RetriesBounded`, `RetriesFindTheirJob`, `EndIsFinal` |
| `job_limits` (MCJobLimits) | 2 jobs, 1 active job per user, 1 unit per day, 2 per key and epoch, 2 days, 2 epochs | 1.2 million | `ActiveBounded`, `UseIsNeverForgiven` |
| `cloud_worker` (MCCloudWorker) | 1 job, 2 workers, a key in 1 group with 1 unit a day, `FairSpec` | 58 thousand | `AtMostOnce`, `WorkIsCharged`, `KeepsContract` (CloudWorker implements JobContract), `EveryJobEnds` |
| `service` (MCService) | 1 job, 1 worker, a user and an administrator, 2 groups, a key that may be moved between them | 67 thousand | `WorkIsGranted` |
| `accounts` (MCAccounts) | 2 users, 2 sessions, 2 requests at once, 2 passwords and 2 tokens each | 114 thousand | `AccountsTypeOK`, `AnAdminRemains`, `SessionsKnowThePassword`, `EndedForGood`, `ChangesAreAuthorised` |
| `grants` (MCGrants) | an administrator, a user, 2 groups, 1 key, quotas of 1 or none | 481 thousand | `PoliciesAgree`, `DeletedIsFinal` |
| `routing` (MCRouting) | 1 provider, 2 configurations at once, 2 lanes, 1 job, pools of 1 and 3 keys | 247 thousand | `PlannedConfigsExist`, `KeysShared`, `SecretStandsForPool`, `WhatIsReadyIsAccepted` |
| `login_gate` (MCLoginGate) | 3 logins, 2 addresses, 1 account, limits of 2, 1 slot, 1 place to wait, 2 windows, `GateFairSpec` | 100 thousand | `GuessesBounded`, `SlotsHandedOver`, `EveryLoginAnswered` |
| `provider_call` (MCProviderCall) | 3 requests, a budget of 2, `CallFairSpec` | 133 thousand | `CallsWithinBudget`, `RejectionIsReported`, `EverySendSettles` |
| `console` (MCConsole) | 2 calls in flight, 2 groups, a user, a key and a provider, 1 job of 3 chunks | 493 thousand | `NoLostUpdate`, `ReadIsTheArtifact` |
| `usage_report` (MCUsageView) | 2 calls in flight, 2 windows | violated | `NoCursorAfterFailure` |

**What `usage_report` shows.** A test of the console (harness.spec.ts:260, 275)
says that after a refresh has failed no control carries the cursor of the
earlier window. `handleLoadMoreUsage` (UsageView.tsx:127) does not look at the
window when its answer comes, and the refresh button is disabled by its own
loading only: ask for the next page, refresh, let the refresh fail, and the page
that arrives then is shown alone with its cursor, under the new window. TLC
finds this in seven states.

Why the bounds are enough. Two jobs make every pair meet: the one that holds a
quota, a limit or an idempotency key and the one that asks for it; the ledger
has three, for a bucket with held, settled and asked-for units at once, and
quotas below, at and above what two of them hold, so that one may be lowered
under a sum that later grows again. In `job_limits` the key is good for both
jobs and a second day comes, so that there are states where only the limit on
active jobs refuses the second; it is the user's limit that binds there, the tenant's is the larger one
and is reached by nobody (`ActiveIsBounded` proves both, for any limits). Two
workers are as many as claim a job (`claim_count >= 2` ends it). A second day and
a second epoch are enough for a reservation to be settled after either changed;
the ledger and `job_limits` have the second day, the other runs of the store ask
nothing of it. `MaxUnits`, `KeyQuotas`, `DailyQuotas` (the values quotas may
take; only the ledger and the grants need several), `LastDay` and `LastEpoch` are
the only bounds of these runs that cut behaviour off; the limits on active jobs
(16 and 4) are parameters. Jobs are interchangeable, hence symmetry, except where
liveness is checked. Deadlock is checked for the ledger, the grants and the routing: a store
whose jobs have all been deleted, with no clock left to run out, really has
nothing to do, and so have accounts at their last password, a gate without
logins, a call that is over, and a console at its last window.

In `service` one job is enough, whose dispatch may follow any change since its
admission; the second group is where its key is moved meanwhile. The constraint
`OneThingAmiss` lets one thing at a time stand in the way: the user disabled, the
membership gone, a group deleted, its lanes disabled, or the key expired. Each is
a condition of its own in the property. Nobody is restricted to his groups, and
what stops working is deleted rather than disabled: `grants` has all that,
without jobs. A job that has ended is not followed further.

In `accounts` two requests are what meets in every one of its hazards: the one
that was checked before and the one that changes what it was checked against.
`LastVersion` and `LastToken` bound resets and rotations; a second password is
what a stale verification needs. In `routing` the pool of three has a disabled
key between two others, where a turn goes wrong if at all; `LastVersion` and
`LastSelection` bound edits and draws. In `login_gate` the third login finds
both limits, the slot and the place to wait taken. In `provider_call` the third
request is the one beyond the budget. In `console` `LastRevision` bounds the
revisions of a row and `MaxChanged` the rows that change at all, one: an update
is lost on one row, the other group is there to be confused with it. The
constraint `UsageApart` keeps the usage page, which reads none of the tables,
over untouched ones; nothing of `NoLostUpdate` or `ReadIsTheArtifact` spans both.

Fairness, for `EveryJobEnds`:

* weak fairness of each worker's `Step`: an await ends, because the database
  answers or its client times out and the provider call carries
  `AbortSignal.timeout` (worker.ts:35), and an idle worker polls every 250 ms;
* weak fairness of `ReconcileReads(j)` while some worker is idle: every pass of
  the loop starts with `reconcile`, oldest candidates first (worker.ts:58);
* strong fairness of `ReconcileWrites(j)` likewise: a transaction that read may
  be cut off by the death of its process, but the next pass repeats it, and they
  are not all cut off;
* weak fairness of time for a job's lease and its place in the queue.

No fairness is assumed of heartbeats, clients or administrators, and crashes may
go on for ever: a worker may claim and die as often as the code lets it.

For `EveryLoginAnswered`: weak fairness of each login's steps and of `GoOn`: a
query is answered or its client times out, scrypt ends, and the event loop runs
what is due. For `EverySendSettles`: weak fairness of the promise reactions and
of the transport's `AbortSignal.timeout` (transport.ts:94); nothing is assumed
of the SDK, the resolver or the network, which may stay silent for ever.

## 4. Proofs

Checked by `tlapm`, for every value of the constants that their assumptions
allow. The assumptions: `LedgerAssumption` (jobs are finitely many, a key belongs
to one user, limits are natural numbers), `StoreAssumption` (the limits on active
jobs are natural numbers, and "none" is no job), `AccountsAssumption` (the first
administrator is a user, the bounds are natural numbers), `GrantsAssumption`
(there is an administrator among the members), `ServiceAssumption` (the same of
the users of `Service`),
`ProviderConfigsAssumption`, `RoutingAssumption` (lanes are finitely many, and a
preset has no more of them than a plan may call: both are 64 in the code, in two
places, admin-execution.ts:22 and types.ts:44), `LoginGateAssumption` (logins are
finitely many, limits are positive), `CallAssumption` (requests are finitely
many, the budget is positive), `UsageViewAssumption` (a result has chunks, a page
has room for one) and `ConsoleAssumption`. TLC evaluates all.

**UsageLedgerProofs.** A settlement subtracts; that the result is not negative
needs the buckets to agree with the reservations (`LedgerBalanced`); that a
reset, which starts a bucket at zero, keeps the agreement needs the new epoch
to be empty (`HeldInCurrentEpoch`). `LedgerInv` is the conjunction of the three
and inductive. The sum of a set of reservations is written as the number of
elements of `UnitsOf`, one pair per unit, so that the sums are cardinalities,
about which there are theorems; `UnitsInGrow`, `RowEnters` and `RowStaysOut` say
how one changed row moves them. That quotas are held is not an invariant, as a
quota may be lowered below what is held. `QuotasAreHeld` is about steps: only
`Reserve` adds to the counters, within the quota it reads, and the counters are
the sums before and after it. A quota that was between 1 and N all the time does
bound the sums by N (`KeyQuotaBounds`, `DailyQuotaBounds`). `EventsAreComplete` is
the audit trail: with the types alone, the set of the events of a job is one of
four, which each step carries to the next (`EventsInOrder`).

**JobStoreProofs.** `RowsOK`, the types of the store's own tables, is inductive
without the ledger. Hence `StoreKeepsLedger`: `Spec => LedgerSpec`, the store
uses the ledger only as `UsageLedger` allows, and all theorems about the ledger
hold of the store. `StepKinds` sorts the steps into admissions, calls that end a
job, calls that rewrite one row, deletions, and steps elsewhere.

`JobOK(j)` relates the row, the reservation and the
artifact of one job, in two parts, for open and for ended jobs. A step leaves
all jobs but one untouched, except that an asynchronous admission may purge
another; `StepOK` says what it does to that one. `StoreInvariant` follows, and
from it `LedgerFollowsJob`, `CancelHonoured`, `ArtifactOfSuccess`,
`EnvelopeAgrees`, `RetriesBounded`; `EndIsFinal` and `ActiveBounded` follow from
`StepOK`, the second with a lemma on cardinalities. `RetriesFindJobs` needs the
keys one by one (`KeysOK`): no two lead to the same job, so a purge that removes
the one key of a job removes all. `UseStaysCharged` is inherited from the ledger.

`ActiveJobsRipen` is the half of `EveryJobEnds` that steps can show. While a job
is active its place in the queue only runs out, what was recorded of it (its
starts, a cancellation, a dispatch) is not taken back, and it goes back to the
queue only undispatched: a heartbeat may renew the lease that reconcile saw
expired, but nothing else of what reconcile read can change before it writes
(`JudgedOK`, a conjunct of `StoreInv`). Starts are
bounded (`RetriesAreBounded`), so what is left for fairness is that time passes
and somebody looks.

**AccessProofs.** That a usable session knows the present password is not
inductive: a password is verified in one step and the session opened in another.
`SessionsAgree` ties each to a version: an existing user's `hash` is its
`version`, the `proof` of a session is the version it was opened with, and an
ended session is revoked. A usable session has its user's version, hence its
password. `AccountsInv` adds the types and `AnAdminRemains`, and is inductive.
There is one lemma per action. For the last administrator the proof needs that
the one who is counted is not the one who is changed. `ChangesAreAuthorised` is
an action property about all that users and sessions are: only `AsAdmin` creates
a user or changes a role or a status, a password changes so or by the command
line tool, and a session is revoked so, by that tool or by itself.

Of the grants, each request writes at most one row of a group or a key
(`GroupPut`, `KeyPut`), and what it writes over is not deleted: hence
`DeletionIsFinal`. `GrantsInv` says besides that a key is bound to a group that
has a row, and that an administrator is left who can act; the administrator who
is counted is not the one who is disabled. `PoliciesAlwaysAgree` needs no
invariant: the two readings of the rule are the same formula in other words, in
any state, which is what their being written twice in the code calls for.

**CloudWorkerProofs.** Every step of a worker is a step of the store or leaves
its tables alone (`WorkersUseTheStore`), so all theorems about the store hold
with workers that crash and come too late. For the contract a step of the store
`Keeps` a job as the contract sees it, `Submits`, `Permits`, `Closes` or
`Forgets` it. `CallsOK` is what workers add to that: the dispatch is recorded
once, by the worker that made it, and that worker is alone at its call until it
is made. `WholeInv` joins it to the store's invariant; `ProviderCalledAtMostOnce`,
`CallsAreCharged` and the refinement `ContractIsKept` follow. So does
`KeyQuotasBoundTheCalls` and `DailyQuotasBoundTheCalls`: a called job has its
units reserved or settled, and while a quota was between 1 and N these are at
most N (`KeyQuotaBounds`, `DailyQuotaBounds`), so the providers are called for no
more of a key in an epoch, or of a user in a group on a day. Where a quota was
lowered, the calls before may be more than it says now. No run checks these two;
the properties they are made of are checked.

Of `Service` the theorems are that both its halves are what they are modelled
to be: `ServiceUsesTheWorkers` and `ServiceAdministers`, `ServiceSpec` implies
`WorkerSpec` and the specification of `Grants`. What was proved for keys and
members that change in any way, the contract included, holds over the real
tables. The first needs `AccessIsRead`, that what the store reads is what the
tables say, and that a request changes keys or users and groups, never both
(`RequestsAreOneSided`); from the same invariant and the guards of the store
follows `WorkIsAlwaysGranted`.

**ProviderCallProofs.** `Counting` is the set of requests that were written or
may be. Only `SendStarts` adds to it, in the step that increments the counter, so
it never outgrows the counter nor the budget, whatever is sent beside it. All
other steps shrink it (`Shrinks`). A rejected request has left its violation,
which nothing takes back and which is looked at when the SDK has returned: hence
`RejectionsAreReported`, about requests rejected by then. What is handed in is
made once, so that those rejected later do not change it.

`SignalsAreHeard` is the half of `EverySendSettles` that steps can show: once the
signal has fired nobody is left listening for what may never come, because every
await looks at the signal when it starts to listen (`OneGoes`) and everyone who
listens hears it (`ListenersGo`). A signal that fires before the SDK is called
finds no request (`NoneBefore`). What is not settled then has a reaction that is
due.

**LoginGateProofs.** `SlotsHandedOver` is not inductive: between the end of a
hash and the reaction of the caller it wakes, `active` is one short. `SlotsOK`
counts the slot on its way (`active + Len(micro)`), and says that someone waits
only if all slots are taken in this sense; `QueueOK` and `WokenOK` say that a
caller is in one place only.

`GuessesBounded` counts logins, the code counts in buckets, which start at one
again when their window is over. What connects them is that every login that was
let through holds a place of its own: the window it was counted in and the
number the bucket had then (`Placed`, `AddressesOK`). Places of an address are
pairs of a window so far and a number up to the limit, so there are at most
`IpLimit * (window + 1)` of them (`PlacesAreFew`). An account's logins of a
window are no more than its bucket of that window says, and never above the
account's limit (`AccountsOK`). A login between the two countings has the first
only, and may get the second in a later window.

`LoginsGoForward` is the half of `EveryLoginAnswered` that steps can show. No
step sets a login back (`GoesForward`), and the queue only moves up
(`QueueMoves`). A login that waits is in the list, one that was woken is the
reaction due (`Remembered`), and while the list is not empty a hash is under way
or a reaction is due (`Attended`): whom fairness serves wakes the next.

**RoutingProofs.** Configurations are referred to by providers (`ProvidersOK`) and
by plans (`PlansOK`); `CollectConfigs` respects both. A plan is built from lanes,
whose providers never disappear (`LanesOK`), and takes their current
configuration, which is there. `ReadyIsAccepted` needs of the group that the
lanes of its preset return results and are not too many (`GroupOK`); the rest of
the agreement is that both readings ask for the same.

That the keys of a pool are used alike is that the counter goes round them
(`PoolsOK`): all enabled keys were drawn in every full round, and those whose
turn in the present round has passed once more (`Round`). The turn is given by
the position in the list of enabled keys, which the model writes as an
enumeration by rank. Ranks differ and are as many as the keys (`RanksCount`),
hence the enumeration hits every key once (`EnabledLists`): a pigeonhole takes
the place of the induction over the list. A pool that is edited is a new
configuration, whose round starts anew (`CurrentOK`).

**ConsoleProofs.** An update would be lost by a save that sends the revision of a
copy other than the one its fields were filled from. `Filled` says that they are
the same, and of the row that is changed, for every editor and every save on its
way. The capabilities drawer may hold what was read for another group; its save
looks at that. So an accepted revision, which is that of the row, says that what
was sent is made from the row (`BasedOnPresent`). Answers that come when no view
is there need `ViewOK`: nobody waits without a view. `ReadsOK` says that a reader
has exactly the chunks before the one it asks for; `PageAppends` that a page
carries this on, whatever its size. So `ResultsAreWhole`, and besides, that the
checks after the last page refuse nothing (`LastPageCompletes`): they guard
against a server that sends other pages than this one does.

`OnlyLateAnswersBringCursors` is about the counterexample of `usage_report`:
every step that breaks `NoCursorAfterFailure` is the arrival of an answer that was
asked for in an earlier window. It needs `WindowsOK`: where calls and cursors are
from. A page that drops such answers has no other way to break the property.

Only model-checked: the liveness properties `EveryJobEnds`, `EveryLoginAnswered`
and `EverySendSettles`, which are out of the prover's reach. What steps can show
of each is proved (`ActiveJobsRipen`, `LoginsGoForward`, `SignalsAreHeard`).
Every other property of the passing runs is proved. `usage_report` has a
counterexample; what all its counterexamples have in common is proved.

## 5. Plan

Done: all modules of the list above, in the order ledger, store, worker, contract,
accounts, grants, configurations and lanes, gate, provider call, console, service;
the theorems about each. What would come next:

1. the lanes of `Routing` in place of `ready` in `Service`, so that a plan and
   the access to it are read from the same tables;
2. the sessions of `Accounts` in place of the acting user of `Grants`;
3. the synchronous wait of the remote routes, as a reader of `JobStore`.

### Not modelled

* Database layer: `withTransaction` and the tenant's lock are why a transaction
  is one step; migrations, roles and provisioning run once, alone.
* Server process, environment, hosting of the console, logging, the password
  prompt of the command line: wiring and I/O without a state of their own.
* Encryption of secrets and hashes of keys: a secret is an opaque value.
* Parsing, formatting, schemas of requests, the digest that tells whether a
  repeated request is the same (JobStore has "same" and "other"), fetch options
  and time budgets of plans.
* The audit log's content: it is written in the same transactions and read by
  nothing.
* The synchronous wait of 125 s (remote-v1.ts:56): a loop that reads.
* Cursors of the administration lists on the server, and the cursor of the usage
  report, which keeps milliseconds of a timestamp that has microseconds
  (admin-usage.ts:72): rows are not told apart by time here.
