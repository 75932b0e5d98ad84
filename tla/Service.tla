------------------------------ MODULE Service ------------------------------
(***************************************************************************)
(* The workers and the store over the tables of the administration.        *)
(*                                                                         *)
(* JobStore lets the keys and users that are good for a job change in any  *)
(* way.  Here they are what the store reads from the tables that Grants    *)
(* describes, at the moment of each transaction (currentIdentity and       *)
(* jobAccess), and from the lanes of each group.  The quotas the ledger    *)
(* reads are those that Grants changes.                                    *)
(*                                                                         *)
(* Administration and store hold the same tenant's lock: the steps of the  *)
(* two are interleaved.  A key's id is drawn when it is created; Principal *)
(* says which user the key with this id will be of.                        *)
(***************************************************************************)
EXTENDS CloudWorker

CONSTANT Admin

ASSUME ServiceAssumption == Admin \subseteq User /\ Admin # {}

VARIABLES
  users,      \* users: status and restrict_public_groups
  groups,     \* the table groups
  allowed,    \* the table user_allowed_groups
  apiKeys,    \* the table api_keys, but for quota_epoch (quotaEpoch)
  ready       \* groups the lanes of which, as jobs there select them, and
              \* the providers of these, are enabled

Grants == INSTANCE Grants WITH Member <- User, members <- users, keys <- apiKeys

tableVars   == <<users, groups, allowed, apiKeys>>
quotaVars   == <<keyQuota, dailyQuota>>
serviceVars == <<allVars, tableVars, ready>>

StandsFor(k) == [user |-> apiKeys[k].owner, group |-> apiKeys[k].group, key |-> k]

(* Fault variant: a key that has expired is found all the same.            *)
LiveKeysExpired ==
  {p \in Principal :
     /\ Grants!LiveKey(p.key)
     /\ apiKeys[p.key].status = "active"
     /\ StandsFor(p.key) = p}

(* The first query of currentIdentity, with the group that jobAccess       *)
(* compares: keys that are active and not expired, with user and group.    *)
LiveKeys ==
  {p \in Principal :
     /\ Grants!LiveKey(p.key)
     /\ apiKeys[p.key].status = "active"
     /\ ~apiKeys[p.key].expired
     /\ StandsFor(p.key) = p}

(* The other queries: the user may use the group, the lanes are enabled.   *)
MayUse ==
  {m \in User \X Group : Grants!CanUserBindGroup(m[1], m[2]) /\ m[2] \in ready}

ServiceInit ==
  /\ WorkerInit
  /\ Grants!GrantsInit
  /\ ready \in SUBSET Group

(* What the store will read is what the tables say after the step.         *)
TablesChange ==
  /\ TenantLock
  /\ liveKeys' = LiveKeys'
  /\ members' = MayUse'
  /\ UNCHANGED <<reservations, groupBuckets, keyBuckets, usageEvents, quotaEpoch,
                 today, erased, jobs, artifacts, idempotency, workerVars>>

(* A request of the administration, or the expiry of a key, which nothing  *)
(* would read while reconcile holds the lock.                              *)
Administer ==
  /\ Grants!GrantsNext
  /\ \A k \in Key : apiKeys'[k] # Grants!Missing => StandsFor(k)' \in Principal
  /\ UNCHANGED ready
  /\ TablesChange

(* Lanes or their providers are enabled or disabled, or a group gets other *)
(* lanes.                                                                  *)
ChangeLanes(enabled) ==
  /\ enabled # ready
  /\ ready' = enabled
  /\ UNCHANGED <<tableVars, quotaVars>>
  /\ TablesChange

(* The store and its workers; they only read who may do what, and how much.*)
Work == UNCHANGED <<accessVars, tableVars, quotaVars, ready>> /\ WorkerNext

ServiceNext ==
  \/ Administer
  \/ \E enabled \in SUBSET Group : ChangeLanes(enabled)
  \/ Work

ServiceSpec == ServiceInit /\ [][ServiceNext]_serviceVars
-----------------------------------------------------------------------------
(* A step that admits a job, or records the permission to call for it.     *)
Admitted(j)   == ~Active(j) /\ Active(j)'
Dispatched(j) == Active(j) /\ Active(j)' /\ ~jobs[j].dispatched /\ jobs'[j].dispatched

(* A job is admitted, and the permission to call a provider for it is      *)
(* recorded, only while the key that asked for it works: it is neither     *)
(* deleted, disabled nor expired, still bound to the group of the job, its *)
(* user may use that group, and the lanes of the group are enabled         *)
(* (policy.ts:9-39, store.ts:23, 106).  Who lost access between admission  *)
(* and dispatch gets no call.                                              *)
WorkIsGranted ==
  [][\A j \in Job : Admitted(j) \/ Dispatched(j) =>
       LET p == jobs'[j].owner IN
       Grants!KeyWorks(p.key) /\ StandsFor(p.key) = p /\ p.group \in ready]_serviceVars
=============================================================================
