--------------------------- MODULE ProviderConfigs ---------------------------
(***************************************************************************)
(* Providers, their configurations and the pools of credentials in them.   *)
(*                                                                         *)
(* A configuration is never changed: an edit of a provider inserts the     *)
(* next version and makes it current.  A job that is admitted keeps the    *)
(* configurations of its plan, by rows of job_config_refs, until it is     *)
(* purged; the others are deleted once they are 72 hours old and not       *)
(* current.  Workers that prepare a call draw a key of the configuration's *)
(* pool from one counter.                                                  *)
(*                                                                         *)
(* An administrator's edit and the clean-up are transactions under the     *)
(* tenant's lock; the drawing of a key is a single UPDATE without it.      *)
(* Edits name the revision they were made on; which editor is refused      *)
(* with STALE_VERSION is followed in Console.                              *)
(***************************************************************************)
EXTENDS Naturals, Sequences, FiniteSets

CONSTANTS
  Provider,       \* ids of providers
  Kind,           \* the kinds of provider the deployment allows
  Config,         \* ids of configurations (UUIDs)
  Job,            \* ids of jobs
  PoolInput,      \* what an editor may send as key_pool: sequences of
                  \* [id, enabled], id the position of a key to keep, 0 a new one
  LastVersion,    \* bound: versions of a provider's configuration
  LastSelection   \* bound: keys drawn from one configuration

ASSUME ProviderConfigsAssumption ==
  /\ Kind \subseteq {"exa", "grok-multi-agent", "script"}
  /\ LastVersion \in Nat \ {0}
  /\ LastSelection \in Nat
  /\ PoolInput \subseteq Seq([id : Nat, enabled : BOOLEAN])

VARIABLES
  providers,  \* the table providers
  configs,    \* provider_configs with provider_config_keys and the counter
  plans,      \* first_plan and job_config_refs of each job
  uses        \* how often each key of a configuration was drawn (history)

configVars == <<providers, configs, plans, uses>>

None    == "none"
Status  == {"active", "disabled"}

(* A secret is named after the version that brought it; 0 is no secret.    *)
Secret  == 0..LastVersion
PoolKey == [secret : Secret \ {0}, enabled : BOOLEAN]

ProviderRow == [kind : Kind, status : Status, current : Config \cup {None},
                deleted : {"no", "yes", "longAgo"}]
ConfigRow   == [provider : Provider, version : 1..LastVersion, secret : Secret,
                pool : Seq(PoolKey), selections : 0..LastSelection, old : BOOLEAN]
Missing     == [status |-> "absent"]

NoPlan   == [state |-> "absent", configs |-> {}]

ConfigsInit ==
  /\ providers = [p \in Provider |-> Missing]
  /\ configs = [c \in Config |-> Missing]
  /\ plans = [j \in Job |-> NoPlan]
  /\ uses = [c \in Config |-> <<>>]

Stored(c)       == configs[c] # Missing
LiveProvider(p) == providers[p] # Missing /\ providers[p].deleted = "no"

(* The positions of the enabled keys of a pool, in order.                  *)
Enabled(pool) ==
  LET on == {i \in DOMAIN pool : pool[i].enabled}
  IN  [n \in 1..Cardinality(on) |->
         CHOOSE i \in on : Cardinality({k \in on : k <= i}) = n]

FirstEnabledSecret(pool) ==
  IF Enabled(pool) = <<>> THEN 0 ELSE pool[Enabled(pool)[1]].secret

(* replacePool: a key that names one of the prior pool keeps its secret,   *)
(* each at most once; any other brings the secret of this version.         *)
Acceptable(input, prior) ==
  /\ \A i \in DOMAIN input : input[i].id \in 0..Len(prior)
  /\ \A i, k \in DOMAIN input : i # k /\ input[i].id # 0 => input[i].id # input[k].id

ReplacePool(input, prior, version) ==
  [i \in DOMAIN input |->
     [secret  |-> IF input[i].id = 0 THEN version ELSE prior[input[i].id].secret,
      enabled |-> input[i].enabled]]

(* insertConfig and insertPool.                                            *)
NewConfig(p, version, secret, pool) ==
  [provider |-> p, version |-> version, secret |-> secret, pool |-> pool,
   selections |-> 0, old |-> FALSE]

InsertConfig(c, row) ==
  /\ ~Stored(c)
  /\ configs' = [configs EXCEPT ![c] = row]
  /\ uses' = [uses EXCEPT ![c] = [i \in DOMAIN row.pool |-> 0]]

Credentials == {"none", "secret", "pool"}

(* The pool is sent with a request that has one only.                      *)
Inputs(credential) == IF credential = "pool" THEN PoolInput ELSE {<<>>}
-----------------------------------------------------------------------------
(* ProviderService.create: with a secret, a pool, or neither.              *)
CreateProvider(p, c, kind, credential, input) ==
  LET pool   == IF credential = "pool" THEN ReplacePool(input, <<>>, 1) ELSE <<>>
      secret == CASE credential = "pool"   -> FirstEnabledSecret(pool)
                  [] credential = "secret" -> 1
                  [] OTHER                 -> 0
  IN
  /\ providers[p] = Missing
  /\ credential = "pool" => Acceptable(input, <<>>)
  /\ InsertConfig(c, NewConfig(p, 1, secret, pool))
  /\ providers' = [providers EXCEPT ![p] =
       [kind |-> kind, status |-> "active", current |-> c, deleted |-> "no"]]
  /\ UNCHANGED plans

(* ProviderService.patch of the name or the status only.                   *)
PatchStatus(p, status) ==
  /\ LiveProvider(p)
  /\ providers' = [providers EXCEPT ![p].status = status]
  /\ UNCHANGED <<configs, plans, uses>>

(* What a patch asks of the credentials: to keep them, while the endpoint  *)
(* or the options change, to clear them, or to replace them.               *)
Change == {"keep", "clear", "secret", "pool"}

(* Fault variant: the secret that stands for the pool is carried over from *)
(* the configuration before.                                               *)
PatchedSecretOfPrior(change, prior, pool, version) ==
  CASE change = "clear"  -> 0
    [] change = "secret" -> version
    [] OTHER             -> prior.secret

PatchedSecret(change, prior, pool, version) ==
  CASE change = "clear"  -> 0
    [] change = "secret" -> version
    [] change = "pool"   -> FirstEnabledSecret(pool)
    [] change = "keep"   -> IF prior.pool # <<>> THEN FirstEnabledSecret(pool)
                                                 ELSE prior.secret

(* ProviderService.patch of the configuration, and perhaps of the status.  *)
(* A key that is kept and gets a new secret is a new key here: insertPool  *)
(* gives every key of the new configuration an id of its own.              *)
PatchConfig(p, c, status, change, input) ==
  LET prior   == configs[providers[p].current]
      version == prior.version + 1
      pool    == CASE change = "pool" -> ReplacePool(input, prior.pool, version)
                   [] change = "keep" -> prior.pool
                   [] OTHER           -> <<>>
  IN
  /\ LiveProvider(p)
  /\ prior.version < LastVersion
  /\ change = "pool" => Acceptable(input, prior.pool)
  /\ InsertConfig(c, NewConfig(p, version,
                               PatchedSecret(change, prior, pool, version), pool))
  /\ providers' = [providers EXCEPT ![p].current = c, ![p].status = status]
  /\ UNCHANGED plans

(* ProviderService.remove: a mark; its configurations stay for now.        *)
RemoveProvider(p) ==
  /\ LiveProvider(p)
  /\ providers' = [providers EXCEPT ![p].status = "disabled", ![p].deleted = "yes"]
  /\ UNCHANGED <<configs, plans, uses>>

(* 72 hours pass since a configuration was inserted, or a provider deleted.*)
ConfigAges(c) ==
  /\ Stored(c) /\ ~configs[c].old
  /\ configs' = [configs EXCEPT ![c].old = TRUE]
  /\ UNCHANGED <<providers, plans, uses>>
DeletionAges(p) ==
  /\ providers[p] # Missing /\ providers[p].deleted = "yes"
  /\ providers' = [providers EXCEPT ![p].deleted = "longAgo"]
  /\ UNCHANGED <<configs, plans, uses>>

(* Fault variant: only jobs still to be run keep their configurations.     *)
ReferredByActive(c) == \E j \in Job : plans[j].state = "active" /\ c \in plans[j].configs

(* job_config_refs: every job that is not purged keeps its configurations. *)
Referred(c) == \E j \in Job : plans[j].state \in {"active", "ended"} /\ c \in plans[j].configs

(* cleanup, of one tenant: a provider deleted long ago lets its current    *)
(* configuration go, then the configurations nobody needs are deleted.     *)
CollectConfigs ==
  LET released == [p \in Provider |->
                     IF providers[p] # Missing /\ providers[p].deleted = "longAgo"
                     THEN [providers[p] EXCEPT !.current = None]
                     ELSE providers[p]]
      garbage  == {c \in Config :
                     /\ Stored(c)
                     /\ configs[c].old
                     /\ ~Referred(c)
                     /\ \A p \in Provider : released[p] # Missing => released[p].current # c}
  IN
  /\ providers' = released
  /\ configs' = [c \in Config |-> IF c \in garbage THEN Missing ELSE configs[c]]
  /\ uses' = [c \in Config |-> IF c \in garbage THEN <<>> ELSE uses[c]]
  /\ UNCHANGED plans
-----------------------------------------------------------------------------
(* A job is admitted with the configurations of its plan, ends, is purged; *)
(* its id then stands for another job.                                     *)
AdmitWith(j, cs) ==
  /\ plans[j] = NoPlan
  /\ plans' = [plans EXCEPT ![j] = [state |-> "active", configs |-> cs]]
  /\ UNCHANGED <<providers, configs, uses>>

JobEnds(j) ==
  /\ plans[j].state = "active"
  /\ plans' = [plans EXCEPT ![j].state = "ended"]
  /\ UNCHANGED <<providers, configs, uses>>

PurgeJob(j) ==
  /\ plans[j].state = "ended"
  /\ plans' = [plans EXCEPT ![j] = NoPlan]
  /\ UNCHANGED <<providers, configs, uses>>

(* Fault variant: the counter runs over all keys, and a disabled one hands *)
(* over to the next that is enabled.                                       *)
TurnOverAll(pool, n) ==
  LET start == (n % Len(pool)) + 1
      on    == {i \in DOMAIN pool : pool[i].enabled}
      after == {i \in on : i >= start}
      from  == IF after # {} THEN after ELSE on
  IN  CHOOSE i \in from : \A k \in from : i <= k

(* Whose turn it is when n keys were drawn before.                         *)
Turn(pool, n) == Enabled(pool)[(n % Len(Enabled(pool))) + 1]

(* selectPoolSecret, by a worker that prepares a job; a pool without an    *)
(* enabled key is UNAVAILABLE, no pool leaves the configuration's secret.  *)
SelectSecret(j, c) ==
  LET row == configs[c] IN
  /\ plans[j].state = "active"
  /\ c \in plans[j].configs
  /\ Stored(c)
  /\ Enabled(row.pool) # <<>>
  /\ row.selections < LastSelection
  /\ configs' = [configs EXCEPT ![c].selections = @ + 1]
  /\ uses' = [uses EXCEPT ![c][Turn(row.pool, row.selections)] = @ + 1]
  /\ UNCHANGED <<providers, plans>>

ConfigsNext ==
  \/ \E p \in Provider, c \in Config, kind \in Kind, credential \in Credentials :
       \E input \in Inputs(credential) : CreateProvider(p, c, kind, credential, input)
  \/ \E p \in Provider, status \in Status : PatchStatus(p, status)
  \/ \E p \in Provider, c \in Config, status \in Status, change \in Change :
       \E input \in Inputs(change) : PatchConfig(p, c, status, change, input)
  \/ \E p \in Provider : RemoveProvider(p) \/ DeletionAges(p)
  \/ \E c \in Config : ConfigAges(c)
  \/ CollectConfigs
  \/ \E j \in Job : JobEnds(j) \/ PurgeJob(j)
  \/ \E j \in Job, c \in Config : SelectSecret(j, c)
-----------------------------------------------------------------------------
(* As long as a job is retained, the configurations its plan was frozen    *)
(* with are in the table, whatever is edited, deleted or collected         *)
(* meanwhile (store.ts:225; the comment at 0002_execution.sql:68).         *)
PlannedConfigsExist ==
  \A j \in Job : \A c \in plans[j].configs : Stored(c)

(* Nobody pays for the others: of the keys enabled in a configuration none *)
(* is drawn twice more often than another, and a disabled key is never     *)
(* drawn, however workers meet (key-pool.ts:44-53).                        *)
KeysShared ==
  \A c \in Config : Stored(c) =>
    /\ \A i \in DOMAIN configs[c].pool : ~configs[c].pool[i].enabled => uses[c][i] = 0
    /\ \A i, k \in DOMAIN configs[c].pool :
         configs[c].pool[i].enabled /\ configs[c].pool[k].enabled =>
           uses[c][i] <= uses[c][k] + 1

(* A configuration that counts as having a credential, which is what makes *)
(* its lanes ready, does give one when a worker asks: its pool, if it has  *)
(* one, has an enabled key, also after edits that kept, cleared or         *)
(* replaced parts of it (providers.ts:55-61, service.ts:34).               *)
SecretStandsForPool ==
  \A c \in Config : Stored(c) /\ configs[c].pool # <<>> =>
    configs[c].secret = FirstEnabledSecret(configs[c].pool)
=============================================================================
