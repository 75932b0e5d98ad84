---------------------------- MODULE RoutingProofs ----------------------------
(***************************************************************************)
(* Lanes, plans and configurations, for any number of them: a retained job *)
(* finds the configurations it was planned with, a secret that stands for  *)
(* a pool is the one the pool gives first, what the capabilities call      *)
(* ready is accepted, and the keys of a pool are used alike.               *)
(*                                                                         *)
(* Two references lead to a configuration, the current one of a provider   *)
(* and those of a plan, and the clean-up respects both (ProvidersOK and    *)
(* PlansOK); a lane leads to a provider that is or was there (LanesOK).    *)
(* The counter of a pool goes round its enabled keys (PoolsOK).            *)
(***************************************************************************)
EXTENDS Routing, FiniteSetTheorems, TLAPS

PlanRow == [state : {"absent", "active", "ended"}, configs : SUBSET Config]

(* The fields of a configuration, which tell it from a missing one.        *)
ConfigFields == {"provider", "version", "secret", "pool", "selections", "old"}

StandsForPool(row) == row.pool # <<>> => row.secret = FirstEnabledSecret(row.pool)

ProvidersOK ==
  /\ providers \in [Provider -> ProviderRow \cup {Missing}]
  /\ \A p \in Provider :
       providers[p] # Missing /\ providers[p].current # None => Stored(providers[p].current)

ConfigsOK ==
  /\ DOMAIN configs = Config
  /\ \A c \in Config :
       Stored(c) => DOMAIN configs[c] = ConfigFields /\ StandsForPool(configs[c])

PlansOK ==
  /\ plans \in [Job -> PlanRow]
  /\ \A j \in Job : plans[j].configs # {} => plans[j].state \in {"active", "ended"}
  /\ PlannedConfigsExist

LanesOK ==
  /\ lanes \in [Lane -> LaneRow \cup {Missing}]
  /\ \A l \in Lane : lanes[l] # Missing => providers[lanes[l].provider] # Missing

GroupOK ==
  /\ group \in GroupRow
  /\ Cardinality(group.preset) <= MaxLanes
  /\ \A l \in group.preset : lanes[l] # Missing /\ ChannelOf(lanes[l].operation) = "results"

RoutingInv == ProvidersOK /\ ConfigsOK /\ PlansOK /\ LanesOK /\ GroupOK

(* Configurations and providers that were there still are.                 *)
ConfigsStay   == \A c \in Config : Stored(c) => Stored(c)'
ProvidersStay == \A p \in Provider : providers[p] # Missing => providers'[p] # Missing

(* A row is not a missing one.                                             *)
LEMMA RowsAreThere ==
  /\ \A row \in ProviderRow : row # Missing
  /\ \A row \in LaneRow : row # Missing
  /\ \A row : DOMAIN row = ConfigFields => row # Missing
<1>1. \A row \in ProviderRow : row # Missing
  BY DEF ProviderRow, Missing, Status
<1>2. \A row \in LaneRow : row # Missing
  BY DEF LaneRow, Missing, Status
<1>3. \A row : DOMAIN row = ConfigFields => row # Missing
  BY DEF Missing, ConfigFields
<1> QED
  BY <1>1, <1>2, <1>3

(* A step that keeps the lanes and the group keeps what is known of them.  *)
LEMMA LanesKept ==
  ASSUME LanesOK, GroupOK, ProvidersStay, UNCHANGED <<lanes, group>>
  PROVE  LanesOK' /\ GroupOK'
<1>1. \A l \in Lane : lanes[l] # Missing => lanes[l].provider \in Provider
  BY DEF LanesOK, LaneRow
<1> QED
  BY <1>1 DEF LanesOK, GroupOK, ProvidersStay

(* A step that loses no configuration keeps the plans it does not change.  *)
LEMMA PlansKept ==
  ASSUME PlansOK, ConfigsStay, plans' = plans
  PROVE  PlansOK'
BY DEF PlansOK, PlanRow, ConfigsStay, PlannedConfigsExist

(* A step that loses no configuration keeps the providers, but for one     *)
(* whose new row names a configuration in the table.                       *)
LEMMA OneProvider ==
  ASSUME ProvidersOK, ConfigsStay, NEW p \in Provider, NEW row \in ProviderRow,
         providers' = [providers EXCEPT ![p] = row],
         row.current # None => configs'[row.current] # Missing
  PROVE  ProvidersOK' /\ ProvidersStay
<1>1. /\ providers' \in [Provider -> ProviderRow \cup {Missing}]
      /\ providers'[p] = row
      /\ \A q \in Provider \ {p} : providers'[q] = providers[q]
  BY DEF ProvidersOK
<1>2. row # Missing
  BY RowsAreThere
<1>3. \A q \in Provider : providers[q] # Missing /\ providers[q].current # None =>
                            providers[q].current \in Config
  BY DEF ProvidersOK, ProviderRow
<1>4. ASSUME NEW q \in Provider, providers'[q] # Missing, providers'[q].current # None
      PROVE  configs'[providers'[q].current] # Missing
  <2>1. CASE q = p
    BY <1>1, <1>4, <2>1
  <2>2. CASE q # p
    BY <1>1, <1>3, <1>4, <2>2 DEF ProvidersOK, ConfigsStay, Stored
  <2> QED
    BY <2>1, <2>2
<1> QED
  BY <1>1, <1>2, <1>4 DEF ProvidersOK, ProvidersStay, Stored

(* ... and if it changes none.                                             *)
LEMMA ProvidersKept ==
  ASSUME ProvidersOK, ConfigsStay, providers' = providers
  PROVE  ProvidersOK' /\ ProvidersStay
<1>1. \A q \in Provider : providers[q] # Missing /\ providers[q].current # None =>
                            providers[q].current \in Config
  BY DEF ProvidersOK, ProviderRow
<1> QED
  BY <1>1 DEF ProvidersOK, ConfigsStay, ProvidersStay, Stored

(* One configuration is written, and its secret stands for its pool.       *)
LEMMA OneConfig ==
  ASSUME ConfigsOK, NEW c \in Config, NEW row, configs' = [configs EXCEPT ![c] = row],
         DOMAIN row = ConfigFields, StandsForPool(row)
  PROVE  ConfigsOK' /\ ConfigsStay /\ Stored(c)'
<1>1. /\ DOMAIN configs' = Config
      /\ configs'[c] = row
      /\ \A d \in Config \ {c} : configs'[d] = configs[d]
  BY DEF ConfigsOK
<1>2. row # Missing
  BY RowsAreThere
<1> QED
  BY <1>1, <1>2 DEF ConfigsOK, ConfigsStay, Stored

(* A field that is neither the secret nor the pool is written.             *)
LEMMA ConfigTouched ==
  ASSUME ConfigsOK, NEW c \in Config, Stored(c), NEW value,
         \/ configs' = [configs EXCEPT ![c].selections = value]
         \/ configs' = [configs EXCEPT ![c].old = value]
  PROVE  ConfigsOK' /\ ConfigsStay
<1>1. DOMAIN configs[c] = ConfigFields /\ StandsForPool(configs[c])
  BY DEF ConfigsOK
<1>2. CASE configs' = [configs EXCEPT ![c].selections = value]
  <2> DEFINE row == [configs[c] EXCEPT !.selections = value]
  <2>1. DOMAIN row = ConfigFields /\ row.pool = configs[c].pool /\ row.secret = configs[c].secret
    BY <1>1 DEF ConfigFields
  <2>2. configs' = [configs EXCEPT ![c] = row]
    BY <1>2
  <2> HIDE DEF row
  <2> QED
    BY <1>1, <2>1, <2>2, OneConfig DEF StandsForPool
<1>3. CASE configs' = [configs EXCEPT ![c].old = value]
  <2> DEFINE row == [configs[c] EXCEPT !.old = value]
  <2>1. DOMAIN row = ConfigFields /\ row.pool = configs[c].pool /\ row.secret = configs[c].secret
    BY <1>1 DEF ConfigFields
  <2>2. configs' = [configs EXCEPT ![c] = row]
    BY <1>3
  <2> HIDE DEF row
  <2> QED
    BY <1>1, <2>1, <2>2, OneConfig DEF StandsForPool
<1> QED
  BY <1>2, <1>3

(* A new configuration.                                                    *)
LEMMA NewConfigFields ==
  ASSUME NEW p, NEW version, NEW secret, NEW pool
  PROVE  /\ DOMAIN NewConfig(p, version, secret, pool) = ConfigFields
         /\ NewConfig(p, version, secret, pool).secret = secret
         /\ NewConfig(p, version, secret, pool).pool = pool
BY DEF NewConfig, ConfigFields
-----------------------------------------------------------------------------
(* A provider is created with a configuration.                             *)
LEMMA CreateProviderOK ==
  ASSUME RoutingInv, NEW p \in Provider, NEW c \in Config, NEW kind \in Kind,
         NEW credential \in Credentials, NEW input, CreateProvider(p, c, kind, credential, input)
  PROVE  ProvidersOK' /\ ConfigsOK' /\ ConfigsStay /\ ProvidersStay
<1> DEFINE pool   == IF credential = "pool" THEN ReplacePool(input, <<>>, 1) ELSE <<>>
           secret == CASE credential = "pool"   -> FirstEnabledSecret(pool)
                       [] credential = "secret" -> 1
                       [] OTHER                 -> 0
           row    == NewConfig(p, 1, secret, pool)
           new    == [kind |-> kind, status |-> "active", current |-> c, deleted |-> "no"]
<1>1. configs' = [configs EXCEPT ![c] = row] /\ providers' = [providers EXCEPT ![p] = new]
  BY DEF CreateProvider, InsertConfig
<1>2. DOMAIN row = ConfigFields /\ row.secret = secret /\ row.pool = pool
  BY NewConfigFields
<1>3. pool # <<>> => secret = FirstEnabledSecret(pool)
  OBVIOUS
<1>4. new \in ProviderRow /\ new.current = c
  BY DEF ProviderRow, Status
<1> HIDE DEF pool, secret, row, new
<1>5. ConfigsOK' /\ ConfigsStay /\ Stored(c)'
  BY <1>1, <1>2, <1>3, OneConfig DEF RoutingInv, StandsForPool
<1> QED
  BY <1>1, <1>4, <1>5, OneProvider DEF RoutingInv, Stored

(* A provider gets its next configuration.                                 *)
LEMMA PatchConfigOK ==
  ASSUME RoutingInv, NEW p \in Provider, NEW c \in Config, NEW status \in Status,
         NEW change \in Change, NEW input, PatchConfig(p, c, status, change, input)
  PROVE  ProvidersOK' /\ ConfigsOK' /\ ConfigsStay /\ ProvidersStay
<1> DEFINE prior   == configs[providers[p].current]
           version == prior.version + 1
           pool    == CASE change = "pool" -> ReplacePool(input, prior.pool, version)
                        [] change = "keep" -> prior.pool
                        [] OTHER           -> <<>>
           secret  == PatchedSecret(change, prior, pool, version)
           row     == NewConfig(p, version, secret, pool)
           new     == [providers[p] EXCEPT !.current = c, !.status = status]
<1>1. configs' = [configs EXCEPT ![c] = row] /\ providers[p] # Missing
  BY DEF PatchConfig, InsertConfig, LiveProvider
<1>2. providers' = [providers EXCEPT ![p] = new]
  BY DEF PatchConfig
<1>3. DOMAIN row = ConfigFields /\ row.secret = secret /\ row.pool = pool
  BY NewConfigFields
<1>4. pool # <<>> => secret = FirstEnabledSecret(pool)
  BY DEF PatchedSecret, Change
<1>5. new \in ProviderRow /\ new.current = c
  BY <1>1 DEF RoutingInv, ProvidersOK, ProviderRow
<1> HIDE DEF pool, secret, row, new
<1>6. ConfigsOK' /\ ConfigsStay /\ Stored(c)'
  BY <1>1, <1>3, <1>4, OneConfig DEF RoutingInv, StandsForPool
<1> QED
  BY <1>2, <1>5, <1>6, OneProvider DEF RoutingInv, Stored

(* A provider's status or deletion mark changes.                           *)
LEMMA ProviderMarkOK ==
  ASSUME RoutingInv, NEW p \in Provider, configs' = configs,
         \/ \E status \in Status : PatchStatus(p, status)
         \/ RemoveProvider(p) \/ DeletionAges(p)
  PROVE  ProvidersOK' /\ ConfigsOK' /\ ConfigsStay /\ ProvidersStay
<1>1. ConfigsOK' /\ ConfigsStay
  BY DEF RoutingInv, ConfigsOK, ConfigsStay, Stored
<1>2. providers[p] # Missing /\ providers[p] \in ProviderRow
  BY DEF RoutingInv, ProvidersOK, PatchStatus, RemoveProvider, DeletionAges, LiveProvider
<1>3. PICK row \in ProviderRow :
        providers' = [providers EXCEPT ![p] = row] /\ row.current = providers[p].current
  <2>1. CASE \E status \in Status : PatchStatus(p, status)
    <3>1. PICK status \in Status : PatchStatus(p, status)
      BY <2>1
    <3> DEFINE row == [providers[p] EXCEPT !.status = status]
    <3>2. row \in ProviderRow /\ row.current = providers[p].current
      BY <1>2 DEF ProviderRow
    <3>3. providers' = [providers EXCEPT ![p] = row]
      BY <3>1 DEF PatchStatus
    <3> QED
      BY <3>2, <3>3
  <2>2. CASE RemoveProvider(p)
    <3> DEFINE row == [providers[p] EXCEPT !.status = "disabled", !.deleted = "yes"]
    <3>1. row \in ProviderRow /\ row.current = providers[p].current
      BY <1>2 DEF ProviderRow, Status
    <3>2. providers' = [providers EXCEPT ![p] = row]
      BY <2>2 DEF RemoveProvider
    <3> QED
      BY <3>1, <3>2
  <2>3. CASE DeletionAges(p)
    <3> DEFINE row == [providers[p] EXCEPT !.deleted = "longAgo"]
    <3>1. row \in ProviderRow /\ row.current = providers[p].current
      BY <1>2 DEF ProviderRow
    <3>2. providers' = [providers EXCEPT ![p] = row]
      BY <2>3 DEF DeletionAges
    <3> QED
      BY <3>1, <3>2
  <2> QED
    BY <2>1, <2>2, <2>3
<1>4. row.current # None => configs'[row.current] # Missing
  BY <1>2, <1>3 DEF RoutingInv, ProvidersOK, Stored
<1> QED
  BY <1>1, <1>3, <1>4, OneProvider DEF RoutingInv

(* The clean-up deletes no configuration a plan or a provider names.       *)
LEMMA CollectConfigsOK ==
  ASSUME RoutingInv, CollectConfigs
  PROVE  ProvidersOK' /\ ConfigsOK' /\ PlansOK' /\ ProvidersStay
<1> DEFINE released == [p \in Provider |->
                          IF providers[p] # Missing /\ providers[p].deleted = "longAgo"
                          THEN [providers[p] EXCEPT !.current = None]
                          ELSE providers[p]]
           garbage  == {c \in Config :
                          /\ Stored(c)
                          /\ configs[c].old
                          /\ ~Referred(c)
                          /\ \A p \in Provider : released[p] # Missing => released[p].current # c}
<1>1. /\ providers' = released
      /\ configs' = [c \in Config |-> IF c \in garbage THEN Missing ELSE configs[c]]
      /\ plans' = plans
  BY DEF CollectConfigs
<1>2. ProvidersOK /\ ConfigsOK /\ PlansOK
  BY DEF RoutingInv
<1>3. \A p \in Provider : /\ released[p] \in ProviderRow \cup {Missing}
                          /\ providers[p] # Missing => released[p] # Missing
                          /\ released[p] # Missing /\ released[p].current # None =>
                               /\ providers[p] # Missing
                               /\ released[p].current = providers[p].current
                               /\ providers[p].current \in Config
  <2> SUFFICES ASSUME NEW p \in Provider
               PROVE  /\ released[p] \in ProviderRow \cup {Missing}
                      /\ providers[p] # Missing => released[p] # Missing
                      /\ released[p] # Missing /\ released[p].current # None =>
                           /\ providers[p] # Missing
                           /\ released[p].current = providers[p].current
                           /\ providers[p].current \in Config
    OBVIOUS
  <2>1. providers[p] \in ProviderRow \cup {Missing}
    BY <1>2 DEF ProvidersOK
  <2>2. CASE providers[p] # Missing /\ providers[p].deleted = "longAgo"
    <3>1. released[p] = [providers[p] EXCEPT !.current = None]
      BY <2>2
    <3>2. [providers[p] EXCEPT !.current = None] \in ProviderRow
      BY <2>1, <2>2 DEF ProviderRow
    <3>3. [providers[p] EXCEPT !.current = None].current = None
      BY <2>1, <2>2 DEF ProviderRow
    <3> QED
      BY <3>1, <3>2, <3>3, RowsAreThere
  <2>3. CASE ~(providers[p] # Missing /\ providers[p].deleted = "longAgo")
    <3>1. released[p] = providers[p]
      BY <2>3
    <3> QED
      BY <2>1, <3>1 DEF ProviderRow
  <2> QED
    BY <2>2, <2>3
<1>4. released \in [Provider -> ProviderRow \cup {Missing}]
  BY <1>3
<1>5. \A c \in Config : Stored(c) /\ c \notin garbage => Stored(c)'
  BY <1>1 DEF Stored
<1>6. \A p \in Provider : released[p] # Missing => released[p].current \notin garbage
  OBVIOUS
<1>7. \A j \in Job : \A c \in plans[j].configs : c \in Config /\ c \notin garbage
  <2>1. \A j \in Job : \A c \in plans[j].configs : c \in Config /\ Referred(c)
    BY <1>2 DEF PlansOK, PlanRow, Referred
  <2> QED
    BY <2>1
<1>8. \A c \in Config : Stored(c)' => configs'[c] = configs[c] /\ Stored(c)
  BY <1>1 DEF Stored
<1>9. DOMAIN configs' = Config
  BY <1>1
<1> HIDE DEF released, garbage
<1>10. ProvidersOK'
  <2>1. ASSUME NEW p \in Provider, released[p] # Missing, released[p].current # None
        PROVE  configs'[released[p].current] # Missing
    BY <1>2, <1>3, <1>5, <1>6, <2>1 DEF ProvidersOK, Stored
  <2>2. providers' = released
    BY <1>1
  <2> QED
    BY <1>4, <2>1, <2>2 DEF ProvidersOK, Stored
<1>11. ConfigsOK'
  BY <1>2, <1>8, <1>9 DEF ConfigsOK
<1>12. PlansOK'
  BY <1>1, <1>2, <1>5, <1>7 DEF PlansOK, PlannedConfigsExist
<1>13. ProvidersStay
  BY <1>1, <1>3 DEF ProvidersStay
<1> QED
  BY <1>10, <1>11, <1>12, <1>13

(* A job is admitted with configurations of the table, ends or is purged.  *)
LEMMA OnePlan ==
  ASSUME PlansOK, UNCHANGED configs, NEW j \in Job, NEW row \in PlanRow,
         plans' = [plans EXCEPT ![j] = row],
         row.configs # {} => row.state \in {"active", "ended"},
         \A c \in row.configs : Stored(c)
  PROVE  PlansOK'
<1>1. /\ plans' \in [Job -> PlanRow]
      /\ plans'[j] = row
      /\ \A k \in Job \ {j} : plans'[k] = plans[k]
  BY DEF PlansOK
<1> QED
  BY <1>1 DEF PlansOK, PlannedConfigsExist, Stored

(* A step of the providers, the clean-up, the workers or the jobs.         *)
LEMMA ConfigsStep ==
  ASSUME RoutingInv, ConfigsNext, UNCHANGED <<lanes, group>>
  PROVE  RoutingInv'
<1>1. ProvidersOK /\ ConfigsOK /\ PlansOK /\ LanesOK /\ GroupOK
  BY DEF RoutingInv
<1>2. ASSUME ProvidersOK', ConfigsOK', ConfigsStay, ProvidersStay, plans' = plans
      PROVE  RoutingInv'
  BY <1>1, <1>2, LanesKept, PlansKept DEF RoutingInv
<1>3. ASSUME UNCHANGED <<providers, configs>>, PlansOK'
      PROVE  RoutingInv'
  <2>1. ProvidersOK' /\ ConfigsOK' /\ ProvidersStay
    BY <1>1, <1>3 DEF ProvidersOK, ConfigsOK, ProvidersStay, Stored
  <2> QED
    BY <1>1, <1>3, <2>1, LanesKept DEF RoutingInv
<1>4. ASSUME NEW p \in Provider, NEW c \in Config, NEW kind \in Kind, NEW credential \in Credentials,
             NEW input, CreateProvider(p, c, kind, credential, input)
      PROVE  RoutingInv'
  BY <1>2, <1>4, CreateProviderOK DEF CreateProvider
<1>5. ASSUME NEW p \in Provider, NEW c \in Config, NEW status \in Status, NEW change \in Change,
             NEW input, PatchConfig(p, c, status, change, input)
      PROVE  RoutingInv'
  BY <1>2, <1>5, PatchConfigOK DEF PatchConfig
<1>6. ASSUME NEW p \in Provider, \/ \E status \in Status : PatchStatus(p, status)
                                 \/ RemoveProvider(p) \/ DeletionAges(p)
      PROVE  RoutingInv'
  <2>1. configs' = configs /\ plans' = plans
    BY <1>6 DEF PatchStatus, RemoveProvider, DeletionAges
  <2> QED
    BY <1>2, <1>6, <2>1, ProviderMarkOK
<1>7. ASSUME NEW c \in Config, ConfigAges(c)
      PROVE  RoutingInv'
  BY <1>1, <1>2, <1>7, ConfigTouched, ProvidersKept DEF ConfigAges
<1>8. CASE CollectConfigs
  BY <1>1, <1>8, CollectConfigsOK, LanesKept DEF RoutingInv
<1>9. ASSUME NEW j \in Job, JobEnds(j)
      PROVE  RoutingInv'
  <2> DEFINE row == [plans[j] EXCEPT !.state = "ended"]
  <2>1. row \in PlanRow /\ row.state = "ended" /\ row.configs = plans[j].configs
    BY <1>1 DEF PlansOK, PlanRow
  <2>2. plans' = [plans EXCEPT ![j] = row] /\ UNCHANGED <<providers, configs>>
    BY <1>9 DEF JobEnds
  <2>3. \A c \in plans[j].configs : Stored(c)
    BY <1>1 DEF PlansOK, PlannedConfigsExist
  <2> HIDE DEF row
  <2> QED
    BY <1>1, <1>3, <2>1, <2>2, <2>3, OnePlan
<1>10. ASSUME NEW j \in Job, PurgeJob(j)
       PROVE  RoutingInv'
  <2>1. NoPlan \in PlanRow /\ NoPlan.configs = {}
    BY DEF NoPlan, PlanRow
  <2> QED
    BY <1>1, <1>3, <1>10, <2>1, OnePlan DEF PurgeJob
<1>11. ASSUME NEW j \in Job, NEW c \in Config, SelectSecret(j, c)
       PROVE  RoutingInv'
  BY <1>1, <1>2, <1>11, ConfigTouched, ProvidersKept DEF SelectSecret
<1> QED
  BY <1>4, <1>5, <1>6, <1>7, <1>8, <1>9, <1>10, <1>11 DEF ConfigsNext
-----------------------------------------------------------------------------
(* A lane is created or switched; its operation never changes.             *)
LEMMA LaneStep ==
  ASSUME RoutingInv, NEW l \in Lane, NEW row \in LaneRow, lanes' = [lanes EXCEPT ![l] = row],
         providers[row.provider] # Missing,
         lanes[l] # Missing => row.operation = lanes[l].operation,
         UNCHANGED <<configVars, group>>
  PROVE  RoutingInv'
<1>1. ProvidersOK' /\ ConfigsOK' /\ PlansOK'
  BY DEF RoutingInv, configVars, ProvidersOK, ConfigsOK, PlansOK, PlannedConfigsExist, Stored
<1>2. /\ lanes' \in [Lane -> LaneRow \cup {Missing}]
      /\ lanes'[l] = row
      /\ \A k \in Lane \ {l} : lanes'[k] = lanes[k]
  BY DEF RoutingInv, LanesOK
<1>3. row # Missing
  BY RowsAreThere
<1>4. LanesOK'
  BY <1>2, <1>3 DEF RoutingInv, LanesOK, configVars
<1>5. GroupOK'
  <2>1. group.preset \subseteq Lane
    BY DEF RoutingInv, GroupOK, GroupRow
  <2> QED
    BY <1>2, <1>3, <2>1 DEF RoutingInv, GroupOK
<1> QED
  BY <1>1, <1>4, <1>5 DEF RoutingInv

(* A plan names the current configurations of providers that are there.    *)
LEMMA AdmitPlanOK ==
  ASSUME RoutingInv, NEW j \in Job, NEW kind, NEW source, NEW named, NEW queries,
         AdmitPlan(j, kind, source, named, queries)
  PROVE  RoutingInv'
<1> DEFINE selected == Selected(kind, source, named)
           row      == [state |-> "active", configs |-> PlanConfigs(selected)]
<1>1. /\ \A l \in selected : l \in GroupLanes
      /\ plans' = [plans EXCEPT ![j] = row]
      /\ UNCHANGED <<providers, configs, lanes, group>>
  BY DEF AdmitPlan, PlanAccepted, AdmitWith
<1> HIDE DEF selected
<1>2. \A l \in selected : /\ lanes[l].provider \in Provider
                          /\ providers[lanes[l].provider].current \in Config
                          /\ Stored(providers[lanes[l].provider].current)
  <2> SUFFICES ASSUME NEW l \in selected
               PROVE  /\ lanes[l].provider \in Provider
                      /\ providers[lanes[l].provider].current \in Config
                      /\ Stored(providers[lanes[l].provider].current)
    OBVIOUS
  <2>1. /\ l \in Lane
        /\ lanes[l] # Missing
        /\ providers[lanes[l].provider].current # None
    BY <1>1 DEF GroupLanes, RoutingInv, GroupOK, GroupRow
  <2>2. lanes[l].provider \in Provider /\ providers[lanes[l].provider] # Missing
    BY <2>1 DEF RoutingInv, LanesOK, LaneRow
  <2> QED
    BY <2>1, <2>2 DEF RoutingInv, ProvidersOK, ProviderRow
<1>3. PlanConfigs(selected) \subseteq Config /\ \A c \in PlanConfigs(selected) : Stored(c)
  BY <1>2 DEF PlanConfigs
<1>4. row \in PlanRow /\ row.state = "active" /\ row.configs = PlanConfigs(selected)
  BY <1>3 DEF PlanRow
<1> HIDE DEF row
<1>5. PlansOK'
  BY <1>1, <1>3, <1>4, OnePlan DEF RoutingInv
<1>6. ProvidersOK' /\ ConfigsOK' /\ ProvidersStay
  BY <1>1 DEF RoutingInv, ProvidersOK, ConfigsOK, ProvidersStay, Stored
<1> QED
  BY <1>1, <1>5, <1>6, LanesKept DEF RoutingInv

(* Nothing is there at first.                                              *)
LEMMA RoutingStart == RoutingInit => RoutingInv
<1> SUFFICES ASSUME RoutingInit PROVE RoutingInv
  OBVIOUS
<1>1. ProvidersOK /\ ConfigsOK
  BY DEF RoutingInit, ConfigsInit, ProvidersOK, ConfigsOK, Stored
<1>2. PlansOK
  BY DEF RoutingInit, ConfigsInit, PlansOK, PlanRow, NoPlan, PlannedConfigsExist
<1>3. LanesOK
  BY DEF RoutingInit, LanesOK
<1>4. GroupOK
  <2>1. Cardinality({}) = 0
    BY FS_EmptySet
  <2> QED
    BY <2>1, RoutingAssumption DEF RoutingInit, GroupOK, GroupRow, RoutingAssumption
<1> QED
  BY <1>1, <1>2, <1>3, <1>4 DEF RoutingInv

(* No step deletes what is referred to.                                    *)
LEMMA RoutingStep == RoutingInv /\ [RoutingNext]_routingVars => RoutingInv'
<1> SUFFICES ASSUME RoutingInv, [RoutingNext]_routingVars PROVE RoutingInv'
  OBVIOUS
<1>1. CASE UNCHANGED routingVars
  BY <1>1 DEF routingVars, RoutingInv, ProvidersOK, ConfigsOK, PlansOK, LanesOK, GroupOK, Stored,
              PlannedConfigsExist
<1>2. CASE ConfigsNext /\ UNCHANGED <<lanes, group>>
  BY <1>2, ConfigsStep
<1>3. ASSUME NEW l \in Lane, NEW p \in Provider, NEW op \in Operation, CreateLane(l, p, op)
      PROVE  RoutingInv'
  <2> DEFINE row == [provider |-> p, operation |-> op, status |-> "active"]
  <2>1. row \in LaneRow /\ row.provider = p
    BY DEF LaneRow, Status
  <2>2. /\ lanes' = [lanes EXCEPT ![l] = row] /\ lanes[l] = Missing
        /\ providers[p] # Missing /\ UNCHANGED <<configVars, group>>
    BY <1>3 DEF CreateLane, LiveProvider
  <2> HIDE DEF row
  <2> QED
    BY <2>1, <2>2, LaneStep
<1>4. ASSUME NEW l \in Lane, NEW status \in Status, PatchLane(l, status)
      PROVE  RoutingInv'
  <2> DEFINE row == [lanes[l] EXCEPT !.status = status]
  <2>1. lanes[l] # Missing /\ lanes[l] \in LaneRow /\ providers[lanes[l].provider] # Missing
    BY <1>4 DEF PatchLane, RoutingInv, LanesOK
  <2>2. row \in LaneRow /\ row.provider = lanes[l].provider /\ row.operation = lanes[l].operation
    BY <2>1 DEF LaneRow
  <2>3. lanes' = [lanes EXCEPT ![l] = row] /\ UNCHANGED <<configVars, group>>
    BY <1>4 DEF PatchLane
  <2> HIDE DEF row
  <2> QED
    BY <2>1, <2>2, <2>3, LaneStep
<1>5. ASSUME NEW row \in GroupRow, ReplaceCapabilities(row)
      PROVE  RoutingInv'
  <2>1. ProvidersOK' /\ ConfigsOK' /\ PlansOK' /\ LanesOK'
    BY <1>5 DEF ReplaceCapabilities, configVars, RoutingInv, ProvidersOK, ConfigsOK, PlansOK,
                LanesOK, PlannedConfigsExist, Stored
  <2>2. GroupOK'
    BY <1>5 DEF ReplaceCapabilities, AcceptableChoice, GroupOK
  <2> QED
    BY <2>1, <2>2 DEF RoutingInv
<1>6. CASE \E j \in Job, kind \in {"search", "fetch"},
             source \in {"lane", "lanes", "preset", "default"}, named \in SUBSET Lane,
             queries \in 1..MaxItems : AdmitPlan(j, kind, source, named, queries)
  BY <1>6, AdmitPlanOK
<1> QED
  BY <1>1, <1>2, <1>3, <1>4, <1>5, <1>6 DEF RoutingNext

(* The invariant of lanes, plans and configurations.                       *)
THEOREM RoutingInvariant == RoutingSpec => []RoutingInv
BY RoutingStart, RoutingStep, PTL DEF RoutingSpec

(* As long as a job is retained, the configurations its plan was frozen    *)
(* with are in the table (store.ts:225).                                   *)
THEOREM PlannedConfigsAreKept == RoutingSpec => []PlannedConfigsExist
<1>1. RoutingInv => PlannedConfigsExist
  BY DEF RoutingInv, PlansOK
<1> QED
  BY <1>1, RoutingInvariant, PTL

(* The secret of a configuration with a pool is the one its pool gives     *)
(* first, after any edits (providers.ts:55-61).                            *)
THEOREM SecretsStandForPools == RoutingSpec => []SecretStandsForPool
<1>1. RoutingInv => SecretStandsForPool
  BY DEF RoutingInv, ConfigsOK, StandsForPool, SecretStandsForPool
<1> QED
  BY <1>1, RoutingInvariant, PTL

(* The capabilities call nothing ready that a plan would refuse            *)
(* (capabilities.ts:14-28, plans.ts:34-60).                                *)
THEOREM ReadyIsAccepted == RoutingSpec => []WhatIsReadyIsAccepted
<1>1. RoutingInv => WhatIsReadyIsAccepted
  <2> SUFFICES ASSUME RoutingInv PROVE WhatIsReadyIsAccepted
    OBVIOUS
  <2>1. /\ MaxItems \in Nat \ {0} /\ MaxLanes \in Nat /\ MaxLanes <= MaxItems
        /\ IsFiniteSet(Lane)
    BY RoutingAssumption DEF RoutingAssumption
  <2>2. ASSUME NEW l PROVE Cardinality({l}) = 1 /\ 1 * Cardinality({l}) <= MaxItems
    <3>1. Cardinality({l}) = 1
      BY FS_Singleton
    <3>2. 1 * 1 <= MaxItems
      BY <2>1
    <3> QED
      BY <3>1, <3>2
  <2>3. ASSUME NEW l \in SearchLanes, Available(l), NEW source \in {"lane", "default"}
        PROVE  PlanAccepted("search", source, {l}, 1)
    <3>1. l \in GroupLanes /\ KindOf(lanes[l].operation) = "search"
      BY DEF SearchLanes
    <3>2. 1 * Cardinality({l}) <= MaxItems /\ Cardinality({l}) = 1
      BY <2>2
    <3>3. \A k \in {l} : /\ k \in GroupLanes /\ KindOf(lanes[k].operation) = "search"
                         /\ Available(k)
      BY <2>3, <3>1
    <3> QED
      BY <3>2, <3>3 DEF PlanAccepted
  <2>4. ASSUME NEW l \in FetchLanes, Available(l), NEW source \in {"lane", "default"}
        PROVE  PlanAccepted("fetch", source, {l}, 1)
    <3>1. l \in GroupLanes /\ KindOf(lanes[l].operation) = "fetch"
      BY DEF FetchLanes, SearchLanes, KindOf
    <3>2. 1 * Cardinality({l}) <= MaxItems /\ Cardinality({l}) = 1
      BY <2>2
    <3>3. \A k \in {l} : /\ k \in GroupLanes /\ KindOf(lanes[k].operation) = "fetch"
                         /\ Available(k)
      BY <2>4, <3>1
    <3> QED
      BY <3>2, <3>3 DEF PlanAccepted
  <2>5. ASSUME Capabilities.preset # {}
        PROVE  PlanAccepted("search", "preset", Capabilities.preset, 1)
    <3>1. /\ Capabilities.preset = group.preset
          /\ group.preset \subseteq SearchLanes
          /\ \A l \in group.preset : Available(l)
      BY <2>5 DEF Capabilities
    <3>2. \A l \in group.preset : l \in GroupLanes /\ KindOf(lanes[l].operation) = "search"
      BY <3>1 DEF SearchLanes
    <3>3. \A l \in group.preset : ChannelOf(lanes[l].operation) # "typed"
      BY DEF RoutingInv, GroupOK
    <3>4. 1 * Cardinality(group.preset) <= MaxItems
      <4>1. group.preset \subseteq Lane
        BY DEF RoutingInv, GroupOK, GroupRow
      <4>2. Cardinality(group.preset) \in Nat
        BY <2>1, <4>1, FS_Subset, FS_CardinalityType
      <4> QED
        BY <2>1, <4>2 DEF RoutingInv, GroupOK
    <3> QED
      BY <2>5, <3>1, <3>2, <3>3, <3>4 DEF PlanAccepted
  <2>6. /\ \A l \in Capabilities.lanes : l \in SearchLanes /\ Available(l)
        /\ \A l \in Capabilities.fetch : l \in FetchLanes /\ Available(l)
    BY DEF Capabilities
  <2> QED
    BY <2>3, <2>4, <2>5, <2>6 DEF WhatIsReadyIsAccepted
<1> QED
  BY <1>1, RoutingInvariant, PTL
-----------------------------------------------------------------------------
(* The pools.  The counter of a configuration goes round its enabled keys: *)
(* when n keys were drawn of one that has L, each of them was drawn the    *)
(* same number of times, the first n % L once more.                        *)
On(pool)     == {i \in DOMAIN pool : pool[i].enabled}
Rank(pool, i) == Cardinality({k \in On(pool) : k <= i})

HasLength(pool) == \E n \in Nat : DOMAIN pool = 1..n

Round(pool, drawn, n) ==
  \E u \in Nat : \A m \in 1..Cardinality(On(pool)) :
    drawn[Enabled(pool)[m]] = u + (IF m <= n % Cardinality(On(pool)) THEN 1 ELSE 0)

DrawsOK(row, drawn) ==
  /\ HasLength(row.pool)
  /\ row.selections \in Nat
  /\ drawn \in [DOMAIN row.pool -> Nat]
  /\ \A i \in DOMAIN row.pool : ~row.pool[i].enabled => drawn[i] = 0
  /\ On(row.pool) # {} => Round(row.pool, drawn, row.selections)

(* An edit starts from the current configuration, which is there as long   *)
(* as the provider was not deleted long ago.                               *)
CurrentOK ==
  \A p \in Provider : providers[p] # Missing /\ providers[p].deleted # "longAgo" =>
    providers[p].current \in Config /\ Stored(providers[p].current)

PoolsOK ==
  /\ DOMAIN uses = Config
  /\ \A c \in Config : Stored(c) => DrawsOK(configs[c], uses[c])

DrawsInv == CurrentOK /\ PoolsOK

(* The enabled keys are finitely many.                                     *)
LEMMA OnIsFinite ==
  ASSUME NEW pool, HasLength(pool)
  PROVE  /\ IsFiniteSet(On(pool)) /\ Cardinality(On(pool)) \in Nat
         /\ On(pool) \subseteq Nat
         /\ On(pool) # {} <=> Cardinality(On(pool)) # 0
<1>1. PICK n \in Nat : DOMAIN pool = 1..n
  BY DEF HasLength
<1>2. On(pool) \in SUBSET (1..n)
  BY <1>1 DEF On
<1>3. IsFiniteSet(On(pool))
  <2>1. IsFiniteSet(1..n)
    BY FS_Interval
  <2> QED
    BY <1>2, <2>1, FS_Subset
<1> QED
  BY <1>2, <1>3, FS_CardinalityType, FS_EmptySet

(* Ranks tell the enabled keys apart and run from 1 to their number.       *)
LEMMA RanksCount ==
  ASSUME NEW pool, HasLength(pool)
  PROVE  /\ \A i \in On(pool) : Rank(pool, i) \in 1..Cardinality(On(pool))
         /\ \A i, k \in On(pool) : Rank(pool, i) = Rank(pool, k) => i = k
         /\ \A m \in 1..Cardinality(On(pool)) : \E i \in On(pool) : Rank(pool, i) = m
<1> DEFINE on       == On(pool)
           below(i) == {k \in on : k <= i}
           rank     == [i \in on |-> Cardinality(below(i))]
<1>1. IsFiniteSet(on) /\ Cardinality(on) \in Nat /\ on \subseteq Nat
  BY OnIsFinite
<1> HIDE DEF on
<1>2. ASSUME NEW i \in on
      PROVE  /\ IsFiniteSet(below(i)) /\ Cardinality(below(i)) \in Nat
             /\ Cardinality(below(i)) <= Cardinality(on)
             /\ Cardinality(below(i)) # 0
  <2>1. below(i) \in SUBSET on /\ i \in below(i)
    BY <1>1
  <2>2. IsFiniteSet(below(i)) /\ Cardinality(below(i)) <= Cardinality(on)
    BY <1>1, <2>1, FS_Subset
  <2> QED
    BY <2>1, <2>2, FS_CardinalityType, FS_EmptySet
<1>3. ASSUME NEW i \in on, NEW k \in on, i < k
      PROVE  Cardinality(below(i)) # Cardinality(below(k))
  <2>1. below(i) \in SUBSET below(k) /\ k \in below(k) /\ k \notin below(i)
    <3>1. on \subseteq Nat /\ i \in Nat /\ k \in Nat
      BY <1>1
    <3>2. \A x \in on : x <= i => x <= k
      BY <1>3, <3>1
    <3>3. below(i) \subseteq below(k)
      BY <3>2
    <3>4. k <= k /\ ~(k <= i)
      BY <1>3, <3>1
    <3> QED
      BY <3>3, <3>4
  <2>2. below(i) # below(k)
    BY <2>1
  <2> QED
    BY <1>2, <2>1, <2>2, FS_Subset
<1>4. \A i \in on : Cardinality(below(i)) \in 1..Cardinality(on)
  BY <1>1, <1>2
<1>5. \A i, k \in on : Cardinality(below(i)) = Cardinality(below(k)) => i = k
  <2> SUFFICES ASSUME NEW i \in on, NEW k \in on, i # k
               PROVE  Cardinality(below(i)) # Cardinality(below(k))
    OBVIOUS
  <2>1. i < k \/ k < i
    BY <1>1
  <2> QED
    BY <1>3, <2>1
<1> HIDE DEF below
<1>6. rank \in Injection(on, 1..Cardinality(on))
  BY <1>4, <1>5 DEF Injection, IsInjective
<1>7. IsFiniteSet(1..Cardinality(on)) /\ Cardinality(1..Cardinality(on)) = Cardinality(on)
  BY <1>1, FS_Interval
<1> HIDE DEF rank
<1>8. rank \in Surjection(on, 1..Cardinality(on))
  BY <1>6, <1>7, FS_Injection
<1>9. \A m \in 1..Cardinality(on) : \E i \in on : rank[i] = m
  BY <1>8 DEF Surjection
<1>10. \A i \in on : Rank(pool, i) = Cardinality(below(i))
  BY DEF Rank, below, on
<1>11. \A i \in on : rank[i] = Cardinality(below(i))
  BY DEF rank
<1> QED
  BY <1>4, <1>5, <1>9, <1>10, <1>11 DEF on

(* Enabled lists each enabled key once.                                    *)
LEMMA EnabledLists ==
  ASSUME NEW pool, HasLength(pool)
  PROVE  /\ Len(Enabled(pool)) = Cardinality(On(pool))
         /\ Enabled(pool) # <<>> <=> On(pool) # {}
         /\ \A m \in 1..Cardinality(On(pool)) :
              Enabled(pool)[m] \in On(pool) /\ Rank(pool, Enabled(pool)[m]) = m
         /\ \A i \in On(pool) : Enabled(pool)[Rank(pool, i)] = i
<1> DEFINE size == Cardinality(On(pool))
<1>1. IsFiniteSet(On(pool)) /\ size \in Nat /\ (On(pool) # {} <=> size # 0)
  BY OnIsFinite
<1>2. Enabled(pool) = [m \in 1..size |-> CHOOSE i \in On(pool) : Rank(pool, i) = m]
  BY DEF Enabled, On, Rank
<1> HIDE DEF size
<1>3. \A m \in 1..size : Enabled(pool)[m] \in On(pool) /\ Rank(pool, Enabled(pool)[m]) = m
  <2> SUFFICES ASSUME NEW m \in 1..size
               PROVE  Enabled(pool)[m] \in On(pool) /\ Rank(pool, Enabled(pool)[m]) = m
    OBVIOUS
  <2>1. \E i \in On(pool) : Rank(pool, i) = m
    BY RanksCount DEF size
  <2>2. Enabled(pool)[m] = CHOOSE i \in On(pool) : Rank(pool, i) = m
    BY <1>2
  <2> QED
    BY <2>1, <2>2
<1>4. \A i \in On(pool) : Enabled(pool)[Rank(pool, i)] = i
  <2> SUFFICES ASSUME NEW i \in On(pool) PROVE Enabled(pool)[Rank(pool, i)] = i
    OBVIOUS
  <2>1. Rank(pool, i) \in 1..size
    BY RanksCount DEF size
  <2>2. /\ Enabled(pool)[Rank(pool, i)] \in On(pool)
        /\ Rank(pool, Enabled(pool)[Rank(pool, i)]) = Rank(pool, i)
    BY <1>3, <2>1
  <2> QED
    BY <2>2, RanksCount
<1>5. Enabled(pool) \in Seq(On(pool)) /\ Len(Enabled(pool)) = size
  <2>1. Enabled(pool) \in [1..size -> On(pool)]
    BY <1>2, <1>3
  <2> QED
    BY <1>1, <2>1
<1>6. Enabled(pool) # <<>> <=> On(pool) # {}
  <2>1. Enabled(pool) = <<>> <=> Len(Enabled(pool)) = 0
    BY <1>5
  <2> QED
    BY <1>1, <1>5, <2>1
<1> QED
  BY <1>3, <1>4, <1>5, <1>6 DEF size

(* Counting on goes to the next remainder, or back to none.                *)
LEMMA NextTurn ==
  ASSUME NEW n \in Nat, NEW size \in Nat \ {0}
  PROVE  /\ n % size \in 0..size - 1
         /\ (n + 1) % size = IF (n % size) + 1 = size THEN 0 ELSE (n % size) + 1
<1> DEFINE q == n \div size
           r == n % size
           s == (n + 1) \div size
           t == (n + 1) % size
<1>1. n = size * q + r /\ r \in 0..size - 1 /\ q \in Int
  OBVIOUS
<1>2. n + 1 = size * s + t /\ t \in 0..size - 1 /\ s \in Int
  OBVIOUS
<1> HIDE DEF q, r, s, t
<1>3. ASSUME NEW d \in Int PROVE (d >= 1 => size * d >= size) /\ (d <= -1 => size * d <= -size)
  OBVIOUS
<1>4. s - q \in Int /\ size * s - size * q = size * (s - q)
  BY <1>1, <1>2
<1>5. size * q \in Int /\ size * s \in Int
  BY <1>1, <1>2
<1>6. CASE r + 1 = size
  <2>1. size * (s - (q + 1)) = size * (s - q) - size /\ s - (q + 1) \in Int
    <3>1. \A d \in Int : size * (d - 1) = size * d - size
      OBVIOUS
    <3>2. s - q \in Int /\ s - (q + 1) = (s - q) - 1
      BY <1>1, <1>2
    <3> QED
      BY <3>1, <3>2
  <2>2. size * (s - (q + 1)) = -t
    BY <1>1, <1>2, <1>4, <1>5, <1>6, <2>1
  <2>3. s - (q + 1) = 0
    BY <1>2, <1>3, <2>1, <2>2
  <2> QED
    BY <1>1, <1>2, <1>6, <2>2, <2>3 DEF r, t
<1>7. CASE r + 1 # size
  <2>1. size * (s - q) = r + 1 - t
    BY <1>1, <1>2, <1>4, <1>5
  <2>2. s - q = 0
    BY <1>1, <1>2, <1>3, <1>4, <1>7, <2>1
  <2>3. r + 1 - t = 0
    BY <2>1, <2>2
  <2> QED
    BY <1>1, <1>2, <1>7, <2>3 DEF r, t
<1> QED
  BY <1>6, <1>7

(* A draw of the key whose turn it is keeps the round going.               *)
LEMMA DrawGoesRound ==
  ASSUME NEW row, NEW drawn, NEW after, DrawsOK(row, drawn), On(row.pool) # {},
         after = [drawn EXCEPT ![Turn(row.pool, row.selections)] = @ + 1]
  PROVE  /\ after \in [DOMAIN row.pool -> Nat]
         /\ \A i \in DOMAIN row.pool : ~row.pool[i].enabled => after[i] = 0
         /\ Round(row.pool, after, row.selections + 1)
<1> DEFINE pool == row.pool
           n    == row.selections
           size == Cardinality(On(pool))
           key  == Enabled(pool)
           turn == key[(n % size) + 1]
<1>1. HasLength(pool) /\ n \in Nat /\ drawn \in [DOMAIN pool -> Nat]
  BY DEF DrawsOK
<1>2. size \in Nat \ {0}
  BY <1>1, OnIsFinite
<1>3. n % size \in 0..size - 1 /\ (n % size) + 1 \in 1..size
  <2> HIDE DEF n, size
  <2>1. n % size \in 0..size - 1
    BY <1>1, <1>2, NextTurn DEF n
  <2> DEFINE r == n % size
  <2>2. r \in 0..size - 1
    BY <2>1
  <2> HIDE DEF r
  <2>3. r + 1 \in 1..size
    BY <1>2, <2>2
  <2> QED
    BY <2>2, <2>3 DEF r
<1>4. /\ Len(key) = size
      /\ \A m \in 1..size : key[m] \in On(pool) /\ Rank(pool, key[m]) = m
  BY <1>1, EnabledLists
<1>5. \A m, k \in 1..size : key[m] = key[k] => m = k
  BY <1>4
<1>6. after = [drawn EXCEPT ![turn] = drawn[turn] + 1]
  BY <1>4 DEF Turn
<1>7. turn \in On(pool) /\ On(pool) \subseteq DOMAIN pool /\ pool[turn].enabled
  BY <1>3, <1>4 DEF On
<1>8. PICK u \in Nat : \A m \in 1..size : drawn[key[m]] = u + (IF m <= n % size THEN 1 ELSE 0)
  BY DEF DrawsOK, Round
<1>9. \A i \in DOMAIN pool : ~pool[i].enabled => drawn[i] = 0
  BY DEF DrawsOK
<1> DEFINE r == n % size
           s == (n + 1) % size
<1>10. s = IF r + 1 = size THEN 0 ELSE r + 1
  BY <1>1, <1>2, NextTurn
<1>11. turn = key[r + 1] /\ r \in Nat /\ r + 1 \in 1..size
  BY <1>3
<1>12. \A m \in 1..size : drawn[key[m]] = u + (IF m <= r THEN 1 ELSE 0)
  BY <1>8
<1> HIDE DEF r, s, turn, key, size, pool, n
<1>13. /\ after \in [DOMAIN pool -> Nat]
       /\ after[turn] = drawn[turn] + 1
       /\ \A i \in DOMAIN pool : i # turn => after[i] = drawn[i]
  BY <1>1, <1>6, <1>7
<1>14. \A i \in DOMAIN pool : ~pool[i].enabled => after[i] = 0
  BY <1>7, <1>9, <1>13
<1>15. \A m \in 1..size : after[key[m]] = drawn[key[m]] + (IF m = r + 1 THEN 1 ELSE 0)
  <2> SUFFICES ASSUME NEW m \in 1..size
               PROVE  after[key[m]] = drawn[key[m]] + (IF m = r + 1 THEN 1 ELSE 0)
    OBVIOUS
  <2>1. key[m] \in DOMAIN pool /\ drawn[key[m]] \in Nat
    BY <1>1, <1>4, <1>7
  <2>2. CASE m = r + 1
    BY <1>11, <1>13, <2>1, <2>2
  <2>3. CASE m # r + 1
    <3>1. key[m] # turn
      BY <1>5, <1>11, <2>3
    <3> QED
      BY <1>13, <2>1, <2>3, <3>1
  <2> QED
    BY <2>2, <2>3
<1>16. \A m \in 1..size :
         after[key[m]] = u + (IF m <= r THEN 1 ELSE 0) + (IF m = r + 1 THEN 1 ELSE 0)
  BY <1>12, <1>15
<1>17. \E v \in Nat : \A m \in 1..size : after[key[m]] = v + (IF m <= s THEN 1 ELSE 0)
  <2>1. CASE r + 1 = size
    <3>1. \A m \in 1..size : after[key[m]] = (u + 1) + (IF m <= s THEN 1 ELSE 0)
      BY <1>2, <1>10, <1>11, <1>16, <2>1
    <3> QED
      BY <3>1
  <2>2. CASE r + 1 # size
    <3>1. \A m \in 1..size : after[key[m]] = u + (IF m <= s THEN 1 ELSE 0)
      BY <1>2, <1>10, <1>11, <1>16, <2>2
    <3> QED
      BY <3>1
  <2> QED
    BY <2>1, <2>2
<1> QED
  BY <1>13, <1>14, <1>17 DEF Round, r, s, turn, key, size, pool, n

(* A new configuration has drawn none of its keys.                         *)
LEMMA NothingDrawn ==
  ASSUME NEW row, HasLength(row.pool), row.selections = 0
  PROVE  DrawsOK(row, [i \in DOMAIN row.pool |-> 0])
<1> DEFINE pool  == row.pool
           drawn == [i \in DOMAIN pool |-> 0]
           size  == Cardinality(On(pool))
<1>1. HasLength(pool) /\ drawn \in [DOMAIN pool -> Nat]
  OBVIOUS
<1>2. ASSUME On(pool) # {}
      PROVE  Round(pool, drawn, 0)
  <2>1. size \in Nat \ {0}
    BY <1>1, <1>2, OnIsFinite
  <2>2. 0 % size = 0
    BY <2>1
  <2>3. \A m \in 1..size : Enabled(pool)[m] \in DOMAIN pool
    BY <1>1, EnabledLists DEF On
  <2>4. \A m \in 1..size : drawn[Enabled(pool)[m]] = 0 + (IF m <= 0 % size THEN 1 ELSE 0)
    BY <2>1, <2>2, <2>3
  <2> HIDE DEF drawn
  <2> QED
    BY <2>4 DEF Round
<1> QED
  BY <1>1, <1>2 DEF DrawsOK

(* A pool an editor sends, or a part of it that is kept.                   *)
LEMMA PoolsHaveLength ==
  ASSUME NEW credential, NEW input \in Inputs(credential), NEW prior, NEW version
  PROVE  HasLength(ReplacePool(input, prior, version)) /\ HasLength(<<>>)
<1>1. HasLength(<<>>)
  <2>1. DOMAIN <<>> = 1..0
    OBVIOUS
  <2> QED
    BY <2>1 DEF HasLength
<1>2. input \in Seq([id : Nat, enabled : BOOLEAN])
  <2>1. CASE credential = "pool"
    <3>1. input \in PoolInput
      BY <2>1 DEF Inputs
    <3>2. PoolInput \subseteq Seq([id : Nat, enabled : BOOLEAN])
      BY ProviderConfigsAssumption DEF ProviderConfigsAssumption
    <3> QED
      BY <3>1, <3>2
  <2>2. CASE credential # "pool"
    <3>1. input = <<>>
      BY <2>2 DEF Inputs
    <3> QED
      BY <3>1
  <2> QED
    BY <2>1, <2>2
<1>3. Len(input) \in Nat /\ DOMAIN input = 1..Len(input)
  BY <1>2
<1>4. DOMAIN ReplacePool(input, prior, version) = DOMAIN input
  BY DEF ReplacePool
<1> QED
  BY <1>1, <1>3, <1>4 DEF HasLength
-----------------------------------------------------------------------------
(* A step that touches neither configurations nor draws.                   *)
LEMMA PoolsKept ==
  ASSUME PoolsOK, UNCHANGED <<configs, uses>>
  PROVE  PoolsOK'
BY DEF PoolsOK, Stored

(* A provider's new row names a configuration in the table.                *)
LEMMA CurrentSet ==
  ASSUME ProvidersOK, CurrentOK, ConfigsStay, NEW p \in Provider, NEW row,
         providers' = [providers EXCEPT ![p] = row],
         row.deleted # "longAgo" => row.current \in Config /\ configs'[row.current] # Missing
  PROVE  CurrentOK'
<1>1. providers'[p] = row /\ \A q \in Provider \ {p} : providers'[q] = providers[q]
  BY DEF ProvidersOK
<1> SUFFICES ASSUME NEW q \in Provider, providers'[q] # Missing, providers'[q].deleted # "longAgo"
             PROVE  /\ providers'[q].current \in Config
                    /\ configs'[providers'[q].current] # Missing
  BY DEF CurrentOK, Stored
<1>2. CASE q = p
  BY <1>1, <1>2
<1>3. CASE q # p
  BY <1>1, <1>3 DEF CurrentOK, ConfigsStay, Stored
<1> QED
  BY <1>2, <1>3

(* ... or no provider changes.                                             *)
LEMMA CurrentKept ==
  ASSUME CurrentOK, ConfigsStay, providers' = providers
  PROVE  CurrentOK'
BY DEF CurrentOK, ConfigsStay, Stored

(* One configuration and the draws from it are written.                    *)
LEMMA OnePool ==
  ASSUME ConfigsOK, PoolsOK, NEW c \in Config, NEW row, NEW drawn,
         configs' = [configs EXCEPT ![c] = row],
         uses' = [uses EXCEPT ![c] = drawn] \/ (uses' = uses /\ drawn = uses[c]),
         row # Missing, DrawsOK(row, drawn)
  PROVE  PoolsOK' /\ ConfigsStay
<1>1. /\ configs'[c] = row /\ \A d \in Config \ {c} : configs'[d] = configs[d]
      /\ uses'[c] = drawn /\ \A d \in Config \ {c} : uses'[d] = uses[d]
      /\ DOMAIN uses' = Config
  BY DEF ConfigsOK, PoolsOK
<1>2. ASSUME NEW d \in Config, configs'[d] # Missing
      PROVE  DrawsOK(configs'[d], uses'[d])
  <2>1. CASE d = c
    BY <1>1, <2>1
  <2>2. CASE d # c
    <3>1. configs'[d] = configs[d] /\ uses'[d] = uses[d]
      BY <1>1, <2>2
    <3> QED
      BY <1>2, <3>1 DEF PoolsOK, Stored
  <2> QED
    BY <2>1, <2>2
<1>3. ConfigsStay
  BY <1>1 DEF ConfigsStay, Stored
<1>4. PoolsOK'
  <2> SUFFICES ASSUME NEW d \in Config, configs'[d] # Missing
               PROVE  DrawsOK(configs[d], uses[d])'
    BY <1>1 DEF PoolsOK, Stored
  <2> QED
    BY <1>2
<1> QED
  BY <1>3, <1>4

(* The first configuration of a provider, and the next.                    *)
LEMMA InsertDraws ==
  ASSUME ConfigsOK, PoolsOK, NEW c \in Config, NEW p, NEW version, NEW secret, NEW pool,
         HasLength(pool), InsertConfig(c, NewConfig(p, version, secret, pool))
  PROVE  PoolsOK' /\ ConfigsStay /\ configs'[c] # Missing
<1> DEFINE row == NewConfig(p, version, secret, pool)
<1>1. DOMAIN row = ConfigFields /\ row.pool = pool
  BY NewConfigFields
<1>2. row.selections = 0
  BY DEF NewConfig
<1>3. /\ configs' = [configs EXCEPT ![c] = row]
      /\ uses' = [uses EXCEPT ![c] = [i \in DOMAIN row.pool |-> 0]]
  BY DEF InsertConfig
<1> HIDE DEF row
<1>4. row # Missing
  BY <1>1, RowsAreThere
<1>5. DrawsOK(row, [i \in DOMAIN row.pool |-> 0])
  BY <1>1, <1>2, NothingDrawn
<1>6. PoolsOK' /\ ConfigsStay
  BY <1>3, <1>4, <1>5, OnePool
<1>7. configs'[c] = row
  BY <1>3 DEF ConfigsOK
<1> QED
  BY <1>4, <1>6, <1>7

(* No pool is there at first.                                              *)
LEMMA DrawsStart == RoutingInit => DrawsInv
BY DEF RoutingInit, ConfigsInit, DrawsInv, CurrentOK, PoolsOK, Stored

(* A step of the providers, the clean-up, the workers or the jobs.         *)
LEMMA DrawsOfConfigs ==
  ASSUME RoutingInv, DrawsInv, ConfigsNext
  PROVE  DrawsInv'
<1>1. ProvidersOK /\ ConfigsOK /\ CurrentOK /\ PoolsOK
  BY DEF RoutingInv, DrawsInv
<1>2. ASSUME UNCHANGED <<providers, configs, uses>>
      PROVE  DrawsInv'
  BY <1>1, <1>2, PoolsKept DEF DrawsInv, CurrentOK, Stored
<1>3. ASSUME NEW p \in Provider, NEW c \in Config, NEW kind \in Kind, NEW credential \in Credentials,
             NEW input \in Inputs(credential), CreateProvider(p, c, kind, credential, input)
      PROVE  DrawsInv'
  <2> DEFINE pool   == IF credential = "pool" THEN ReplacePool(input, <<>>, 1) ELSE <<>>
             secret == CASE credential = "pool"   -> FirstEnabledSecret(pool)
                         [] credential = "secret" -> 1
                         [] OTHER                 -> 0
             new    == [kind |-> kind, status |-> "active", current |-> c, deleted |-> "no"]
  <2>1. InsertConfig(c, NewConfig(p, 1, secret, pool)) /\ providers' = [providers EXCEPT ![p] = new]
    BY <1>3 DEF CreateProvider
  <2>2. HasLength(pool)
    BY PoolsHaveLength
  <2>3. new.current = c
    OBVIOUS
  <2> HIDE DEF pool, secret, new
  <2>4. PoolsOK' /\ ConfigsStay /\ configs'[c] # Missing
    BY <1>1, <2>1, <2>2, InsertDraws
  <2>5. CurrentOK'
    BY <1>1, <2>1, <2>3, <2>4, CurrentSet
  <2> QED
    BY <2>4, <2>5 DEF DrawsInv
<1>4. ASSUME NEW p \in Provider, NEW c \in Config, NEW status \in Status, NEW change \in Change,
             NEW input \in Inputs(change), PatchConfig(p, c, status, change, input)
      PROVE  DrawsInv'
  <2> DEFINE prior   == configs[providers[p].current]
             version == prior.version + 1
             pool    == CASE change = "pool" -> ReplacePool(input, prior.pool, version)
                          [] change = "keep" -> prior.pool
                          [] OTHER           -> <<>>
             secret  == PatchedSecret(change, prior, pool, version)
             new     == [providers[p] EXCEPT !.current = c, !.status = status]
  <2>1. /\ InsertConfig(c, NewConfig(p, version, secret, pool))
        /\ providers' = [providers EXCEPT ![p] = new]
        /\ LiveProvider(p)
    BY <1>4 DEF PatchConfig
  <2>2. HasLength(prior.pool)
    BY <1>1, <2>1 DEF LiveProvider, CurrentOK, PoolsOK, DrawsOK
  <2>3. HasLength(pool)
    BY <2>2, PoolsHaveLength
  <2>4. new.current = c
    BY <1>1, <2>1 DEF LiveProvider, ProvidersOK, ProviderRow
  <2> HIDE DEF prior, version, pool, secret, new
  <2>5. PoolsOK' /\ ConfigsStay /\ configs'[c] # Missing
    BY <1>1, <2>1, <2>3, InsertDraws
  <2>6. CurrentOK'
    BY <1>1, <2>1, <2>4, <2>5, CurrentSet
  <2> QED
    BY <2>5, <2>6 DEF DrawsInv
<1>5. ASSUME NEW p \in Provider, \/ \E status \in Status : PatchStatus(p, status)
                                 \/ RemoveProvider(p) \/ DeletionAges(p)
      PROVE  DrawsInv'
  <2>1. UNCHANGED <<configs, uses>> /\ providers[p] # Missing /\ providers[p] \in ProviderRow
    BY <1>1, <1>5 DEF PatchStatus, RemoveProvider, DeletionAges, LiveProvider, ProvidersOK
  <2>2. PICK row : /\ providers' = [providers EXCEPT ![p] = row]
                   /\ row.current = providers[p].current
                   /\ row.deleted # "longAgo" => providers[p].deleted # "longAgo"
    <3>1. CASE \E status \in Status : PatchStatus(p, status)
      <4>1. PICK status \in Status : PatchStatus(p, status)
        BY <3>1
      <4> DEFINE row == [providers[p] EXCEPT !.status = status]
      <4>2. providers' = [providers EXCEPT ![p] = row]
        BY <4>1 DEF PatchStatus
      <4>3. row.current = providers[p].current /\ row.deleted = providers[p].deleted
        BY <2>1 DEF ProviderRow
      <4> QED
        BY <4>2, <4>3
    <3>2. CASE RemoveProvider(p)
      <4> DEFINE row == [providers[p] EXCEPT !.status = "disabled", !.deleted = "yes"]
      <4>1. providers' = [providers EXCEPT ![p] = row] /\ providers[p].deleted = "no"
        BY <3>2 DEF RemoveProvider, LiveProvider
      <4>2. row.current = providers[p].current
        BY <2>1 DEF ProviderRow
      <4> QED
        BY <4>1, <4>2
    <3>3. CASE DeletionAges(p)
      <4> DEFINE row == [providers[p] EXCEPT !.deleted = "longAgo"]
      <4>1. providers' = [providers EXCEPT ![p] = row] /\ providers[p].deleted = "yes"
        BY <3>3 DEF DeletionAges
      <4>2. row.current = providers[p].current
        BY <2>1 DEF ProviderRow
      <4> QED
        BY <4>1, <4>2
    <3> QED
      BY <1>5, <3>1, <3>2, <3>3
  <2>3. ConfigsStay
    BY <2>1 DEF ConfigsStay, Stored
  <2>4. row.deleted # "longAgo" => row.current \in Config /\ configs'[row.current] # Missing
    BY <1>1, <2>1, <2>2 DEF CurrentOK, Stored
  <2>5. CurrentOK'
    BY <1>1, <2>2, <2>3, <2>4, CurrentSet
  <2> QED
    BY <1>1, <2>1, <2>5, PoolsKept DEF DrawsInv
<1>6. ASSUME NEW c \in Config, ConfigAges(c)
      PROVE  DrawsInv'
  <2> DEFINE row == [configs[c] EXCEPT !.old = TRUE]
  <2>1. DOMAIN configs[c] = ConfigFields /\ DrawsOK(configs[c], uses[c])
    BY <1>1, <1>6 DEF ConfigAges, ConfigsOK, PoolsOK
  <2>2. /\ DOMAIN row = ConfigFields
        /\ row.pool = configs[c].pool /\ row.selections = configs[c].selections
    BY <2>1 DEF ConfigFields
  <2>3. configs' = [configs EXCEPT ![c] = row] /\ providers' = providers
    BY <1>6 DEF ConfigAges
  <2>4. uses' = uses
    BY <1>6 DEF ConfigAges
  <2> HIDE DEF row
  <2>5. DrawsOK(row, uses[c])
    BY <2>1, <2>2 DEF DrawsOK
  <2>6. row # Missing
    BY <2>2, RowsAreThere
  <2>7. PoolsOK' /\ ConfigsStay
    BY <1>1, <2>3, <2>4, <2>5, <2>6, OnePool
  <2> QED
    BY <1>1, <2>3, <2>7, CurrentKept DEF DrawsInv
<1>7. CASE CollectConfigs
  <2> DEFINE released == [p \in Provider |->
                            IF providers[p] # Missing /\ providers[p].deleted = "longAgo"
                            THEN [providers[p] EXCEPT !.current = None]
                            ELSE providers[p]]
             garbage  == {c \in Config :
                            /\ Stored(c)
                            /\ configs[c].old
                            /\ ~Referred(c)
                            /\ \A p \in Provider : released[p] # Missing => released[p].current # c}
  <2>1. /\ providers' = released
        /\ configs' = [c \in Config |-> IF c \in garbage THEN Missing ELSE configs[c]]
        /\ uses' = [c \in Config |-> IF c \in garbage THEN <<>> ELSE uses[c]]
    BY <1>7 DEF CollectConfigs
  <2>2. \A p \in Provider : released[p] # Missing => released[p].current \notin garbage
    OBVIOUS
  <2>3. ASSUME NEW p \in Provider, released[p] # Missing, released[p].deleted # "longAgo"
        PROVE  released[p] = providers[p]
    <3>1. CASE providers[p] # Missing /\ providers[p].deleted = "longAgo"
      <4>1. providers[p] \in ProviderRow /\ released[p] = [providers[p] EXCEPT !.current = None]
        BY <1>1, <3>1 DEF ProvidersOK
      <4>2. released[p].deleted = providers[p].deleted
        BY <4>1 DEF ProviderRow
      <4> QED
        BY <2>3, <3>1, <4>2
    <3>2. CASE ~(providers[p] # Missing /\ providers[p].deleted = "longAgo")
      BY <3>2
    <3> QED
      BY <3>1, <3>2
  <2> HIDE DEF released, garbage
  <2>4. CurrentOK'
    <3> SUFFICES ASSUME NEW p \in Provider, released[p] # Missing, released[p].deleted # "longAgo"
                 PROVE  released[p].current \in Config /\ configs'[released[p].current] # Missing
      BY <2>1 DEF CurrentOK, Stored
    <3>1. released[p] = providers[p] /\ released[p].current \notin garbage
      BY <2>2, <2>3
    <3>2. released[p].current \in Config /\ configs[released[p].current] # Missing
      BY <1>1, <3>1 DEF CurrentOK, Stored
    <3> QED
      BY <2>1, <3>1, <3>2
  <2>5. DOMAIN uses' = Config
    BY <2>1
  <2>6. ASSUME NEW c \in Config, configs'[c] # Missing
        PROVE  DrawsOK(configs[c], uses[c])'
    <3>1. configs'[c] = configs[c] /\ uses'[c] = uses[c] /\ Stored(c)
      BY <2>1, <2>6 DEF Stored
    <3>2. DrawsOK(configs[c], uses[c])
      BY <1>1, <3>1 DEF PoolsOK
    <3> QED
      BY <3>1, <3>2
  <2> QED
    BY <2>4, <2>5, <2>6 DEF DrawsInv, PoolsOK, Stored
<1>8. ASSUME NEW j \in Job, JobEnds(j) \/ PurgeJob(j)
      PROVE  DrawsInv'
  BY <1>2, <1>8 DEF JobEnds, PurgeJob
<1>9. ASSUME NEW j \in Job, NEW c \in Config, SelectSecret(j, c)
      PROVE  DrawsInv'
  <2> DEFINE old   == configs[c]
             row   == [old EXCEPT !.selections = old.selections + 1]
             after == [uses[c] EXCEPT ![Turn(old.pool, old.selections)] = @ + 1]
  <2>1. Stored(c) /\ Enabled(old.pool) # <<>> /\ providers' = providers
    BY <1>9 DEF SelectSecret
  <2>2. DOMAIN old = ConfigFields /\ DrawsOK(old, uses[c])
    BY <1>1, <2>1 DEF ConfigsOK, PoolsOK
  <2>3. configs' = [configs EXCEPT ![c] = row] /\ uses' = [uses EXCEPT ![c] = after]
    BY <1>9 DEF SelectSecret
  <2>4. DOMAIN row = ConfigFields /\ row.pool = old.pool /\ row.selections = old.selections + 1
    BY <2>2 DEF ConfigFields
  <2> HIDE DEF row, old
  <2>5. HasLength(old.pool) /\ old.selections \in Nat
    BY <2>2 DEF DrawsOK
  <2>6. On(old.pool) # {}
    BY <2>1, <2>5, EnabledLists
  <2>7. /\ after \in [DOMAIN old.pool -> Nat]
        /\ \A i \in DOMAIN old.pool : ~old.pool[i].enabled => after[i] = 0
        /\ Round(old.pool, after, old.selections + 1)
    BY <2>2, <2>6, DrawGoesRound
  <2> HIDE DEF after
  <2>8. DrawsOK(row, after)
    BY <2>4, <2>5, <2>7 DEF DrawsOK
  <2>9. row # Missing
    BY <2>4, RowsAreThere
  <2>10. PoolsOK' /\ ConfigsStay
    BY <1>1, <2>3, <2>8, <2>9, OnePool
  <2> QED
    BY <1>1, <2>1, <2>10, CurrentKept DEF DrawsInv
<1> QED
  BY <1>3, <1>4, <1>5, <1>6, <1>7, <1>8, <1>9 DEF ConfigsNext

(* Lanes, groups and admissions leave the pools alone.                     *)
LEMMA DrawsStep == RoutingInv /\ DrawsInv /\ [RoutingNext]_routingVars => DrawsInv'
<1> SUFFICES ASSUME RoutingInv, DrawsInv, [RoutingNext]_routingVars PROVE DrawsInv'
  OBVIOUS
<1>1. ASSUME UNCHANGED <<providers, configs, uses>>
      PROVE  DrawsInv'
  BY <1>1, PoolsKept DEF DrawsInv, CurrentOK, Stored
<1>2. CASE UNCHANGED routingVars
  BY <1>1, <1>2 DEF routingVars
<1>3. CASE ConfigsNext
  BY <1>3, DrawsOfConfigs
<1>4. ASSUME NEW l \in Lane, NEW p \in Provider, NEW op \in Operation, CreateLane(l, p, op)
      PROVE  DrawsInv'
  BY <1>1, <1>4 DEF CreateLane, configVars
<1>5. ASSUME NEW l \in Lane, NEW status \in Status, PatchLane(l, status)
      PROVE  DrawsInv'
  BY <1>1, <1>5 DEF PatchLane, configVars
<1>6. ASSUME NEW row \in GroupRow, ReplaceCapabilities(row)
      PROVE  DrawsInv'
  BY <1>1, <1>6 DEF ReplaceCapabilities, configVars
<1>7. ASSUME NEW j \in Job, NEW kind \in {"search", "fetch"},
             NEW source \in {"lane", "lanes", "preset", "default"}, NEW named \in SUBSET Lane,
             NEW queries \in 1..MaxItems, AdmitPlan(j, kind, source, named, queries)
      PROVE  DrawsInv'
  BY <1>1, <1>7 DEF AdmitPlan, AdmitWith
<1> QED
  BY <1>2, <1>3, <1>4, <1>5, <1>6, <1>7 DEF RoutingNext

(* The invariant of the pools.                                             *)
THEOREM PoolsInvariant == RoutingSpec => []DrawsInv
BY DrawsStart, DrawsStep, RoutingInvariant, PTL DEF RoutingSpec

(* Of the keys enabled in a configuration none is drawn twice more often   *)
(* than another, and a disabled key is never drawn (key-pool.ts:44-53).    *)
THEOREM KeysAreShared == RoutingSpec => []KeysShared
<1>1. DrawsInv => KeysShared
  <2> SUFFICES ASSUME DrawsInv, NEW c \in Config, Stored(c)
               PROVE  /\ \A i \in DOMAIN configs[c].pool :
                           ~configs[c].pool[i].enabled => uses[c][i] = 0
                      /\ \A i, k \in DOMAIN configs[c].pool :
                           configs[c].pool[i].enabled /\ configs[c].pool[k].enabled =>
                             uses[c][i] <= uses[c][k] + 1
    BY DEF KeysShared
  <2> DEFINE pool  == configs[c].pool
             drawn == uses[c]
             n     == configs[c].selections
             size  == Cardinality(On(pool))
  <2>1. DrawsOK(configs[c], drawn)
    BY DEF DrawsInv, PoolsOK
  <2>2. HasLength(pool) /\ \A i \in DOMAIN pool : ~pool[i].enabled => drawn[i] = 0
    BY <2>1 DEF DrawsOK
  <2>3. ASSUME NEW i \in DOMAIN pool, NEW k \in DOMAIN pool, pool[i].enabled, pool[k].enabled
        PROVE  drawn[i] <= drawn[k] + 1
    <3>1. i \in On(pool) /\ k \in On(pool) /\ On(pool) # {}
      BY <2>3 DEF On
    <3>2. PICK u \in Nat : \A m \in 1..size :
            drawn[Enabled(pool)[m]] = u + (IF m <= n % size THEN 1 ELSE 0)
      BY <2>1, <3>1 DEF DrawsOK, Round
    <3>3. /\ Rank(pool, i) \in 1..size /\ Enabled(pool)[Rank(pool, i)] = i
          /\ Rank(pool, k) \in 1..size /\ Enabled(pool)[Rank(pool, k)] = k
      BY <2>2, <3>1, RanksCount, EnabledLists
    <3> DEFINE more(m) == IF m <= n % size THEN 1 ELSE 0
    <3>4. drawn[i] = u + more(Rank(pool, i)) /\ drawn[k] = u + more(Rank(pool, k))
      BY <3>2, <3>3
    <3>5. \A m : more(m) \in {0, 1}
      OBVIOUS
    <3> HIDE DEF more
    <3> QED
      BY <3>4, <3>5
  <2> QED
    BY <2>2, <2>3
<1> QED
  BY <1>1, PoolsInvariant, PTL
=============================================================================
