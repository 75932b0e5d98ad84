---------------------------- MODULE UsageLedger ----------------------------
(***************************************************************************)
(* The usage ledger of the execution store: what a job costs, when the     *)
(* cost is set aside, and when it is charged or given back.                *)
(*                                                                         *)
(* A job that is admitted reserves its units in two buckets, the daily     *)
(* bucket of its user in its group and the lifetime bucket of its API key  *)
(* in the key's current quota epoch.  The reservation is settled once: the *)
(* units move to "used" when the job was dispatched to a provider, and are *)
(* given back when it was not.  In between, a key's quota may be reset (a  *)
(* new epoch), quotas may be raised, lifted or lowered, also below what is *)
(* held and used already, and midnight may pass; the rows of an old job    *)
(* are deleted after 90 days while the buckets stay.                       *)
(*                                                                         *)
(* Every operator below runs inside a transaction that holds the tenant's  *)
(* row lock, hence is one step.  JobStore conjoins them with the changes   *)
(* of the job rows; Spec below lets any caller call them in any order.     *)
(***************************************************************************)
EXTENDS Integers, FiniteSets

CONSTANTS
  Job,         \* ids of jobs (UUIDs drawn at admission)
  User, Group, Key,
  Principal,   \* who may submit: records [user, group, key]
  MaxUnits,    \* bound: the largest cost of a job
  KeyQuotas,   \* bound: values of api_keys.quota_units, 0 means unlimited
  DailyQuotas, \* bound: values of groups.daily_units_per_user, 0 the same
  LastDay,     \* bound: days that pass
  LastEpoch    \* bound: quota resets of a key

(* An API key belongs to one user.                                         *)
ASSUME LedgerAssumption ==
  /\ IsFiniteSet(Job)
  /\ Principal \subseteq [user : User, group : Group, key : Key]
  /\ \A p, q \in Principal : p.key = q.key => p.user = q.user
  /\ MaxUnits \in Nat \ {0}
  /\ KeyQuotas \subseteq Nat
  /\ DailyQuotas \subseteq Nat
  /\ LastDay \in Nat
  /\ LastEpoch \in Nat \ {0}

VARIABLES
  reservations,   \* usage_reservations: the row of each job
  groupBuckets,   \* group_usage_buckets, by user, group and UTC day
  keyBuckets,     \* key_usage_buckets, by key and epoch
  usageEvents,    \* usage_events, as <<job, event>> pairs (UNIQUE in the table)
  quotaEpoch,     \* api_keys.quota_epoch
  keyQuota,       \* api_keys.quota_units
  dailyQuota,     \* groups.daily_units_per_user
  today,          \* the UTC day of now()
  erased          \* jobs whose ledger rows retention deleted (history)

ledgerVars == <<reservations, groupBuckets, keyBuckets, usageEvents,
                quotaEpoch, keyQuota, dailyQuota, today, erased>>

Units        == 1..MaxUnits
Epoch        == 1..LastEpoch
GroupBucket  == User \X Group \X (0..LastDay)
KeyBucket    == Key \X Epoch
Bucket       == [reserved : Nat, used : Nat]
EmptyBucket  == [reserved |-> 0, used |-> 0]

Reservation  == [state : {"reserved", "settled", "released"},
                 group : GroupBucket, key : KeyBucket, units : Units]
NoReservation == [state |-> "none"]

Event == {"reserve", "settle", "release"}

(***************************************************************************)
(* A bucket without a row counts as a row of zeros: admission inserts it   *)
(* ON CONFLICT DO NOTHING before it reads it.                              *)
(***************************************************************************)
LedgerInit ==
  /\ reservations = [j \in Job |-> NoReservation]
  /\ groupBuckets = [b \in GroupBucket |-> EmptyBucket]
  /\ keyBuckets   = [b \in KeyBucket |-> EmptyBucket]
  /\ usageEvents  = {}
  /\ quotaEpoch   = [k \in Key |-> 1]
  /\ keyQuota     \in [Key -> KeyQuotas]
  /\ dailyQuota   \in [Group -> DailyQuotas]
  /\ today        = 0
  /\ erased       = {}

(* Fault variant: only what is already charged counts.                     *)
ExhaustedByUse(limit, bucket, requested) ==
  /\ limit # 0
  /\ bucket.used + requested > limit

(* A limit of zero still meters the use but never refuses it.              *)
Exhausted(limit, bucket, requested) ==
  /\ limit # 0
  /\ bucket.used + bucket.reserved + requested > limit

-----------------------------------------------------------------------------
(* Fault variant: the units are set aside in the user's bucket only.       *)
ReserveForUserOnly(j, p, u) ==
  LET b == <<p.user, p.group, today>>
      k == <<p.key, quotaEpoch[p.key]>>
  IN
  /\ reservations[j] = NoReservation
  /\ ~Exhausted(keyQuota[p.key], keyBuckets[k], u)
  /\ ~Exhausted(dailyQuota[p.group], groupBuckets[b], u)
  /\ groupBuckets' = [groupBuckets EXCEPT ![b].reserved = @ + u]
  /\ reservations' = [reservations EXCEPT ![j] =
       [state |-> "reserved", group |-> b, key |-> k, units |-> u]]
  /\ usageEvents' = usageEvents \cup {<<j, "reserve">>}
  /\ UNCHANGED <<keyBuckets, quotaEpoch, keyQuota, dailyQuota, today, erased>>

(* Store.admit: the quota checks, the two reservations and their event.    *)
Reserve(j, p, u) ==
  LET b == <<p.user, p.group, today>>
      k == <<p.key, quotaEpoch[p.key]>>
  IN
  /\ reservations[j] = NoReservation
  /\ ~Exhausted(keyQuota[p.key], keyBuckets[k], u)
  /\ ~Exhausted(dailyQuota[p.group], groupBuckets[b], u)
  /\ groupBuckets' = [groupBuckets EXCEPT ![b].reserved = @ + u]
  /\ keyBuckets' = [keyBuckets EXCEPT ![k].reserved = @ + u]
  /\ reservations' = [reservations EXCEPT ![j] =
       [state |-> "reserved", group |-> b, key |-> k, units |-> u]]
  /\ usageEvents' = usageEvents \cup {<<j, "reserve">>}
  /\ UNCHANGED <<quotaEpoch, keyQuota, dailyQuota, today, erased>>

(* Fault variant: settlement books on the day it runs, not on the day the  *)
(* units were reserved.                                                    *)
SettleOnToday(j, charged) ==
  LET r == reservations[j]
      b == <<r.group[1], r.group[2], today>>
      spent == IF charged THEN r.units ELSE 0
  IN
  IF r.state = "reserved"
  THEN
    /\ groupBuckets' = [groupBuckets EXCEPT ![b].reserved = @ - r.units,
                                            ![b].used = @ + spent]
    /\ keyBuckets' = [keyBuckets EXCEPT ![r.key].reserved = @ - r.units,
                                        ![r.key].used = @ + spent]
    /\ reservations' = [reservations EXCEPT ![j].state =
                          IF charged THEN "settled" ELSE "released"]
    /\ usageEvents' = usageEvents \cup
                        {<<j, IF charged THEN "settle" ELSE "release">>}
    /\ UNCHANGED <<quotaEpoch, keyQuota, dailyQuota, today, erased>>
  ELSE UNCHANGED ledgerVars

(* Fault variant: the reservation is not required to be still "reserved".  *)
SettleAnyState(j, charged) ==
  LET r == reservations[j]
      spent == IF charged THEN r.units ELSE 0
  IN
  IF r # NoReservation
  THEN
    /\ groupBuckets' = [groupBuckets EXCEPT ![r.group].reserved = @ - r.units,
                                            ![r.group].used = @ + spent]
    /\ keyBuckets' = [keyBuckets EXCEPT ![r.key].reserved = @ - r.units,
                                        ![r.key].used = @ + spent]
    /\ reservations' = [reservations EXCEPT ![j].state =
                          IF charged THEN "settled" ELSE "released"]
    /\ usageEvents' = usageEvents \cup
                        {<<j, IF charged THEN "settle" ELSE "release">>}
    /\ UNCHANGED <<quotaEpoch, keyQuota, dailyQuota, today, erased>>
  ELSE UNCHANGED ledgerVars

(***************************************************************************)
(* Store.finish, its second half: the reservation, if it is still held,    *)
(* leaves the buckets it was made in; the units are used when the job had  *)
(* been dispatched (charged) and given back otherwise.                     *)
(***************************************************************************)
Settle(j, charged) ==
  LET r == reservations[j]
      spent == IF charged THEN r.units ELSE 0
  IN
  IF r.state = "reserved"
  THEN
    /\ groupBuckets' = [groupBuckets EXCEPT ![r.group].reserved = @ - r.units,
                                            ![r.group].used = @ + spent]
    /\ keyBuckets' = [keyBuckets EXCEPT ![r.key].reserved = @ - r.units,
                                        ![r.key].used = @ + spent]
    /\ reservations' = [reservations EXCEPT ![j].state =
                          IF charged THEN "settled" ELSE "released"]
    /\ usageEvents' = usageEvents \cup
                        {<<j, IF charged THEN "settle" ELSE "release">>}
    /\ UNCHANGED <<quotaEpoch, keyQuota, dailyQuota, today, erased>>
  ELSE UNCHANGED ledgerVars

(* Fault variant: a reset does not wait for outstanding reservations and   *)
(* moves the key to its next epoch under them.                             *)
ResetWhileReserved(k) ==
  /\ quotaEpoch[k] < LastEpoch
  /\ quotaEpoch' = [quotaEpoch EXCEPT ![k] = @ + 1]
  /\ keyBuckets' = [keyBuckets EXCEPT ![<<k, quotaEpoch[k] + 1>>] = EmptyBucket]
  /\ UNCHANGED <<reservations, groupBuckets, usageEvents, keyQuota, dailyQuota,
                 today, erased>>

(***************************************************************************)
(* Store.resetKeyQuota: refused with ACTIVE_RESERVATIONS while any job of  *)
(* the key still holds units.  (Console has the revision it compares.)     *)
(***************************************************************************)
ResetKeyQuota(k) ==
  /\ quotaEpoch[k] < LastEpoch
  /\ \A j \in Job : reservations[j].state = "reserved" => reservations[j].key[1] # k
  /\ quotaEpoch' = [quotaEpoch EXCEPT ![k] = @ + 1]
  /\ keyBuckets' = [keyBuckets EXCEPT ![<<k, quotaEpoch[k] + 1>>] = EmptyBucket]
  /\ UNCHANGED <<reservations, groupBuckets, usageEvents, keyQuota, dailyQuota,
                 today, erased>>

(* patchKey with quota_units, and patchGroup with daily_units_per_user:    *)
(* any value, whatever the buckets say; nothing is given back or cut off.  *)
SetKeyQuota(k, quota) ==
  /\ keyQuota' = [keyQuota EXCEPT ![k] = quota]
  /\ UNCHANGED <<reservations, groupBuckets, keyBuckets, usageEvents, quotaEpoch,
                 dailyQuota, today, erased>>

SetDailyQuota(g, quota) ==
  /\ dailyQuota' = [dailyQuota EXCEPT ![g] = quota]
  /\ UNCHANGED <<reservations, groupBuckets, keyBuckets, usageEvents, quotaEpoch,
                 keyQuota, today, erased>>

(* Store.cleanup, after 90 days: events and closed reservations of a job   *)
(* are deleted, the buckets are left alone.                                *)
EraseUsage(j) ==
  /\ reservations[j].state \in {"settled", "released"}
  /\ j \notin erased
  /\ erased' = erased \cup {j}
  /\ usageEvents' = {e \in usageEvents : e[1] # j}
  /\ UNCHANGED <<reservations, groupBuckets, keyBuckets, quotaEpoch,
                 keyQuota, dailyQuota, today>>

(* Midnight, UTC.                                                          *)
NextDay ==
  /\ today < LastDay
  /\ today' = today + 1
  /\ UNCHANGED <<reservations, groupBuckets, keyBuckets, usageEvents, quotaEpoch,
                 keyQuota, dailyQuota, erased>>

LedgerNext ==
  \/ \E j \in Job, p \in Principal, u \in Units : Reserve(j, p, u)
  \/ \E j \in Job, charged \in BOOLEAN : Settle(j, charged)
  \/ \E k \in Key : ResetKeyQuota(k)
  \/ \E k \in Key, quota \in KeyQuotas : SetKeyQuota(k, quota)
  \/ \E g \in Group, quota \in DailyQuotas : SetDailyQuota(g, quota)
  \/ \E j \in Job : EraseUsage(j)
  \/ NextDay

LedgerSpec == LedgerInit /\ [][LedgerNext]_ledgerVars
-----------------------------------------------------------------------------
(* The rows have their types; bucket counters are never negative (the      *)
(* CHECK constraints of the two bucket tables would abort the settlement). *)
LedgerTypeOK ==
  /\ reservations \in [Job -> Reservation \cup {NoReservation}]
  /\ groupBuckets \in [GroupBucket -> Bucket]
  /\ keyBuckets \in [KeyBucket -> Bucket]
  /\ usageEvents \subseteq Job \X Event
  /\ quotaEpoch \in [Key -> Epoch]
  /\ keyQuota \in [Key -> KeyQuotas]
  /\ dailyQuota \in [Group -> DailyQuotas]
  /\ today \in 0..LastDay
  /\ erased \subseteq Job

(* The units of a set of jobs, one pair per unit, so that their number is  *)
(* the sum of the units.                                                   *)
UnitsOf(S) == {x \in S \X Units : x[2] <= reservations[x[1]].units}

InGroup(b, state) ==
  {j \in Job : reservations[j].state = state /\ reservations[j].group = b}
OfKey(b, state) ==
  {j \in Job : reservations[j].state = state /\ reservations[j].key = b}

(* The counters of every bucket agree with the jobs: reserved is the sum   *)
(* of the reservations still held in it, used the sum of those settled in  *)
(* it, ever -- across midnight, quota resets and the deletion of old rows. *)
LedgerBalanced ==
  /\ \A b \in GroupBucket :
       /\ groupBuckets[b].reserved = Cardinality(UnitsOf(InGroup(b, "reserved")))
       /\ groupBuckets[b].used = Cardinality(UnitsOf(InGroup(b, "settled")))
  /\ \A b \in KeyBucket :
       /\ keyBuckets[b].reserved = Cardinality(UnitsOf(OfKey(b, "reserved")))
       /\ keyBuckets[b].used = Cardinality(UnitsOf(OfKey(b, "settled")))

(* What jobs hold or were charged in a key's epoch, or on a user's day.    *)
KeyTotal(b) ==
  Cardinality(UnitsOf(OfKey(b, "reserved"))) + Cardinality(UnitsOf(OfKey(b, "settled")))
GroupTotal(b) ==
  Cardinality(UnitsOf(InGroup(b, "reserved"))) + Cardinality(UnitsOf(InGroup(b, "settled")))

(* Quotas are held as they stand: a step that adds to what a key's jobs    *)
(* hold and were charged in an epoch, or a user's in a group on a day,     *)
(* leaves the sum within the quota in force.  A quota that was lowered     *)
(* below the sum lets nothing be added until units are given back.         *)
QuotaHeld ==
  [][/\ \A b \in KeyBucket :
          KeyTotal(b)' > KeyTotal(b) /\ keyQuota[b[1]] # 0 =>
            KeyTotal(b)' <= keyQuota[b[1]]
     /\ \A b \in GroupBucket :
          GroupTotal(b)' > GroupTotal(b) /\ dailyQuota[b[2]] # 0 =>
            GroupTotal(b)' <= dailyQuota[b[2]]]_ledgerVars

(* A quota reset leaves nothing behind: whatever a key still holds is held *)
(* in its current epoch, so that a closed epoch is never charged again and *)
(* an epoch to come is empty.                                              *)
HeldInCurrentEpoch ==
  /\ \A j \in Job : reservations[j].state = "reserved" =>
       reservations[j].key[2] = quotaEpoch[reservations[j].key[1]]
  /\ \A b \in KeyBucket : b[2] > quotaEpoch[b[1]] => keyBuckets[b] = EmptyBucket

(* The audit trail tells the truth: until its rows are deleted, a job has  *)
(* the event of its admission and exactly the one event of its settlement. *)
EventsMatchReservations ==
  \A j \in Job \ erased :
    {e[2] : e \in {x \in usageEvents : x[1] = j}} =
      CASE reservations[j].state = "none"     -> {}
        [] reservations[j].state = "reserved" -> {"reserve"}
        [] reservations[j].state = "settled"  -> {"reserve", "settle"}
        [] reservations[j].state = "released" -> {"reserve", "release"}
=============================================================================
