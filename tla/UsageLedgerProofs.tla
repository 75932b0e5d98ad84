------------------------- MODULE UsageLedgerProofs -------------------------
(***************************************************************************)
(* What UsageLedger keeps for any number of jobs, keys, groups, days and   *)
(* epochs and for any quotas, changed at any time.                         *)
(*                                                                         *)
(* That the counters of the buckets do not become negative rests on their  *)
(* agreement with the reservations, and this in turn on a closed epoch of  *)
(* a key holding nothing; LedgerInv, the conjunction of the three, is      *)
(* inductive.                                                              *)
(***************************************************************************)
EXTENDS UsageLedger, FiniteSetTheorems, TLAPS

(* UnitsOf for a given table of reservations.                              *)
UnitsIn(table, S) == {x \in S \X Units : x[2] <= table[x[1]].units}

(* A set of jobs has a natural number of units.                            *)
LEMMA UnitsInFinite ==
  ASSUME NEW table, NEW S \in SUBSET Job
  PROVE  IsFiniteSet(UnitsIn(table, S)) /\ Cardinality(UnitsIn(table, S)) \in Nat
<1>1. IsFiniteSet(Job) /\ MaxUnits \in Nat
  BY LedgerAssumption DEF LedgerAssumption
<1>2. IsFiniteSet(S)
  BY <1>1, FS_Subset
<1>3. IsFiniteSet(Units)
  BY <1>1, FS_Interval DEF Units
<1>4. IsFiniteSet(S \X Units)
  BY <1>2, <1>3, FS_Product
<1>5. UnitsIn(table, S) \in SUBSET (S \X Units)
  BY DEF UnitsIn
<1>6. IsFiniteSet(UnitsIn(table, S))
  BY <1>4, <1>5, FS_Subset
<1> QED
  BY <1>6, FS_CardinalityType

(* A job that joins a set brings its units along.                          *)
LEMMA UnitsInGrow ==
  ASSUME NEW f, NEW g, NEW S \in SUBSET Job, NEW j \in Job, j \notin S,
         NEW u \in Units, g[j].units = u,
         \A i \in S : g[i].units = f[i].units
  PROVE  Cardinality(UnitsIn(g, S \cup {j})) = Cardinality(UnitsIn(f, S)) + u
<1> DEFINE Block == {j} \X (1..u)
<1>1. u \in Nat /\ u >= 1 /\ 1..u \subseteq Units
  BY LedgerAssumption DEF LedgerAssumption, Units
<1>2. UnitsIn(g, S \cup {j}) = UnitsIn(f, S) \cup Block
  <2>1. ASSUME NEW x \in UnitsIn(g, S \cup {j})
        PROVE  x \in UnitsIn(f, S) \cup Block
    <3>1. x \in (S \cup {j}) \X Units /\ x[2] <= g[x[1]].units
      BY DEF UnitsIn
    <3>2. CASE x[1] \in S
      BY <3>1, <3>2 DEF UnitsIn
    <3>3. CASE x[1] = j
      BY <3>1, <3>3, <1>1 DEF Units
    <3> QED
      BY <3>1, <3>2, <3>3
  <2>2. ASSUME NEW x \in UnitsIn(f, S) \cup Block
        PROVE  x \in UnitsIn(g, S \cup {j})
    BY <1>1 DEF UnitsIn
  <2> QED
    BY <2>1, <2>2
<1>3. UnitsIn(f, S) \cap Block = {}
  BY DEF UnitsIn
<1>4. IsFiniteSet(1..u) /\ Cardinality(1..u) = u
  BY <1>1, FS_Interval
<1>5. IsFiniteSet({j}) /\ Cardinality({j}) = 1
  BY FS_Singleton
<1>6. IsFiniteSet(Block) /\ Cardinality(Block) = u
  <2>1. IsFiniteSet({j} \X (1..u))
        /\ Cardinality({j} \X (1..u)) = Cardinality({j}) * Cardinality(1..u)
    BY <1>4, <1>5, FS_Product
  <2>2. Cardinality({j}) * Cardinality(1..u) = u
    BY <1>1, <1>4, <1>5
  <2> QED
    BY <2>1, <2>2
<1>7. IsFiniteSet(UnitsIn(f, S)) /\ Cardinality(UnitsIn(f, S)) \in Nat
  BY UnitsInFinite
<1>8. Cardinality({}) = 0
  BY FS_EmptySet
<1> HIDE DEF Block
<1>9. Cardinality(UnitsIn(f, S) \cup Block) =
        Cardinality(UnitsIn(f, S)) + Cardinality(Block)
          - Cardinality(UnitsIn(f, S) \cap Block)
  BY <1>6, <1>7, FS_Union
<1>10. Cardinality(UnitsIn(f, S) \cap Block) = 0
  BY <1>3, <1>8
<1>11. Cardinality(UnitsIn(f, S) \cup Block) = Cardinality(UnitsIn(f, S)) + u
  BY <1>1, <1>6, <1>7, <1>9, <1>10
<1> QED
  BY <1>2, <1>11

(* The units of a set of jobs depend on the units of these jobs only.      *)
LEMMA UnitsInSame ==
  ASSUME NEW f, NEW g, NEW S, \A i \in S : g[i].units = f[i].units
  PROVE  UnitsIn(g, S) = UnitsIn(f, S)
BY DEF UnitsIn
(* The units of the jobs in one state in one bucket, for a given table.    *)
GroupUnits(f, b, s) ==
  Cardinality(UnitsIn(f, {i \in Job : f[i].state = s /\ f[i].group = b}))
KeyUnits(f, b, s) ==
  Cardinality(UnitsIn(f, {i \in Job : f[i].state = s /\ f[i].key = b}))

(* When one row enters a state, its units are added to its two buckets and *)
(* to no other.                                                            *)
LEMMA RowEnters ==
  ASSUME NEW f, NEW g, NEW j \in Job, NEW s,
         f[j].state # s, g[j].state = s, g[j].units \in Units,
         \A i \in Job \ {j} : g[i] = f[i]
  PROVE  /\ \A b : b # g[j].group => GroupUnits(g, b, s) = GroupUnits(f, b, s)
         /\ \A b : b # g[j].key => KeyUnits(g, b, s) = KeyUnits(f, b, s)
         /\ \A b : b = g[j].group => GroupUnits(g, b, s) = GroupUnits(f, b, s) + g[j].units
         /\ \A b : b = g[j].key => KeyUnits(g, b, s) = KeyUnits(f, b, s) + g[j].units
<1>1. ASSUME NEW b
      PROVE  /\ b # g[j].group => GroupUnits(g, b, s) = GroupUnits(f, b, s)
             /\ b = g[j].group => GroupUnits(g, b, s) = GroupUnits(f, b, s) + g[j].units
  <2> DEFINE S == {i \in Job : f[i].state = s /\ f[i].group = b}
             T == {i \in Job : g[i].state = s /\ g[i].group = b}
  <2>1. S \in SUBSET Job /\ j \notin S /\ \A i \in S : g[i].units = f[i].units
    OBVIOUS
  <2>2. Cardinality(UnitsIn(f, S)) \in Nat
    BY <2>1, UnitsInFinite
  <2>3. GroupUnits(f, b, s) = Cardinality(UnitsIn(f, S)) /\ GroupUnits(g, b, s) = Cardinality(UnitsIn(g, T))
    BY DEF GroupUnits
  <2>4. CASE b = g[j].group
    <3>1. T = S \cup {j}
      BY <2>4
    <3>2. Cardinality(UnitsIn(g, S \cup {j})) = Cardinality(UnitsIn(f, S)) + g[j].units
      <4> HIDE DEF S
      <4> QED
        BY <2>1, UnitsInGrow
    <3> QED
      BY <2>3, <2>4, <3>1, <3>2
  <2>5. CASE b # g[j].group
    <3>1. T = S
      BY <2>5
    <3>2. UnitsIn(g, S) = UnitsIn(f, S)
      <4> HIDE DEF S
      <4> QED
        BY <2>1, UnitsInSame
    <3> QED
      <4> HIDE DEF S, T
      <4> QED
        BY <2>2, <2>3, <2>5, <3>1, <3>2
  <2> QED
    BY <2>4, <2>5
<1>2. ASSUME NEW b
      PROVE  /\ b # g[j].key => KeyUnits(g, b, s) = KeyUnits(f, b, s)
             /\ b = g[j].key => KeyUnits(g, b, s) = KeyUnits(f, b, s) + g[j].units
  <2> DEFINE S == {i \in Job : f[i].state = s /\ f[i].key = b}
             T == {i \in Job : g[i].state = s /\ g[i].key = b}
  <2>1. S \in SUBSET Job /\ j \notin S /\ \A i \in S : g[i].units = f[i].units
    OBVIOUS
  <2>2. Cardinality(UnitsIn(f, S)) \in Nat
    BY <2>1, UnitsInFinite
  <2>3. KeyUnits(f, b, s) = Cardinality(UnitsIn(f, S)) /\ KeyUnits(g, b, s) = Cardinality(UnitsIn(g, T))
    BY DEF KeyUnits
  <2>4. CASE b = g[j].key
    <3>1. T = S \cup {j}
      BY <2>4
    <3>2. Cardinality(UnitsIn(g, S \cup {j})) = Cardinality(UnitsIn(f, S)) + g[j].units
      <4> HIDE DEF S
      <4> QED
        BY <2>1, UnitsInGrow
    <3> QED
      BY <2>3, <2>4, <3>1, <3>2
  <2>5. CASE b # g[j].key
    <3>1. T = S
      BY <2>5
    <3>2. UnitsIn(g, S) = UnitsIn(f, S)
      <4> HIDE DEF S
      <4> QED
        BY <2>1, UnitsInSame
    <3> QED
      <4> HIDE DEF S, T
      <4> QED
        BY <2>2, <2>3, <2>5, <3>1, <3>2
  <2> QED
    BY <2>4, <2>5
<1> QED
  BY <1>1, <1>2

(* A row that is not in a state, before and after, does not matter to it.  *)
LEMMA RowStaysOut ==
  ASSUME NEW f, NEW g, NEW j \in Job, NEW s,
         f[j].state # s, g[j].state # s,
         \A i \in Job \ {j} : g[i] = f[i]
  PROVE  \A b : GroupUnits(g, b, s) = GroupUnits(f, b, s) /\ KeyUnits(g, b, s) = KeyUnits(f, b, s)
<1> TAKE b
<1> DEFINE S == {i \in Job : f[i].state = s /\ f[i].group = b}
           T == {i \in Job : f[i].state = s /\ f[i].key = b}
<1>1. /\ {i \in Job : g[i].state = s /\ g[i].group = b} = S
      /\ {i \in Job : g[i].state = s /\ g[i].key = b} = T
  OBVIOUS
<1>2. \A i \in S \cup T : g[i].units = f[i].units
  OBVIOUS
<1> HIDE DEF S, T
<1>3. UnitsIn(g, S) = UnitsIn(f, S) /\ UnitsIn(g, T) = UnitsIn(f, T)
  BY <1>2, UnitsInSame
<1> QED
  BY <1>1, <1>3 DEF GroupUnits, KeyUnits, S, T

(* The units held or used in a bucket are a natural number.                *)
LEMMA UnitsNat ==
  \A f, b, s : GroupUnits(f, b, s) \in Nat /\ KeyUnits(f, b, s) \in Nat
<1> TAKE f, b, s
<1>1. /\ {i \in Job : f[i].state = s /\ f[i].group = b} \in SUBSET Job
      /\ {i \in Job : f[i].state = s /\ f[i].key = b} \in SUBSET Job
  OBVIOUS
<1> QED
  BY <1>1, UnitsInFinite DEF GroupUnits, KeyUnits
-----------------------------------------------------------------------------
(* LedgerBalanced for given tables.                                        *)
Balanced(f, gb, kb) ==
  /\ \A b \in GroupBucket : gb[b].reserved = GroupUnits(f, b, "reserved")
                         /\ gb[b].used = GroupUnits(f, b, "settled")
  /\ \A b \in KeyBucket : kb[b].reserved = KeyUnits(f, b, "reserved")
                       /\ kb[b].used = KeyUnits(f, b, "settled")

(* LedgerBalanced, spelled out for a given table and given buckets.        *)
LEMMA BalancedForm ==
  LedgerBalanced <=> Balanced(reservations, groupBuckets, keyBuckets)
<1>1. \A b, s : /\ Cardinality(UnitsOf(InGroup(b, s))) = GroupUnits(reservations, b, s)
                /\ Cardinality(UnitsOf(OfKey(b, s))) = KeyUnits(reservations, b, s)
  BY DEF UnitsOf, UnitsIn, InGroup, OfKey, GroupUnits, KeyUnits
<1> QED
  BY <1>1 DEF LedgerBalanced, Balanced

(* The same after a step.                                                  *)
LEMMA BalancedFormNext ==
  LedgerBalanced' <=> Balanced(reservations', groupBuckets', keyBuckets')
<1>1. \A b, s : /\ Cardinality(UnitsOf(InGroup(b, s))') = GroupUnits(reservations', b, s)
                /\ Cardinality(UnitsOf(OfKey(b, s))') = KeyUnits(reservations', b, s)
  BY DEF UnitsOf, UnitsIn, InGroup, OfKey, GroupUnits, KeyUnits
<1> QED
  BY <1>1 DEF LedgerBalanced, Balanced

LedgerInv == LedgerTypeOK /\ LedgerBalanced /\ HeldInCurrentEpoch

(* A row that is in a state of the table is a row of the table.            *)
LEMMA ReservationRow ==
  ASSUME LedgerTypeOK, NEW j \in Job,
         reservations[j].state \in {"reserved", "settled", "released"}
  PROVE  reservations[j] \in Reservation
BY DEF LedgerTypeOK, NoReservation

(* An empty ledger is balanced.                                            *)
LEMMA LedgerInitInv ==
  ASSUME LedgerInit
  PROVE  LedgerInv
<1> USE LedgerAssumption DEF LedgerAssumption
<1>1. LedgerTypeOK
  BY DEF LedgerInit, LedgerTypeOK, Bucket, EmptyBucket, Epoch
<1>2. \A b, s : s # "none" => InGroup(b, s) = {} /\ OfKey(b, s) = {}
  BY DEF LedgerInit, NoReservation, InGroup, OfKey
<1>3. UnitsOf({}) = {} /\ Cardinality({}) = 0
  BY FS_EmptySet DEF UnitsOf
<1>4. LedgerBalanced
  BY <1>2, <1>3 DEF LedgerInit, LedgerBalanced, EmptyBucket
<1>5. HeldInCurrentEpoch
  BY DEF LedgerInit, HeldInCurrentEpoch, NoReservation
<1> QED
  BY <1>1, <1>4, <1>5 DEF LedgerInv

(* A reservation keeps the ledger balanced.                                *)
LEMMA ReserveInv ==
  ASSUME LedgerInv, NEW j \in Job, NEW p \in Principal, NEW u \in Units,
         Reserve(j, p, u)
  PROVE  LedgerInv'
<1> DEFINE b == <<p.user, p.group, today>>
           k == <<p.key, quotaEpoch[p.key]>>
           row == [state |-> "reserved", group |-> b, key |-> k, units |-> u]
<1> USE LedgerAssumption DEF LedgerAssumption
<1>1. p \in [user : User, group : Group, key : Key] /\ u \in Nat
  BY DEF Units
<1>2. b \in GroupBucket /\ k \in KeyBucket /\ row \in Reservation
  BY <1>1 DEF LedgerInv, LedgerTypeOK, GroupBucket, KeyBucket, Reservation
<1>3. k[1] \in Key /\ k[2] = quotaEpoch[k[1]] /\ quotaEpoch[k[1]] \in Nat
  BY <1>1 DEF LedgerInv, LedgerTypeOK, Epoch
<1>4. /\ reservations[j] = NoReservation
      /\ reservations' = [reservations EXCEPT ![j] = row]
      /\ groupBuckets' = [groupBuckets EXCEPT ![b].reserved = @ + u]
      /\ keyBuckets' = [keyBuckets EXCEPT ![k].reserved = @ + u]
      /\ usageEvents' = usageEvents \cup {<<j, "reserve">>}
      /\ UNCHANGED <<quotaEpoch, keyQuota, dailyQuota, today, erased>>
  BY DEF Reserve
<1>5. row.state = "reserved" /\ row.group = b /\ row.key = k /\ row.units = u
  OBVIOUS
<1> HIDE DEF b, k, row
<1>6. LedgerTypeOK'
  BY <1>1, <1>2, <1>4 DEF LedgerInv, LedgerTypeOK, Bucket, Event
<1>7. /\ reservations[j].state = "none"
      /\ reservations'[j] = row
      /\ \A i \in Job \ {j} : reservations'[i] = reservations[i]
  BY <1>4 DEF LedgerInv, LedgerTypeOK, NoReservation
<1>8. /\ \A c : c # b => GroupUnits(reservations', c, "reserved") = GroupUnits(reservations, c, "reserved")
      /\ \A c : c # k => KeyUnits(reservations', c, "reserved") = KeyUnits(reservations, c, "reserved")
      /\ GroupUnits(reservations', b, "reserved") = GroupUnits(reservations, b, "reserved") + u
      /\ KeyUnits(reservations', k, "reserved") = KeyUnits(reservations, k, "reserved") + u
  <2>1. /\ reservations[j].state # "reserved"
        /\ reservations'[j].state = "reserved"
        /\ reservations'[j].units \in Units
        /\ \A i \in Job \ {j} : reservations'[i] = reservations[i]
    BY <1>5, <1>7
  <2>2. /\ reservations'[j].group = b
        /\ reservations'[j].key = k
        /\ reservations'[j].units = u
    BY <1>5, <1>7
  <2> QED
    BY ONLY j \in Job, <2>1, <2>2, RowEnters
<1>9. \A c : /\ GroupUnits(reservations', c, "settled") = GroupUnits(reservations, c, "settled")
             /\ KeyUnits(reservations', c, "settled") = KeyUnits(reservations, c, "settled")
  <2>1. reservations[j].state # "settled" /\ reservations'[j].state # "settled"
    BY <1>5, <1>7
  <2> QED
    BY ONLY j \in Job, <2>1, <1>7, RowStaysOut
<1>10. Balanced(reservations, groupBuckets, keyBuckets)
  BY BalancedForm DEF LedgerInv
<1>11. Balanced(reservations', groupBuckets', keyBuckets')
  <2>1. \A c \in GroupBucket :
          /\ groupBuckets'[c].used = groupBuckets[c].used
          /\ c # b => groupBuckets'[c].reserved = groupBuckets[c].reserved
          /\ c = b => groupBuckets'[c].reserved = groupBuckets[c].reserved + u
    BY <1>1, <1>2, <1>4 DEF LedgerInv, LedgerTypeOK, Bucket
  <2>2. \A c \in KeyBucket :
          /\ keyBuckets'[c].used = keyBuckets[c].used
          /\ c # k => keyBuckets'[c].reserved = keyBuckets[c].reserved
          /\ c = k => keyBuckets'[c].reserved = keyBuckets[c].reserved + u
    BY <1>1, <1>2, <1>4 DEF LedgerInv, LedgerTypeOK, Bucket
  <2>3. ASSUME NEW c \in GroupBucket
        PROVE  /\ groupBuckets'[c].reserved = GroupUnits(reservations', c, "reserved")
               /\ groupBuckets'[c].used = GroupUnits(reservations', c, "settled")
    BY <1>8, <1>9, <1>10, <2>1 DEF Balanced
  <2>4. ASSUME NEW c \in KeyBucket
        PROVE  /\ keyBuckets'[c].reserved = KeyUnits(reservations', c, "reserved")
               /\ keyBuckets'[c].used = KeyUnits(reservations', c, "settled")
    BY <1>8, <1>9, <1>10, <2>2 DEF Balanced
  <2> QED
    BY <2>3, <2>4 DEF Balanced
<1>12. HeldInCurrentEpoch'
  <2>1. \A i \in Job : reservations'[i].state = "reserved" =>
          reservations'[i].key[2] = quotaEpoch'[reservations'[i].key[1]]
    BY <1>3, <1>4, <1>5, <1>7 DEF LedgerInv, HeldInCurrentEpoch
  <2>2. ASSUME NEW c \in KeyBucket, c[2] > quotaEpoch'[c[1]]
        PROVE  keyBuckets'[c] = EmptyBucket
    <3>1. c # k
      BY <1>3, <1>4, <2>2
    <3>2. keyBuckets'[c] = keyBuckets[c]
      BY <1>2, <1>4, <3>1 DEF LedgerInv, LedgerTypeOK
    <3> QED
      BY <1>4, <2>2, <3>2 DEF LedgerInv, HeldInCurrentEpoch
  <2> QED
    BY <2>1, <2>2 DEF HeldInCurrentEpoch
<1> QED
  BY <1>6, <1>11, <1>12, BalancedFormNext DEF LedgerInv

(* A settlement keeps the ledger balanced; the units it takes from the     *)
(* buckets are there.                                                      *)
LEMMA SettleInv ==
  ASSUME LedgerInv, NEW j \in Job, NEW charged \in BOOLEAN, Settle(j, charged)
  PROVE  LedgerInv'
<1>1. CASE reservations[j].state # "reserved"
  <2>1. UNCHANGED ledgerVars
    BY <1>1 DEF Settle
  <2>2. LedgerTypeOK' /\ HeldInCurrentEpoch'
    BY <2>1 DEF LedgerInv, LedgerTypeOK, HeldInCurrentEpoch, ledgerVars
  <2>3. Balanced(reservations', groupBuckets', keyBuckets')
    BY <2>1, BalancedForm DEF LedgerInv, ledgerVars
  <2> QED
    BY <2>2, <2>3, BalancedFormNext DEF LedgerInv
<1>2. CASE reservations[j].state = "reserved"
  <2> DEFINE b == reservations[j].group
             k == reservations[j].key
             u == reservations[j].units
             end == IF charged THEN "settled" ELSE "released"
             spent == IF charged THEN u ELSE 0
  <2>1. reservations[j] \in Reservation
    BY <1>2, ReservationRow DEF LedgerInv
  <2>2. b \in GroupBucket /\ k \in KeyBucket /\ u \in Units /\ u \in Nat /\ spent \in Nat
    BY <2>1, LedgerAssumption DEF LedgerAssumption, Reservation, Units
  <2>3. /\ groupBuckets' = [groupBuckets EXCEPT ![b].reserved = @ - u, ![b].used = @ + spent]
        /\ keyBuckets' = [keyBuckets EXCEPT ![k].reserved = @ - u, ![k].used = @ + spent]
        /\ reservations' = [reservations EXCEPT ![j].state = end]
        /\ usageEvents' = usageEvents \cup {<<j, IF charged THEN "settle" ELSE "release">>}
        /\ UNCHANGED <<quotaEpoch, keyQuota, dailyQuota, today, erased>>
    BY <1>2 DEF Settle
  <2>4. /\ reservations' \in [Job -> Reservation \cup {NoReservation}]
        /\ reservations'[j].group = b /\ reservations'[j].key = k
        /\ reservations'[j].units = u /\ reservations'[j].state = end
        /\ \A i \in Job \ {j} : reservations'[i] = reservations[i]
    BY <2>1, <2>3 DEF LedgerInv, LedgerTypeOK, Reservation
  <2>5. /\ \A c : c # b => GroupUnits(reservations', c, "reserved") = GroupUnits(reservations, c, "reserved")
        /\ \A c : c # k => KeyUnits(reservations', c, "reserved") = KeyUnits(reservations, c, "reserved")
        /\ GroupUnits(reservations, b, "reserved") = GroupUnits(reservations', b, "reserved") + u
        /\ KeyUnits(reservations, k, "reserved") = KeyUnits(reservations', k, "reserved") + u
    <3>1. /\ reservations'[j].state # "reserved"
          /\ reservations[j].state = "reserved"
          /\ reservations[j].units \in Units
          /\ \A i \in Job \ {j} : reservations[i] = reservations'[i]
      BY <1>2, <2>2, <2>4
    <3> QED
      BY ONLY j \in Job, <3>1, RowEnters
  <2>6. /\ \A c : c # b => GroupUnits(reservations', c, "settled") = GroupUnits(reservations, c, "settled")
        /\ \A c : c # k => KeyUnits(reservations', c, "settled") = KeyUnits(reservations, c, "settled")
        /\ GroupUnits(reservations', b, "settled") = GroupUnits(reservations, b, "settled") + spent
        /\ KeyUnits(reservations', k, "settled") = KeyUnits(reservations, k, "settled") + spent
    <3>1. CASE charged
      <4>1. /\ reservations[j].state # "settled"
            /\ reservations'[j].state = "settled"
            /\ reservations'[j].units \in Units
            /\ \A i \in Job \ {j} : reservations'[i] = reservations[i]
        BY <1>2, <2>2, <2>4, <3>1
      <4>2. /\ reservations'[j].group = b
            /\ reservations'[j].key = k
            /\ reservations'[j].units = spent
        BY <2>4, <3>1
      <4> HIDE DEF b, k, spent
      <4> QED
        BY ONLY j \in Job, <4>1, <4>2, RowEnters
    <3>2. CASE ~charged
      <4>1. /\ reservations[j].state # "settled"
            /\ reservations'[j].state # "settled"
            /\ \A i \in Job \ {j} : reservations'[i] = reservations[i]
        BY <1>2, <2>4, <3>2
      <4>2. \A c : /\ GroupUnits(reservations', c, "settled") = GroupUnits(reservations, c, "settled")
                   /\ KeyUnits(reservations', c, "settled") = KeyUnits(reservations, c, "settled")
        BY ONLY j \in Job, <4>1, RowStaysOut
      <4> QED
        BY <3>2, <4>2, UnitsNat
    <3> QED
      BY <3>1, <3>2
  <2> HIDE DEF b, k, u, end, spent
  <2>7. Balanced(reservations, groupBuckets, keyBuckets)
    BY BalancedForm DEF LedgerInv
  <2>8. ASSUME NEW c \in GroupBucket
        PROVE  /\ groupBuckets'[c] \in Bucket
               /\ groupBuckets'[c].reserved = GroupUnits(reservations', c, "reserved")
               /\ groupBuckets'[c].used = GroupUnits(reservations', c, "settled")
    <3>1. /\ groupBuckets[c] \in Bucket
          /\ groupBuckets[c].reserved = GroupUnits(reservations, c, "reserved")
          /\ groupBuckets[c].used = GroupUnits(reservations, c, "settled")
      BY <2>7 DEF LedgerInv, LedgerTypeOK, Balanced
    <3>2. CASE c # b
      BY <2>2, <2>3, <2>5, <2>6, <3>1, <3>2 DEF LedgerInv, LedgerTypeOK
    <3>3. CASE c = b
      <4>1. groupBuckets'[c] = [reserved |-> groupBuckets[c].reserved - u,
                                used |-> groupBuckets[c].used + spent]
        BY <2>2, <2>3, <3>1, <3>3 DEF LedgerInv, LedgerTypeOK, Bucket
      <4>2. GroupUnits(reservations', c, "reserved") \in Nat
        BY UnitsNat
      <4> QED
        BY <2>2, <2>5, <2>6, <3>1, <3>3, <4>1, <4>2 DEF Bucket
    <3> QED
      BY <3>2, <3>3
  <2>9. ASSUME NEW c \in KeyBucket
        PROVE  /\ keyBuckets'[c] \in Bucket
               /\ keyBuckets'[c].reserved = KeyUnits(reservations', c, "reserved")
               /\ keyBuckets'[c].used = KeyUnits(reservations', c, "settled")
    <3>1. /\ keyBuckets[c] \in Bucket
          /\ keyBuckets[c].reserved = KeyUnits(reservations, c, "reserved")
          /\ keyBuckets[c].used = KeyUnits(reservations, c, "settled")
      BY <2>7 DEF LedgerInv, LedgerTypeOK, Balanced
    <3>2. CASE c # k
      BY <2>2, <2>3, <2>5, <2>6, <3>1, <3>2 DEF LedgerInv, LedgerTypeOK
    <3>3. CASE c = k
      <4>1. keyBuckets'[c] = [reserved |-> keyBuckets[c].reserved - u,
                              used |-> keyBuckets[c].used + spent]
        BY <2>2, <2>3, <3>1, <3>3 DEF LedgerInv, LedgerTypeOK, Bucket
      <4>2. KeyUnits(reservations', c, "reserved") \in Nat
        BY UnitsNat
      <4> QED
        BY <2>2, <2>5, <2>6, <3>1, <3>3, <4>1, <4>2 DEF Bucket
    <3> QED
      BY <3>2, <3>3
  <2>10. LedgerTypeOK'
    <3>1. groupBuckets' \in [GroupBucket -> Bucket] /\ keyBuckets' \in [KeyBucket -> Bucket]
      BY <2>3, <2>8, <2>9 DEF LedgerInv, LedgerTypeOK
    <3> QED
      BY <2>3, <2>4, <3>1 DEF LedgerInv, LedgerTypeOK, Event
  <2>11. Balanced(reservations', groupBuckets', keyBuckets')
    BY <2>8, <2>9 DEF Balanced
  <2>12. HeldInCurrentEpoch'
    <3>1. k[1] \in Key /\ k[2] \in Nat /\ k[2] = quotaEpoch[k[1]]
      BY <1>2, <2>2, LedgerAssumption
      DEF LedgerAssumption, LedgerInv, LedgerTypeOK, HeldInCurrentEpoch, KeyBucket, Epoch, k
    <3>2. \A i \in Job : reservations'[i].state = "reserved" =>
            reservations'[i].key[2] = quotaEpoch'[reservations'[i].key[1]]
      BY <2>3, <2>4 DEF LedgerInv, HeldInCurrentEpoch, end
    <3>3. ASSUME NEW c \in KeyBucket, c[2] > quotaEpoch'[c[1]]
          PROVE  keyBuckets'[c] = EmptyBucket
      <4>1. c # k
        BY <2>3, <3>1, <3>3
      <4>2. keyBuckets'[c] = keyBuckets[c]
        BY <2>2, <2>3, <4>1 DEF LedgerInv, LedgerTypeOK
      <4> QED
        BY <2>3, <3>3, <4>2 DEF LedgerInv, HeldInCurrentEpoch
    <3> QED
      BY <3>2, <3>3 DEF HeldInCurrentEpoch
  <2> QED
    BY <2>10, <2>11, <2>12, BalancedFormNext DEF LedgerInv
<1> QED
  BY <1>1, <1>2

(* A quota reset opens an epoch that was empty and closes one that holds   *)
(* nothing.                                                                *)
LEMMA ResetInv ==
  ASSUME LedgerInv, NEW k \in Key, ResetKeyQuota(k)
  PROVE  LedgerInv'
<1> DEFINE e == quotaEpoch[k]
<1>1. e \in Nat /\ e + 1 \in Epoch /\ <<k, e + 1>> \in KeyBucket /\ LastEpoch \in Nat
  BY LedgerAssumption DEF LedgerAssumption, LedgerInv, LedgerTypeOK, Epoch, KeyBucket, ResetKeyQuota
<1>2. keyBuckets[<<k, e + 1>>] = EmptyBucket
  BY <1>1 DEF LedgerInv, HeldInCurrentEpoch
<1>3. /\ keyBuckets' = keyBuckets
      /\ quotaEpoch' = [quotaEpoch EXCEPT ![k] = e + 1]
      /\ \A j \in Job : reservations[j].state = "reserved" => reservations[j].key[1] # k
      /\ UNCHANGED <<reservations, groupBuckets, usageEvents, keyQuota, dailyQuota,
                     today, erased>>
  BY <1>1, <1>2 DEF LedgerInv, LedgerTypeOK, ResetKeyQuota
<1> HIDE DEF e
<1>4. LedgerTypeOK'
  BY <1>1, <1>3 DEF LedgerInv, LedgerTypeOK
<1>5. Balanced(reservations', groupBuckets', keyBuckets')
  BY <1>3, BalancedForm DEF LedgerInv
<1>6. \A c \in Key : /\ c # k => quotaEpoch'[c] = quotaEpoch[c]
                     /\ c = k => quotaEpoch'[c] = quotaEpoch[c] + 1
  BY <1>1, <1>3 DEF LedgerInv, LedgerTypeOK, e
<1>7. ASSUME NEW j \in Job, reservations'[j].state = "reserved"
      PROVE  reservations'[j].key[2] = quotaEpoch'[reservations'[j].key[1]]
  <2>1. reservations[j] \in Reservation
    BY <1>3, <1>7, ReservationRow DEF LedgerInv
  <2>2. reservations[j].key[1] \in Key /\ reservations[j].key[1] # k
    BY <1>3, <1>7, <2>1 DEF Reservation, KeyBucket
  <2> QED
    BY <1>3, <1>6, <1>7, <2>2 DEF LedgerInv, HeldInCurrentEpoch
<1>8. ASSUME NEW c \in KeyBucket, c[2] > quotaEpoch'[c[1]]
      PROVE  keyBuckets'[c] = EmptyBucket
  <2>1. c[1] \in Key /\ c[2] \in Nat /\ quotaEpoch[c[1]] \in Nat
    BY LedgerAssumption DEF LedgerAssumption, LedgerInv, LedgerTypeOK, Epoch, KeyBucket
  <2>2. c[2] > quotaEpoch[c[1]]
    BY <1>6, <1>8, <2>1
  <2> QED
    BY <1>3, <2>2 DEF LedgerInv, HeldInCurrentEpoch
<1>9. HeldInCurrentEpoch'
  BY <1>7, <1>8 DEF HeldInCurrentEpoch
<1> QED
  BY <1>4, <1>5, <1>9, BalancedFormNext DEF LedgerInv

(* The steps that do not touch the buckets: quotas change, rows are        *)
(* deleted, midnight passes.                                               *)
Aside ==
  \/ \E k \in Key, quota \in KeyQuotas : SetKeyQuota(k, quota)
  \/ \E g \in Group, quota \in DailyQuotas : SetDailyQuota(g, quota)
  \/ \E j \in Job : EraseUsage(j)
  \/ NextDay
  \/ UNCHANGED ledgerVars

(* They leave the ledger balanced.                                         *)
LEMMA OtherInv ==
  ASSUME LedgerInv, Aside
  PROVE  LedgerInv'
<1>1. UNCHANGED <<reservations, groupBuckets, keyBuckets, quotaEpoch>>
  BY DEF Aside, SetKeyQuota, SetDailyQuota, EraseUsage, NextDay, ledgerVars
<1>2. LedgerTypeOK'
  BY LedgerAssumption
  DEF LedgerAssumption, LedgerInv, LedgerTypeOK, Aside, SetKeyQuota, SetDailyQuota,
      EraseUsage, NextDay, ledgerVars
<1>3. Balanced(reservations', groupBuckets', keyBuckets')
  BY <1>1, BalancedForm DEF LedgerInv
<1>4. HeldInCurrentEpoch'
  BY <1>1 DEF LedgerInv, HeldInCurrentEpoch
<1> QED
  BY <1>2, <1>3, <1>4, BalancedFormNext DEF LedgerInv

(* Every step of the ledger keeps it balanced.                             *)
LEMMA LedgerStepInv ==
  ASSUME LedgerInv, [LedgerNext]_ledgerVars
  PROVE  LedgerInv'
<1>1. ASSUME NEW j \in Job, NEW p \in Principal, NEW u \in Units, Reserve(j, p, u)
      PROVE  LedgerInv'
  BY <1>1, ReserveInv
<1>2. ASSUME NEW j \in Job, NEW charged \in BOOLEAN, Settle(j, charged)
      PROVE  LedgerInv'
  BY <1>2, SettleInv
<1>3. ASSUME NEW k \in Key, ResetKeyQuota(k)
      PROVE  LedgerInv'
  BY <1>3, ResetInv
<1>4. CASE Aside
  BY <1>4, OtherInv
<1> QED
  BY <1>1, <1>2, <1>3, <1>4 DEF LedgerNext, Aside

(* The ledger is typed and balanced, and closed epochs hold nothing, at    *)
(* all times.                                                              *)
THEOREM LedgerInvariant == LedgerSpec => []LedgerInv
<1>1. LedgerInit => LedgerInv
  BY LedgerInitInv
<1>2. LedgerInv /\ [LedgerNext]_ledgerVars => LedgerInv'
  BY LedgerStepInv
<1> QED
  BY <1>1, <1>2, PTL DEF LedgerSpec

(* The rows keep their types; in particular no settlement is refused by    *)
(* the CHECK that a bucket's counters are not negative.                    *)
THEOREM LedgerTypeCorrect == LedgerSpec => []LedgerTypeOK
<1>1. LedgerInv => LedgerTypeOK
  BY DEF LedgerInv
<1> QED
  BY <1>1, LedgerInvariant, PTL

(* The counters of every bucket are the sums of the reservations.          *)
THEOREM LedgerIsBalanced == LedgerSpec => []LedgerBalanced
<1>1. LedgerInv => LedgerBalanced
  BY DEF LedgerInv
<1> QED
  BY <1>1, LedgerInvariant, PTL

(* Nothing is held in an epoch that a quota reset has closed.              *)
THEOREM ResetLeavesNothingBehind == LedgerSpec => []HeldInCurrentEpoch
<1>1. LedgerInv => HeldInCurrentEpoch
  BY DEF LedgerInv
<1> QED
  BY <1>1, LedgerInvariant, PTL
-----------------------------------------------------------------------------
(* What the counters of a bucket come to.                                  *)
KeyCount(b)   == keyBuckets[b].reserved + keyBuckets[b].used
GroupCount(b) == groupBuckets[b].reserved + groupBuckets[b].used

(* The counters come to what jobs hold and were charged.                   *)
LEMMA TotalsAreCounted ==
  ASSUME LedgerInv
  PROVE  /\ \A b \in KeyBucket : KeyTotal(b) = KeyCount(b) /\ KeyTotal(b) \in Nat
         /\ \A b \in GroupBucket : GroupTotal(b) = GroupCount(b) /\ GroupTotal(b) \in Nat
BY DEF LedgerInv, LedgerBalanced, LedgerTypeOK, Bucket, KeyTotal, GroupTotal, KeyCount, GroupCount

(* The same after a step.                                                  *)
LEMMA TotalsAreCountedNext ==
  ASSUME LedgerInv'
  PROVE  /\ \A b \in KeyBucket : KeyTotal(b)' = KeyCount(b)' /\ KeyTotal(b)' \in Nat
         /\ \A b \in GroupBucket : GroupTotal(b)' = GroupCount(b)' /\ GroupTotal(b)' \in Nat
BY DEF LedgerInv, LedgerBalanced, LedgerTypeOK, Bucket, KeyTotal, GroupTotal, KeyCount, GroupCount

(* QuotaHeld of a step, in terms of the counters.                          *)
CountersHeld ==
  /\ \A b \in KeyBucket :
       KeyCount(b)' > KeyCount(b) /\ keyQuota[b[1]] # 0 => KeyCount(b)' <= keyQuota[b[1]]
  /\ \A b \in GroupBucket :
       GroupCount(b)' > GroupCount(b) /\ dailyQuota[b[2]] # 0 => GroupCount(b)' <= dailyQuota[b[2]]

(* Only a reservation adds to what is held and used, and it was checked.   *)
LEMMA CountersStep ==
  ASSUME LedgerInv, [LedgerNext]_ledgerVars
  PROVE  CountersHeld
<1> USE LedgerAssumption DEF LedgerAssumption
<1>a. /\ \A c \in KeyBucket : c[1] \in Key /\ keyBuckets[c] \in Bucket
      /\ \A c \in GroupBucket : c[2] \in Group /\ groupBuckets[c] \in Bucket
  BY DEF KeyBucket, GroupBucket, LedgerInv, LedgerTypeOK
<1>b. /\ \A k \in Key : keyQuota[k] \in Nat
      /\ \A g \in Group : dailyQuota[g] \in Nat
  BY DEF LedgerInv, LedgerTypeOK
<1>1. ASSUME NEW j \in Job, NEW p \in Principal, NEW u \in Units, Reserve(j, p, u)
      PROVE  CountersHeld
  <2> DEFINE b == <<p.user, p.group, today>>
             k == <<p.key, quotaEpoch[p.key]>>
  <2>1. /\ groupBuckets' = [groupBuckets EXCEPT ![b].reserved = @ + u]
        /\ keyBuckets' = [keyBuckets EXCEPT ![k].reserved = @ + u]
        /\ ~Exhausted(keyQuota[p.key], keyBuckets[k], u)
        /\ ~Exhausted(dailyQuota[p.group], groupBuckets[b], u)
    BY <1>1 DEF Reserve
  <2>2. p \in [user : User, group : Group, key : Key] /\ u \in Nat
    BY DEF Units
  <2>3. b \in GroupBucket /\ k \in KeyBucket /\ b[2] = p.group /\ k[1] = p.key
    BY <2>2 DEF LedgerInv, LedgerTypeOK, GroupBucket, KeyBucket
  <2> HIDE DEF b, k
  <2>4. ASSUME NEW c \in KeyBucket, KeyCount(c)' > KeyCount(c), keyQuota[c[1]] # 0
        PROVE  KeyCount(c)' <= keyQuota[c[1]]
    <3>1. CASE c = k
      <4>1. keyBuckets'[c].used = keyBuckets[c].used
            /\ keyBuckets'[c].reserved = keyBuckets[c].reserved + u
        BY <2>1, <1>a, <3>1 DEF LedgerInv, LedgerTypeOK, Bucket
      <4> QED
        BY <2>1, <2>2, <2>3, <2>4, <1>a, <1>b, <3>1, <4>1 DEF Exhausted, Bucket, KeyCount
    <3>2. CASE c # k
      <4>1. keyBuckets'[c] = keyBuckets[c]
        BY <2>1, <3>2 DEF LedgerInv, LedgerTypeOK
      <4> QED
        BY <2>4, <4>1, <1>a DEF KeyCount, Bucket
    <3> QED
      BY <3>1, <3>2
  <2>5. ASSUME NEW c \in GroupBucket, GroupCount(c)' > GroupCount(c), dailyQuota[c[2]] # 0
        PROVE  GroupCount(c)' <= dailyQuota[c[2]]
    <3>1. CASE c = b
      <4>1. groupBuckets'[c].used = groupBuckets[c].used
            /\ groupBuckets'[c].reserved = groupBuckets[c].reserved + u
        BY <2>1, <1>a, <3>1 DEF LedgerInv, LedgerTypeOK, Bucket
      <4> QED
        BY <2>1, <2>2, <2>3, <2>5, <1>a, <1>b, <3>1, <4>1 DEF Exhausted, Bucket, GroupCount
    <3>2. CASE c # b
      <4>1. groupBuckets'[c] = groupBuckets[c]
        BY <2>1, <3>2 DEF LedgerInv, LedgerTypeOK
      <4> QED
        BY <2>5, <4>1, <1>a DEF GroupCount, Bucket
    <3> QED
      BY <3>1, <3>2
  <2> QED
    BY <2>4, <2>5 DEF CountersHeld
<1>2. CASE UNCHANGED <<groupBuckets, keyBuckets>>
  BY <1>2, <1>a DEF CountersHeld, KeyCount, GroupCount, Bucket
<1>3. ASSUME NEW j \in Job, NEW charged \in BOOLEAN, Settle(j, charged),
             reservations[j].state = "reserved"
      PROVE  CountersHeld
  <2> DEFINE b == reservations[j].group
             k == reservations[j].key
             u == reservations[j].units
             spent == IF charged THEN u ELSE 0
  <2>1. /\ groupBuckets' = [groupBuckets EXCEPT ![b].reserved = @ - u, ![b].used = @ + spent]
        /\ keyBuckets' = [keyBuckets EXCEPT ![k].reserved = @ - u, ![k].used = @ + spent]
    BY <1>3 DEF Settle
  <2>2. reservations[j] \in Reservation
    BY <1>3, ReservationRow DEF LedgerInv
  <2>3. b \in GroupBucket /\ k \in KeyBucket /\ u \in Nat /\ spent \in Nat /\ spent <= u
    BY <2>2 DEF Reservation, Units
  <2> HIDE DEF b, k, u, spent
  <2>4. ASSUME NEW c \in KeyBucket
        PROVE  ~(KeyCount(c)' > KeyCount(c))
    BY <2>1, <2>3, <1>a DEF LedgerInv, LedgerTypeOK, Bucket, KeyCount
  <2>5. ASSUME NEW c \in GroupBucket
        PROVE  ~(GroupCount(c)' > GroupCount(c))
    BY <2>1, <2>3, <1>a DEF LedgerInv, LedgerTypeOK, Bucket, GroupCount
  <2> QED
    BY <2>4, <2>5 DEF CountersHeld
<1>4. ASSUME NEW k \in Key, ResetKeyQuota(k)
      PROVE  CountersHeld
  <2>1. /\ keyBuckets' = [keyBuckets EXCEPT ![<<k, quotaEpoch[k] + 1>>] = EmptyBucket]
        /\ groupBuckets' = groupBuckets
    BY <1>4 DEF ResetKeyQuota
  <2>2. ASSUME NEW c \in KeyBucket
        PROVE  ~(KeyCount(c)' > KeyCount(c))
    <3>1. keyBuckets'[c] = EmptyBucket \/ keyBuckets'[c] = keyBuckets[c]
      BY <2>1 DEF LedgerInv, LedgerTypeOK
    <3> QED
      BY <1>a, <3>1 DEF KeyCount, EmptyBucket, Bucket
  <2>3. ASSUME NEW c \in GroupBucket
        PROVE  ~(GroupCount(c)' > GroupCount(c))
    BY <1>a, <2>1 DEF GroupCount, Bucket
  <2> QED
    BY <2>2, <2>3 DEF CountersHeld
<1> QED
  BY <1>1, <1>2, <1>3, <1>4
  DEF LedgerNext, Settle, SetKeyQuota, SetDailyQuota, EraseUsage, NextDay, ledgerVars

(* QuotaHeld, of one step.                                                 *)
TotalsHeld ==
  /\ \A b \in KeyBucket :
       KeyTotal(b)' > KeyTotal(b) /\ keyQuota[b[1]] # 0 => KeyTotal(b)' <= keyQuota[b[1]]
  /\ \A b \in GroupBucket :
       GroupTotal(b)' > GroupTotal(b) /\ dailyQuota[b[2]] # 0 => GroupTotal(b)' <= dailyQuota[b[2]]

(* Every step of the ledger keeps it.                                      *)
LEMMA QuotaStep ==
  ASSUME LedgerInv, [LedgerNext]_ledgerVars
  PROVE  TotalsHeld
<1>1. LedgerInv' /\ CountersHeld
  BY LedgerStepInv, CountersStep
<1> HIDE DEF LedgerInv
<1>2. \A b \in KeyBucket : KeyTotal(b) = KeyCount(b) /\ KeyTotal(b)' = KeyCount(b)'
  BY <1>1, TotalsAreCounted, TotalsAreCountedNext
<1>3. \A b \in GroupBucket : GroupTotal(b) = GroupCount(b) /\ GroupTotal(b)' = GroupCount(b)'
  BY <1>1, TotalsAreCounted, TotalsAreCountedNext
<1> QED
  BY <1>1, <1>2, <1>3 DEF CountersHeld, TotalsHeld

(* Nothing is added beyond the quota in force, however admissions,         *)
(* settlements, resets, changes of quotas and days follow each other.      *)
THEOREM QuotasAreHeld == LedgerSpec => QuotaHeld
<1>1. LedgerInv /\ [LedgerNext]_ledgerVars => TotalsHeld
  BY QuotaStep
<1>2. TotalsHeld => [TotalsHeld]_ledgerVars
  OBVIOUS
<1> QED
  BY <1>1, LedgerInvariant, PTL DEF LedgerSpec, QuotaHeld, TotalsHeld

(* A quota as it is set now bounds what there is only if it was not        *)
(* lowered: as long as a key's quota has always been between 1 and N, its  *)
(* jobs hold and were charged at most N units in each epoch.               *)
THEOREM KeyQuotaBounds ==
  ASSUME NEW b \in KeyBucket, NEW N \in Nat
  PROVE  LedgerSpec /\ [](keyQuota[b[1]] \in 1..N) => [](KeyTotal(b) <= N)
<1>1. LedgerInit => KeyTotal(b) <= N
  <2> SUFFICES ASSUME LedgerInit PROVE KeyTotal(b) <= N
    OBVIOUS
  <2>1. KeyTotal(b) = KeyCount(b)
    BY LedgerInitInv, TotalsAreCounted
  <2>2. KeyCount(b) = 0
    BY DEF LedgerInit, KeyCount, EmptyBucket
  <2> QED
    BY <2>1, <2>2
<1>2. LedgerInv /\ [LedgerNext]_ledgerVars /\ keyQuota[b[1]] \in 1..N /\ KeyTotal(b) <= N
        => (KeyTotal(b) <= N)'
  <2> SUFFICES ASSUME LedgerInv, [LedgerNext]_ledgerVars, keyQuota[b[1]] \in 1..N,
                      KeyTotal(b) <= N
               PROVE  KeyTotal(b)' <= N
    OBVIOUS
  <2>1. TotalsHeld /\ KeyTotal(b) \in Nat /\ KeyTotal(b)' \in Nat
    BY QuotaStep, LedgerStepInv, TotalsAreCounted, TotalsAreCountedNext
  <2>2. KeyTotal(b)' > KeyTotal(b) /\ keyQuota[b[1]] # 0 => KeyTotal(b)' <= keyQuota[b[1]]
    BY <2>1 DEF TotalsHeld
  <2> QED
    BY <2>1, <2>2
<1> QED
  BY <1>1, <1>2, LedgerInvariant, PTL DEF LedgerSpec

(* The same for a user's day and the daily quota of the group.             *)
THEOREM DailyQuotaBounds ==
  ASSUME NEW b \in GroupBucket, NEW N \in Nat
  PROVE  LedgerSpec /\ [](dailyQuota[b[2]] \in 1..N) => [](GroupTotal(b) <= N)
<1>1. LedgerInit => GroupTotal(b) <= N
  <2> SUFFICES ASSUME LedgerInit PROVE GroupTotal(b) <= N
    OBVIOUS
  <2>1. GroupTotal(b) = GroupCount(b)
    BY LedgerInitInv, TotalsAreCounted
  <2>2. GroupCount(b) = 0
    BY DEF LedgerInit, GroupCount, EmptyBucket
  <2> QED
    BY <2>1, <2>2
<1>2. LedgerInv /\ [LedgerNext]_ledgerVars /\ dailyQuota[b[2]] \in 1..N /\ GroupTotal(b) <= N
        => (GroupTotal(b) <= N)'
  <2> SUFFICES ASSUME LedgerInv, [LedgerNext]_ledgerVars, dailyQuota[b[2]] \in 1..N,
                      GroupTotal(b) <= N
               PROVE  GroupTotal(b)' <= N
    OBVIOUS
  <2>1. TotalsHeld /\ GroupTotal(b) \in Nat /\ GroupTotal(b)' \in Nat
    BY QuotaStep, LedgerStepInv, TotalsAreCounted, TotalsAreCountedNext
  <2>2. GroupTotal(b)' > GroupTotal(b) /\ dailyQuota[b[2]] # 0 => GroupTotal(b)' <= dailyQuota[b[2]]
    BY <2>1 DEF TotalsHeld
  <2> QED
    BY <2>1, <2>2
<1> QED
  BY <1>1, <1>2, LedgerInvariant, PTL DEF LedgerSpec
-----------------------------------------------------------------------------
(* The events of a job, one by one, instead of as a set.                   *)
EventsInOrder ==
  \A j \in Job \ erased :
    /\ <<j, "reserve">> \in usageEvents <=> reservations[j].state # "none"
    /\ <<j, "settle">> \in usageEvents <=> reservations[j].state = "settled"
    /\ <<j, "release">> \in usageEvents <=> reservations[j].state = "released"

(* A job's events are the ones its reservation has come through.           *)
LEMMA EventsForm ==
  ASSUME LedgerTypeOK, EventsInOrder
  PROVE  EventsMatchReservations
<1> SUFFICES ASSUME NEW j \in Job \ erased
             PROVE  {e[2] : e \in {x \in usageEvents : x[1] = j}} =
                      CASE reservations[j].state = "none"     -> {}
                        [] reservations[j].state = "reserved" -> {"reserve"}
                        [] reservations[j].state = "settled"  -> {"reserve", "settle"}
                        [] reservations[j].state = "released" -> {"reserve", "release"}
  BY DEF EventsMatchReservations
<1> DEFINE Events == {e[2] : e \in {x \in usageEvents : x[1] = j}}
<1>1. \A k : k \in Events <=> <<j, k>> \in usageEvents
  BY DEF LedgerTypeOK
<1>2. \A k : <<j, k>> \in usageEvents => k \in {"reserve", "settle", "release"}
  BY DEF LedgerTypeOK, Event
<1>3. /\ "reserve" \in Events <=> reservations[j].state # "none"
      /\ "settle" \in Events <=> reservations[j].state = "settled"
      /\ "release" \in Events <=> reservations[j].state = "released"
  BY <1>1 DEF EventsInOrder
<1>4. reservations[j].state \in {"none", "reserved", "settled", "released"}
  BY DEF LedgerTypeOK, Reservation, NoReservation
<1>5. \A k \in Events : k \in {"reserve", "settle", "release"}
  BY <1>1, <1>2
<1> HIDE DEF Events
<1>6. CASE reservations[j].state = "none"
  <2>1. Events = {}
    BY <1>3, <1>5, <1>6
  <2> QED
    BY <1>6, <2>1 DEF Events
<1>7. CASE reservations[j].state = "reserved"
  <2>1. Events = {"reserve"}
    BY <1>3, <1>5, <1>7
  <2> QED
    BY <1>7, <2>1 DEF Events
<1>8. CASE reservations[j].state = "settled"
  <2>1. Events = {"reserve", "settle"}
    BY <1>3, <1>5, <1>8
  <2> QED
    BY <1>8, <2>1 DEF Events
<1>9. CASE reservations[j].state = "released"
  <2>1. Events = {"reserve", "release"}
    BY <1>3, <1>5, <1>9
  <2> QED
    BY <1>9, <2>1 DEF Events
<1> QED
  BY <1>4, <1>6, <1>7, <1>8, <1>9

(* Every transaction writes the event of what it does to a reservation.    *)
LEMMA EventsStep ==
  ASSUME LedgerTypeOK, EventsInOrder, [LedgerNext]_ledgerVars
  PROVE  EventsInOrder'
<1>1. ASSUME NEW j \in Job, NEW p \in Principal, NEW u \in Units, Reserve(j, p, u)
      PROVE  EventsInOrder'
  <2>1. /\ usageEvents' = usageEvents \cup {<<j, "reserve">>} /\ erased' = erased
        /\ reservations[j].state = "none" /\ reservations'[j].state = "reserved"
        /\ \A i \in Job \ {j} : reservations'[i] = reservations[i]
    BY <1>1 DEF Reserve, LedgerTypeOK, NoReservation
  <2> QED
    BY <2>1 DEF EventsInOrder
<1>2. ASSUME NEW j \in Job, NEW charged \in BOOLEAN, Settle(j, charged),
             reservations[j].state = "reserved"
      PROVE  EventsInOrder'
  <2> DEFINE end == IF charged THEN "settled" ELSE "released"
             event == IF charged THEN "settle" ELSE "release"
  <2>1. /\ usageEvents' = usageEvents \cup {<<j, event>>} /\ erased' = erased
        /\ reservations' = [reservations EXCEPT ![j].state = end]
    BY <1>2 DEF Settle
  <2>2. reservations[j] \in Reservation
    BY <1>2, ReservationRow
  <2>3. /\ reservations'[j].state = end
        /\ \A i \in Job \ {j} : reservations'[i] = reservations[i]
    BY <2>1, <2>2 DEF LedgerTypeOK, Reservation
  <2> HIDE DEF end, event
  <2>4. CASE charged
    <3>1. end = "settled" /\ event = "settle"
      BY <2>4 DEF end, event
    <3> QED
      BY <1>2, <2>1, <2>3, <3>1 DEF EventsInOrder
  <2>5. CASE ~charged
    <3>1. end = "released" /\ event = "release"
      BY <2>5 DEF end, event
    <3> QED
      BY <1>2, <2>1, <2>3, <3>1 DEF EventsInOrder
  <2> QED
    BY <2>4, <2>5
<1>3. ASSUME NEW j \in Job, EraseUsage(j)
      PROVE  EventsInOrder'
  BY <1>3 DEF EraseUsage, EventsInOrder
<1>4. CASE UNCHANGED <<reservations, usageEvents, erased>>
  BY <1>4 DEF EventsInOrder
<1> QED
  BY <1>1, <1>2, <1>3, <1>4
  DEF LedgerNext, Settle, ResetKeyQuota, SetKeyQuota, SetDailyQuota, NextDay, ledgerVars

(* The audit trail of every job whose rows are kept tells its settlement.  *)
THEOREM EventsAreComplete == LedgerSpec => []EventsMatchReservations
<1>1. LedgerInit => EventsInOrder
  BY DEF LedgerInit, EventsInOrder, NoReservation
<1>2. LedgerTypeOK /\ EventsInOrder /\ [LedgerNext]_ledgerVars => EventsInOrder'
  BY EventsStep
<1>3. LedgerTypeOK /\ EventsInOrder => EventsMatchReservations
  BY EventsForm
<1> QED
  BY <1>1, <1>2, <1>3, LedgerTypeCorrect, PTL DEF LedgerSpec

(* No transaction lowers what a bucket says was used.                      *)
UseGrows ==
  /\ \A b \in KeyBucket : keyBuckets'[b].used >= keyBuckets[b].used
  /\ \A b \in GroupBucket : groupBuckets'[b].used >= groupBuckets[b].used

(* Use only grows: a settlement adds to it, nothing subtracts.             *)
LEMMA UseStep ==
  ASSUME LedgerInv, [LedgerNext]_ledgerVars
  PROVE  UseGrows
<1>1. /\ keyBuckets \in [KeyBucket -> Bucket] /\ groupBuckets \in [GroupBucket -> Bucket]
      /\ \A b \in KeyBucket : keyBuckets[b].used \in Nat
      /\ \A b \in GroupBucket : groupBuckets[b].used \in Nat
  BY DEF LedgerInv, LedgerTypeOK, Bucket
<1>2. CASE UNCHANGED <<keyBuckets, groupBuckets>>
  BY <1>1, <1>2 DEF UseGrows
<1>3. ASSUME NEW j \in Job, NEW p \in Principal, NEW u \in Units, Reserve(j, p, u)
      PROVE  UseGrows
  <2>1. PICK b, k : /\ groupBuckets' = [groupBuckets EXCEPT ![b].reserved = @ + u]
                    /\ keyBuckets' = [keyBuckets EXCEPT ![k].reserved = @ + u]
    BY <1>3 DEF Reserve
  <2> QED
    BY <1>1, <2>1 DEF UseGrows, Bucket
<1>4. ASSUME NEW j \in Job, NEW charged \in BOOLEAN, Settle(j, charged),
             reservations[j].state = "reserved"
      PROVE  UseGrows
  <2>1. reservations[j] \in Reservation
    BY <1>4, ReservationRow DEF LedgerInv
  <2> DEFINE r == reservations[j]
             spent == IF charged THEN r.units ELSE 0
  <2>2. /\ r.units \in Nat /\ spent \in Nat /\ r.group \in GroupBucket /\ r.key \in KeyBucket
        /\ groupBuckets' = [groupBuckets EXCEPT ![r.group].reserved = @ - r.units,
                                                ![r.group].used = @ + spent]
        /\ keyBuckets' = [keyBuckets EXCEPT ![r.key].reserved = @ - r.units,
                                            ![r.key].used = @ + spent]
    BY <1>4, <2>1, LedgerAssumption DEF LedgerAssumption, Reservation, Units, Settle
  <2> HIDE DEF r, spent
  <2> QED
    BY <1>1, <2>2 DEF UseGrows, Bucket
<1>5. ASSUME NEW k \in Key, ResetKeyQuota(k)
      PROVE  UseGrows
  <2> DEFINE e == quotaEpoch[k]
  <2>1. e \in Nat /\ e + 1 \in Epoch /\ <<k, e + 1>> \in KeyBucket /\ LastEpoch \in Nat
    BY <1>5, LedgerAssumption
    DEF LedgerAssumption, LedgerInv, LedgerTypeOK, Epoch, KeyBucket, ResetKeyQuota
  <2>2. keyBuckets[<<k, e + 1>>] = EmptyBucket
    BY <2>1 DEF LedgerInv, HeldInCurrentEpoch
  <2>3. UNCHANGED <<keyBuckets, groupBuckets>>
    BY <1>1, <1>5, <2>1, <2>2 DEF ResetKeyQuota
  <2> QED
    BY <1>2, <2>3
<1> QED
  BY <1>2, <1>3, <1>4, <1>5
  DEF LedgerNext, Settle, SetKeyQuota, SetDailyQuota, EraseUsage, NextDay, ledgerVars
=============================================================================
