--------------------------- MODULE LoginGateProofs ---------------------------
(***************************************************************************)
(* The gate in front of a login, for any number of logins, addresses and   *)
(* accounts, any limits, slots and places to wait.                         *)
(*                                                                         *)
(* First the hashing pool: no more hashes are computed than there are      *)
(* slots, and nobody waits while a slot is free.  Between the end of a     *)
(* hash and the reaction of the caller it wakes the slot belongs to        *)
(* neither by the counter `active'; it is taken all the same, and the two  *)
(* together (active and micro) never exceed the slots.                     *)
(*                                                                         *)
(* Then the counting: no more passwords are compared than the limits say.  *)
(*                                                                         *)
(* Last, that a login goes forward only, and is not forgotten in between.  *)
(***************************************************************************)
EXTENDS LoginGate, FiniteSetTheorems, SequenceTheorems, TLAPS

Hashing == {l \in Login : At(l, "hashing")}

GateTypeOK ==
  /\ window \in Window
  /\ logins \in [Login -> LoginRow]
  /\ active \in Nat
  /\ waiters \in Seq(Login)
  /\ micro \in Seq(Login)

(* Whoever is in the list waits, and is in it once.                        *)
QueueOK ==
  /\ \A i \in 1..Len(waiters) : At(waiters[i], "waiting")
  /\ \A i, k \in 1..Len(waiters) : waiters[i] = waiters[k] => i = k

WokenOK == micro # <<>> => Len(micro) = 1 /\ At(micro[1], "woken")

SlotsOK ==
  /\ active = Cardinality(Hashing)
  /\ active + Len(micro) <= MAX_PARALLEL
  /\ Len(waiters) <= MAX_WAITING
  /\ waiters # <<>> => active + Len(micro) = MAX_PARALLEL

GateInv == GateTypeOK /\ QueueOK /\ WokenOK /\ SlotsOK

(* The numbers of the pool.                                                *)
LEMMA GateNumbers ==
  /\ IsFiniteSet(Login)
  /\ MAX_PARALLEL \in Nat \ {0}
  /\ MAX_WAITING \in Nat \ {0}
BY LoginGateAssumption DEF LoginGateAssumption

(* Sets of logins are finite and have a number.                            *)
LEMMA LoginsFinite ==
  ASSUME NEW S \in SUBSET Login
  PROVE  IsFiniteSet(S) /\ Cardinality(S) \in Nat
<1>1. IsFiniteSet(S)
  BY FS_Subset, GateNumbers
<1> QED
  BY <1>1, FS_CardinalityType

(* A step that only moves the clock, or a login outside of the pool, leaves *)
(* the pool as it was.                                                     *)
LEMMA OutsidePool ==
  ASSUME GateInv, window' \in Window, logins' \in [Login -> LoginRow],
         UNCHANGED <<active, waiters, micro>>,
         \A l \in Login : \/ logins'[l].phase = logins[l].phase
                          \/ /\ logins[l].phase \notin {"waiting", "woken", "hashing"}
                             /\ logins'[l].phase # "hashing"
  PROVE  GateInv'
<1>1. Hashing' = Hashing
  BY DEF Hashing, At
<1>2. GateTypeOK'
  BY DEF GateInv, GateTypeOK
<1>3. QueueOK'
  <2>1. \A i \in 1..Len(waiters) : waiters[i] \in Login
    BY DEF GateInv, GateTypeOK
  <2> QED
    BY <2>1 DEF GateInv, QueueOK, At
<1>4. WokenOK'
  <2>1. micro # <<>> => micro[1] \in Login
    BY DEF GateInv, GateTypeOK, WokenOK
  <2> QED
    BY <2>1 DEF GateInv, WokenOK, At
<1>5. SlotsOK'
  BY <1>1 DEF GateInv, SlotsOK
<1> QED
  BY <1>2, <1>3, <1>4, <1>5 DEF GateInv

(* The next row of a login that only changes its phase.                    *)
LEMMA PhaseChange ==
  ASSUME GateTypeOK, NEW l \in Login, NEW phase \in Phase, Goes(l, phase)
  PROVE  /\ logins' \in [Login -> LoginRow]
         /\ logins'[l].phase = phase
         /\ \A k \in Login \ {l} : logins'[k] = logins[k]
<1>1. [logins[l] EXCEPT !.phase = phase] \in LoginRow
  BY DEF GateTypeOK, LoginRow
<1>2. logins' = [logins EXCEPT ![l] = [logins[l] EXCEPT !.phase = phase]]
  BY DEF Goes
<1>3. [logins[l] EXCEPT !.phase = phase].phase = phase
  BY DEF GateTypeOK, LoginRow
<1> QED
  BY <1>1, <1>2, <1>3 DEF GateTypeOK

(* The first of the queue is woken: it waits, and is not in the rest.      *)
LEMMA FirstOfQueue ==
  ASSUME GateTypeOK, QueueOK, waiters # <<>>
  PROVE  /\ Head(waiters) \in Login
         /\ At(Head(waiters), "waiting")
         /\ Tail(waiters) \in Seq(Login)
         /\ Len(Tail(waiters)) = Len(waiters) - 1
         /\ \A i \in 1..Len(Tail(waiters)) :
              /\ Tail(waiters)[i] = waiters[i + 1]
              /\ At(Tail(waiters)[i], "waiting")
              /\ Tail(waiters)[i] # Head(waiters)
         /\ \A i, k \in 1..Len(Tail(waiters)) : Tail(waiters)[i] = Tail(waiters)[k] => i = k
<1>1. /\ Head(waiters) \in Login
      /\ Tail(waiters) \in Seq(Login)
      /\ Len(Tail(waiters)) = Len(waiters) - 1
      /\ \A i \in 1..Len(Tail(waiters)) : Tail(waiters)[i] = waiters[i + 1]
  BY HeadTailProperties DEF GateTypeOK
<1>2. Len(waiters) \in Nat /\ Len(waiters) # 0 /\ Head(waiters) = waiters[1]
  BY DEF GateTypeOK
<1>3. /\ 1 \in 1..Len(waiters)
      /\ \A i \in 1..Len(Tail(waiters)) : i + 1 \in 1..Len(waiters) /\ i + 1 # 1
  BY <1>1, <1>2
<1>4. \A i \in 1..Len(Tail(waiters)) :
        /\ At(Tail(waiters)[i], "waiting")
        /\ Tail(waiters)[i] # Head(waiters)
  BY <1>1, <1>2, <1>3 DEF QueueOK
<1>5. \A i, k \in 1..Len(Tail(waiters)) : Tail(waiters)[i] = Tail(waiters)[k] => i = k
  <2> SUFFICES ASSUME NEW i \in 1..Len(Tail(waiters)), NEW k \in 1..Len(Tail(waiters)),
                      Tail(waiters)[i] = Tail(waiters)[k]
               PROVE  i = k
    OBVIOUS
  <2>1. i + 1 = k + 1
    BY <1>1, <1>3 DEF QueueOK
  <2> QED
    BY <2>1
<1> QED
  BY <1>1, <1>2, <1>3, <1>4, <1>5 DEF QueueOK
-----------------------------------------------------------------------------
(* A caller finds a slot, no place, or a place in the queue.               *)
LEMMA EnterPoolOK ==
  ASSUME GateInv, NEW l \in Login, EnterPool(l)
  PROVE  GateInv'
<1> USE DEF At
<1>1. GateTypeOK /\ QueueOK /\ WokenOK /\ SlotsOK /\ micro = <<>> /\ micro' = <<>>
  BY DEF GateInv, EnterPool, Task
<1>2. /\ Len(micro) = 0 /\ Len(waiters) \in Nat /\ active \in Nat
      /\ logins[l].phase = "passed"
      /\ window' = window
      /\ \A i \in 1..Len(waiters) : waiters[i] \in Login /\ waiters[i] # l
  BY <1>1 DEF EnterPool, GateTypeOK, QueueOK
<1>3. {"hashing", "refused", "waiting"} \subseteq Phase
  BY DEF Phase
<1>4. CASE active < MAX_PARALLEL /\ active' = active + 1 /\ Goes(l, "hashing") /\ waiters' = waiters
  <2>1. /\ logins' \in [Login -> LoginRow]
        /\ logins'[l].phase = "hashing"
        /\ \A k \in Login \ {l} : logins'[k] = logins[k]
    BY <1>1, <1>3, <1>4, PhaseChange
  <2>2. Hashing' = Hashing \cup {l} /\ l \notin Hashing
    BY <1>2, <2>1 DEF Hashing
  <2>3. Cardinality(Hashing') = Cardinality(Hashing) + 1
    <3>1. IsFiniteSet(Hashing)
      BY LoginsFinite DEF Hashing
    <3> QED
      BY <2>2, <3>1, FS_AddElement
  <2>4. waiters = <<>>
    BY <1>1, <1>2, <1>4, GateNumbers DEF SlotsOK
  <2>5. SlotsOK'
    BY <1>1, <1>2, <1>4, <2>3, <2>4, GateNumbers DEF SlotsOK
  <2>6. GateTypeOK'
    BY <1>1, <1>2, <1>4, <2>1 DEF GateTypeOK
  <2>7. QueueOK' /\ WokenOK'
    BY <1>1, <1>4, <2>4 DEF QueueOK, WokenOK
  <2> QED
    BY <2>5, <2>6, <2>7 DEF GateInv
<1>5. CASE Goes(l, "refused") /\ UNCHANGED <<active, waiters>>
  <2>1. /\ logins' \in [Login -> LoginRow]
        /\ logins'[l].phase = "refused"
        /\ \A k \in Login \ {l} : logins'[k] = logins[k]
    BY <1>1, <1>3, <1>5, PhaseChange
  <2>2. \A k \in Login : \/ logins'[k].phase = logins[k].phase
                         \/ /\ logins[k].phase \notin {"waiting", "woken", "hashing"}
                            /\ logins'[k].phase # "hashing"
    BY <1>2, <2>1
  <2>3. window' \in Window
    BY <1>1, <1>2 DEF GateTypeOK
  <2> QED
    BY <1>1, <1>5, <2>1, <2>2, <2>3, OutsidePool
<1>6. CASE /\ active >= MAX_PARALLEL /\ Len(waiters) < MAX_WAITING
           /\ waiters' = Append(waiters, l) /\ Goes(l, "waiting") /\ active' = active
  <2>1. /\ logins' \in [Login -> LoginRow]
        /\ logins'[l].phase = "waiting"
        /\ \A k \in Login \ {l} : logins'[k] = logins[k]
    BY <1>1, <1>3, <1>6, PhaseChange
  <2>2. Hashing' = Hashing
    BY <1>2, <2>1 DEF Hashing
  <2>3. /\ waiters' \in Seq(Login)
        /\ Len(waiters') = Len(waiters) + 1
        /\ \A i \in 1..Len(waiters) : waiters'[i] = waiters[i]
        /\ waiters'[Len(waiters) + 1] = l
    BY <1>1, <1>6, AppendProperties DEF GateTypeOK
  <2>4. \A i \in 1..Len(waiters') : i \in 1..Len(waiters) \/ i = Len(waiters) + 1
    BY <1>2, <2>3
  <2>5. GateTypeOK'
    BY <1>1, <1>2, <1>6, <2>1, <2>3 DEF GateTypeOK
  <2>6. QueueOK'
    <3>1. \A i \in 1..Len(waiters') : logins'[waiters'[i]].phase = "waiting"
      BY <1>1, <1>2, <2>1, <2>3, <2>4 DEF QueueOK
    <3>2. \A i, k \in 1..Len(waiters') : waiters'[i] = waiters'[k] => i = k
      BY <1>1, <1>2, <2>3, <2>4 DEF QueueOK
    <3> QED
      BY <3>1, <3>2 DEF QueueOK
  <2>7. SlotsOK'
    BY <1>1, <1>2, <1>6, <2>2, <2>3, GateNumbers DEF SlotsOK
  <2> QED
    BY <1>1, <2>5, <2>6, <2>7 DEF GateInv, WokenOK
<1> QED
  BY <1>4, <1>5, <1>6 DEF EnterPool

(* A hash ends; the slot is free, or the first of the queue is called.     *)
LEMMA HashEndsOK ==
  ASSUME GateInv, NEW l \in Login, NEW answer \in {"compared", "refused"}, HashEnds(l, answer)
  PROVE  GateInv'
<1> USE DEF At
<1>1. /\ GateTypeOK /\ QueueOK /\ WokenOK /\ SlotsOK /\ micro = <<>>
      /\ logins[l].phase = "hashing" /\ active' = active - 1 /\ window' = window
  BY DEF GateInv, HashEnds, Task
<1>2. Len(micro) = 0 /\ Len(waiters) \in Nat /\ active \in Nat
  BY <1>1 DEF GateTypeOK
<1>3. ASSUME \A k \in Login : k \in Hashing' <=> k \in Hashing /\ k # l
      PROVE  /\ Cardinality(Hashing') = Cardinality(Hashing) - 1
             /\ Cardinality(Hashing') \in Nat
  <2>1. Hashing' = Hashing \ {l} /\ l \in Hashing
    BY <1>1, <1>3 DEF Hashing
  <2>2. IsFiniteSet(Hashing) /\ Hashing' \in SUBSET Login
    BY LoginsFinite DEF Hashing
  <2> QED
    BY <2>1, <2>2, FS_RemoveElement, LoginsFinite
<1>4. CASE waiters = <<>>
  <2>1. Goes(l, answer) /\ waiters' = waiters /\ micro' = micro
    BY <1>4 DEF HashEnds
  <2>2. /\ logins' \in [Login -> LoginRow]
        /\ logins'[l].phase = answer
        /\ \A k \in Login \ {l} : logins'[k] = logins[k]
    BY <1>1, <2>1, PhaseChange DEF Phase
  <2>3. \A k \in Login : k \in Hashing' <=> k \in Hashing /\ k # l
    BY <2>2 DEF Hashing
  <2>4. SlotsOK' /\ active' \in Nat
    BY <1>1, <1>2, <1>3, <1>4, <2>1, <2>3, GateNumbers DEF SlotsOK
  <2>5. GateTypeOK'
    BY <1>1, <2>1, <2>2, <2>4 DEF GateTypeOK
  <2>6. QueueOK' /\ WokenOK'
    BY <1>1, <1>4, <2>1 DEF QueueOK, WokenOK
  <2> QED
    BY <2>4, <2>5, <2>6 DEF GateInv
<1>5. CASE waiters # <<>>
  <2> DEFINE h == Head(waiters)
  <2>1. /\ h \in Login
        /\ logins[h].phase = "waiting"
        /\ Tail(waiters) \in Seq(Login)
        /\ Len(Tail(waiters)) = Len(waiters) - 1
        /\ \A i \in 1..Len(Tail(waiters)) :
             /\ Tail(waiters)[i] \in Login
             /\ logins[Tail(waiters)[i]].phase = "waiting"
             /\ Tail(waiters)[i] # h
        /\ \A i, k \in 1..Len(Tail(waiters)) : Tail(waiters)[i] = Tail(waiters)[k] => i = k
    BY <1>1, <1>5, FirstOfQueue
  <2>2. /\ waiters' = Tail(waiters)
        /\ micro' = <<h>>
        /\ logins' = [logins EXCEPT ![l].phase = answer, ![h].phase = "woken"]
    BY <1>5 DEF HashEnds
  <2> HIDE DEF h
  <2>3. l # h
    BY <1>1, <2>1
  <2>4. /\ logins' \in [Login -> LoginRow]
        /\ logins'[l].phase = answer
        /\ logins'[h].phase = "woken"
        /\ \A k \in Login \ {l, h} : logins'[k] = logins[k]
    <3>1. /\ [logins[l] EXCEPT !.phase = answer] \in LoginRow
          /\ [logins[h] EXCEPT !.phase = "woken"] \in LoginRow
      BY <1>1, <2>1 DEF GateTypeOK, LoginRow, Phase
    <3>2. /\ [logins[l] EXCEPT !.phase = answer].phase = answer
          /\ [logins[h] EXCEPT !.phase = "woken"].phase = "woken"
      BY <1>1, <2>1 DEF GateTypeOK, LoginRow
    <3>3. logins' = [logins EXCEPT ![l] = [logins[l] EXCEPT !.phase = answer],
                                   ![h] = [logins[h] EXCEPT !.phase = "woken"]]
      BY <1>1, <2>1, <2>2, <2>3 DEF GateTypeOK
    <3> QED
      BY <1>1, <2>1, <2>3, <3>1, <3>2, <3>3 DEF GateTypeOK
  <2>5. \A k \in Login : k \in Hashing' <=> k \in Hashing /\ k # l
    BY <2>1, <2>4 DEF Hashing
  <2>6. micro' \in Seq(Login) /\ Len(micro') = 1 /\ micro'[1] = h
    BY <2>1, <2>2
  <2>7. SlotsOK' /\ active' \in Nat
    BY <1>1, <1>2, <1>3, <1>5, <2>1, <2>2, <2>5, <2>6, GateNumbers DEF SlotsOK
  <2>8. GateTypeOK'
    BY <1>1, <2>1, <2>2, <2>4, <2>6, <2>7 DEF GateTypeOK
  <2>9. QueueOK'
    <3>1. \A i \in 1..Len(Tail(waiters)) :
            Tail(waiters)[i] \in Login \ {l, h}
      BY <1>1, <2>1
    <3> QED
      BY <2>1, <2>2, <2>4, <3>1 DEF QueueOK
  <2>10. WokenOK'
    BY <2>4, <2>6 DEF WokenOK
  <2> QED
    BY <2>7, <2>8, <2>9, <2>10 DEF GateInv
<1> QED
  BY <1>4, <1>5

(* The caller that was called takes the slot kept for it.                  *)
LEMMA GoOnOK ==
  ASSUME GateInv, GoOn
  PROVE  GateInv'
<1> USE DEF At
<1>1. GateTypeOK /\ QueueOK /\ WokenOK /\ SlotsOK
  BY DEF GateInv
<1>2. /\ micro # <<>> /\ Len(micro) = 1 /\ micro[1] \in Login
      /\ Head(micro) = micro[1] /\ micro' = <<>> /\ Len(micro') = 0
      /\ logins[micro[1]].phase = "woken"
  BY <1>1 DEF GoOn, WokenOK, GateTypeOK
<1> DEFINE h == micro[1]
<1>3. /\ logins' \in [Login -> LoginRow]
      /\ logins'[h].phase = "hashing"
      /\ \A k \in Login \ {h} : logins'[k] = logins[k]
  BY <1>1, <1>2, PhaseChange DEF GoOn, Phase
<1>4. Cardinality(Hashing') = Cardinality(Hashing) + 1
  <2>1. Hashing' = Hashing \cup {h} /\ h \notin Hashing
    BY <1>2, <1>3 DEF Hashing
  <2>2. IsFiniteSet(Hashing)
    BY LoginsFinite DEF Hashing
  <2> QED
    BY <2>1, <2>2, FS_AddElement
<1>5. active' = active + 1 /\ active \in Nat /\ UNCHANGED <<window, waiters>>
  BY <1>1 DEF GoOn, GateTypeOK
<1>6. SlotsOK'
  BY <1>1, <1>2, <1>4, <1>5, GateNumbers DEF SlotsOK
<1>7. GateTypeOK'
  BY <1>1, <1>2, <1>3, <1>5 DEF GateTypeOK
<1>8. QueueOK'
  <2>1. \A i \in 1..Len(waiters) : waiters[i] \in Login \ {h}
    BY <1>1, <1>2 DEF GateTypeOK, QueueOK
  <2> QED
    BY <1>1, <1>3, <1>5, <2>1 DEF QueueOK
<1> QED
  BY <1>2, <1>6, <1>7, <1>8 DEF GateInv, WokenOK
-----------------------------------------------------------------------------
(* The pool is empty at first.                                             *)
LEMMA GateStart == GateInit => GateInv
<1> SUFFICES ASSUME GateInit PROVE GateInv
  OBVIOUS
<1>1. GateTypeOK
  BY LoginGateAssumption DEF GateInit, GateTypeOK, Window, LoginGateAssumption
<1>2. Hashing = {}
  BY DEF GateInit, Hashing, At
<1>3. Cardinality(Hashing) = 0
  BY <1>2, FS_EmptySet
<1>4. Len(waiters) = 0 /\ Len(micro) = 0
  BY DEF GateInit
<1> QED
  BY <1>1, <1>3, <1>4, GateNumbers DEF GateInv, QueueOK, WokenOK, SlotsOK, GateInit

(* No step gives a slot to two, or leaves one to nobody.                   *)
LEMMA GateStep == GateInv /\ [GateNext]_gateVars => GateInv'
<1> SUFFICES ASSUME GateInv, [GateNext]_gateVars PROVE GateInv'
  OBVIOUS
<1>1. GateTypeOK
  BY DEF GateInv
<1>2. ASSUME NEW l \in Login, NEW row \in LoginRow, logins' = [logins EXCEPT ![l] = row],
             logins[l].phase \notin {"waiting", "woken", "hashing"}, row.phase # "hashing",
             UNCHANGED <<window, active, waiters, micro>>
      PROVE  GateInv'
  <2>1. logins' \in [Login -> LoginRow] /\ logins'[l] = row
    BY <1>1, <1>2 DEF GateTypeOK
  <2>2. \A k \in Login : \/ logins'[k].phase = logins[k].phase
                         \/ /\ logins[k].phase \notin {"waiting", "woken", "hashing"}
                            /\ logins'[k].phase # "hashing"
    BY <1>1, <1>2, <2>1 DEF GateTypeOK
  <2>3. window' \in Window
    BY <1>1, <1>2 DEF GateTypeOK
  <2> QED
    BY <1>2, <2>1, <2>2, <2>3, OutsidePool
<1>3. CASE UNCHANGED gateVars
  BY <1>1, <1>3, OutsidePool DEF gateVars, GateTypeOK
<1>4. CASE WindowEnds
  <2>1. window' \in Window
    BY <1>1, <1>4, LoginGateAssumption DEF WindowEnds, GateTypeOK, Window, LoginGateAssumption
  <2> QED
    BY <1>1, <1>4, <2>1, OutsidePool DEF WindowEnds, GateTypeOK
<1>5. CASE GoOn
  BY <1>5, GoOnOK
<1>6. ASSUME NEW l \in Login, LoginStep(l)
      PROVE  GateInv'
  <2> DEFINE moved(phase) == [logins[l] EXCEPT !.phase = phase]
             stamped(phase) == [logins[l] EXCEPT !.phase = phase, !.stamp = window]
  <2>1. /\ \A phase \in Phase : moved(phase) \in LoginRow /\ moved(phase).phase = phase
        /\ \A phase \in Phase : stamped(phase) \in LoginRow /\ stamped(phase).phase = phase
        /\ \A phase \in Phase : Goes(l, phase) => logins' = [logins EXCEPT ![l] = moved(phase)]
    BY <1>1 DEF GateTypeOK, LoginRow, Goes
  <2>2. {"ip", "account", "passed", "refused"} \subseteq Phase
    BY DEF Phase
  <2>3. CASE Arrive(l)
    <3>1. logins' = [logins EXCEPT ![l] = stamped("ip")]
      BY <2>3 DEF Arrive
    <3> QED
      BY <1>2, <2>1, <2>2, <2>3, <3>1 DEF Arrive, At
  <2>4. CASE IpCounted(l)
    <3>1. \/ logins' = [logins EXCEPT ![l] = stamped("account")]
          \/ logins' = [logins EXCEPT ![l] = moved("refused")]
      BY <2>4 DEF IpCounted, Goes
    <3> QED
      BY <1>2, <2>1, <2>2, <2>4, <3>1 DEF IpCounted, At
  <2>5. CASE AccountCounted(l)
    <3>1. \/ logins' = [logins EXCEPT ![l] = moved("passed")]
          \/ logins' = [logins EXCEPT ![l] = moved("refused")]
      BY <2>5 DEF AccountCounted, Goes
    <3> QED
      BY <1>2, <2>1, <2>2, <2>5, <3>1 DEF AccountCounted, At
  <2>6. CASE QueryFails(l)
    BY <1>2, <2>1, <2>2, <2>6 DEF QueryFails, At
  <2>7. CASE EnterPool(l)
    BY <2>7, EnterPoolOK
  <2>8. CASE \E answer \in {"compared", "refused"} : HashEnds(l, answer)
    BY <2>8, HashEndsOK
  <2> QED
    BY <1>6, <2>3, <2>4, <2>5, <2>6, <2>7, <2>8 DEF LoginStep
<1> QED
  BY <1>3, <1>4, <1>5, <1>6 DEF GateNext

(* The invariant of the pool.                                              *)
THEOREM PoolInvariant == GateSpec => []GateInv
BY GateStart, GateStep, PTL DEF GateSpec

(* No more hashes at a time than slots, although a slot is given back      *)
(* before the waiter it wakes has taken it; and nobody waits beside a free *)
(* slot (password.ts:33-45).                                               *)
THEOREM SlotsAreHandedOver == GateSpec => []SlotsHandedOver
<1>1. GateInv => SlotsHandedOver
  <2> SUFFICES ASSUME GateInv PROVE SlotsHandedOver
    OBVIOUS
  <2>1. Cardinality({l \in Login : At(l, "hashing")}) = active
    BY DEF GateInv, SlotsOK, Hashing
  <2>2. Len(micro) \in Nat /\ active \in Nat /\ (micro = <<>> => Len(micro) = 0)
    BY DEF GateInv, GateTypeOK
  <2> QED
    BY <2>1, <2>2, GateNumbers DEF GateInv, SlotsOK, SlotsHandedOver, Task
<1> QED
  BY <1>1, PoolInvariant, PTL
-----------------------------------------------------------------------------
(* The counting.  A login that passed its address's limit took a place in  *)
(* the window it was counted in: the number its count had reached, at most *)
(* the limit.  No two took the same, so they are no more than there are    *)
(* places in the windows so far.                                           *)
GuessPhases   == {"passed", "waiting", "woken", "hashing", "compared"}
CountedPhases == GuessPhases \cup {"account"}

FromAddress(i)  == {l \in Login : logins[l].phase \in CountedPhases /\ logins[l].ip = i}
GuessesAt(a, w) == {l \in Guessing : logins[l].account = a /\ logins[l].stamp = w}

Placed(S, bucket, last) ==
  \E place \in [S -> (0..last) \X (1..IpLimit)] :
    /\ IsInjective(place)
    /\ \A l \in S : place[l][2] <= bucket[place[l][1]]

BucketsOK ==
  /\ buckets \in [Subject -> [Window -> Nat]]
  /\ \A l \in Login : logins[l].stamp <= window

AddressesOK == \A i \in Ip : Placed(FromAddress(i), buckets[<<"login_ip", i>>], window)

AccountsOK ==
  \A a \in Account, w \in Window :
    /\ Cardinality(GuessesAt(a, w)) <= AccountLimit
    /\ Cardinality(GuessesAt(a, w)) <= buckets[<<"login_account", a>>][w]

CountInv == BucketsOK /\ AddressesOK /\ AccountsOK

(* The numbers of the limits.                                              *)
LEMMA LimitNumbers ==
  /\ IpLimit \in Nat \ {0} /\ AccountLimit \in Nat \ {0}
  /\ LastWindow \in Nat \ {0}
BY LoginGateAssumption DEF LoginGateAssumption

(* Places stay good when buckets and windows grow and logins drop out.     *)
LEMMA PlacesLast ==
  ASSUME NEW S, NEW T \in SUBSET S, NEW last \in Window, NEW later \in Window, last <= later,
         NEW b \in [Window -> Nat], NEW c \in [Window -> Nat],
         \A w \in Window : b[w] <= c[w],
         Placed(S, b, last)
  PROVE  Placed(T, c, later)
<1>1. PICK place \in [S -> (0..last) \X (1..IpLimit)] :
        /\ IsInjective(place)
        /\ \A l \in S : place[l][2] <= b[place[l][1]]
  BY DEF Placed
<1> DEFINE kept == [l \in T |-> place[l]]
<1>2. last \in Nat /\ later \in Nat /\ LastWindow \in Nat /\ later <= LastWindow
  BY LimitNumbers DEF Window
<1>3. \A w \in 0..last : w \in 0..later /\ w \in Window
  BY <1>2 DEF Window
<1>4. ASSUME NEW l \in T
      PROVE  /\ kept[l] \in (0..later) \X (1..IpLimit)
             /\ kept[l][2] <= c[kept[l][1]]
  <2>1. l \in S /\ kept[l] = place[l] /\ place[l] \in (0..last) \X (1..IpLimit)
    BY <1>1
  <2>2. place[l][1] \in 0..last /\ place[l][2] \in 1..IpLimit /\ place[l] = <<place[l][1], place[l][2]>>
    BY <2>1
  <2>3. place[l][1] \in 0..later /\ place[l][1] \in Window
    BY <1>3, <2>2
  <2>4. place[l][2] <= b[place[l][1]] /\ b[place[l][1]] <= c[place[l][1]]
    BY <1>1, <2>1, <2>3
  <2>5. b[place[l][1]] \in Nat /\ c[place[l][1]] \in Nat /\ place[l][2] \in Nat
    BY <2>2, <2>3, LimitNumbers
  <2> QED
    BY <2>1, <2>2, <2>3, <2>4, <2>5
<1>5. IsInjective(kept)
  BY <1>1 DEF IsInjective
<1> QED
  BY <1>4, <1>5 DEF Placed

(* The next to be counted takes the next place of its window.              *)
LEMMA NextPlace ==
  ASSUME NEW S, NEW l, l \notin S, NEW last \in Window, NEW w \in 0..last,
         NEW b \in [Window -> Nat], NEW c \in [Window -> Nat],
         c[w] = b[w] + 1, \A v \in Window : b[v] <= c[v],
         c[w] <= IpLimit,
         Placed(S, b, last)
  PROVE  Placed(S \cup {l}, c, last)
<1>1. PICK place \in [S -> (0..last) \X (1..IpLimit)] :
        /\ IsInjective(place)
        /\ \A k \in S : place[k][2] <= b[place[k][1]]
  BY DEF Placed
<1> DEFINE more == [k \in S \cup {l} |-> IF k = l THEN <<w, c[w]>> ELSE place[k]]
<1>2. last \in Nat /\ LastWindow \in Nat /\ last <= LastWindow /\ \A v \in 0..last : v \in Window
  BY LimitNumbers DEF Window
<1>3. b[w] \in Nat /\ c[w] \in Nat
  BY <1>2
<1>4. ASSUME NEW k \in S
      PROVE  /\ more[k] = place[k]
             /\ place[k] \in (0..last) \X (1..IpLimit)
             /\ place[k][2] <= c[place[k][1]]
             /\ place[k] # <<w, c[w]>>
  <2>1. more[k] = place[k] /\ place[k] \in (0..last) \X (1..IpLimit)
    OBVIOUS
  <2>2. place[k][1] \in 0..last /\ place[k][2] \in 1..IpLimit
    BY <2>1
  <2>3. place[k][1] \in Window /\ place[k][2] <= b[place[k][1]] /\ b[place[k][1]] <= c[place[k][1]]
    BY <1>1, <1>2, <2>2
  <2>4. b[place[k][1]] \in Nat /\ c[place[k][1]] \in Nat /\ place[k][2] \in Nat
    BY <2>2, <2>3, LimitNumbers
  <2>5. place[k][1] = w => place[k][2] # c[w]
    BY <1>3, <2>3, <2>4
  <2> QED
    BY <2>1, <2>3, <2>4, <2>5
<1>5. more[l] = <<w, c[w]>> /\ more[l] \in (0..last) \X (1..IpLimit) /\ more[l][2] <= c[more[l][1]]
  BY <1>3, LimitNumbers
<1> HIDE DEF more
<1>6. DOMAIN more = S \cup {l}
  BY DEF more
<1>7. IsInjective(more)
  <2> SUFFICES ASSUME NEW k \in S \cup {l}, NEW m \in S \cup {l}, more[k] = more[m]
               PROVE  k = m
    BY <1>6 DEF IsInjective
  <2>1. k \in S /\ m \in S => place[k] = place[m]
    BY <1>4
  <2>2. k \in S /\ m \in S => k = m
    BY <1>1, <2>1 DEF IsInjective
  <2> QED
    BY <1>4, <1>5, <2>2
<1>8. more \in [S \cup {l} -> (0..last) \X (1..IpLimit)]
  <2>1. more = [k \in S \cup {l} |-> more[k]]
    BY DEF more
  <2>2. \A k \in S \cup {l} : more[k] \in (0..last) \X (1..IpLimit)
    BY <1>4, <1>5
  <2> QED
    BY <2>1, <2>2
<1>9. \A k \in S \cup {l} : more[k][2] <= c[more[k][1]]
  BY <1>4, <1>5
<1> QED
  BY <1>7, <1>8, <1>9 DEF Placed

(* So many places, so many logins at most.                                 *)
LEMMA PlacesAreFew ==
  ASSUME NEW S, NEW b, NEW last \in Window, Placed(S, b, last)
  PROVE  IsFiniteSet(S) /\ Cardinality(S) <= IpLimit * (last + 1)
<1> DEFINE P == (0..last) \X (1..IpLimit)
<1>1. last \in Nat
  BY LimitNumbers DEF Window
<1>2. IsFiniteSet(0..last) /\ Cardinality(0..last) = last + 1
  BY <1>1, FS_Interval
<1>3. IsFiniteSet(1..IpLimit) /\ Cardinality(1..IpLimit) = IpLimit
  BY LimitNumbers, FS_Interval
<1>4. IsFiniteSet(P) /\ Cardinality(P) = (last + 1) * IpLimit
  <2>1. /\ IsFiniteSet(P)
        /\ Cardinality(P) = Cardinality(0..last) * Cardinality(1..IpLimit)
    BY <1>2, <1>3, FS_Product
  <2> QED
    BY <1>2, <1>3, <2>1
<1>5. PICK place \in [S -> P] : IsInjective(place)
  BY DEF Placed
<1>6. place \in Injection(S, P)
  BY <1>5 DEF Injection
<1> HIDE DEF P
<1>7. IsFiniteSet(S) /\ Cardinality(S) <= Cardinality(P)
  BY <1>4, <1>6, FS_Injection
<1>8. (last + 1) * IpLimit = IpLimit * (last + 1)
  BY <1>1, LimitNumbers
<1> QED
  BY <1>4, <1>7, <1>8

(* Counts grow, and no login moves to another address, account or window   *)
(* or gets further than it was.                                            *)
CountsGrow ==
  /\ buckets' \in [Subject -> [Window -> Nat]]
  /\ \A s \in Subject, w \in Window : buckets[s][w] <= buckets'[s][w]

Stays(l) ==
  /\ logins'[l].ip = logins[l].ip
  /\ logins'[l].account = logins[l].account
  /\ logins'[l].stamp = logins[l].stamp
  /\ logins'[l].phase \in GuessPhases => logins[l].phase \in GuessPhases
  /\ logins'[l].phase \in CountedPhases => logins[l].phase \in CountedPhases

TimePasses == window' \in Window /\ window <= window'

(* Nobody new is let through: the addresses keep within their limits.      *)
LEMMA AddressesKept ==
  ASSUME GateTypeOK, CountInv, TimePasses, CountsGrow,
         \A i \in Ip : FromAddress(i)' \subseteq FromAddress(i)
  PROVE  AddressesOK'
<1> SUFFICES ASSUME NEW i \in Ip
             PROVE  Placed(FromAddress(i)', buckets'[<<"login_ip", i>>], window')
  BY DEF AddressesOK, Placed
<1> DEFINE s == <<"login_ip", i>>
<1>1. s \in Subject
  BY DEF Subject
<1> HIDE DEF s
<1>2. /\ buckets[s] \in [Window -> Nat] /\ buckets'[s] \in [Window -> Nat]
      /\ \A w \in Window : buckets[s][w] <= buckets'[s][w]
  BY <1>1 DEF CountInv, BucketsOK, CountsGrow
<1>3. Placed(FromAddress(i), buckets[s], window)
  BY DEF CountInv, AddressesOK, s
<1>4. window \in Window /\ window' \in Window /\ window <= window'
  BY DEF GateTypeOK, TimePasses
<1>5. FromAddress(i)' \in SUBSET FromAddress(i)
  OBVIOUS
<1>6. Placed(FromAddress(i)', buckets'[s], window')
  BY <1>2, <1>3, <1>4, <1>5, PlacesLast
<1> QED
  BY <1>6 DEF s

(* ... and so do the accounts.                                             *)
LEMMA AccountsKept ==
  ASSUME CountInv, CountsGrow,
         \A a \in Account, w \in Window : GuessesAt(a, w)' \subseteq GuessesAt(a, w)
  PROVE  AccountsOK'
<1> SUFFICES ASSUME NEW a \in Account, NEW w \in Window
             PROVE  /\ Cardinality(GuessesAt(a, w)') <= AccountLimit
                    /\ Cardinality(GuessesAt(a, w)') <= buckets'[<<"login_account", a>>][w]
  BY DEF AccountsOK
<1> DEFINE s == <<"login_account", a>>
           old == Cardinality(GuessesAt(a, w))
           new == Cardinality(GuessesAt(a, w)')
<1>1. s \in Subject
  BY DEF Subject
<1>2. new <= old /\ old \in Nat /\ new \in Nat
  <2>1. GuessesAt(a, w) \in SUBSET Login /\ GuessesAt(a, w)' \in SUBSET GuessesAt(a, w)
    BY DEF GuessesAt, Guessing
  <2>2. IsFiniteSet(GuessesAt(a, w)) /\ old \in Nat
    BY <2>1, LoginsFinite
  <2>3. IsFiniteSet(GuessesAt(a, w)') /\ new <= old
    BY <2>1, <2>2, FS_Subset
  <2> QED
    BY <2>2, <2>3, FS_CardinalityType
<1> HIDE DEF s
<1>3. buckets[s][w] \in Nat /\ buckets'[s][w] \in Nat /\ buckets[s][w] <= buckets'[s][w]
  BY <1>1 DEF CountInv, BucketsOK, CountsGrow
<1>4. old <= AccountLimit /\ old <= buckets[s][w]
  BY DEF CountInv, AccountsOK, s
<1> HIDE DEF old, new
<1>5. new <= AccountLimit /\ new <= buckets'[s][w]
  BY <1>2, <1>3, <1>4, LimitNumbers
<1> QED
  BY <1>5 DEF s, new

(* A step in which every login stays.                                      *)
LEMMA CountsKept ==
  ASSUME GateTypeOK, CountInv, TimePasses, CountsGrow, \A l \in Login : Stays(l)
  PROVE  CountInv'
<1>1. AddressesOK'
  <2>1. \A i \in Ip : FromAddress(i)' \subseteq FromAddress(i)
    BY DEF FromAddress, Stays
  <2> QED
    BY <2>1, AddressesKept
<1>2. AccountsOK'
  <2>1. \A a \in Account, w \in Window : GuessesAt(a, w)' \subseteq GuessesAt(a, w)
    BY DEF GuessesAt, Guessing, Stays, GuessPhases
  <2> QED
    BY <2>1, AccountsKept
<1>3. BucketsOK'
  <2>1. \A l \in Login : logins'[l].stamp <= window
    BY DEF CountInv, BucketsOK, Stays
  <2>2. \A l \in Login : logins'[l].stamp \in Nat
    BY DEF GateTypeOK, LoginRow, Window, Stays
  <2>3. window \in Nat /\ window' \in Nat /\ window <= window'
    BY LimitNumbers DEF GateTypeOK, TimePasses, Window
  <2> QED
    BY <2>1, <2>2, <2>3 DEF BucketsOK, CountsGrow
<1> QED
  BY <1>1, <1>2, <1>3 DEF CountInv

(* An upsert adds one to one count.                                        *)
LEMMA CountAdds ==
  ASSUME GateTypeOK, BucketsOK, NEW l \in Login, NEW s \in Subject, Count(l, s)
  PROVE  /\ CountsGrow
         /\ logins[l].stamp \in Window
         /\ buckets'[s][logins[l].stamp] = buckets[s][logins[l].stamp] + 1
<1>1. logins[l].stamp \in Window
  BY DEF GateTypeOK, LoginRow
<1> DEFINE w == logins[l].stamp
           row == [buckets[s] EXCEPT ![w] = buckets[s][w] + 1]
<1>2. buckets' = [buckets EXCEPT ![s] = row]
  BY DEF Count
<1>3. buckets[s] \in [Window -> Nat]
  BY DEF BucketsOK
<1> HIDE DEF w
<1>4. w \in Window
  BY <1>1 DEF w
<1>5. /\ row \in [Window -> Nat]
      /\ row[w] = buckets[s][w] + 1
      /\ \A v \in Window : buckets[s][v] <= row[v]
  BY <1>3, <1>4
<1> HIDE DEF row
<1>6. /\ buckets' \in [Subject -> [Window -> Nat]]
      /\ buckets'[s] = row
      /\ \A t \in Subject \ {s} : buckets'[t] = buckets[t]
  BY <1>2, <1>5 DEF BucketsOK
<1>7. \A t \in Subject, v \in Window : buckets[t][v] <= buckets'[t][v]
  <2> SUFFICES ASSUME NEW t \in Subject, NEW v \in Window
               PROVE  buckets[t][v] <= buckets'[t][v]
    OBVIOUS
  <2>1. CASE t = s
    BY <1>5, <1>6, <2>1
  <2>2. CASE t # s
    <3>1. buckets'[t][v] = buckets[t][v] /\ buckets[t][v] \in Nat
      BY <1>6, <2>2 DEF BucketsOK
    <3> QED
      BY <3>1
  <2> QED
    BY <2>1, <2>2
<1> QED
  BY <1>1, <1>5, <1>6, <1>7 DEF CountsGrow, w

(* A login is through the limit of its address.                            *)
LEMMA IpCountedOK ==
  ASSUME GateTypeOK, CountInv, NEW l \in Login, IpCounted(l)
  PROVE  CountInv'
<1> DEFINE s == <<"login_ip", logins[l].ip>>
           w == logins[l].stamp
<1>1. /\ logins[l] \in LoginRow /\ logins[l].phase = "ip" /\ window' = window
      /\ logins[l].ip \in Ip /\ w \in Window /\ window \in Window
      /\ w <= window /\ w \in 0..window
  <2>1. logins[l] \in LoginRow /\ logins[l].phase = "ip" /\ window' = window /\ window \in Window
    BY DEF GateTypeOK, IpCounted, At
  <2>2. w \in Window /\ w <= window /\ logins[l].ip \in Ip
    BY <2>1 DEF LoginRow, CountInv, BucketsOK
  <2>3. w \in 0..window
    BY <2>1, <2>2, LimitNumbers DEF Window
  <2> QED
    BY <2>1, <2>2, <2>3
<1>2. s \in Subject /\ Count(l, s)
  BY <1>1 DEF Subject, IpCounted
<1>3. CountsGrow /\ buckets'[s][w] = buckets[s][w] + 1
  BY <1>2, CountAdds DEF CountInv
<1>4. TimePasses
  BY <1>1, LimitNumbers DEF TimePasses, Window
<1>5. CASE Goes(l, "refused")
  <2>1. /\ logins' = [logins EXCEPT ![l] = [logins[l] EXCEPT !.phase = "refused"]]
        /\ [logins[l] EXCEPT !.phase = "refused"].phase = "refused"
    BY <1>1, <1>5 DEF Goes, LoginRow
  <2>2. \A k \in Login : Stays(k)
    BY <1>1, <2>1 DEF GateTypeOK, LoginRow, Stays, CountedPhases, GuessPhases
  <2> QED
    BY <1>3, <1>4, <2>2, CountsKept
<1>6. CASE /\ Within(l, s, IpLimit)
           /\ logins' = [logins EXCEPT ![l].phase = "account", ![l].stamp = window]
  <2> DEFINE row == [logins[l] EXCEPT !.phase = "account", !.stamp = window]
  <2>1. /\ row.phase = "account" /\ row.stamp = window
        /\ row.ip = logins[l].ip /\ row.account = logins[l].account
    BY <1>1 DEF LoginRow
  <2>2. logins' = [logins EXCEPT ![l] = row]
    BY <1>6
  <2> HIDE DEF row
  <2>3. logins'[l] = row /\ \A k \in Login \ {l} : logins'[k] = logins[k]
    BY <2>2 DEF GateTypeOK
  <2>4. \A a \in Account, v \in Window : GuessesAt(a, v)' \subseteq GuessesAt(a, v)
    BY <2>1, <2>3 DEF GuessesAt, Guessing
  <2>5. AccountsOK'
    BY <1>3, <2>4, AccountsKept
  <2>6. BucketsOK'
    <3>1. \A k \in Login : logins'[k].stamp <= window
      BY <1>1, <2>1, <2>3, LimitNumbers DEF CountInv, BucketsOK, Window
    <3> QED
      BY <1>1, <1>3, <3>1 DEF BucketsOK, CountsGrow
  <2>7. ASSUME NEW i \in Ip, i # logins[l].ip
        PROVE  Placed(FromAddress(i)', buckets'[<<"login_ip", i>>], window')
    <3>1. FromAddress(i)' \in SUBSET FromAddress(i)
      BY <2>1, <2>3, <2>7 DEF FromAddress
    <3>2. <<"login_ip", i>> \in Subject
      BY DEF Subject
    <3>3. /\ buckets[<<"login_ip", i>>] \in [Window -> Nat]
          /\ buckets'[<<"login_ip", i>>] \in [Window -> Nat]
          /\ \A v \in Window : buckets[<<"login_ip", i>>][v] <= buckets'[<<"login_ip", i>>][v]
      BY <1>3, <3>2 DEF CountInv, BucketsOK, CountsGrow
    <3>4. Placed(FromAddress(i), buckets[<<"login_ip", i>>], window)
      BY DEF CountInv, AddressesOK
    <3>5. window \in Window /\ window' \in Window /\ window <= window'
      BY <1>1, <1>4 DEF TimePasses
    <3> QED
      BY <3>1, <3>3, <3>4, <3>5, PlacesLast
  <2>8. ASSUME NEW i \in Ip, i = logins[l].ip
        PROVE  Placed(FromAddress(i)', buckets'[<<"login_ip", i>>], window')
    <3> DEFINE S == FromAddress(i)
    <3>1. l \notin S
      BY <1>1 DEF FromAddress, CountedPhases, GuessPhases
    <3>2. \A k \in Login : k \in FromAddress(i)' <=> k \in S \/ k = l
      BY <2>1, <2>3, <2>8 DEF FromAddress, CountedPhases
    <3>3. FromAddress(i)' = S \cup {l}
      <4>1. FromAddress(i)' \subseteq Login /\ S \subseteq Login
        BY DEF FromAddress
      <4> QED
        BY <3>2, <4>1
    <3>4. Placed(S, buckets[s], window)
      BY <2>8 DEF CountInv, AddressesOK
    <3>5. /\ buckets[s] \in [Window -> Nat] /\ buckets'[s] \in [Window -> Nat]
          /\ \A v \in Window : buckets[s][v] <= buckets'[s][v]
      BY <1>2, <1>3 DEF CountInv, BucketsOK, CountsGrow
    <3>6. buckets'[s][w] <= IpLimit
      BY <1>3, <1>6 DEF Within
    <3> HIDE DEF S, s, w
    <3>7. Placed(S \cup {l}, buckets'[s], window)
      BY <1>1, <1>3, <3>1, <3>4, <3>5, <3>6, NextPlace
    <3> QED
      BY <1>1, <2>8, <3>3, <3>7 DEF s
  <2>9. AddressesOK'
    <3> SUFFICES ASSUME NEW i \in Ip
                 PROVE  Placed(FromAddress(i)', buckets'[<<"login_ip", i>>], window')
      BY DEF AddressesOK, Placed
    <3> QED
      BY <2>7, <2>8
  <2> QED
    BY <2>5, <2>6, <2>9 DEF CountInv
<1> QED
  BY <1>5, <1>6 DEF IpCounted

(* A login is through the limit of its account.                            *)
LEMMA AccountCountedOK ==
  ASSUME GateTypeOK, CountInv, NEW l \in Login, AccountCounted(l)
  PROVE  CountInv'
<1> DEFINE b == logins[l].account
           s == <<"login_account", b>>
           w == logins[l].stamp
<1>1. /\ logins[l] \in LoginRow /\ logins[l].phase = "account" /\ window' = window
      /\ b \in Account /\ w \in Window /\ window \in Window
  BY DEF GateTypeOK, AccountCounted, At, LoginRow
<1>2. s \in Subject /\ Count(l, s)
  BY <1>1 DEF Subject, AccountCounted
<1>3. CountsGrow /\ buckets'[s][w] = buckets[s][w] + 1
  BY <1>2, CountAdds DEF CountInv
<1>4. TimePasses
  BY <1>1, LimitNumbers DEF TimePasses, Window
<1>5. CASE Goes(l, "refused")
  <2>1. /\ logins' = [logins EXCEPT ![l] = [logins[l] EXCEPT !.phase = "refused"]]
        /\ [logins[l] EXCEPT !.phase = "refused"].phase = "refused"
    BY <1>1, <1>5 DEF Goes, LoginRow
  <2>2. \A k \in Login : Stays(k)
    BY <1>1, <2>1 DEF GateTypeOK, LoginRow, Stays, CountedPhases, GuessPhases
  <2> QED
    BY <1>3, <1>4, <2>2, CountsKept
<1>6. CASE Within(l, s, AccountLimit) /\ Goes(l, "passed")
  <2> DEFINE row == [logins[l] EXCEPT !.phase = "passed"]
  <2>1. /\ row.phase = "passed" /\ row.stamp = w
        /\ row.ip = logins[l].ip /\ row.account = b
    BY <1>1 DEF LoginRow
  <2>2. logins' = [logins EXCEPT ![l] = row]
    BY <1>6 DEF Goes
  <2> HIDE DEF row
  <2>3. logins'[l] = row /\ \A k \in Login \ {l} : logins'[k] = logins[k]
    BY <2>2 DEF GateTypeOK
  <2>4. \A i \in Ip : FromAddress(i)' \subseteq FromAddress(i)
    <3>1. logins[l].phase \in CountedPhases /\ logins'[l].ip = logins[l].ip
      BY <1>1, <2>1, <2>3 DEF CountedPhases
    <3> QED
      BY <2>3, <3>1 DEF FromAddress
  <2>5. AddressesOK'
    BY <1>3, <1>4, <2>4, AddressesKept
  <2>6. BucketsOK'
    <3>1. \A k \in Login : logins'[k].stamp <= window
      BY <2>1, <2>3 DEF CountInv, BucketsOK
    <3> QED
      BY <1>1, <1>3, <3>1 DEF BucketsOK, CountsGrow
  <2>7. ASSUME NEW a \in Account, NEW v \in Window
        PROVE  /\ Cardinality(GuessesAt(a, v)') <= AccountLimit
               /\ Cardinality(GuessesAt(a, v)') <= buckets'[<<"login_account", a>>][v]
    <3> DEFINE old == Cardinality(GuessesAt(a, v))
               new == Cardinality(GuessesAt(a, v)')
    <3>1. IsFiniteSet(GuessesAt(a, v)) /\ old \in Nat
      <4>1. GuessesAt(a, v) \in SUBSET Login
        BY DEF GuessesAt, Guessing
      <4> QED
        BY <4>1, LoginsFinite
    <3>2. old <= AccountLimit /\ old <= buckets[<<"login_account", a>>][v]
      BY DEF CountInv, AccountsOK
    <3>3. <<"login_account", a>> \in Subject
      BY DEF Subject
    <3>4. /\ buckets[<<"login_account", a>>][v] \in Nat
          /\ buckets'[<<"login_account", a>>][v] \in Nat
          /\ buckets[<<"login_account", a>>][v] <= buckets'[<<"login_account", a>>][v]
      BY <1>3, <3>3 DEF CountInv, BucketsOK, CountsGrow
    <3>5. \A k \in Login \ {l} : k \in GuessesAt(a, v)' <=> k \in GuessesAt(a, v)
      BY <2>3 DEF GuessesAt, Guessing
    <3>6. GuessesAt(a, v)' \subseteq Login /\ GuessesAt(a, v) \subseteq Login
      BY DEF GuessesAt, Guessing
    <3>7. CASE a = b /\ v = w
      <4>1. GuessesAt(a, v)' = GuessesAt(a, v) \cup {l} /\ l \notin GuessesAt(a, v)
        <5>1. l \notin GuessesAt(a, v)
          BY <1>1 DEF GuessesAt, Guessing
        <5>2. l \in GuessesAt(a, v)'
          BY <2>1, <2>3, <3>7 DEF GuessesAt, Guessing
        <5> QED
          BY <3>5, <3>6, <5>1, <5>2
      <4>2. new = old + 1
        BY <3>1, <4>1, FS_AddElement
      <4>3. buckets[<<"login_account", a>>][v] + 1 <= AccountLimit
        BY <1>6, <3>7 DEF Within
      <4>4. buckets'[<<"login_account", a>>][v] = buckets[<<"login_account", a>>][v] + 1
        BY <1>3, <3>7
      <4> HIDE DEF old, new
      <4>5. new <= AccountLimit /\ new <= buckets'[<<"login_account", a>>][v]
        BY <3>1, <3>2, <3>4, <4>2, <4>3, <4>4, LimitNumbers
      <4> QED
        BY <4>5 DEF new
    <3>8. CASE ~(a = b /\ v = w)
      <4>1. GuessesAt(a, v)' = GuessesAt(a, v)
        <5>1. l \notin GuessesAt(a, v)' /\ l \notin GuessesAt(a, v)
          BY <1>1, <2>1, <2>3, <3>8 DEF GuessesAt, Guessing
        <5> QED
          BY <3>5, <3>6, <5>1
      <4>2. new = old
        BY <4>1
      <4> HIDE DEF old, new
      <4>3. new <= AccountLimit /\ new <= buckets'[<<"login_account", a>>][v]
        BY <3>1, <3>2, <3>4, <4>2
      <4> QED
        BY <4>3 DEF new
    <3> QED
      BY <3>7, <3>8
  <2>8. AccountsOK'
    BY <2>7 DEF AccountsOK
  <2> QED
    BY <2>5, <2>6, <2>8 DEF CountInv
<1> QED
  BY <1>5, <1>6 DEF AccountCounted
-----------------------------------------------------------------------------
(* Nobody has been counted at first.                                       *)
LEMMA CountStart == GateInit => CountInv
<1> SUFFICES ASSUME GateInit PROVE CountInv
  OBVIOUS
<1>1. BucketsOK
  BY LimitNumbers DEF GateInit, BucketsOK, LoginRow, Window
<1>2. ASSUME NEW i \in Ip PROVE Placed(FromAddress(i), buckets[<<"login_ip", i>>], window)
  <2>1. FromAddress(i) = {}
    BY DEF GateInit, FromAddress, CountedPhases, GuessPhases
  <2>2. \A place \in [{} -> (0..window) \X (1..IpLimit)] : IsInjective(place)
    BY DEF IsInjective
  <2>3. [l \in {} |-> <<0, 1>>] \in [{} -> (0..window) \X (1..IpLimit)]
    OBVIOUS
  <2> QED
    BY <2>1, <2>2, <2>3 DEF Placed
<1>3. ASSUME NEW a \in Account, NEW w \in Window
      PROVE  /\ Cardinality(GuessesAt(a, w)) <= AccountLimit
             /\ Cardinality(GuessesAt(a, w)) <= buckets[<<"login_account", a>>][w]
  <2>1. GuessesAt(a, w) = {}
    BY DEF GateInit, GuessesAt, Guessing
  <2>2. buckets[<<"login_account", a>>][w] = 0
    BY DEF GateInit, Subject
  <2> QED
    BY <2>1, <2>2, FS_EmptySet, LimitNumbers
<1> QED
  BY <1>1, <1>2, <1>3 DEF CountInv, AddressesOK, AccountsOK

(* A step that counts nobody, and only moves logins along or out.          *)
LEMMA NobodyCounted ==
  ASSUME GateTypeOK, CountInv, TimePasses, buckets' = buckets, \A l \in Login : Stays(l)
  PROVE  CountInv'
<1>1. \A s \in Subject, w \in Window : buckets[s][w] \in Nat
  BY DEF CountInv, BucketsOK
<1>2. CountsGrow
  BY <1>1 DEF CountInv, BucketsOK, CountsGrow
<1> QED
  BY <1>2, CountsKept

(* A login that only changes its phase, and is not let through by that.    *)
LEMMA GoesStays ==
  ASSUME GateTypeOK, NEW l \in Login, NEW phase, Goes(l, phase),
         \/ phase \notin CountedPhases
         \/ logins[l].phase \in GuessPhases
  PROVE  \A k \in Login : Stays(k)
<1>1. /\ logins' = [logins EXCEPT ![l] = [logins[l] EXCEPT !.phase = phase]]
      /\ logins[l] \in LoginRow
  BY DEF Goes, GateTypeOK
<1> DEFINE row == [logins[l] EXCEPT !.phase = phase]
<1>2. /\ row.phase = phase /\ row.ip = logins[l].ip
      /\ row.account = logins[l].account /\ row.stamp = logins[l].stamp
  BY <1>1 DEF LoginRow
<1> HIDE DEF row
<1>3. logins'[l] = row /\ \A k \in Login \ {l} : logins'[k] = logins[k]
  BY <1>1 DEF GateTypeOK, row
<1> QED
  BY <1>2, <1>3 DEF Stays, CountedPhases

(* Every step keeps the counts and who was let through by them in line.    *)
LEMMA CountStep == GateInv /\ CountInv /\ [GateNext]_gateVars => CountInv'
<1> SUFFICES ASSUME GateInv, CountInv, [GateNext]_gateVars PROVE CountInv'
  OBVIOUS
<1>1. GateTypeOK /\ window \in Window /\ window <= window
  BY LimitNumbers DEF GateInv, GateTypeOK, Window
<1>2. window' = window => TimePasses
  BY <1>1 DEF TimePasses
<1>3. logins' = logins => \A k \in Login : Stays(k)
  BY DEF Stays
<1>4. CASE UNCHANGED gateVars
  BY <1>1, <1>2, <1>3, <1>4, NobodyCounted DEF gateVars
<1>5. CASE WindowEnds
  <2>1. window' \in Window /\ window <= window' /\ logins' = logins /\ buckets' = buckets
    BY <1>1, <1>5, LimitNumbers DEF WindowEnds, Window
  <2> QED
    BY <1>1, <1>3, <2>1, NobodyCounted DEF TimePasses
<1>6. CASE GoOn
  <2>1. /\ micro # <<>> /\ Head(micro) \in Login /\ Goes(Head(micro), "hashing")
        /\ logins[Head(micro)].phase = "woken"
        /\ window' = window /\ buckets' = buckets
    BY <1>6 DEF GoOn, GateInv, GateTypeOK, WokenOK, At
  <2>2. \A k \in Login : Stays(k)
    BY <1>1, <2>1, GoesStays DEF GuessPhases
  <2> QED
    BY <1>1, <1>2, <2>1, <2>2, NobodyCounted
<1>7. ASSUME NEW l \in Login, LoginStep(l)
      PROVE  CountInv'
  <2>1. CASE Arrive(l)
    <3> DEFINE row == [logins[l] EXCEPT !.phase = "ip", !.stamp = window]
    <3>1. /\ logins' = [logins EXCEPT ![l] = row] /\ window' = window /\ buckets' = buckets
          /\ logins[l] \in LoginRow /\ logins[l].phase = "new"
      BY <1>1, <2>1 DEF Arrive, At, GateTypeOK
    <3>2. row.phase = "ip" /\ row.stamp = window
      BY <3>1 DEF LoginRow
    <3> HIDE DEF row
    <3>3. logins'[l] = row /\ \A k \in Login \ {l} : logins'[k] = logins[k]
      BY <1>1, <3>1 DEF GateTypeOK
    <3>4. \A i \in Ip : FromAddress(i)' \subseteq FromAddress(i)
      BY <3>2, <3>3 DEF FromAddress, CountedPhases, GuessPhases
    <3>5. \A a \in Account, w \in Window : GuessesAt(a, w)' \subseteq GuessesAt(a, w)
      BY <3>2, <3>3 DEF GuessesAt, Guessing
    <3>6. CountsGrow
      <4>1. \A s \in Subject, w \in Window : buckets[s][w] \in Nat
        BY DEF CountInv, BucketsOK
      <4> QED
        BY <3>1, <4>1 DEF CountInv, BucketsOK, CountsGrow
    <3>7. BucketsOK'
      BY <1>1, <3>1, <3>2, <3>3 DEF CountInv, BucketsOK
    <3> QED
      BY <1>1, <1>2, <3>1, <3>4, <3>5, <3>6, <3>7, AddressesKept, AccountsKept DEF CountInv
  <2>2. CASE IpCounted(l)
    BY <1>1, <2>2, IpCountedOK
  <2>3. CASE AccountCounted(l)
    BY <1>1, <2>3, AccountCountedOK
  <2>4. CASE QueryFails(l)
    <3>1. /\ Goes(l, "refused") /\ window' = window
          /\ logins[l] \in LoginRow
      BY <1>1, <2>4 DEF QueryFails, GateTypeOK
    <3>2. \A k \in Login : Stays(k)
      BY <1>1, <3>1, GoesStays DEF CountedPhases, GuessPhases
    <3>3. \/ \E s \in Subject : Count(l, s)
          \/ buckets' = buckets
      BY <2>4, <3>1 DEF QueryFails, At, Subject, LoginRow
    <3>4. CASE buckets' = buckets
      BY <1>1, <1>2, <3>1, <3>2, <3>4, NobodyCounted
    <3>5. CASE \E s \in Subject : Count(l, s)
      BY <1>1, <1>2, <3>1, <3>2, <3>5, CountAdds, CountsKept DEF CountInv
    <3> QED
      BY <3>3, <3>4, <3>5
  <2>5. CASE EnterPool(l)
    <3>1. /\ logins[l].phase = "passed" /\ window' = window /\ buckets' = buckets
          /\ \E phase \in {"hashing", "refused", "waiting"} : Goes(l, phase)
      BY <2>5 DEF EnterPool, At
    <3>2. \A k \in Login : Stays(k)
      BY <1>1, <3>1, GoesStays DEF GuessPhases
    <3> QED
      BY <1>1, <1>2, <3>1, <3>2, NobodyCounted
  <2>6. ASSUME NEW answer \in {"compared", "refused"}, HashEnds(l, answer)
        PROVE  CountInv'
    <3>1. logins[l].phase = "hashing" /\ window' = window /\ buckets' = buckets
      BY <2>6 DEF HashEnds, At
    <3>2. \A k \in Login : Stays(k)
      <4>1. CASE waiters = <<>>
        <5>1. Goes(l, answer)
          BY <2>6, <4>1 DEF HashEnds
        <5> QED
          BY <1>1, <3>1, <5>1, GoesStays DEF GuessPhases
      <4>2. CASE waiters # <<>>
        <5> DEFINE h     == Head(waiters)
                   ended == [logins[l] EXCEPT !.phase = answer]
                   woken == [logins[h] EXCEPT !.phase = "woken"]
        <5>1. h \in Login /\ logins[h].phase = "waiting"
          BY <4>2, FirstOfQueue DEF GateInv, At
        <5>2. logins' = [logins EXCEPT ![l].phase = answer, ![h].phase = "woken"]
          BY <2>6, <4>2 DEF HashEnds
        <5> HIDE DEF h
        <5>3. l # h
          BY <3>1, <5>1
        <5>4. logins' = [logins EXCEPT ![l] = ended, ![h] = woken]
          BY <1>1, <5>1, <5>2, <5>3 DEF GateTypeOK
        <5>5. /\ ended.ip = logins[l].ip /\ ended.account = logins[l].account
              /\ ended.stamp = logins[l].stamp
              /\ woken.ip = logins[h].ip /\ woken.account = logins[h].account
              /\ woken.stamp = logins[h].stamp
          BY <1>1, <5>1 DEF GateTypeOK, LoginRow
        <5> HIDE DEF ended, woken
        <5>6. /\ logins'[l] = ended /\ logins'[h] = woken
              /\ \A k \in Login \ {l, h} : logins'[k] = logins[k]
          BY <1>1, <5>1, <5>3, <5>4 DEF GateTypeOK
        <5> QED
          BY <3>1, <5>1, <5>5, <5>6 DEF Stays, GuessPhases, CountedPhases
      <4> QED
        BY <4>1, <4>2
    <3> QED
      BY <1>1, <1>2, <3>1, <3>2, NobodyCounted
  <2> QED
    BY <1>7, <2>1, <2>2, <2>3, <2>4, <2>5, <2>6 DEF LoginStep
<1> QED
  BY <1>4, <1>5, <1>6, <1>7 DEF GateNext

(* The invariant of the counting.                                          *)
THEOREM CountInvariant == GateSpec => []CountInv
BY CountStart, CountStep, PoolInvariant, PTL DEF GateSpec

(* No more passwords are compared with an account, and from an address,    *)
(* than the limits allow per window, however counts and the end of a       *)
(* window meet (rate-limit.ts:22-41).                                      *)
THEOREM GuessesAreBounded == GateSpec => []GuessesBounded
<1>1. GateInv /\ CountInv => GuessesBounded
  <2> SUFFICES ASSUME GateInv, CountInv PROVE GuessesBounded
    OBVIOUS
  <2>1. \A a \in Account, w \in Window :
          Cardinality({l \in Guessing : logins[l].account = a /\ logins[l].stamp = w})
            <= AccountLimit
    BY DEF CountInv, AccountsOK, GuessesAt
  <2>2. ASSUME NEW i \in Ip
        PROVE  Cardinality({l \in Guessing : logins[l].ip = i}) <= IpLimit * (window + 1)
    <3> DEFINE S == {l \in Guessing : logins[l].ip = i}
               T == FromAddress(i)
    <3>1. window \in Window
      BY DEF GateInv, GateTypeOK
    <3>2. Placed(T, buckets[<<"login_ip", i>>], window)
      BY DEF CountInv, AddressesOK
    <3>3. S \in SUBSET T
      BY DEF Guessing, FromAddress, CountedPhases, GuessPhases
    <3> HIDE DEF S, T
    <3>4. IsFiniteSet(T) /\ Cardinality(T) <= IpLimit * (window + 1)
      BY <3>1, <3>2, PlacesAreFew
    <3>5. Cardinality(S) <= Cardinality(T) /\ IsFiniteSet(S)
      BY <3>3, <3>4, FS_Subset
    <3>6. Cardinality(S) \in Nat /\ Cardinality(T) \in Nat
      BY <3>4, <3>5, FS_CardinalityType
    <3>7. IpLimit * (window + 1) \in Nat
      BY <3>1, LimitNumbers DEF Window
    <3>8. Cardinality(S) <= IpLimit * (window + 1)
      BY <3>4, <3>5, <3>6, <3>7
    <3> QED
      BY <3>8 DEF S
  <2> QED
    BY <2>1, <2>2 DEF GuessesBounded
<1> QED
  BY <1>1, PoolInvariant, CountInvariant, PTL
-----------------------------------------------------------------------------
(* The half of EveryLoginAnswered that steps can show.                     *)
Rank(phase) ==
  CASE phase = "new" -> 0 [] phase = "ip" -> 1 [] phase = "account" -> 2
    [] phase = "passed" -> 3 [] phase = "waiting" -> 4 [] phase = "woken" -> 5
    [] phase = "hashing" -> 6 [] OTHER -> 7

(* A login stays where it is or comes nearer to its answer.                *)
GoesForward(l) ==
  \/ logins'[l].phase = logins[l].phase
  \/ Rank(logins[l].phase) < Rank(logins'[l].phase)

(* The queue: its last place is taken, or its first leaves it.             *)
QueueMoves ==
  \/ UNCHANGED waiters
  \/ \E l \in Login : waiters' = Append(waiters, l)
  \/ waiters # <<>> /\ waiters' = Tail(waiters)

Listed(l)   == \E i \in 1..Len(waiters) : waiters[i] = l
Remembered  == \A l \in Login : /\ At(l, "waiting") => Listed(l)
                                /\ At(l, "woken") => micro # <<>> /\ micro[1] = l
Attended    == waiters # <<>> => micro # <<>> \/ \E l \in Login : At(l, "hashing")

(* A step that lets one login go on, neither to wait nor to be woken.      *)
LEMMA OneGoesOn ==
  ASSUME GateTypeOK, Remembered, NEW l \in Login, NEW row,
         logins' = [logins EXCEPT ![l] = row], row.phase \notin {"waiting", "woken"},
         logins[l].phase \notin {"waiting", "woken"},
         Rank(logins[l].phase) < Rank(row.phase),
         UNCHANGED <<waiters, micro>>
  PROVE  Remembered' /\ (\A k \in Login : GoesForward(k)) /\ QueueMoves
<1>1. logins'[l] = row /\ \A k \in Login \ {l} : logins'[k] = logins[k]
  BY DEF GateTypeOK
<1>2. Remembered'
  BY <1>1 DEF Remembered, Listed, At
<1>3. \A k \in Login : GoesForward(k)
  BY <1>1 DEF GoesForward
<1> QED
  BY <1>2, <1>3 DEF QueueMoves

(* A caller takes a slot, a place in the queue, or is refused.             *)
LEMMA EnterPoolForward ==
  ASSUME GateInv, Remembered, NEW l \in Login, EnterPool(l)
  PROVE  Remembered' /\ (\A k \in Login : GoesForward(k)) /\ QueueMoves
<1>1. GateTypeOK /\ logins[l].phase = "passed" /\ micro' = micro /\ micro = <<>>
  BY DEF EnterPool, At, GateInv, Task
<1>2. ASSUME NEW phase \in Phase, Goes(l, phase)
      PROVE  /\ logins' = [logins EXCEPT ![l] = [logins[l] EXCEPT !.phase = phase]]
             /\ [logins[l] EXCEPT !.phase = phase].phase = phase
             /\ logins'[l].phase = phase
             /\ \A k \in Login \ {l} : logins'[k] = logins[k]
  BY <1>1, <1>2, PhaseChange DEF Goes, GateTypeOK, LoginRow
<1>3. CASE waiters' = waiters /\ (Goes(l, "hashing") \/ Goes(l, "refused"))
  <2>1. \E phase \in {"hashing", "refused"} : Goes(l, phase)
    BY <1>3
  <2>2. PICK phase \in {"hashing", "refused"} : Goes(l, phase)
    BY <2>1
  <2>3. Rank("passed") < Rank(phase)
    BY <2>2 DEF Rank
  <2> QED
    BY <1>1, <1>2, <1>3, <2>2, <2>3, OneGoesOn DEF Phase
<1>4. CASE waiters' = Append(waiters, l) /\ Goes(l, "waiting")
  <2>1. /\ logins'[l].phase = "waiting"
        /\ \A k \in Login \ {l} : logins'[k] = logins[k]
    BY <1>2, <1>4 DEF Phase
  <2>2. /\ Len(waiters) \in Nat
        /\ Len(waiters') = Len(waiters) + 1
        /\ \A i \in 1..Len(waiters) : waiters'[i] = waiters[i]
        /\ waiters'[Len(waiters) + 1] = l
    BY <1>1, <1>4, AppendProperties DEF GateTypeOK
  <2>3. 1..Len(waiters) \subseteq 1..Len(waiters') /\ Len(waiters) + 1 \in 1..Len(waiters')
    BY <2>2
  <2>4. Remembered'
    <3>1. Listed(l)'
      BY <2>2, <2>3 DEF Listed
    <3>2. \A k \in Login : Listed(k) => Listed(k)'
      BY <2>2, <2>3 DEF Listed
    <3>3. \A k \in Login : ~At(k, "woken")
      BY <1>1 DEF Remembered
    <3> QED
      BY <2>1, <3>1, <3>2, <3>3 DEF Remembered, At
  <2>5. \A k \in Login : GoesForward(k)
    BY <1>1, <2>1 DEF GoesForward, Rank
  <2> QED
    BY <1>4, <2>4, <2>5 DEF QueueMoves
<1> QED
  BY <1>3, <1>4 DEF EnterPool

(* The first of the queue is woken and leaves it; nobody else does.        *)
LEMMA HashEndsForward ==
  ASSUME GateInv, Remembered, NEW l \in Login, NEW answer \in {"compared", "refused"},
         HashEnds(l, answer)
  PROVE  Remembered' /\ (\A k \in Login : GoesForward(k)) /\ QueueMoves
<1>1. GateTypeOK /\ QueueOK /\ logins[l].phase = "hashing" /\ micro = <<>>
  BY DEF HashEnds, At, GateInv, Task
<1>2. Rank("hashing") < Rank(answer) /\ Rank("waiting") < Rank("woken")
  BY DEF Rank
<1>3. CASE waiters = <<>>
  <2>1. /\ logins' = [logins EXCEPT ![l] = [logins[l] EXCEPT !.phase = answer]]
        /\ [logins[l] EXCEPT !.phase = answer].phase = answer
        /\ UNCHANGED <<waiters, micro>>
    BY <1>1, <1>3 DEF HashEnds, Goes, GateTypeOK, LoginRow
  <2> QED
    BY <1>1, <1>2, <2>1, OneGoesOn
<1>4. CASE waiters # <<>>
  <2> DEFINE h == Head(waiters)
  <2>1. /\ h \in Login /\ logins[h].phase = "waiting"
        /\ Tail(waiters) \in Seq(Login)
        /\ Len(Tail(waiters)) = Len(waiters) - 1
        /\ \A i \in 1..Len(Tail(waiters)) : Tail(waiters)[i] = waiters[i + 1]
    BY <1>1, <1>4, FirstOfQueue DEF At
  <2>2. /\ waiters' = Tail(waiters)
        /\ micro' = <<h>>
        /\ logins' = [logins EXCEPT ![l].phase = answer, ![h].phase = "woken"]
    BY <1>4 DEF HashEnds
  <2>3. h = waiters[1] /\ Len(waiters) \in Nat
    BY <1>1, <1>4 DEF GateTypeOK
  <2> HIDE DEF h
  <2>4. l # h
    BY <1>1, <2>1
  <2>5. /\ logins'[l].phase = answer
        /\ logins'[h].phase = "woken"
        /\ \A k \in Login \ {l, h} : logins'[k] = logins[k]
    BY <1>1, <2>1, <2>2, <2>4 DEF GateTypeOK, LoginRow
  <2>6. ASSUME NEW k \in Login \ {h}, Listed(k) PROVE Listed(k)'
    <3>1. PICK i \in 1..Len(waiters) : waiters[i] = k
      BY <2>6 DEF Listed
    <3>2. i # 1 /\ i - 1 \in 1..Len(Tail(waiters)) /\ (i - 1) + 1 = i
      BY <2>1, <2>3, <2>6, <3>1
    <3>3. waiters'[i - 1] = k /\ i - 1 \in 1..Len(waiters')
      BY <2>1, <2>2, <3>1, <3>2
    <3> QED
      BY <3>3 DEF Listed
  <2>7. micro' # <<>> /\ micro'[1] = h
    BY <2>2
  <2>8. Remembered'
    <3>1. \A k \in Login : ~At(k, "woken")
      BY <1>1 DEF Remembered
    <3> QED
      BY <2>5, <2>6, <2>7, <3>1 DEF Remembered, At
  <2>9. \A k \in Login : GoesForward(k)
    BY <1>1, <1>2, <2>1, <2>5 DEF GoesForward
  <2> QED
    BY <1>4, <2>2, <2>8, <2>9 DEF QueueMoves
<1> QED
  BY <1>3, <1>4

(* No step forgets a login, or sets one back.                              *)
LEMMA ForwardStep ==
  ASSUME GateInv, Remembered, [GateNext]_gateVars
  PROVE  Remembered' /\ (\A k \in Login : GoesForward(k)) /\ QueueMoves
<1>1. GateTypeOK
  BY DEF GateInv
<1>2. CASE UNCHANGED <<logins, waiters, micro>>
  BY <1>2 DEF Remembered, Listed, At, GoesForward, QueueMoves
<1>3. CASE GoOn
  <2>1. /\ micro # <<>> /\ Len(micro) = 1 /\ micro[1] \in Login /\ Head(micro) = micro[1]
        /\ logins[micro[1]].phase = "woken"
        /\ Goes(micro[1], "hashing") /\ waiters' = waiters
    BY <1>1, <1>3 DEF GoOn, GateInv, WokenOK, GateTypeOK, At
  <2>2. /\ logins'[micro[1]].phase = "hashing"
        /\ \A k \in Login \ {micro[1]} : logins'[k] = logins[k]
    BY <1>1, <2>1, PhaseChange DEF Phase
  <2>3. Remembered'
    BY <2>1, <2>2 DEF Remembered, Listed, At
  <2>4. \A k \in Login : GoesForward(k)
    BY <2>1, <2>2 DEF GoesForward, Rank
  <2> QED
    BY <2>1, <2>3, <2>4 DEF QueueMoves
<1>4. ASSUME NEW l \in Login, LoginStep(l)
      PROVE  Remembered' /\ (\A k \in Login : GoesForward(k)) /\ QueueMoves
  <2> DEFINE moved(phase) == [logins[l] EXCEPT !.phase = phase]
             stamped(phase) == [logins[l] EXCEPT !.phase = phase, !.stamp = window]
  <2>1. /\ \A phase \in Phase : moved(phase).phase = phase
        /\ \A phase \in Phase : stamped(phase).phase = phase
        /\ \A phase \in Phase : Goes(l, phase) => logins' = [logins EXCEPT ![l] = moved(phase)]
    BY <1>1 DEF GateTypeOK, LoginRow, Goes
  <2>2. {"ip", "account", "passed", "refused"} \subseteq Phase
    BY DEF Phase
  <2>3. CASE Arrive(l)
    <3>1. logins' = [logins EXCEPT ![l] = stamped("ip")]
      BY <2>3 DEF Arrive
    <3>2. Rank("new") < Rank("ip")
      BY DEF Rank
    <3>3. logins[l].phase = "new" /\ UNCHANGED <<waiters, micro>>
      BY <2>3 DEF Arrive, At
    <3>4. stamped("ip").phase = "ip"
      BY <2>1, <2>2
    <3> HIDE DEF stamped
    <3> QED
      BY <1>1, <3>1, <3>2, <3>3, <3>4, OneGoesOn
  <2>4. CASE IpCounted(l)
    <3>1. \/ logins' = [logins EXCEPT ![l] = stamped("account")]
          \/ logins' = [logins EXCEPT ![l] = moved("refused")]
      BY <2>4 DEF IpCounted, Goes
    <3>2. Rank("ip") < Rank("account") /\ Rank("ip") < Rank("refused")
      BY DEF Rank
    <3> QED
      BY <1>1, <2>1, <2>2, <2>4, <3>1, <3>2, OneGoesOn DEF IpCounted, At
  <2>5. CASE AccountCounted(l)
    <3>1. \/ logins' = [logins EXCEPT ![l] = moved("passed")]
          \/ logins' = [logins EXCEPT ![l] = moved("refused")]
      BY <2>5 DEF AccountCounted, Goes
    <3>2. Rank("account") < Rank("passed") /\ Rank("account") < Rank("refused")
      BY DEF Rank
    <3> QED
      BY <1>1, <2>1, <2>2, <2>5, <3>1, <3>2, OneGoesOn DEF AccountCounted, At
  <2>6. CASE QueryFails(l)
    <3>1. \A phase \in {"ip", "account", "passed"} : Rank(phase) < Rank("refused")
      BY DEF Rank
    <3>2. /\ logins[l].phase \in {"ip", "account", "passed"} /\ moved("refused").phase = "refused"
          /\ logins' = [logins EXCEPT ![l] = moved("refused")]
          /\ UNCHANGED <<waiters, micro>>
      BY <2>1, <2>2, <2>6 DEF QueryFails
    <3> HIDE DEF moved
    <3> QED
      BY <1>1, <3>1, <3>2, OneGoesOn
  <2>7. CASE EnterPool(l)
    BY <2>7, EnterPoolForward
  <2>8. CASE \E answer \in {"compared", "refused"} : HashEnds(l, answer)
    BY <2>8, HashEndsForward
  <2> QED
    BY <1>4, <2>3, <2>4, <2>5, <2>6, <2>7, <2>8 DEF LoginStep
<1> QED
  BY <1>2, <1>3, <1>4 DEF GateNext, gateVars, WindowEnds

(* The pool forgets nobody: who waits has a place in the queue, which only *)
(* moves up, who was woken is about to go on, and while somebody waits a   *)
(* hash is under way whose end wakes the first (password.ts:33-45).  No    *)
(* step sets a login back.  It is what EveryLoginAnswered needs of the     *)
(* steps themselves.                                                       *)
THEOREM LoginsGoForward ==
  GateSpec => /\ [](Remembered /\ Attended)
              /\ [][(\A l \in Login : GoesForward(l)) /\ QueueMoves]_gateVars
<1>1. GateInit => Remembered
  BY DEF GateInit, Remembered, At, LoginRow
<1>2. GateInv /\ Remembered /\ [GateNext]_gateVars =>
        Remembered' /\ [(\A l \in Login : GoesForward(l)) /\ QueueMoves]_gateVars
  BY ForwardStep
<1>3. GateInv => Attended
  <2> SUFFICES ASSUME GateInv, waiters # <<>>, micro = <<>>
               PROVE  \E l \in Login : At(l, "hashing")
    BY DEF Attended
  <2>1. Cardinality(Hashing) = MAX_PARALLEL
    BY GateNumbers DEF GateInv, GateTypeOK, SlotsOK
  <2>2. Hashing # {}
    BY <2>1, FS_EmptySet, GateNumbers
  <2> QED
    BY <2>2 DEF Hashing
<1> QED
  BY <1>1, <1>2, <1>3, PoolInvariant, PTL DEF GateSpec
=============================================================================
