------------------------------ MODULE LoginGate ------------------------------
(***************************************************************************)
(* What a login passes before its password is compared: the rate limits of *)
(* its address and of its account, rows of auth_rate_buckets counted by    *)
(* an upsert, and the pool that runs few password hashes at a time in the  *)
(* server process and lets few more wait.                                  *)
(*                                                                         *)
(* A step of the server is a task of its event loop: a request arrives, a  *)
(* query or a hash is answered.  The promise reactions it leaves behind    *)
(* (micro) run before the next task.  What the login does afterwards is in *)
(* Accounts; windows are fixed, and their limits are those of the account  *)
(* and the address, whichever window the process's clock was in.           *)
(***************************************************************************)
EXTENDS Naturals, Sequences, FiniteSets

CONSTANTS
  Login,          \* login requests
  Ip, Account,
  IpLimit,        \* LOGIN_IP_LIMIT, 20 by default
  AccountLimit,   \* LOGIN_ACCOUNT_LIMIT, 10 by default
  MAX_PARALLEL,   \* 2 in the code
  MAX_WAITING,    \* 16 in the code
  LastWindow      \* bound: windows of 15 minutes

ASSUME LoginGateAssumption ==
  /\ IsFiniteSet(Login)
  /\ {IpLimit, AccountLimit, MAX_PARALLEL, MAX_WAITING, LastWindow} \subseteq Nat \ {0}

VARIABLES
  window,     \* the window the clock of the process is in
  buckets,    \* auth_rate_buckets: scope, subject and window to their count
  logins,     \* where each login is
  active,     \* password.ts: hashes being computed
  waiters,    \* password.ts: callers waiting for a slot
  micro       \* callers that were woken and have not gone on yet

gateVars == <<window, buckets, logins, active, waiters, micro>>

Window  == 0..LastWindow
Subject == ({"login_ip"} \X Ip) \cup ({"login_account"} \X Account)
Phase   == {"new", "ip", "account", "passed", "waiting", "woken", "hashing",
            "compared", "refused"}

(* stamp: the window read from the clock for the upsert under way or last  *)
(* made.                                                                   *)
LoginRow == [phase : Phase, ip : Ip, account : Account, stamp : Window]

GateInit ==
  /\ window = 0
  /\ buckets = [s \in Subject |-> [w \in Window |-> 0]]
  /\ logins \in [Login -> {r \in LoginRow : r.phase = "new" /\ r.stamp = 0}]
  /\ active = 0
  /\ waiters = <<>>
  /\ micro = <<>>

(* Tasks run when no promise reaction is left.                             *)
Task == micro = <<>>

Goes(l, phase) == logins' = [logins EXCEPT ![l].phase = phase]
At(l, phase)   == logins[l].phase = phase

WindowEnds ==
  /\ window < LastWindow
  /\ window' = window + 1
  /\ UNCHANGED <<buckets, logins, active, waiters, micro>>

(* login: the address is counted first, by the window of this moment.      *)
Arrive(l) ==
  /\ Task /\ At(l, "new")
  /\ logins' = [logins EXCEPT ![l].phase = "ip", ![l].stamp = window]
  /\ UNCHANGED <<window, buckets, active, waiters, micro>>

(* The upsert of consumeRateLimit and what its answer leads to; or no      *)
(* answer, which refuses the login as well, counted or not.                *)
Count(l, subject) ==
  buckets' = [buckets EXCEPT ![subject][logins[l].stamp] = @ + 1]

(* Fault variant: the count is compared before this request is in it.      *)
WithinBefore(l, subject, limit) == buckets[subject][logins[l].stamp] <= limit

Within(l, subject, limit) == buckets[subject][logins[l].stamp] + 1 <= limit

IpCounted(l) ==
  LET subject == <<"login_ip", logins[l].ip>> IN
  /\ Task /\ At(l, "ip")
  /\ Count(l, subject)
  /\ IF Within(l, subject, IpLimit)
     THEN logins' = [logins EXCEPT ![l].phase = "account", ![l].stamp = window]
     ELSE Goes(l, "refused")
  /\ UNCHANGED <<window, active, waiters, micro>>

AccountCounted(l) ==
  LET subject == <<"login_account", logins[l].account>> IN
  /\ Task /\ At(l, "account")
  /\ Count(l, subject)
  /\ Goes(l, IF Within(l, subject, AccountLimit) THEN "passed" ELSE "refused")
  /\ UNCHANGED <<window, active, waiters, micro>>

QueryFails(l) ==
  /\ Task /\ logins[l].phase \in {"ip", "account", "passed"}
  /\ Goes(l, "refused")
  /\ CASE At(l, "ip")      -> \/ Count(l, <<"login_ip", logins[l].ip>>)
                              \/ UNCHANGED buckets
       [] At(l, "account") -> \/ Count(l, <<"login_account", logins[l].account>>)
                              \/ UNCHANGED buckets
       [] OTHER            -> UNCHANGED buckets
  /\ UNCHANGED <<window, active, waiters, micro>>
-----------------------------------------------------------------------------
(* Fault variant: a caller for whom there is no room is not told so.       *)
EnterPoolUnheard(l) ==
  /\ Task /\ At(l, "passed")
  /\ \/ /\ active < MAX_PARALLEL
        /\ active' = active + 1
        /\ Goes(l, "hashing")
        /\ UNCHANGED waiters
     \/ /\ active >= MAX_PARALLEL
        /\ waiters' = IF Len(waiters) < MAX_WAITING THEN Append(waiters, l) ELSE waiters
        /\ Goes(l, "waiting")
        /\ UNCHANGED active
  /\ UNCHANGED <<window, buckets, micro>>

(* boundedScrypt, called when the user's row has been read (or the dummy   *)
(* hash stands for it).                                                    *)
EnterPool(l) ==
  /\ Task /\ At(l, "passed")
  /\ \/ /\ active < MAX_PARALLEL
        /\ active' = active + 1
        /\ Goes(l, "hashing")
        /\ UNCHANGED waiters
     \/ /\ active >= MAX_PARALLEL
        /\ Len(waiters) >= MAX_WAITING
        /\ Goes(l, "refused")
        /\ UNCHANGED <<active, waiters>>
     \/ /\ active >= MAX_PARALLEL
        /\ Len(waiters) < MAX_WAITING
        /\ waiters' = Append(waiters, l)
        /\ Goes(l, "waiting")
        /\ UNCHANGED active
  /\ UNCHANGED <<window, buckets, micro>>

(* Fault variant: a hash that fails wakes nobody.                          *)
HashEndsSilently(l, answer) ==
  /\ Task /\ At(l, "hashing")
  /\ active' = active - 1
  /\ IF waiters = <<>> \/ answer = "refused"
     THEN /\ Goes(l, answer)
          /\ UNCHANGED <<waiters, micro>>
     ELSE /\ waiters' = Tail(waiters)
          /\ micro' = <<Head(waiters)>>
          /\ logins' = [logins EXCEPT ![l].phase = answer, ![Head(waiters)].phase = "woken"]
  /\ UNCHANGED <<window, buckets>>

(* A hash is there, or failed; `finally' gives the slot back and wakes the *)
(* first that waits.                                                       *)
HashEnds(l, answer) ==
  /\ Task /\ At(l, "hashing")
  /\ active' = active - 1
  /\ IF waiters = <<>>
     THEN /\ Goes(l, answer)
          /\ UNCHANGED <<waiters, micro>>
     ELSE /\ waiters' = Tail(waiters)
          /\ micro' = <<Head(waiters)>>
          /\ logins' = [logins EXCEPT ![l].phase = answer, ![Head(waiters)].phase = "woken"]
  /\ UNCHANGED <<window, buckets>>

(* The woken caller goes on, without looking at active again.              *)
GoOn ==
  /\ micro # <<>>
  /\ micro' = Tail(micro)
  /\ active' = active + 1
  /\ Goes(Head(micro), "hashing")
  /\ UNCHANGED <<window, buckets, waiters>>

LoginStep(l) ==
  \/ Arrive(l) \/ IpCounted(l) \/ AccountCounted(l) \/ QueryFails(l) \/ EnterPool(l)
  \/ \E answer \in {"compared", "refused"} : HashEnds(l, answer)

GateNext == WindowEnds \/ GoOn \/ \E l \in Login : LoginStep(l)

GateSpec == GateInit /\ [][GateNext]_gateVars

(* Queries and hashes are answered, with a result or an error, and the     *)
(* event loop runs what is due.                                            *)
GateFairSpec == GateSpec /\ WF_gateVars(GoOn) /\ \A l \in Login : WF_gateVars(LoginStep(l))
-----------------------------------------------------------------------------
(* Passwords are compared with an account, and from an address, no more    *)
(* often per window than the limit says, however the counting of           *)
(* concurrent requests and the end of a window meet (rate-limit.ts:22-41). *)
(* Stamp is the window in which the account was counted.                   *)
Guessing == {l \in Login : logins[l].phase \in {"passed", "waiting", "woken", "hashing", "compared"}}

GuessesBounded ==
  /\ \A a \in Account, w \in Window :
       Cardinality({l \in Guessing : logins[l].account = a /\ logins[l].stamp = w}) <= AccountLimit
  /\ \A i \in Ip :
       Cardinality({l \in Guessing : logins[l].ip = i}) <= IpLimit * (window + 1)

(* At most MAX_PARALLEL hashes are computed at a time although a slot is   *)
(* given back before the waiter it wakes has taken it (password.ts:43);    *)
(* and nobody waits while a slot is free.                                  *)
SlotsHandedOver ==
  /\ Cardinality({l \in Login : At(l, "hashing")}) <= MAX_PARALLEL
  /\ Len(waiters) <= MAX_WAITING
  /\ Task /\ waiters # <<>> => active = MAX_PARALLEL

(* Every login that arrived is answered, whatever fails on the way: the    *)
(* pool forgets nobody (password.ts:33-45).                                *)
EveryLoginAnswered ==
  \A l \in Login : At(l, "ip") ~> (At(l, "compared") \/ At(l, "refused"))
=============================================================================
