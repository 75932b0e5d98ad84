---------------------------- MODULE AccessProofs ----------------------------
(***************************************************************************)
(* Theorems about Accounts and about Grants: who somebody is, and what     *)
(* they may use, for any users, sessions, requests, groups and keys.       *)
(*                                                                         *)
(* A session knows the password because three things agree: whoever has a  *)
(* row has a hash that is as new as its version, a session opens only with *)
(* the version and the hash of that row, and a session whose version is    *)
(* not the user's is not usable (SessionsAgree).                           *)
(*                                                                         *)
(* Of the grants, every request writes at most one row of a group or of a  *)
(* key (GroupPut, KeyPut), and none that is deleted.                       *)
(***************************************************************************)
EXTENDS Accounts, Grants, TLAPS

RowsOK ==
  /\ users \in [User -> UserRow \cup {NoUser}]
  /\ sessions \in [Session -> SessionRow \cup {NoSession}]
  /\ requests \in [Request -> LoginRequest \cup ChangeRequest \cup {Idle}]

(* What is not a row differs from every row.                               *)
LEMMA RowsExist ==
  /\ NoUser \notin UserRow
  /\ NoSession \notin SessionRow
  /\ Idle \notin LoginRequest /\ Idle \notin ChangeRequest
<1>1. \A x \in UserRow : x.status # "absent"
  BY DEF UserRow, Status
<1>2. NoUser.status = "absent"
  BY DEF NoUser
<1>3. \A x \in SessionRow : DOMAIN x # {"user"}
  BY DEF SessionRow
<1>4. DOMAIN NoSession = {"user"}
  BY DEF NoSession
<1>5. \A x \in LoginRequest \cup ChangeRequest : x.kind # "idle"
  BY DEF LoginRequest, ChangeRequest
<1>6. Idle.kind = "idle"
  BY DEF Idle
<1> QED
  BY <1>1, <1>2, <1>3, <1>4, <1>5, <1>6

(* The kind of a request tells what it carries.                            *)
LEMMA KindOfRequest ==
  ASSUME NEW r \in LoginRequest \cup ChangeRequest \cup {Idle}
  PROVE  /\ r.kind = "login" <=> r \in LoginRequest
         /\ r.kind = "change" <=> r \in ChangeRequest
BY DEF LoginRequest, ChangeRequest, Idle

(* A usable session and its user have rows.                                *)
LEMMA UsableRows ==
  ASSUME AccountsTypeOK, NEW s \in Session, Usable(s)
  PROVE  /\ sessions[s] \in SessionRow
         /\ sessions[s].user \in User
         /\ users[sessions[s].user] \in UserRow
<1>1. sessions[s] \in SessionRow
  BY DEF AccountsTypeOK, Usable, Opened
<1>2. sessions[s].user \in User
  BY <1>1 DEF SessionRow
<1> QED
  BY <1>1, <1>2 DEF AccountsTypeOK, Usable, Exists

(* A request that passed its second look has a usable session.             *)
LEMMA RequestRows ==
  ASSUME AccountsTypeOK, NEW q \in Request, InSession(q)
  PROVE  /\ requests[q].session \in Session
         /\ Usable(requests[q].session)
         /\ Principal(q) \in User
         /\ users[Principal(q)] \in UserRow
<1>1. requests[q] \in ChangeRequest
  BY KindOfRequest DEF AccountsTypeOK, InSession
<1>2. requests[q].session \in Session
  BY <1>1 DEF ChangeRequest
<1> QED
  BY <1>2, UsableRows DEF InSession, Principal

(* Ending the sessions of a user ends those, and touches nothing else.     *)
LEMMA EndSessionsRows ==
  ASSUME RowsOK, NEW u \in User, EndSessions(u)
  PROVE  /\ sessions' \in [Session -> SessionRow \cup {NoSession}]
         /\ \A s \in Session :
              /\ Opened(s)' <=> Opened(s)
              /\ Opened(s) => /\ sessions'[s].user = sessions[s].user
                              /\ sessions'[s].version = sessions[s].version
                              /\ sessions'[s].proof = sessions[s].proof
                              /\ sessions[s].user = u => sessions'[s].revoked
              /\ Opened(s) /\ sessions[s].user # u => sessions'[s] = sessions[s]
<1> DEFINE end(row) == [row EXCEPT !.revoked = TRUE, !.ended = TRUE]
<1>1. ASSUME NEW row \in SessionRow
      PROVE  /\ end(row) \in SessionRow
             /\ end(row).user = row.user
             /\ end(row).version = row.version
             /\ end(row).proof = row.proof
             /\ end(row).revoked
  BY DEF SessionRow
<1>2. \A s \in Session : sessions[s] \in SessionRow \cup {NoSession}
  BY DEF RowsOK
<1>3. \A s \in Session : sessions'[s] = IF Opened(s) /\ sessions[s].user = u
                                        THEN end(sessions[s]) ELSE sessions[s]
  BY DEF EndSessions
<1>4. \A s \in Session : Opened(s) => sessions[s] \in SessionRow
  BY <1>2 DEF Opened
<1>5. \A s \in Session : sessions'[s] \in SessionRow \cup {NoSession}
  <2> HIDE DEF end
  <2> QED  BY <1>1, <1>2, <1>3, <1>4
<1>6. sessions' \in [Session -> SessionRow \cup {NoSession}]
  BY <1>5 DEF EndSessions
<1>7. \A s \in Session : Opened(s)' <=> Opened(s)
  <2> HIDE DEF end
  <2> QED  BY <1>1, <1>3, <1>4, RowsExist DEF Opened
<1> HIDE DEF end
<1> QED
  BY <1>1, <1>3, <1>4, <1>6, <1>7

(* The rows keep their types when users and sessions stay, and requests    *)
(* only end.                                                               *)
LEMMA TypeKept ==
  ASSUME AccountsTypeOK, RowsOK',
         \A u \in User : Exists(u) => Exists(u)',
         \A s \in Session : Opened(s) =>
           Opened(s)' /\ sessions'[s].user = sessions[s].user,
         \A s \in Session : Opened(s)' /\ ~Opened(s) =>
           Exists(sessions[s].user)',
         \A q \in Request : requests'[q] \in {requests[q], Idle}
  PROVE  AccountsTypeOK'
<1>1. \A s \in Session : Opened(s) => sessions[s].user \in User
  BY DEF AccountsTypeOK, Opened, SessionRow
<1>2. \A s \in Session : Opened(s)' => Exists(sessions[s].user)'
  <2> SUFFICES ASSUME NEW s \in Session, Opened(s)'
               PROVE  Exists(sessions[s].user)'
    OBVIOUS
  <2>1. CASE Opened(s)
    BY <2>1, <1>1 DEF AccountsTypeOK, Exists
  <2>2. CASE ~Opened(s)
    BY <2>2
  <2> QED
    BY <2>1, <2>2
<1>3. ASSUME NEW q \in Request, requests'[q].kind # "idle"
      PROVE  requests'[q] = requests[q]
  BY <1>3 DEF Idle
<1>4. \A q \in Request : requests[q].kind = "login" => requests[q].user \in User
  BY KindOfRequest DEF AccountsTypeOK, LoginRequest
<1>5. \A q \in Request : requests[q].kind = "change" => requests[q].session \in Session
  BY KindOfRequest DEF AccountsTypeOK, ChangeRequest
<1>6. ASSUME NEW q \in Request, requests'[q].kind = "login"
      PROVE  Exists(requests[q].user)'
  <2>1. requests'[q] = requests[q]
    BY <1>3, <1>6
  <2>2. Exists(requests[q].user) /\ requests[q].user \in User
    BY <2>1, <1>4, <1>6 DEF AccountsTypeOK
  <2> QED
    BY <2>1, <2>2 DEF Exists
<1>7. ASSUME NEW q \in Request, requests'[q].kind = "change"
      PROVE  Opened(requests[q].session)'
  <2>1. requests'[q] = requests[q]
    BY <1>3, <1>7
  <2>2. Opened(requests[q].session) /\ requests[q].session \in Session
    BY <2>1, <1>5, <1>7 DEF AccountsTypeOK
  <2> QED
    BY <2>1, <2>2 DEF Opened
<1> QED
  BY <1>2, <1>6, <1>7 DEF AccountsTypeOK, RowsOK

(* A new session, or the next step of a password, is of its type.          *)
LEMMA NewRows ==
  /\ \A role \in Role : NewUser(role) \in UserRow
  /\ \A u \in UserRow, role \in Role, status \in Status :
       [u EXCEPT !.role = role, !.status = status] \in UserRow
  /\ \A u \in UserRow : u.version < LastVersion /\ u.hash = u.version =>
       [u EXCEPT !.version = @ + 1, !.hash = @ + 1] \in UserRow
  /\ \A s \in SessionRow : [s EXCEPT !.revoked = TRUE, !.ended = TRUE] \in SessionRow
  /\ \A s \in SessionRow : [s EXCEPT !.expired = TRUE] \in SessionRow
  /\ \A s \in SessionRow : s.csrf < LastToken => [s EXCEPT !.csrf = @ + 1] \in SessionRow
<1> USE AccountsAssumption DEF AccountsAssumption
<1>1. \A role \in Role : NewUser(role) \in UserRow
  BY DEF NewUser, UserRow, Status
<1>2. \A u \in UserRow, role \in Role, status \in Status :
        [u EXCEPT !.role = role, !.status = status] \in UserRow
  BY DEF UserRow
<1>3. \A u \in UserRow : u.version < LastVersion /\ u.hash = u.version =>
        [u EXCEPT !.version = @ + 1, !.hash = @ + 1] \in UserRow
  <2>1. \A u \in UserRow, n \in 1..LastVersion :
          [u EXCEPT !.version = n, !.hash = n] \in UserRow
    BY DEF UserRow
  <2>2. \A u \in UserRow : u.version \in 1..LastVersion
    BY DEF UserRow
  <2>3. \A n \in 1..LastVersion : n < LastVersion => n + 1 \in 1..LastVersion
    OBVIOUS
  <2> QED
    BY <2>1, <2>2, <2>3
<1>4. \A s \in SessionRow : [s EXCEPT !.revoked = TRUE, !.ended = TRUE] \in SessionRow
  BY DEF SessionRow
<1>5. \A s \in SessionRow : [s EXCEPT !.expired = TRUE] \in SessionRow
  BY DEF SessionRow
<1>6. \A s \in SessionRow : s.csrf < LastToken => [s EXCEPT !.csrf = @ + 1] \in SessionRow
  BY DEF SessionRow
<1> QED
  BY <1>1, <1>2, <1>3, <1>4, <1>5, <1>6

(* A password is as new as its version, an open session was opened with    *)
(* the password of its version, and what was ended is revoked.             *)
SessionsAgree ==
  /\ \A u \in User : Exists(u) => users[u].hash = users[u].version
  /\ \A s \in Session : Opened(s) =>
       /\ sessions[s].proof = sessions[s].version
       /\ sessions[s].ended => sessions[s].revoked

AccountsInv == AccountsTypeOK /\ SessionsAgree /\ AnAdminRemains

(* The first administrator is active, and there are no sessions yet.       *)
LEMMA InitAccounts == AccountsInit => AccountsInv
<1> SUFFICES ASSUME AccountsInit PROVE AccountsInv
  OBVIOUS
<1>1. "admin" \in Role /\ NewUser("admin") \in UserRow
  BY NewRows DEF Role
<1>2. RowsOK
  BY <1>1 DEF AccountsInit, RowsOK
<1>3. \A s \in Session : ~Opened(s)
  BY DEF AccountsInit, Opened
<1>4. \A q \in Request : requests[q].kind = "idle"
  BY DEF AccountsInit, Idle
<1>5. AccountsTypeOK
  BY <1>2, <1>3, <1>4 DEF AccountsTypeOK, RowsOK
<1>6. SessionsAgree
  BY <1>3 DEF SessionsAgree, AccountsInit, Exists, NewUser
<1>7. users[Root] = NewUser("admin") /\ Root \in User
  BY AccountsAssumption DEF AccountsAssumption, AccountsInit
<1>8. ActiveAdmin(Root)
  BY <1>1, <1>7, RowsExist DEF ActiveAdmin, Exists, NewUser
<1> QED
  BY <1>5, <1>6, <1>7, <1>8 DEF AccountsInv, AnAdminRemains
-----------------------------------------------------------------------------
(* What was read, or a request that ends, disturbs only the requests.      *)
LEMMA RequestStep ==
  ASSUME AccountsInv, NEW q \in Request,
         \/ \E u \in User : LoginReads(q, u)
         \/ \E s \in Session, token \in 0..LastToken : Begin(q, s, token)
         \/ Refused(q)
  PROVE  AccountsInv'
<1> USE DEF AccountsInv
<1>1. UNCHANGED <<users, sessions>>
  BY DEF LoginReads, Begin, Refused
<1>2. ASSUME NEW r \in LoginRequest \cup ChangeRequest \cup {Idle},
             requests' = [requests EXCEPT ![q] = r],
             r.kind = "login" => Exists(r.user),
             r.kind = "change" => Opened(r.session)
      PROVE  AccountsTypeOK'
  <2>1. requests' \in [Request -> LoginRequest \cup ChangeRequest \cup {Idle}]
    BY <1>2 DEF AccountsTypeOK
  <2>2. \A p \in Request : requests'[p] = requests[p] \/ requests'[p] = r
    BY <1>2 DEF AccountsTypeOK
  <2> QED
    BY <1>1, <1>2, <2>1, <2>2 DEF AccountsTypeOK, Opened, Exists
<1>3. ASSUME NEW u \in User, LoginReads(q, u)
      PROVE  AccountsTypeOK'
  <2> DEFINE r == [kind |-> "login", user |-> u,
                   version |-> users[u].version, hash |-> users[u].hash]
  <2>1. users[u] \in UserRow
    BY <1>3 DEF LoginReads, AccountsTypeOK, Exists
  <2>2. r \in LoginRequest
    BY <2>1 DEF LoginRequest, UserRow
  <2>3. Exists(r.user) /\ r.kind = "login"
    BY <1>3 DEF LoginReads
  <2>4. requests' = [requests EXCEPT ![q] = r]
    BY <1>3 DEF LoginReads
  <2> QED
    BY <2>2, <2>3, <2>4, <1>2
<1>4. ASSUME NEW s \in Session, NEW token \in 0..LastToken, Begin(q, s, token)
      PROVE  AccountsTypeOK'
  <2> DEFINE r == [kind |-> "change", session |-> s, csrf |-> token,
                   role |-> users[sessions[s].user].role]
  <2>1. users[sessions[s].user] \in UserRow
    BY <1>4, UsableRows DEF Begin
  <2>2. r \in ChangeRequest
    BY <2>1 DEF ChangeRequest, UserRow
  <2>3. Opened(r.session) /\ r.kind = "change"
    BY <1>4 DEF Begin, Usable
  <2>4. requests' = [requests EXCEPT ![q] = r]
    BY <1>4 DEF Begin
  <2> QED
    BY <2>2, <2>3, <2>4, <1>2
<1>5. ASSUME Refused(q)
      PROVE  AccountsTypeOK'
  BY <1>5, <1>2 DEF Refused, Idle
<1>6. AccountsTypeOK'
  BY <1>3, <1>4, <1>5
<1> QED
  BY <1>1, <1>6 DEF SessionsAgree, AnAdminRemains, ActiveAdmin, Exists, Opened

(* A request of LoginCommits, or of a change, ends in its transaction.     *)
LEMMA RequestEnds ==
  ASSUME AccountsTypeOK, NEW q \in Request,
         requests' = [requests EXCEPT ![q] = Idle]
  PROVE  /\ requests' \in [Request -> LoginRequest \cup ChangeRequest \cup {Idle}]
         /\ \A p \in Request : requests'[p] \in {requests[p], Idle}
BY DEF AccountsTypeOK

(* A login opens its session with the password the user has now.           *)
LEMMA LoginStep ==
  ASSUME AccountsInv, NEW q \in Request, NEW s \in Session, LoginCommits(q, s)
  PROVE  AccountsInv'
<1> USE DEF AccountsInv
<1> DEFINE r   == requests[q]
           row == [user |-> r.user, version |-> users[r.user].version, csrf |-> 0,
                   revoked |-> FALSE, expired |-> FALSE, proof |-> r.hash,
                   ended |-> FALSE]
<1>1. r \in LoginRequest /\ r.user \in User /\ Exists(r.user)
  BY KindOfRequest DEF LoginCommits, AccountsTypeOK, LoginRequest
<1>2. users[r.user] \in UserRow
  BY <1>1 DEF AccountsTypeOK, Exists
<1>3. row \in SessionRow
  BY <1>1, <1>2, AccountsAssumption
  DEF SessionRow, LoginRequest, UserRow, AccountsAssumption
<1>4. /\ ~Opened(s)
      /\ sessions' = [sessions EXCEPT ![s] = row]
      /\ requests' = [requests EXCEPT ![q] = Idle]
      /\ users' = users
  BY DEF LoginCommits, CreateSession
<1>5. users[r.user].hash = users[r.user].version /\ users[r.user].hash = r.hash
  BY <1>1 DEF LoginCommits, SessionsAgree
<1> HIDE DEF r, row
<1>6. /\ sessions' \in [Session -> SessionRow \cup {NoSession}]
      /\ sessions'[s] = row
      /\ \A t \in Session \ {s} : sessions'[t] = sessions[t]
  BY <1>3, <1>4 DEF AccountsTypeOK
<1>7. RowsOK'
  BY <1>4, <1>6, RequestEnds DEF RowsOK, AccountsTypeOK
<1>8. row.user = r.user /\ row.proof = row.version /\ ~row.ended
  BY <1>5 DEF row
<1>9. AccountsTypeOK'
  BY <1>1, <1>3, <1>4, <1>6, <1>7, <1>8, RequestEnds, TypeKept DEF Opened, Exists
<1>10. SessionsAgree'
  BY <1>4, <1>6, <1>8 DEF SessionsAgree, Opened, Exists
<1>11. AnAdminRemains'
  BY <1>4 DEF AnAdminRemains, ActiveAdmin, Exists
<1> QED
  BY <1>9, <1>10, <1>11

(* One session loses its user, its token or its time.                      *)
LEMMA SessionStep ==
  ASSUME AccountsInv, NEW s \in Session,
         \/ \E q \in Request : Logout(q) /\ s = requests[q].session
         \/ RefreshCsrf(s)
         \/ Expire(s)
  PROVE  AccountsInv'
<1> USE DEF AccountsInv
<1>1. ASSUME Opened(s), NEW row \in SessionRow,
             row.user = sessions[s].user,
             row.proof = row.version,
             row.ended => row.revoked,
             sessions' = [sessions EXCEPT ![s] = row],
             users' = users,
             requests' \in [Request -> LoginRequest \cup ChangeRequest \cup {Idle}],
             \A p \in Request : requests'[p] \in {requests[p], Idle}
      PROVE  AccountsInv'
  <2>1. /\ sessions' \in [Session -> SessionRow \cup {NoSession}]
        /\ sessions'[s] = row
        /\ \A t \in Session \ {s} : sessions'[t] = sessions[t]
    BY <1>1 DEF AccountsTypeOK
  <2>2. RowsOK'
    BY <1>1, <2>1 DEF RowsOK, AccountsTypeOK
  <2>3. \A t \in Session : Opened(t) =>
          Opened(t)' /\ sessions'[t].user = sessions[t].user
    BY <1>1, <2>1, RowsExist DEF Opened
  <2>4. \A t \in Session : Opened(t)' => Opened(t)
    BY <1>1, <2>1 DEF Opened
  <2>5. AccountsTypeOK'
    BY <1>1, <2>2, <2>3, <2>4, TypeKept DEF Exists
  <2>6. SessionsAgree'
    BY <1>1, <2>1, <2>4 DEF SessionsAgree, Opened, Exists
  <2>7. AnAdminRemains'
    BY <1>1 DEF AnAdminRemains, ActiveAdmin, Exists
  <2> QED
    BY <2>5, <2>6, <2>7
<1>2. ASSUME Opened(s) PROVE sessions[s] \in SessionRow
  BY <1>2 DEF AccountsTypeOK, Opened
<1>3. ASSUME NEW q \in Request, Logout(q), s = requests[q].session
      PROVE  AccountsInv'
  <2> DEFINE row == [sessions[s] EXCEPT !.revoked = TRUE, !.ended = TRUE]
  <2>1. Opened(s) /\ sessions[s] \in SessionRow
    BY <1>2, <1>3, RequestRows DEF Logout, Usable
  <2>2. row \in SessionRow
    BY <2>1, NewRows
  <2>3. row.user = sessions[s].user /\ row.proof = row.version /\ row.revoked
    BY <2>1 DEF SessionsAgree, SessionRow
  <2>4. sessions' = [sessions EXCEPT ![s] = row]
    BY <1>3 DEF Logout, AccountsTypeOK
  <2>5. users' = users /\ requests' = [requests EXCEPT ![q] = Idle]
    BY <1>3 DEF Logout
  <2> HIDE DEF row
  <2> QED
    BY <2>1, <2>2, <2>3, <2>4, <2>5, <1>1, RequestEnds
<1>4. CASE RefreshCsrf(s)
  <2> DEFINE row == [sessions[s] EXCEPT !.csrf = @ + 1]
  <2>1. Opened(s) /\ sessions[s] \in SessionRow
    BY <1>2, <1>4 DEF RefreshCsrf, Usable
  <2>2. row \in SessionRow
    BY <2>1, <1>4, NewRows DEF RefreshCsrf
  <2>3. /\ row.user = sessions[s].user
        /\ row.proof = row.version
        /\ row.ended => row.revoked
    BY <2>1 DEF SessionsAgree, SessionRow
  <2>4. /\ sessions' = [sessions EXCEPT ![s] = row]
        /\ users' = users /\ requests' = requests
    BY <1>4 DEF RefreshCsrf
  <2> HIDE DEF row
  <2> QED
    BY <2>1, <2>2, <2>3, <2>4, <1>1 DEF AccountsTypeOK
<1>5. CASE Expire(s)
  <2> DEFINE row == [sessions[s] EXCEPT !.expired = TRUE]
  <2>1. Opened(s) /\ sessions[s] \in SessionRow
    BY <1>2, <1>5 DEF Expire
  <2>2. row \in SessionRow
    BY <2>1, NewRows
  <2>3. /\ row.user = sessions[s].user
        /\ row.proof = row.version
        /\ row.ended => row.revoked
    BY <2>1 DEF SessionsAgree, SessionRow
  <2>4. /\ sessions' = [sessions EXCEPT ![s] = row]
        /\ users' = users /\ requests' = requests
    BY <1>5 DEF Expire
  <2> HIDE DEF row
  <2> QED
    BY <2>1, <2>2, <2>3, <2>4, <1>1 DEF AccountsTypeOK
<1> QED
  BY <1>3, <1>4, <1>5
-----------------------------------------------------------------------------
(* One user gets a row, its sessions stay or end.                          *)
LEMMA UserStep ==
  ASSUME AccountsInv, NEW u \in User, NEW row \in UserRow,
         users' = [users EXCEPT ![u] = row],
         row.hash = row.version,
         EndSessions(u) \/ UNCHANGED sessions,
         requests' \in [Request -> LoginRequest \cup ChangeRequest \cup {Idle}],
         \A p \in Request : requests'[p] \in {requests[p], Idle}
  PROVE  /\ AccountsTypeOK' /\ SessionsAgree'
         /\ users'[u] = row
         /\ \A v \in User \ {u} : users'[v] = users[v]
<1> USE DEF AccountsInv
<1>1. RowsOK
  BY DEF AccountsTypeOK, RowsOK
<1>2. /\ users' \in [User -> UserRow \cup {NoUser}]
      /\ users'[u] = row
      /\ \A v \in User \ {u} : users'[v] = users[v]
  BY <1>1 DEF RowsOK
<1>3. \A v \in User : Exists(v) => Exists(v)'
  BY <1>2, RowsExist DEF Exists
<1>4. /\ sessions' \in [Session -> SessionRow \cup {NoSession}]
      /\ \A s \in Session :
           /\ Opened(s)' <=> Opened(s)
           /\ Opened(s) => /\ sessions'[s].user = sessions[s].user
                           /\ sessions'[s].version = sessions[s].version
                           /\ sessions'[s].proof = sessions[s].proof
                           /\ \/ sessions'[s] = sessions[s]
                              \/ sessions'[s].revoked
  <2>1. CASE EndSessions(u)
    BY <1>1, <2>1, EndSessionsRows
  <2>2. CASE UNCHANGED sessions
    BY <1>1, <2>2 DEF RowsOK, Opened
  <2> QED
    BY <2>1, <2>2
<1>5. RowsOK'
  BY <1>2, <1>4 DEF RowsOK
<1>6. AccountsTypeOK'
  BY <1>3, <1>4, <1>5, TypeKept
<1>7. SessionsAgree'
  BY <1>2, <1>4 DEF SessionsAgree, Exists
<1> QED
  BY <1>2, <1>6, <1>7

(* createUser adds a row and takes none away.                              *)
LEMMA CreateStep ==
  ASSUME AccountsInv, NEW q \in Request, NEW u \in User, NEW role \in Role,
         CreateUser(q, u, role)
  PROVE  AccountsInv'
<1>1. requests' = [requests EXCEPT ![q] = Idle]
  BY DEF CreateUser, AsAdmin
<1>2. NewUser(role) \in UserRow /\ NewUser(role).hash = NewUser(role).version
  BY NewRows DEF NewUser
<1>3. /\ users' = [users EXCEPT ![u] = NewUser(role)]
      /\ UNCHANGED sessions /\ ~Exists(u)
  BY DEF CreateUser
<1>4. /\ AccountsTypeOK' /\ SessionsAgree'
      /\ \A v \in User \ {u} : users'[v] = users[v]
  BY <1>1, <1>2, <1>3, RequestEnds, UserStep DEF AccountsInv
<1>5. AnAdminRemains'
  BY <1>3, <1>4 DEF AccountsInv, AnAdminRemains, ActiveAdmin, Exists
<1> QED
  BY <1>4, <1>5 DEF AccountsInv

(* patchUser leaves the last active administrator where he is.             *)
LEMMA PatchStep ==
  ASSUME AccountsInv, NEW q \in Request, NEW u \in User, NEW role \in Role,
         NEW status \in Status, PatchUser(q, u, role, status)
  PROVE  AccountsInv'
<1> DEFINE row == [users[u] EXCEPT !.role = role, !.status = status]
<1>1. requests' = [requests EXCEPT ![q] = Idle]
  BY DEF PatchUser, AsAdmin
<1>2. Exists(u) /\ users[u] \in UserRow
  BY DEF PatchUser, AccountsInv, AccountsTypeOK, Exists
<1>3. row \in UserRow
  BY <1>2, NewRows
<1>4. row.hash = row.version /\ row.role = role /\ row.status = status
  BY <1>2 DEF AccountsInv, SessionsAgree, UserRow
<1>5. users' = [users EXCEPT ![u] = row]
  BY DEF PatchUser, AccountsInv, AccountsTypeOK
<1>6. EndSessions(u) \/ UNCHANGED sessions
  BY DEF PatchUser
<1> HIDE DEF row
<1>7. /\ AccountsTypeOK' /\ SessionsAgree'
      /\ users'[u] = row
      /\ \A v \in User \ {u} : users'[v] = users[v]
  BY <1>1, <1>3, <1>4, <1>5, <1>6, RequestEnds, UserStep DEF AccountsInv
<1>8. AnAdminRemains'
  <2>1. CASE role = "admin" /\ status = "active"
    BY <2>1, <1>3, <1>4, <1>7, RowsExist DEF AnAdminRemains, ActiveAdmin, Exists
  <2>2. CASE ~(role = "admin" /\ status = "active")
    <3>1. \E v \in User \ {u} : ActiveAdmin(v)
      BY <2>2 DEF PatchUser, AccountsInv, AnAdminRemains
    <3> QED
      BY <3>1, <1>7 DEF AnAdminRemains, ActiveAdmin, Exists
  <2> QED
    BY <2>1, <2>2
<1> QED
  BY <1>7, <1>8 DEF AccountsInv

(* A new password gives the user a row with the same role and status.      *)
LEMMA PasswordStep ==
  ASSUME AccountsInv, NEW u \in User, SetPassword(u),
         requests' \in [Request -> LoginRequest \cup ChangeRequest \cup {Idle}],
         \A p \in Request : requests'[p] \in {requests[p], Idle}
  PROVE  AccountsInv'
<1> DEFINE row == [users[u] EXCEPT !.version = @ + 1, !.hash = @ + 1]
<1>1. Exists(u) /\ users[u] \in UserRow
  BY DEF SetPassword, AccountsInv, AccountsTypeOK, Exists
<1>2. users[u].hash = users[u].version
  BY <1>1 DEF AccountsInv, SessionsAgree
<1>3. row \in UserRow
  BY <1>1, <1>2, NewRows DEF SetPassword
<1>4. /\ row.hash = row.version
      /\ row.role = users[u].role /\ row.status = users[u].status
  BY <1>1, <1>2 DEF UserRow
<1>5. users' = [users EXCEPT ![u] = row]
  BY DEF SetPassword, AccountsInv, AccountsTypeOK
<1>6. EndSessions(u)
  BY DEF SetPassword
<1> HIDE DEF row
<1>7. /\ AccountsTypeOK' /\ SessionsAgree'
      /\ users'[u] = row
      /\ \A v \in User \ {u} : users'[v] = users[v]
  BY <1>3, <1>4, <1>5, <1>6, UserStep
<1>8. AnAdminRemains'
  BY <1>3, <1>4, <1>7, RowsExist DEF AccountsInv, AnAdminRemains, ActiveAdmin, Exists
<1> QED
  BY <1>7, <1>8 DEF AccountsInv
-----------------------------------------------------------------------------
(* No request, and nothing at the command line, breaks the invariant.      *)
LEMMA AccountsStep ==
  ASSUME AccountsInv, [AccountsNext]_accountVars
  PROVE  AccountsInv'
<1>1. ASSUME NEW q \in Request, NEW u \in User, LoginReads(q, u)
      PROVE  AccountsInv'
  BY <1>1, RequestStep
<1>2. ASSUME NEW q \in Request, NEW s \in Session, LoginCommits(q, s)
      PROVE  AccountsInv'
  BY <1>2, LoginStep
<1>3. ASSUME NEW q \in Request, NEW s \in Session, NEW token \in 0..LastToken,
             Begin(q, s, token)
      PROVE  AccountsInv'
  BY <1>3, RequestStep
<1>4. ASSUME NEW q \in Request, Refused(q)
      PROVE  AccountsInv'
  BY <1>4, RequestStep
<1>5. ASSUME NEW q \in Request, NEW u \in User, NEW role \in Role,
             CreateUser(q, u, role)
      PROVE  AccountsInv'
  BY <1>5, CreateStep
<1>6. ASSUME NEW q \in Request, NEW u \in User, NEW role \in Role,
             NEW status \in Status, PatchUser(q, u, role, status)
      PROVE  AccountsInv'
  BY <1>6, PatchStep
<1>7. ASSUME NEW q \in Request, NEW u \in User, ResetPassword(q, u)
      PROVE  AccountsInv'
  BY <1>7, RequestEnds, PasswordStep DEF ResetPassword, AsAdmin, AccountsInv
<1>8. ASSUME NEW q \in Request, Logout(q)
      PROVE  AccountsInv'
  BY <1>8, RequestRows, SessionStep DEF Logout, AccountsInv
<1>9. ASSUME NEW u \in User, ResetOffline(u)
      PROVE  AccountsInv'
  BY <1>9, PasswordStep DEF ResetOffline, AccountsInv, AccountsTypeOK
<1>10. ASSUME NEW s \in Session, RefreshCsrf(s) \/ Expire(s)
       PROVE  AccountsInv'
  BY <1>10, SessionStep
<1>11. CASE UNCHANGED accountVars
  BY <1>11 DEF accountVars, AccountsInv, AccountsTypeOK, SessionsAgree,
               AnAdminRemains, ActiveAdmin, Exists, Opened
<1> QED
  BY <1>1, <1>2, <1>3, <1>4, <1>5, <1>6, <1>7, <1>8, <1>9, <1>10, <1>11
  DEF AccountsNext

(* The inductive invariant behind the theorems below.                      *)
THEOREM AccountsInvariant == AccountsSpec => []AccountsInv
<1> QED
  BY InitAccounts, AccountsStep, PTL DEF AccountsSpec

(* The tables keep their types; sessions belong to users there are, and    *)
(* what a request has read is still there when it looks again.             *)
THEOREM AccountsTyped == AccountsSpec => []AccountsTypeOK
<1>1. AccountsInv => AccountsTypeOK
  BY DEF AccountsInv
<1> QED
  BY <1>1, AccountsInvariant, PTL

(* Whatever administrators do to each other, one remains, of any number.   *)
THEOREM OneAdminRemains == AccountsSpec => []AnAdminRemains
<1>1. AccountsInv => AnAdminRemains
  BY DEF AccountsInv
<1> QED
  BY <1>1, AccountsInvariant, PTL

(* No session works that was opened with an earlier password.              *)
THEOREM EverySessionKnowsThePassword == AccountsSpec => []SessionsKnowThePassword
<1>1. ASSUME AccountsInv, NEW s \in Session, Usable(s)
      PROVE  sessions[s].proof = users[sessions[s].user].hash
  <2>1. Opened(s) /\ Exists(sessions[s].user) /\ sessions[s].user \in User
    BY <1>1, UsableRows DEF AccountsInv, AccountsTypeOK, Usable
  <2> QED
    BY <1>1, <2>1 DEF AccountsInv, SessionsAgree, Usable
<1>2. AccountsInv => SessionsKnowThePassword
  BY <1>1 DEF SessionsKnowThePassword
<1> QED
  BY <1>2, AccountsInvariant, PTL

(* A logout, a disabling and a reset end sessions for good.                *)
THEOREM SessionsEndForGood == AccountsSpec => []EndedForGood
<1>1. AccountsInv => EndedForGood
  BY DEF AccountsInv, SessionsAgree, EndedForGood, Usable
<1> QED
  BY <1>1, AccountsInvariant, PTL

(* Users are created, and roles, statuses and passwords change, in the     *)
(* hands of working administrators only, but for the offline command's     *)
(* passwords; and nobody else's request revokes a session.                 *)
THEOREM EveryChangeIsAuthorised == AccountsSpec => ChangesAreAuthorised
<1> DEFINE Offline == \E u \in User : ResetOffline(u)
           Revoked(s) == Opened(s) /\ sessions'[s].revoked # sessions[s].revoked
           Foreseen ==
             /\ \A u \in User : Account(u)' # Account(u) => AnAdminActs
             /\ users' # users => AnAdminActs \/ Offline
             /\ \A s \in Session : Revoked(s) => AnAdminActs \/ SessionActs(s) \/ Offline
<1>1. ASSUME AccountsInv, NEW q \in Request, AsAdmin(q)
      PROVE  AnAdminActs
  <2>1. Principal(q) \in User /\ users[Principal(q)] \in UserRow
    BY <1>1, RequestRows DEF AccountsInv, AsAdmin
  <2>2. ActiveAdmin(Principal(q))
    BY <1>1, <2>1, RowsExist DEF AsAdmin, InSession, ActiveAdmin, Exists, Usable, Principal
  <2>3. requests'[q] = Idle
    BY <1>1 DEF AsAdmin, AccountsInv, AccountsTypeOK
  <2> QED
    BY <1>1, <2>2, <2>3 DEF AsAdmin, InSession, AnAdminActs
<1>2. ASSUME AccountsInv, NEW v \in User, ResetOffline(v)
      PROVE  Foreseen
  <2>1. users \in [User -> UserRow \cup {NoUser}] /\ users[v] \in UserRow
    BY <1>2 DEF ResetOffline, SetPassword, AccountsInv, AccountsTypeOK, Exists
  <2>2. users' = [users EXCEPT ![v] =
          [users[v] EXCEPT !.version = @ + 1, !.hash = @ + 1]]
    BY <1>2 DEF ResetOffline, SetPassword
  <2>3. users'[v].role = users[v].role /\ users'[v].status = users[v].status
    BY <2>1, <2>2 DEF UserRow
  <2>4. users'[v] # NoUser
    BY <2>1, <2>3 DEF UserRow, Status, NoUser
  <2>5. \A u \in User \ {v} : users'[u] = users[u]
    BY <2>1, <2>2
  <2>6. \A u \in User : Account(u)' = Account(u)
    BY <1>2, <2>3, <2>4, <2>5 DEF Account, Exists, ResetOffline, SetPassword
  <2> QED
    BY <1>2, <2>6
<1>3. ASSUME AccountsInv, NEW q \in Request, Logout(q)
      PROVE  Foreseen
  <2>1. users' = users /\ \A u \in User : Account(u)' = Account(u)
    BY <1>3 DEF Logout, Account, Exists
  <2>2. SessionActs(requests[q].session)
    BY <1>3 DEF Logout, InSession, SessionActs, AccountsInv, AccountsTypeOK
  <2>3. \A s \in Session : s # requests[q].session => sessions'[s] = sessions[s]
    BY <1>3 DEF Logout, AccountsInv, AccountsTypeOK
  <2> QED
    BY <2>1, <2>2, <2>3
<1>4. ASSUME AccountsInv, NEW s \in Session, NEW row, Opened(s) => row.revoked = sessions[s].revoked,
             sessions' = [sessions EXCEPT ![s] = row], users' = users
      PROVE  Foreseen
  <2>1. \A u \in User : Account(u)' = Account(u)
    BY <1>4 DEF Account, Exists
  <2>2. \A t \in Session : ~Revoked(t)
    BY <1>4 DEF AccountsInv, AccountsTypeOK
  <2> QED
    BY <1>4, <2>1, <2>2
<1>5. ASSUME AccountsInv, NEW q \in Request, NEW s \in Session, LoginCommits(q, s)
      PROVE  Foreseen
  BY <1>4, <1>5 DEF LoginCommits, CreateSession
<1>6. ASSUME AccountsInv, NEW s \in Session, RefreshCsrf(s) \/ Expire(s)
      PROVE  Foreseen
  <2>1. Opened(s) /\ sessions[s] \in SessionRow
    BY <1>6 DEF RefreshCsrf, Expire, Usable, Opened, AccountsInv, AccountsTypeOK
  <2>2. CASE RefreshCsrf(s)
    <3> DEFINE row == [sessions[s] EXCEPT !.csrf = @ + 1]
    <3>1. row.revoked = sessions[s].revoked
      BY <2>1 DEF SessionRow
    <3>2. sessions' = [sessions EXCEPT ![s] = row] /\ users' = users
      BY <2>2 DEF RefreshCsrf
    <3> HIDE DEF row
    <3> QED
      BY <1>4, <1>6, <3>1, <3>2
  <2>3. CASE Expire(s)
    <3> DEFINE row == [sessions[s] EXCEPT !.expired = TRUE]
    <3>1. row.revoked = sessions[s].revoked
      BY <2>1 DEF SessionRow
    <3>2. sessions' = [sessions EXCEPT ![s] = row] /\ users' = users
      BY <2>3 DEF Expire
    <3> HIDE DEF row
    <3> QED
      BY <1>4, <1>6, <3>1, <3>2
  <2> QED
    BY <1>6, <2>2, <2>3
<1>7. ASSUME \/ \E q \in Request :
                  \/ \E v \in User : LoginReads(q, v)
                  \/ \E s \in Session, token \in 0..LastToken : Begin(q, s, token)
                  \/ Refused(q)
             \/ UNCHANGED accountVars
      PROVE  Foreseen
  <2>1. users' = users /\ sessions' = sessions
    BY <1>7 DEF LoginReads, Begin, Refused, accountVars
  <2> QED
    BY <2>1 DEF Account, Exists
<1>8. AccountsInv /\ [AccountsNext]_accountVars => Foreseen
  <2> SUFFICES ASSUME AccountsInv, [AccountsNext]_accountVars
               PROVE  Foreseen
    OBVIOUS
  <2>1. ASSUME NEW q \in Request, AsAdmin(q)
        PROVE  Foreseen
    BY <1>1, <2>1
  <2> HIDE DEF Foreseen
  <2> QED
    BY <1>2, <1>3, <1>5, <1>6, <1>7, <2>1
    DEF AccountsNext, CreateUser, PatchUser, ResetPassword
<1>9. AccountsInv /\ [AccountsNext]_accountVars =>
        [/\ \A u \in User : Account(u)' # Account(u) => AnAdminActs
         /\ users' # users => AnAdminActs \/ \E u \in User : ResetOffline(u)
         /\ \A s \in Session : Opened(s) /\ sessions'[s].revoked # sessions[s].revoked =>
              AnAdminActs \/ SessionActs(s) \/ \E u \in User : ResetOffline(u)]_accountVars
  BY <1>8
<1> QED
  BY <1>9, AccountsInvariant, PTL DEF AccountsSpec, ChangesAreAuthorised
-----------------------------------------------------------------------------
(* The rows of the tables of Grants.  What is deleted was made inactive    *)
(* with it.                                                                *)
GrantsTypeOK ==
  /\ members \in [Member -> MemberRow]
  /\ groups \in [Group -> GroupRow \cup {Missing}]
  /\ allowed \subseteq Member \X Group
  /\ keys \in [Key -> KeyRow \cup {Missing}]
  /\ keyQuota \in [Key -> KeyQuotas]
  /\ dailyQuota \in [Group -> DailyQuotas]

GrantsInv ==
  /\ GrantsTypeOK
  /\ \E v \in Admin : members[v].status = "active"
  /\ \A g \in Group : groups[g] # Missing /\ groups[g].deleted =>
       groups[g].status = "disabled"
  /\ \A k \in Key : keys[k] # Missing =>
       /\ groups[keys[k].group] # Missing
       /\ keys[k].deleted => keys[k].status = "disabled"

(* What DeletedIsFinal says of a group and of a key.                       *)
GroupStays(g) ==
  groups[g] # Missing /\ groups[g].deleted =>
    groups'[g] = groups[g] /\ dailyQuota'[g] = dailyQuota[g]
KeyStays(k) ==
  keys[k] # Missing /\ keys[k].deleted =>
    /\ keys'[k] = keys[k] /\ keyQuota'[k] = keyQuota[k]
    /\ ~KeyWorks(k)'

(* A group that is missing has no row, nor has a key.                      *)
LEMMA NoRowMissing == Missing \notin GroupRow /\ Missing \notin KeyRow
<1>1. \A x \in GroupRow \cup KeyRow : x.status # "absent"
  BY DEF GroupRow, KeyRow, Standing
<1>2. Missing.status = "absent"
  BY DEF Missing
<1> QED
  BY <1>1, <1>2

(* A group is created or changed.                                          *)
LEMMA GroupPut ==
  ASSUME GrantsInv, NEW g \in Group, NEW x \in GroupRow, NEW quota \in DailyQuotas,
         x.deleted => x.status = "disabled",
         groups[g] # Missing => ~groups[g].deleted,
         groups' = [groups EXCEPT ![g] = x], dailyQuota' = [dailyQuota EXCEPT ![g] = quota],
         UNCHANGED <<members, allowed, keys, keyQuota>>
  PROVE  GrantsInv' /\ (\A h \in Group : GroupStays(h)) /\ (\A k \in Key : KeyStays(k))
<1>1. \A h \in Group : groups'[h] = IF h = g THEN x ELSE groups[h]
  BY DEF GrantsInv, GrantsTypeOK
<1>2. x # Missing
  BY NoRowMissing
<1>3. GrantsTypeOK'
  BY DEF GrantsInv, GrantsTypeOK
<1>4. ASSUME NEW k \in Key, keys[k] # Missing
      PROVE  groups'[keys[k].group] # Missing
  <2>1. keys[k].group \in Group /\ groups[keys[k].group] # Missing
    BY <1>4 DEF GrantsInv, GrantsTypeOK, KeyRow
  <2> QED
    BY <1>1, <1>2, <2>1
<1>5. GrantsInv'
  BY <1>1, <1>3, <1>4 DEF GrantsInv
<1>6. \A h \in Group : GroupStays(h)
  BY <1>1 DEF GroupStays, GrantsInv, GrantsTypeOK
<1>7. \A k \in Key : KeyStays(k)
  BY DEF KeyStays, KeyWorks, LiveKey
<1> QED
  BY <1>5, <1>6, <1>7

(* A key is created or changed.                                            *)
LEMMA KeyPut ==
  ASSUME GrantsInv, NEW k \in Key, NEW x \in KeyRow, NEW quota \in KeyQuotas,
         x.deleted => x.status = "disabled",
         groups[x.group] # Missing,
         keys[k] # Missing => ~keys[k].deleted,
         keys' = [keys EXCEPT ![k] = x], keyQuota' = [keyQuota EXCEPT ![k] = quota],
         UNCHANGED <<members, groups, allowed, dailyQuota>>
  PROVE  GrantsInv' /\ (\A g \in Group : GroupStays(g)) /\ (\A l \in Key : KeyStays(l))
<1>1. \A l \in Key : keys'[l] = IF l = k THEN x ELSE keys[l]
  BY DEF GrantsInv, GrantsTypeOK
<1>2. GrantsTypeOK'
  BY DEF GrantsInv, GrantsTypeOK
<1>3. GrantsInv'
  BY <1>1, <1>2 DEF GrantsInv
<1>4. \A g \in Group : GroupStays(g)
  BY DEF GroupStays
<1>5. ASSUME NEW l \in Key, keys[l] # Missing, keys[l].deleted
      PROVE  keys'[l] = keys[l] /\ keyQuota'[l] = keyQuota[l] /\ ~KeyWorks(l)'
  <2>1. keys'[l] = keys[l] /\ keyQuota'[l] = keyQuota[l]
    BY <1>1, <1>5 DEF GrantsInv, GrantsTypeOK
  <2>2. keys'[l].deleted
    BY <1>5, <2>1
  <2> QED
    BY <2>1, <2>2 DEF KeyWorks, LiveKey
<1> QED
  BY <1>3, <1>4, <1>5 DEF KeyStays

(* Members or memberships change.                                          *)
LEMMA MembersPut ==
  ASSUME GrantsInv, members' \in [Member -> MemberRow], allowed' \subseteq Member \X Group,
         \E v \in Admin : members'[v].status = "active", UNCHANGED <<groups, keys, quotaVars>>
  PROVE  GrantsInv' /\ (\A g \in Group : GroupStays(g)) /\ (\A k \in Key : KeyStays(k))
<1>1. GrantsInv'
  BY DEF GrantsInv, GrantsTypeOK, quotaVars
<1> QED
  BY <1>1 DEF GroupStays, KeyStays, KeyWorks, LiveKey, quotaVars

(* Every administration request.                                           *)
LEMMA GrantsStep ==
  ASSUME GrantsInv, [GrantsNext]_grantVars
  PROVE  GrantsInv' /\ (\A g \in Group : GroupStays(g)) /\ (\A k \in Key : KeyStays(k))
<1> DEFINE Goal == GrantsInv' /\ (\A g \in Group : GroupStays(g)) /\ (\A k \in Key : KeyStays(k))
<1>0. /\ members \in [Member -> MemberRow] /\ allowed \subseteq Member \X Group
      /\ \E v \in Admin : members[v].status = "active"
      /\ Admin \subseteq Member
  BY GrantsAssumption DEF GrantsInv, GrantsTypeOK
<1>1. ASSUME NEW a \in Member, NEW u \in Member, NEW status \in Standing, NEW restricted \in BOOLEAN,
             PatchMember(a, u, status, restricted)
      PROVE  Goal
  <2> DEFINE row == [status |-> status, restricted |-> restricted]
  <2>1. row \in MemberRow /\ row.status = status
    BY DEF MemberRow
  <2> HIDE DEF row
  <2>2. members' = [members EXCEPT ![u] = row] /\ UNCHANGED <<groups, allowed, keys, quotaVars>>
    BY <1>1 DEF PatchMember, row
  <2>3. \A v \in Member : members'[v] = IF v = u THEN row ELSE members[v]
    BY <1>0, <2>2
  <2>4. \E v \in Admin : members'[v].status = "active"
    <3>1. CASE u \in Admin /\ status = "disabled"
      <4>1. PICK v \in Admin \ {u} : members[v].status = "active"
        BY <1>1, <3>1 DEF PatchMember
      <4> QED
        BY <1>0, <2>3, <4>1
    <3>2. CASE u \in Admin /\ status = "active"
      BY <2>1, <2>3, <3>2
    <3>3. CASE u \notin Admin
      BY <1>0, <2>3, <3>3
    <3> QED
      BY <3>1, <3>2, <3>3 DEF Standing
  <2> QED
    BY <1>0, <2>1, <2>2, <2>4, MembersPut
<1>2. ASSUME NEW a \in Member, NEW u \in Member, NEW gs \in SUBSET Group, ReplaceGroups(a, u, gs)
      PROVE  Goal
  BY <1>0, <1>2, MembersPut DEF ReplaceGroups
<1>3. ASSUME NEW a \in Member, NEW g \in Group, NEW exclusive \in BOOLEAN,
             NEW quota \in DailyQuotas, CreateGroup(a, g, exclusive, quota)
      PROVE  Goal
  <2> DEFINE row == [status |-> "active", exclusive |-> exclusive, deleted |-> FALSE]
  <2>1. row \in GroupRow /\ ~row.deleted
    BY DEF GroupRow, Standing
  <2>2. /\ groups[g] = Missing /\ groups' = [groups EXCEPT ![g] = row]
        /\ dailyQuota' = [dailyQuota EXCEPT ![g] = quota]
        /\ UNCHANGED <<members, allowed, keys, keyQuota>>
    BY <1>3 DEF CreateGroup
  <2> HIDE DEF row
  <2> QED
    BY <2>1, <2>2, GroupPut
<1>4. ASSUME NEW a \in Member, NEW g \in Group, NEW status \in Standing, NEW exclusive \in BOOLEAN,
             NEW quota \in DailyQuotas, PatchGroup(a, g, status, exclusive, quota)
      PROVE  Goal
  <2> DEFINE row == [groups[g] EXCEPT !.status = status, !.exclusive = exclusive]
  <2>1. groups[g] \in GroupRow /\ ~groups[g].deleted
    BY <1>4 DEF PatchGroup, LiveGroup, GrantsInv, GrantsTypeOK
  <2>2. row \in GroupRow /\ ~row.deleted
    BY <2>1 DEF GroupRow
  <2>3. /\ groups' = [groups EXCEPT ![g] = row]
        /\ dailyQuota' = [dailyQuota EXCEPT ![g] = quota]
        /\ UNCHANGED <<members, allowed, keys, keyQuota>>
    BY <1>4 DEF PatchGroup
  <2> HIDE DEF row
  <2> QED
    BY <2>1, <2>2, <2>3, GroupPut
<1>5. ASSUME NEW a \in Member, NEW g \in Group, DeleteGroup(a, g)
      PROVE  Goal
  <2> DEFINE row == [groups[g] EXCEPT !.status = "disabled", !.deleted = TRUE]
  <2>1. groups[g] \in GroupRow /\ ~groups[g].deleted
    BY <1>5 DEF DeleteGroup, LiveGroup, GrantsInv, GrantsTypeOK
  <2>2. row \in GroupRow /\ row.status = "disabled"
    BY <2>1 DEF GroupRow, Standing
  <2>3. /\ groups' = [groups EXCEPT ![g] = row]
        /\ UNCHANGED <<members, allowed, keys, keyQuota>> /\ dailyQuota' = dailyQuota
    BY <1>5 DEF DeleteGroup, quotaVars
  <2>4. dailyQuota[g] \in DailyQuotas /\ dailyQuota' = [dailyQuota EXCEPT ![g] = dailyQuota[g]]
    BY <2>3 DEF GrantsInv, GrantsTypeOK
  <2> HIDE DEF row
  <2> QED
    BY <2>1, <2>2, <2>3, <2>4, GroupPut
<1>6. ASSUME NEW a \in Member, NEW k \in Key, NEW owner \in Member, NEW g \in Group,
             NEW quota \in KeyQuotas, CreateKey(a, k, owner, g, quota)
      PROVE  Goal
  <2> DEFINE row == [owner |-> owner, group |-> g, status |-> "active",
                     expired |-> FALSE, deleted |-> FALSE]
  <2>1. row \in KeyRow /\ ~row.deleted /\ row.group = g
    BY DEF KeyRow, Standing
  <2>2. /\ keys[k] = Missing /\ groups[g] # Missing /\ keys' = [keys EXCEPT ![k] = row]
        /\ keyQuota' = [keyQuota EXCEPT ![k] = quota]
        /\ UNCHANGED <<members, groups, allowed, dailyQuota>>
    BY <1>6 DEF CreateKey, CanUserBindGroup, LiveGroup
  <2> HIDE DEF row
  <2> QED
    BY <2>1, <2>2, KeyPut
<1>7. ASSUME NEW a \in Member, NEW k \in Key, NEW g \in Group, NEW status \in Standing,
             NEW renew \in BOOLEAN, NEW quota \in KeyQuotas,
             PatchKey(a, k, g, status, renew, quota)
      PROVE  Goal
  <2> DEFINE row == [keys[k] EXCEPT !.group = g, !.status = status,
                                    !.expired = keys[k].expired /\ ~renew]
  <2>1. keys[k] \in KeyRow /\ ~keys[k].deleted /\ keys[k] # Missing
    BY <1>7 DEF PatchKey, MayEdit, GrantsInv, GrantsTypeOK
  <2>2. groups[g] # Missing
    BY <1>7, <2>1 DEF PatchKey, CanUserBindGroup, LiveGroup, GrantsInv
  <2>3. (keys[k].expired /\ ~renew) \in BOOLEAN
    OBVIOUS
  <2>4. row \in KeyRow /\ ~row.deleted /\ row.group = g
    BY <2>1, <2>3 DEF KeyRow
  <2>5. /\ keys' = [keys EXCEPT ![k] = row]
        /\ keyQuota' = [keyQuota EXCEPT ![k] = quota]
        /\ UNCHANGED <<members, groups, allowed, dailyQuota>>
    BY <1>7 DEF PatchKey
  <2> HIDE DEF row
  <2> QED
    BY <2>1, <2>2, <2>4, <2>5, KeyPut
<1>8. ASSUME NEW a \in Member, NEW k \in Key, DeleteKey(a, k)
      PROVE  Goal
  <2> DEFINE row == [keys[k] EXCEPT !.status = "disabled", !.deleted = TRUE]
  <2>1. keys[k] \in KeyRow /\ ~keys[k].deleted /\ groups[keys[k].group] # Missing
    BY <1>8 DEF DeleteKey, MayEdit, GrantsInv, GrantsTypeOK
  <2>2. row \in KeyRow /\ row.status = "disabled" /\ row.group = keys[k].group
    BY <2>1 DEF KeyRow, Standing
  <2>3. /\ keys' = [keys EXCEPT ![k] = row]
        /\ UNCHANGED <<members, groups, allowed, dailyQuota>> /\ keyQuota' = keyQuota
    BY <1>8 DEF DeleteKey, quotaVars
  <2>4. keyQuota[k] \in KeyQuotas /\ keyQuota' = [keyQuota EXCEPT ![k] = keyQuota[k]]
    BY <2>3 DEF GrantsInv, GrantsTypeOK
  <2> HIDE DEF row
  <2> QED
    BY <2>1, <2>2, <2>3, <2>4, KeyPut
<1>9. ASSUME NEW k \in Key, KeyExpires(k)
      PROVE  Goal
  <2> DEFINE row == [keys[k] EXCEPT !.expired = TRUE]
  <2>1. keys[k] \in KeyRow /\ ~keys[k].deleted /\ groups[keys[k].group] # Missing
    BY <1>9 DEF KeyExpires, LiveKey, GrantsInv, GrantsTypeOK
  <2>2. row \in KeyRow /\ ~row.deleted /\ row.group = keys[k].group
    BY <2>1 DEF KeyRow
  <2>3. /\ keys' = [keys EXCEPT ![k] = row]
        /\ UNCHANGED <<members, groups, allowed, dailyQuota>> /\ keyQuota' = keyQuota
    BY <1>9 DEF KeyExpires, quotaVars
  <2>4. keyQuota[k] \in KeyQuotas /\ keyQuota' = [keyQuota EXCEPT ![k] = keyQuota[k]]
    BY <2>3 DEF GrantsInv, GrantsTypeOK
  <2> HIDE DEF row
  <2> QED
    BY <2>1, <2>2, <2>3, <2>4, KeyPut
<1>10. ASSUME UNCHANGED grantVars
       PROVE  Goal
  BY <1>0, <1>10, MembersPut DEF grantVars
<1> HIDE DEF Goal
<1>11. Goal
  BY <1>1, <1>2, <1>3, <1>4, <1>5, <1>6, <1>7, <1>8, <1>9, <1>10 DEF GrantsNext
<1> QED
  BY <1>11 DEF Goal

(* The tables keep their shape, a key is bound to a group that has a row,  *)
(* what is deleted is disabled with it, and an administrator remains who   *)
(* can make the next change (admin-users.ts:139).                          *)
THEOREM GrantsInvariant == GrantsSpec => []GrantsInv
<1>1. GrantsInit => GrantsInv
  BY GrantsAssumption DEF GrantsInit, GrantsInv, GrantsTypeOK, MemberRow, Standing
<1>2. GrantsInv /\ [GrantsNext]_grantVars => GrantsInv'
  BY GrantsStep
<1> QED
  BY <1>1, <1>2, PTL DEF GrantsSpec

(* The query behind the console's choice of groups and the predicate of    *)
(* every decision say the same of every active user, in any tables.        *)
THEOREM PoliciesAlwaysAgree == GrantsSpec => []PoliciesAgree
<1>1. PoliciesAgree
  BY DEF PoliciesAgree, AvailableGroups, CanUserBindGroup
<1> QED
  BY <1>1, PTL

(* What is deleted stays as it is and gives no access again, with any      *)
(* number of users, groups and keys.                                       *)
THEOREM DeletionIsFinal == GrantsSpec => DeletedIsFinal
<1>1. GrantsInv /\ [GrantsNext]_grantVars =>
        [/\ \A g \in Group : GroupStays(g)
         /\ \A k \in Key : KeyStays(k)]_grantVars
  BY GrantsStep
<1> QED
  BY <1>1, GrantsInvariant, PTL DEF GrantsSpec, DeletedIsFinal, GroupStays, KeyStays
=============================================================================
