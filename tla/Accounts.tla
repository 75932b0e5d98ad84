------------------------------ MODULE Accounts ------------------------------
(***************************************************************************)
(* The accounts of one tenant: its users, their browser sessions, and the  *)
(* requests that log in or change something.                               *)
(*                                                                         *)
(* A login reads the user, spends a while on the password hash, and opens  *)
(* the session in a later transaction.  A request of a session is checked  *)
(* once without a lock, may then hash a new password for a while, and is   *)
(* checked again in the transaction that makes its change.  Between the    *)
(* two, other requests change the same user, password or session.  Every   *)
(* transaction holds the row lock of the tenant, hence is one step.        *)
(*                                                                         *)
(* No operation of the repository disables a tenant: it stays active here. *)
(***************************************************************************)
EXTENDS Naturals, FiniteSets

CONSTANTS
  User,         \* ids of users
  Root,         \* the administrator that bootstrap-admin creates
  Session,      \* ids of sessions (UUIDs drawn at login)
  Request,      \* requests in flight at the same time
  LastVersion,  \* bound: passwords a user may have
  LastToken     \* bound: CSRF tokens of a session

ASSUME AccountsAssumption ==
  /\ Root \in User
  /\ LastVersion \in Nat \ {0}
  /\ LastToken \in Nat

VARIABLES
  users,     \* the table users
  sessions,  \* the table sessions
  requests   \* what each request in flight has read

accountVars == <<users, sessions, requests>>

Role   == {"admin", "user"}
Status == {"active", "disabled"}

(* "hash" stands for password_hash: salted, hence fresh whenever it is set.*)
UserRow == [role : Role, status : Status,
            version : 1..LastVersion, hash : 1..LastVersion]
NoUser  == [status |-> "absent"]

NewUser(role) == [role |-> role, status |-> "active", version |-> 1, hash |-> 1]

(* "proof" is the hash the login verified and "ended" tells that a         *)
(* disabling, a reset or a logout was to end the session (both history).   *)
SessionRow == [user : User, version : 1..LastVersion, csrf : 0..LastToken,
               revoked : BOOLEAN, expired : BOOLEAN,
               proof : 1..LastVersion, ended : BOOLEAN]
NoSession  == [user |-> "absent"]

(* What a request carries between its two looks at the database: a login   *)
(* the user it read; any other its session, its CSRF token and the role it *)
(* had when it was first checked.                                          *)
Idle == [kind |-> "idle"]
LoginRequest  == [kind : {"login"}, user : User,
                  version : 1..LastVersion, hash : 1..LastVersion]
ChangeRequest == [kind : {"change"}, session : Session,
                  csrf : 0..LastToken, role : Role]

Exists(u) == users[u] # NoUser
Opened(s) == sessions[s] # NoSession

(* bootstrap-admin: the tenant begins with one administrator.              *)
AccountsInit ==
  /\ users = [u \in User |-> IF u = Root THEN NewUser("admin") ELSE NoUser]
  /\ sessions = [s \in Session |-> NoSession]
  /\ requests = [q \in Request |-> Idle]

ActiveAdmin(u) == /\ Exists(u)
                  /\ users[u].role = "admin"
                  /\ users[u].status = "active"

(* sessionUsable: neither revoked nor expired, of an active user, under    *)
(* the version of the password it was opened with.                         *)
Usable(s) ==
  /\ Opened(s)
  /\ ~sessions[s].revoked
  /\ ~sessions[s].expired
  /\ users[sessions[s].user].status = "active"
  /\ sessions[s].version = users[sessions[s].user].version
-----------------------------------------------------------------------------
(* Fault variant: the dummy hash, verified when no user has the name, is   *)
(* taken for the hash of a user.                                           *)
LoginReadsAnyName(q, u) ==
  /\ requests[q] = Idle
  /\ Exists(u) => users[u].status = "active"
  /\ requests' = [requests EXCEPT ![q] =
       IF Exists(u)
       THEN [kind |-> "login", user |-> u,
             version |-> users[u].version, hash |-> users[u].hash]
       ELSE [kind |-> "login", user |-> u, version |-> 1, hash |-> 1]]
  /\ UNCHANGED <<users, sessions>>

(* login, its first part: the row is read, and the password and the status *)
(* it shows are good (a bad one is refused and leaves nothing).            *)
LoginReads(q, u) ==
  /\ requests[q] = Idle
  /\ Exists(u)
  /\ users[u].status = "active"
  /\ requests' = [requests EXCEPT ![q] =
       [kind |-> "login", user |-> u,
        version |-> users[u].version, hash |-> users[u].hash]]
  /\ UNCHANGED <<users, sessions>>

(* createSession.                                                          *)
CreateSession(s, u, version, proof) ==
  /\ ~Opened(s)
  /\ sessions' = [sessions EXCEPT ![s] =
       [user |-> u, version |-> version, csrf |-> 0, revoked |-> FALSE,
        expired |-> FALSE, proof |-> proof, ended |-> FALSE]]

(* Fault variant: the login trusts the user it verified and asks only      *)
(* whether that user is still active.                                      *)
LoginCommitsUnchecked(q, s) ==
  LET r == requests[q] IN
  /\ r.kind = "login"
  /\ users[r.user].status = "active"
  /\ CreateSession(s, r.user, users[r.user].version, r.hash)
  /\ requests' = [requests EXCEPT ![q] = Idle]
  /\ UNCHANGED users

(* login, its transaction: the session opens only if the user is active    *)
(* and has the password that was verified.                                 *)
LoginCommits(q, s) ==
  LET r == requests[q] IN
  /\ r.kind = "login"
  /\ users[r.user].status = "active"
  /\ users[r.user].version = r.version
  /\ users[r.user].hash = r.hash
  /\ CreateSession(s, r.user, users[r.user].version, r.hash)
  /\ requests' = [requests EXCEPT ![q] = Idle]
  /\ UNCHANGED users

(* authenticateSession: the first look, without a lock.  The token is one  *)
(* the session has or had: a tab keeps the one it was given.               *)
Begin(q, s, token) ==
  /\ requests[q] = Idle
  /\ Usable(s)
  /\ token <= sessions[s].csrf
  /\ requests' = [requests EXCEPT ![q] =
       [kind |-> "change", session |-> s, csrf |-> token,
        role |-> users[sessions[s].user].role]]
  /\ UNCHANGED <<users, sessions>>

(* A request is refused at its second look, or its process dies.           *)
Refused(q) ==
  /\ requests[q] # Idle
  /\ requests' = [requests EXCEPT ![q] = Idle]
  /\ UNCHANGED <<users, sessions>>
-----------------------------------------------------------------------------
(* withSessionTransaction: under the tenant lock the session is looked at  *)
(* again, and the request's token is the session's.                        *)
InSession(q) ==
  /\ requests[q].kind = "change"
  /\ Usable(requests[q].session)
  /\ requests[q].csrf = sessions[requests[q].session].csrf

Principal(q) == sessions[requests[q].session].user

(* Fault variant: the role is the one of the first look.                   *)
AsAdminOfPreflight(q) ==
  /\ InSession(q)
  /\ requests[q].role = "admin"
  /\ requests' = [requests EXCEPT ![q] = Idle]

(* withAdminTransaction.                                                   *)
AsAdmin(q) ==
  /\ InSession(q)
  /\ users[Principal(q)].role = "admin"
  /\ requests' = [requests EXCEPT ![q] = Idle]

(* UPDATE sessions SET revoked_at, for every session of a user.            *)
EndSessions(u) ==
  sessions' = [s \in Session |->
    IF Opened(s) /\ sessions[s].user = u
    THEN [sessions[s] EXCEPT !.revoked = TRUE, !.ended = TRUE]
    ELSE sessions[s]]

(* createUser.                                                             *)
CreateUser(q, u, role) ==
  /\ AsAdmin(q)
  /\ ~Exists(u)
  /\ users' = [users EXCEPT ![u] = NewUser(role)]
  /\ UNCHANGED sessions

(* Fault variant: an administrator counts among those who remain.          *)
PatchUserCountingAll(q, u, role, status) ==
  /\ AsAdmin(q)
  /\ Exists(u)
  /\ ActiveAdmin(u) /\ ~(role = "admin" /\ status = "active") =>
       \E v \in User : ActiveAdmin(v)
  /\ users' = [users EXCEPT ![u].role = role, ![u].status = status]
  /\ IF status = "disabled" /\ users[u].status # "disabled"
     THEN EndSessions(u)
     ELSE UNCHANGED sessions

(* Fault variant: a disabled user's sessions are left to sessionUsable,    *)
(* which forgets them when the user is active again.                       *)
PatchUserKeepingSessions(q, u, role, status) ==
  /\ AsAdmin(q)
  /\ Exists(u)
  /\ ActiveAdmin(u) /\ ~(role = "admin" /\ status = "active") =>
       \E v \in User \ {u} : ActiveAdmin(v)
  /\ users' = [users EXCEPT ![u].role = role, ![u].status = status]
  /\ sessions' = [s \in Session |->
       IF Opened(s) /\ sessions[s].user = u /\ status = "disabled"
       THEN [sessions[s] EXCEPT !.ended = TRUE]
       ELSE sessions[s]]

(* patchUser: role and status, each given or left as it is; LAST_ADMIN     *)
(* when no other active administrator would remain; a user who is disabled *)
(* loses every session.                                                    *)
PatchUser(q, u, role, status) ==
  /\ AsAdmin(q)
  /\ Exists(u)
  /\ ActiveAdmin(u) /\ ~(role = "admin" /\ status = "active") =>
       \E v \in User \ {u} : ActiveAdmin(v)
  /\ users' = [users EXCEPT ![u].role = role, ![u].status = status]
  /\ IF status = "disabled" /\ users[u].status # "disabled"
     THEN EndSessions(u)
     ELSE UNCHANGED sessions

SetPassword(u) ==
  /\ Exists(u)
  /\ users[u].version < LastVersion
  /\ users' = [users EXCEPT ![u].version = @ + 1, ![u].hash = @ + 1]
  /\ EndSessions(u)

(* resetPassword.                                                          *)
ResetPassword(q, u) == AsAdmin(q) /\ SetPassword(u)

(* The reset-password command, which needs no session.                     *)
ResetOffline(u) == SetPassword(u) /\ UNCHANGED requests

(* logout: the session of the request, no other.                           *)
Logout(q) ==
  /\ InSession(q)
  /\ requests' = [requests EXCEPT ![q] = Idle]
  /\ sessions' = [sessions EXCEPT ![requests[q].session].revoked = TRUE,
                                  ![requests[q].session].ended = TRUE]
  /\ UNCHANGED users

(* refreshCsrf: reading the session replaces its token.                    *)
RefreshCsrf(s) ==
  /\ Usable(s)
  /\ sessions[s].csrf < LastToken
  /\ sessions' = [sessions EXCEPT ![s].csrf = @ + 1]
  /\ UNCHANGED <<users, requests>>

(* Eight hours pass.                                                       *)
Expire(s) ==
  /\ Opened(s)
  /\ ~sessions[s].expired
  /\ sessions' = [sessions EXCEPT ![s].expired = TRUE]
  /\ UNCHANGED <<users, requests>>

AccountsNext ==
  \/ \E q \in Request :
       \/ \E u \in User : LoginReads(q, u)
       \/ \E s \in Session : LoginCommits(q, s)
       \/ \E s \in Session, token \in 0..LastToken : Begin(q, s, token)
       \/ Refused(q)
       \/ \E u \in User, role \in Role : CreateUser(q, u, role)
       \/ \E u \in User, role \in Role, status \in Status :
            PatchUser(q, u, role, status)
       \/ \E u \in User : ResetPassword(q, u)
       \/ Logout(q)
  \/ \E u \in User : ResetOffline(u)
  \/ \E s \in Session : RefreshCsrf(s) \/ Expire(s)

AccountsSpec == AccountsInit /\ [][AccountsNext]_accountVars
-----------------------------------------------------------------------------
(* The rows have their types and a session belongs to a user there is.     *)
AccountsTypeOK ==
  /\ users \in [User -> UserRow \cup {NoUser}]
  /\ sessions \in [Session -> SessionRow \cup {NoSession}]
  /\ requests \in [Request -> LoginRequest \cup ChangeRequest \cup {Idle}]
  /\ \A s \in Session : Opened(s) => Exists(sessions[s].user)
  /\ \A q \in Request : requests[q].kind = "login" => Exists(requests[q].user)
  /\ \A q \in Request : requests[q].kind = "change" => Opened(requests[q].session)

(* However administrators demote and disable each other, and whatever they *)
(* had read when they did (admin-users.ts:139), one active administrator   *)
(* of the tenant remains.                                                  *)
AnAdminRemains == \E u \in User : ActiveAdmin(u)

(* A session that still works was opened with the password now in force:   *)
(* no login that was being verified while the password was reset survives  *)
(* the reset (admin-auth.ts:60).                                           *)
SessionsKnowThePassword ==
  \A s \in Session : Usable(s) =>
    sessions[s].proof = users[sessions[s].user].hash

(* A session ended by a logout, a disabling or a reset never works again,  *)
(* also when the user is made active later (admin-users.ts:145, 198).      *)
EndedForGood == \A s \in Session : Usable(s) => ~sessions[s].ended

(* What decides of a user's access: whether there is one, the role and the *)
(* status.                                                                 *)
Account(u) == IF Exists(u) THEN {<<users[u].role, users[u].status>>} ELSE {}

(* The step is the transaction of a request whose session works at that    *)
(* moment and is an active administrator's.                                *)
AnAdminActs ==
  \E q \in Request :
    /\ requests[q].kind = "change"
    /\ requests'[q] = Idle
    /\ Usable(requests[q].session)
    /\ ActiveAdmin(Principal(q))

(* The step is the transaction of a request of the session itself, which   *)
(* works at that moment.                                                   *)
SessionActs(s) ==
  \E q \in Request :
    /\ requests[q].kind = "change"
    /\ requests'[q] = Idle
    /\ requests[q].session = s
    /\ Usable(s)

(* Users are created and get their roles and statuses only in the hands of *)
(* someone who is an active administrator with a working session at that   *)
(* moment, not merely when the request came in (session.ts:91-106).        *)
(* Passwords change so or by the command that needs no session, and a      *)
(* session is revoked so, by that command or by its own logout.            *)
ChangesAreAuthorised ==
  [][/\ \A u \in User : Account(u)' # Account(u) => AnAdminActs
     /\ users' # users => AnAdminActs \/ \E u \in User : ResetOffline(u)
     /\ \A s \in Session : Opened(s) /\ sessions'[s].revoked # sessions[s].revoked =>
          AnAdminActs \/ SessionActs(s) \/ \E u \in User : ResetOffline(u)]_accountVars
=============================================================================
