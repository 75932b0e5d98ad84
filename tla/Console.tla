------------------------------ MODULE Console -------------------------------
(***************************************************************************)
(* One browser tab of the console: its session, the view it shows, and the *)
(* calls it has in flight.  The views list the rows of a table and open    *)
(* editors on them; the usage page is the module UsageView.                *)
(*                                                                         *)
(* What a row holds is told by its revision: every change of a row adds    *)
(* one to it (users have no such column; theirs counts changes only).  A   *)
(* copy of a row therefore is its item and the revision it was read at.    *)
(* Whether the server knows the session and its CSRF token is not modelled *)
(* here (it is in Accounts): any call may be refused for either.           *)
(*                                                                         *)
(* A view that is left takes its state with it.  Its answers are lost, its *)
(* writes are not.                                                         *)
(***************************************************************************)
EXTENDS UsageView

CONSTANTS
  User, Group, Key, Provider,
  LastRevision,  \* bound: revisions of a row
  MaxChanged     \* bound: rows that change at all

ASSUME ConsoleAssumption == LastRevision \in Nat \ {0} /\ MaxChanged \in Nat

VARIABLES
  rows,     \* the server's tables: the revision of each row, 0 when deleted
  session,  \* what the tab knows: "loading", "out", or the role of its user
  view,     \* the view that is mounted, or "none"
  shown,    \* the copies its table shows
  next,     \* nextCursor: whether the list goes on
  editors,  \* the modals and drawers that are open
  calls     \* the calls in flight of the editing views

tab         == <<session, view, usageVars>>
consoleVars == <<rows, shown, next, editors, calls, tab>>

Item      == User \cup Group \cup Key \cup Provider
MemberTab == {"keys", "groups", "usage"}
AdminTab  == {"providers", "users", "audit"}
ItemsOf   == [users |-> User, groups |-> Group, keys |-> Key,
              providers |-> Provider, audit |-> {}, usage |-> {}]

Copy(i) == [item |-> i, revision |-> rows[i]]
Live(v) == {i \in ItemsOf[v] : rows[i] # 0}

(* An editor: the row it is for, the copy its fields were filled from, and *)
(* the copy whose id and revision a save sends.                            *)
Editor(kind, target, form, base) ==
  [kind |-> kind, target |-> target, form |-> form, base |-> base,
   conflict |-> FALSE]

(* A call: "kind" names the editor it is of.  A read has "got" its copy    *)
(* and a save is "done" once the server has answered; any other call is    *)
(* over with its answer.  One that is not mounted is of a view left since. *)
Request(op, kind, target, form, base) ==
  [op |-> op, kind |-> kind, target |-> target, form |-> form, base |-> base,
   got |-> Nothing, done |-> FALSE, mounted |-> TRUE]
Quiet    == [op |-> "quiet"]
ListCall == Request("list", "", Nothing, Nothing, Nothing)
NextCall == Request("more", "", Nothing, Nothing, Nothing)

ConsoleInit ==
  /\ PageInit
  /\ rows = [i \in Item |-> 1]
  /\ session = "loading"
  /\ view = "none" /\ shown = {} /\ next = FALSE /\ editors = {}
  /\ calls = [c \in Call |-> Quiet]

Send(c, call) == calls[c] = Quiet /\ calls' = [calls EXCEPT ![c] = call]
Ended(c)      == calls' = [calls EXCEPT ![c] = Quiet]
Then(c, call) == calls' = [calls EXCEPT ![c] = call]

Mounted(c)  == calls[c] # Quiet /\ calls[c].mounted
Waits(c, op) == Mounted(c) /\ calls[c].op = op /\ ~calls[c].done
Pending(op) == \E c \in Call : Mounted(c) /\ calls[c].op = op
-----------------------------------------------------------------------------
(* Leaving a view: a write that is on its way stays on its way.            *)
Write == {"save", "remove", "reset"}
Left  == [c \in Call |->
  IF calls[c] # Quiet /\ calls[c].op \in Write /\ ~calls[c].done
  THEN [calls[c] EXCEPT !.mounted = FALSE, !.kind = ""]
  ELSE Quiet]

(* Mounting a view: it is empty and loads its list, or its first report.   *)
Show(v) ==
  /\ view' = v /\ shown' = {} /\ next' = FALSE /\ editors' = {}
  /\ IF v = "usage"
     THEN PageOpens /\ calls' = Left
     ELSE /\ PageCloses
          /\ \E c \in Call : /\ Left[c] = Quiet
                             /\ calls' = [Left EXCEPT ![c] = ListCall]

Tabs(role) == MemberTab \cup IF role = "admin" THEN AdminTab ELSE {}

(* AppLayout: the first tab is the one the URL names, unless it is not for *)
(* members.                                                                *)
Enter(role) ==
  /\ session' = role
  /\ \E v \in MemberTab \cup AdminTab :
       Show(IF v \in Tabs(role) THEN v ELSE "keys")
  /\ UNCHANGED rows

(* No view is mounted: the session has ended or the page is refused.       *)
Unmount ==
  /\ view' = "none"
  /\ shown' = {} /\ next' = FALSE /\ editors' = {}
  /\ calls' = Left
  /\ PageCloses
  /\ UNCHANGED rows

(* The session ends for the tab; the login form takes the place of all.    *)
Leave == session' = "out" /\ Unmount

SignedIn == session \in {"admin", "user"}

(* refreshSession when the page is opened.                                 *)
SessionLoads(role) == session = "loading" /\ Enter(role)
NoSession          == session = "loading" /\ Leave

(* LoginView and login, when the server accepts.                           *)
Login(role) == session = "out" /\ Enter(role)

(* logout: the tab forgets the session whatever the server answers.        *)
Logout == SignedIn /\ Leave

(* A call is answered with 401, be it one of this view, of a view that was *)
(* left or of an earlier session: onUnauthorized.                          *)
Unauthorized == SignedIn /\ Leave

(* ErrorRecovery reads the session again, for its CSRF token, and this is  *)
(* the answer: the user may have another role by now, and a page that is   *)
(* not for it is refused.  An answer that comes when the tab has logged    *)
(* out since sets the session once more, as a login would; so does one     *)
(* that finds a page refused by an earlier answer.                         *)
RefreshSession(role) ==
  \/ /\ SignedIn /\ view \in Tabs(role)
     /\ session' = role
     /\ UNCHANGED <<rows, view, shown, next, editors, calls, usageVars>>
  \/ /\ SignedIn /\ view \notin Tabs(role) \cup {"none"}
     /\ session' = role
     /\ Unmount
  \/ /\ session # "loading" /\ view = "none"
     /\ Enter(role)

(* handleMenuClick.                                                        *)
Navigate(v) ==
  /\ SignedIn
  /\ LET target == IF v \in Tabs(session) THEN v ELSE "keys"
     IN target # view /\ Show(target)
  /\ UNCHANGED <<rows, session>>
-----------------------------------------------------------------------------
(* The lists.  A view's refresh is disabled while one is loading.  A list  *)
(* shows the rows there are at some moment while it is under way: the      *)
(* moment is the one it arrives, what is on display ages at once.          *)
Load(c) ==
  /\ ~Pending("list")
  /\ Send(c, ListCall)
  /\ UNCHANGED <<tab, rows, shown, next, editors>>

LoadNext(c) ==
  /\ next /\ ~Pending("more")
  /\ Send(c, NextCall)
  /\ UNCHANGED <<tab, rows, shown, next, editors>>

(* A page goes on with a cursor unless it has the last of the rows.        *)
ListArrives(c) ==
  /\ Waits(c, "list")
  /\ \E page \in SUBSET Live(view) :
       /\ shown' = {Copy(i) : i \in page}
       /\ next' \in (IF view = "audit" THEN BOOLEAN ELSE {page # Live(view)})
  /\ Ended(c) /\ UNCHANGED <<tab, rows, editors>>

NextArrives(c) ==
  /\ Waits(c, "more")
  /\ shown' = shown \cup {Copy(i) : i \in Live(view) \ {r.item : r \in shown}}
  /\ next' \in (IF view = "audit" THEN BOOLEAN ELSE {FALSE})
  /\ Ended(c) /\ UNCHANGED <<tab, rows, editors>>

(* An editor that is open covers the table: nothing on it can be clicked.  *)
OpenOn(kind, r) ==
  /\ editors = {} /\ r \in shown
  /\ editors' = {Editor(kind, r.item, r, r)}
  /\ UNCHANGED <<tab, rows, shown, next, calls>>

Close(e) ==
  /\ e \in editors
  /\ editors' = editors \ {e}
  /\ UNCHANGED <<tab, rows, shown, next, calls>>

(* The read of a row for an editor; the server's answer is on its way with *)
(* what the row was.                                                       *)
Fetch(c, kind, i) ==
  /\ Send(c, Request("fetch", kind, i, Nothing, Nothing))
  /\ UNCHANGED <<tab, rows, shown, next>>

ServeFetch(c) ==
  /\ Waits(c, "fetch")
  /\ rows[calls[c].target] # 0
  /\ calls' = [calls EXCEPT ![c].got = Copy(calls[c].target), ![c].done = TRUE]
  /\ UNCHANGED <<tab, rows, shown, next, editors>>

Fetched(c, kind) ==
  Mounted(c) /\ calls[c].op = "fetch" /\ calls[c].kind = kind /\ calls[c].done

(* The key pool and the script of each provider have editors of their own; *)
(* a view has one editor of any other kind, whatever row it is opened on.  *)
SameEditor(e, kind, i) ==
  e.kind = kind /\ (kind \in {"pool", "script"} => e.target = i)

Updated(E(_), kind) == editors' = {IF e.kind = kind THEN E(e) ELSE e : e \in editors}

(* Reloading the edit modal in which a conflict was reported.              *)
Reload(c) ==
  \E e \in editors : /\ e.kind = "edit" /\ e.conflict
                     /\ Fetch(c, "edit", e.base.item) /\ UNCHANGED editors

(* The row read last fills the edit modal, whatever that was opened on.    *)
Reloaded(c) ==
  /\ Fetched(c, "edit")
  /\ LET r == calls[c].got
         E(e) == Editor("edit", r.item, r, r)
     IN Updated(E, "edit")
  /\ Ended(c) /\ UNCHANGED <<tab, rows, shown, next>>

(* A modal that opens when its row has been read, over what is there.      *)
Opens(c, kind) ==
  /\ Fetched(c, kind)
  /\ LET r == calls[c].got
     IN editors' = {e \in editors : ~SameEditor(e, kind, r.item)}
                     \cup {Editor(kind, r.item, r, r)}
  /\ Ended(c) /\ UNCHANGED <<tab, rows, shown, next>>

(* Saving, unless this editor is saving already.                           *)
Save(c, e) ==
  /\ ~\E d \in Call : /\ Mounted(d) /\ calls[d].op = "save"
                      /\ SameEditor(e, calls[d].kind, calls[d].target)
  /\ Send(c, Request("save", e.kind, e.target, e.form, e.base))
  /\ UNCHANGED <<tab, rows, shown, next, editors>>

SaveOpen(c, kind) == \E e \in editors : e.kind = kind /\ Save(c, e)

(* A save was accepted: the editor closes, also when it has been opened on *)
(* another row since, and the list is loaded again.                        *)
Saved(c) ==
  /\ Mounted(c) /\ calls[c].op = "save" /\ calls[c].done
  /\ editors' = {e \in editors : ~SameEditor(e, calls[c].kind, calls[c].target)}
  /\ IF calls[c].kind = "password" THEN Ended(c) ELSE Then(c, ListCall)
  /\ UNCHANGED <<tab, rows, shown, next>>

(* STALE_VERSION or CSRF_REJECTED: the edit modal that is open reports the *)
(* conflict and offers to reload; the other editors only say so.           *)
SaveRefused(c) ==
  /\ Waits(c, "save")
  /\ LET E(e) == [e EXCEPT !.conflict = calls[c].kind = "edit" /\ view # "users"]
     IN Updated(E, "edit")
  /\ Ended(c) /\ UNCHANGED <<tab, rows, shown, next>>

(* The writes that a row's button sends.                                   *)
Press(c, op, r) ==
  /\ editors = {} /\ r \in shown
  /\ Send(c, Request(op, "", r.item, r, r))
  /\ UNCHANGED <<tab, rows, shown, next, editors>>

(* A row that is created is none of those on display; the list follows.    *)
Create(c) ==
  /\ editors = {} /\ ~Pending("create")
  /\ Send(c, Request("create", "", Nothing, Nothing, Nothing))
  /\ UNCHANGED <<tab, rows, shown, next, editors>>

Created(c) ==
  /\ Waits(c, "create")
  /\ Then(c, ListCall) /\ UNCHANGED <<tab, rows, shown, next, editors>>

(* A call fails, or its answer is lost: a message, and all stays as it is. *)
Fails(c) ==
  /\ calls[c] # Quiet /\ calls[c].op # "fetch" /\ ~calls[c].done
  /\ Ended(c) /\ UNCHANGED <<tab, rows, shown, next, editors>>
-----------------------------------------------------------------------------
(* UsersView: the row's fields, its groups and its password, each in a     *)
(* modal filled from the list; none of them sends a revision.              *)
UsersLoad(c)     == view = "users" /\ Load(c)
UsersMore(c)     == view = "users" /\ LoadNext(c)
UsersCreate(c)   == view = "users" /\ Create(c)
UsersEdit(r)     == view = "users" /\ OpenOn("edit", r)
UsersUpdate(c)   == view = "users" /\ SaveOpen(c, "edit")
UsersGroups(c)   == \/ \E r \in shown : view = "users" /\ OpenOn("groups", r)
                    \/ SaveOpen(c, "groups")
UsersPassword(c) == \/ \E r \in shown : view = "users" /\ OpenOn("password", r)
                    \/ SaveOpen(c, "password")

(* GroupsView: members only see the groups they may use.                   *)
Administers(v) == view = v /\ session = "admin"

GroupsLoad(c)      == view = "groups" /\ Load(c)
GroupsMore(c)      == Administers("groups") /\ LoadNext(c)
GroupsCreate(c)    == Administers("groups") /\ Create(c)
GroupsEdit(r)      == Administers("groups") /\ OpenOn("edit", r)
GroupsReload(c)    == Administers("groups") /\ Reload(c)
GroupsUpdate(c)    == Administers("groups") /\ SaveOpen(c, "edit")
GroupsDelete(c, r) == Administers("groups") /\ Press(c, "remove", r)

(* openCapabilities: the drawer opens empty, on another group or once more *)
(* on one whose capabilities could not be read.                            *)
OpenCapabilities(c, i) ==
  /\ Administers("groups")
  /\ \/ editors = {} /\ i \in {r.item : r \in shown}
     \/ editors = {Editor("caps", i, Nothing, Nothing)} /\ ~Pending("fetch")
  /\ editors' = {Editor("caps", i, Nothing, Nothing)}
  /\ Fetch(c, "caps", i)

(* The answer fills the drawer that is open, be it the one it was for.     *)
CapabilitiesArrive(c) ==
  /\ Fetched(c, "caps")
  /\ LET E(e) == [e EXCEPT !.form = calls[c].got, !.base = calls[c].got]
     IN Updated(E, "caps")
  /\ Ended(c) /\ UNCHANGED <<tab, rows, shown, next>>

(* A read that failed empties the drawer that is open; in the other        *)
(* editors it changes nothing.                                             *)
FetchFails(c) ==
  /\ Waits(c, "fetch")
  /\ LET E(e) == [e EXCEPT !.base = Nothing]
     IN IF calls[c].kind = "caps" THEN Updated(E, "caps") ELSE UNCHANGED editors
  /\ Ended(c) /\ UNCHANGED <<tab, rows, shown, next>>

(* Fault variant: any capabilities that have been read will do.            *)
SaveCapabilitiesOfAny(c) ==
  \E e \in editors : /\ e.kind = "caps"
                     /\ e.base # Nothing
                     /\ Save(c, e)

(* handleSaveCapabilities: only with the capabilities of the group that is *)
(* selected.                                                               *)
SaveCapabilities(c) ==
  \E e \in editors : /\ e.kind = "caps"
                     /\ e.base # Nothing /\ e.base.item = e.target
                     /\ Save(c, e)

(* KeysView, for members too.                                              *)
KeysLoad(c)      == view = "keys" /\ Load(c)
KeysMore(c)      == view = "keys" /\ LoadNext(c)
KeysCreate(c)    == view = "keys" /\ Create(c)
KeysEdit(r)      == view = "keys" /\ OpenOn("edit", r)
KeysReload(c)    == view = "keys" /\ Reload(c)
KeysUpdate(c)    == view = "keys" /\ SaveOpen(c, "edit")
KeysDelete(c, r) == view = "keys" /\ Press(c, "remove", r)
ResetQuota(c, r) == view = "keys" /\ Press(c, "reset", r)

(* ProvidersView, the key pool editor and the script editor.  A lane that  *)
(* is created or switched changes no row listed here.                      *)
ProvidersLoad(c)      == view = "providers" /\ Load(c)
ProvidersMore(c)      == view = "providers" /\ LoadNext(c)
ProvidersCreate(c)    == view = "providers" /\ Create(c)
LanesWrite(c)         == view = "providers" /\ Create(c)
ProvidersEdit(r)      == view = "providers" /\ OpenOn("edit", r)
ProvidersReload(c)    == view = "providers" /\ Reload(c)
ProvidersUpdate(c)    == view = "providers" /\ SaveOpen(c, "edit")
ProvidersDelete(c, r) == view = "providers" /\ Press(c, "remove", r)

OpenFetched(c, kind, i) ==
  /\ view = "providers" /\ editors = {} /\ i \in {r.item : r \in shown}
  /\ Fetch(c, kind, i) /\ UNCHANGED editors

PoolOpen(c, i)   == OpenFetched(c, "pool", i)
PoolOpens(c)     == Opens(c, "pool")
PoolSave(c)      == SaveOpen(c, "pool")
ScriptShow(c, i) == OpenFetched(c, "script", i)
ScriptShows(c)   == Opens(c, "script")
ScriptSave(c)    == SaveOpen(c, "script")

(* AuditView.                                                              *)
AuditLoad(c) == view = "audit" /\ Load(c)
AuditMore(c) == view = "audit" /\ LoadNext(c)
-----------------------------------------------------------------------------
(* The server's side of a write.  What is based on a revision is accepted  *)
(* at that revision only; a change of a user carries none.                 *)
RevisionMatches(call) ==
  call.target \notin User => call.base.revision = rows[call.target]

Change(i, revision) ==
  /\ Cardinality({j \in Item : rows[j] # 1} \cup {i}) <= MaxChanged
  /\ rows' = [rows EXCEPT ![i] = revision]

Changed(i) == rows[i] \in 1..LastRevision - 1 /\ Change(i, rows[i] + 1)
Removed(i) == i \notin User /\ rows[i] # 0 /\ Change(i, 0)

(* The answer of a write of a view that was left goes nowhere, and that of *)
(* any other write may be lost.                                            *)
AcceptSave(c) ==
  /\ calls[c].op = "save" /\ ~calls[c].done
  /\ RevisionMatches(calls[c])
  /\ Changed(calls[c].target)
  /\ \/ calls[c].mounted /\ calls' = [calls EXCEPT ![c].done = TRUE]
     \/ Ended(c)
  /\ UNCHANGED <<tab, shown, next, editors>>

(* The buttons' writes, each followed by loading the list.                 *)
AcceptPress(c) ==
  /\ \/ calls[c].op = "reset" /\ RevisionMatches(calls[c]) /\ Changed(calls[c].target)
     \/ calls[c].op = "remove" /\ Removed(calls[c].target)
  /\ \/ calls[c].mounted /\ Then(c, ListCall)
     \/ Ended(c)
  /\ UNCHANGED <<tab, shown, next, editors>>

(* Other administrators, or this user in another tab.                      *)
SomeoneElse(i) ==
  /\ Changed(i) \/ Removed(i)
  /\ UNCHANGED <<tab, shown, next, editors, calls>>
-----------------------------------------------------------------------------
CallStep(c) ==
  \/ UsersLoad(c) \/ UsersMore(c) \/ UsersCreate(c) \/ UsersUpdate(c)
  \/ UsersGroups(c) \/ UsersPassword(c)
  \/ GroupsLoad(c) \/ GroupsMore(c) \/ GroupsCreate(c) \/ GroupsReload(c)
  \/ GroupsUpdate(c) \/ SaveCapabilities(c) \/ CapabilitiesArrive(c)
  \/ KeysLoad(c) \/ KeysMore(c) \/ KeysCreate(c) \/ KeysReload(c) \/ KeysUpdate(c)
  \/ ProvidersLoad(c) \/ ProvidersMore(c) \/ ProvidersCreate(c) \/ LanesWrite(c)
  \/ ProvidersReload(c) \/ ProvidersUpdate(c)
  \/ PoolOpens(c) \/ PoolSave(c) \/ ScriptShows(c) \/ ScriptSave(c)
  \/ AuditLoad(c) \/ AuditMore(c)
  \/ ListArrives(c) \/ NextArrives(c) \/ ServeFetch(c) \/ FetchFails(c)
  \/ Reloaded(c) \/ Saved(c) \/ SaveRefused(c) \/ Created(c) \/ Fails(c)
  \/ AcceptSave(c) \/ AcceptPress(c)
  \/ \E r \in shown : \/ GroupsDelete(c, r) \/ ProvidersDelete(c, r)
                      \/ KeysDelete(c, r) \/ ResetQuota(c, r)
  \/ \E i \in Item : OpenCapabilities(c, i) \/ PoolOpen(c, i) \/ ScriptShow(c, i)

ConsoleNext ==
  \/ \E role \in {"admin", "user"} : SessionLoads(role) \/ Login(role) \/ RefreshSession(role)
  \/ NoSession \/ Logout \/ Unauthorized
  \/ \E v \in MemberTab \cup AdminTab : Navigate(v)
  \/ \E c \in Call : CallStep(c)
  \/ \E r \in shown : UsersEdit(r) \/ GroupsEdit(r) \/ KeysEdit(r) \/ ProvidersEdit(r)
  \/ \E e \in editors : Close(e)
  \/ \E i \in Item : SomeoneElse(i)
  \/ /\ view = "usage" /\ PageStep
     /\ UNCHANGED <<rows, session, view, shown, next, editors, calls>>

ConsoleSpec == ConsoleInit /\ [][ConsoleNext]_consoleVars
-----------------------------------------------------------------------------
(* No update of a group, a key or a provider is lost to a save or a reset: *)
(* whatever was read late, reloaded, or fetched for another row meanwhile, *)
(* a write that the server accepts at a revision was made from the present *)
(* content of the very row it changes (the comments at GroupsView.tsx:216  *)
(* and 262, ErrorRecovery.tsx:35).  Changes of users and deletions carry   *)
(* no revision: nothing is asked of them.                                  *)
NoLostUpdate ==
  [][\A c \in Call :
       ( /\ calls[c].op \in {"save", "reset"}
         /\ calls[c].target \notin User
         /\ calls'[c] # calls[c] /\ rows' # rows ) =>
       calls[c].form = Copy(calls[c].target)]_consoleVars
=============================================================================
