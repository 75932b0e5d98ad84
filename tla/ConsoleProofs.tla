---------------------------- MODULE ConsoleProofs ----------------------------
(***************************************************************************)
(* Theorems about the console, for any tables, any number of calls in      *)
(* flight, results of any length and pages of any size.                    *)
(*                                                                         *)
(* No update at a revision is lost because editors and calls stay in one   *)
(* piece: what the fields were filled with is the copy whose revision is   *)
(* sent, and the copy is of the row that is changed (Filled).  The         *)
(* capabilities drawer alone may hold a copy of another row, and is saved  *)
(* only when it does not.                                                  *)
(*                                                                         *)
(* A reader has all chunks before the one it asks for, in order (ReadsOK): *)
(* so its last page always completes the result.                           *)
(*                                                                         *)
(* The cursor of the report is that of a window which is listed, and an    *)
(* answer that is not late lists the last one (WindowsOK).                 *)
(***************************************************************************)
EXTENDS Console, SequenceTheorems, TLAPS

CopyRow == [item : Item, revision : Nat]
Kind    == {"", "edit", "groups", "password", "caps", "pool", "script"}
EditorRow == [kind : Kind, target : Item, form : CopyRow \cup {Nothing},
              base : CopyRow \cup {Nothing}, conflict : BOOLEAN]
CallRow == [op : {"list", "more", "fetch", "save", "create", "remove", "reset"},
            kind : Kind, target : Item \cup {Nothing},
            form : CopyRow \cup {Nothing}, base : CopyRow \cup {Nothing},
            got : CopyRow \cup {Nothing}, done : BOOLEAN, mounted : BOOLEAN]

(* An editor or a call in one piece.                                       *)
Filled(x) ==
  /\ x.base \in CopyRow
  /\ x.form = x.base
  /\ x.base.item = x.target

EditorOK(e) ==
  /\ e \in EditorRow
  /\ IF e.kind = "caps" THEN e.base # Nothing => e.base \in CopyRow /\ e.form = e.base
                        ELSE Filled(e)

CallOK(x) ==
  x # Quiet =>
    /\ x \in CallRow
    /\ x.op \in {"save", "reset"} => Filled(x)
    /\ x.op = "fetch" /\ x.done => x.got \in CopyRow /\ x.got.item = x.target
    /\ x.op = "fetch" => x.target \in Item

RowsOK    == rows \in [Item -> Nat]
ShownOK   == shown \subseteq CopyRow
EditorsOK == \A e \in editors : EditorOK(e)
CallsOK   == /\ calls = [c \in Call |-> calls[c]]
             /\ \A c \in Call : CallOK(calls[c])


(* Without a view no editor is open and nobody waits for an answer.        *)
ViewOK == view \in MemberTab \cup AdminTab
          \/ (editors = {} /\ \A c \in Call : ~Mounted(c))

ConsoleInv == RowsOK /\ ShownOK /\ EditorsOK /\ CallsOK /\ ViewOK

(* A view is shown, and goes on to be shown.                               *)
InView == view \in MemberTab \cup AdminTab

(* What every step does that is not a write of the server.                 *)
Harmless == ConsoleInv' /\ rows' = rows

(* A record with the fields of a call is not the record of a free slot.    *)
LEMMA NotQuiet ==
  /\ Quiet \notin CallRow
  /\ Quiet.op = "quiet"
BY DEF Quiet, CallRow

(* One slot takes another call.                                            *)
LEMMA CallPlaced ==
  ASSUME CallsOK, NEW c \in Call, NEW x, CallOK(x),
         calls' = [calls EXCEPT ![c] = x]
  PROVE  CallsOK'
BY DEF CallsOK

(* What Request makes is a call.                                           *)
LEMMA RequestMade ==
  ASSUME NEW op \in {"list", "more", "fetch", "save", "create", "remove", "reset"},
         NEW kind \in Kind, NEW target \in Item \cup {Nothing},
         NEW form \in CopyRow \cup {Nothing}, NEW base \in CopyRow \cup {Nothing},
         op \in {"save", "reset"} => base \in CopyRow /\ form = base /\ base.item = target,
         op = "fetch" => target \in Item
  PROVE  CallOK(Request(op, kind, target, form, base))
BY DEF Request, CallOK, CallRow, Filled

(* A free slot, and the calls for the list, are calls.                     *)
LEMMA PlainCalls ==
  CallOK(Quiet) /\ CallOK(ListCall) /\ CallOK(NextCall)
<1>1. CallOK(Quiet)
  BY DEF CallOK
<1>2. CallOK(ListCall)
  BY RequestMade DEF ListCall, Kind
<1>3. CallOK(NextCall)
  BY RequestMade DEF NextCall, Kind
<1> QED
  BY <1>1, <1>2, <1>3

(* A slot is freed, or goes on to load the list.                           *)
LEMMA CallOver ==
  ASSUME CallsOK, NEW c \in Call, Ended(c) \/ Then(c, ListCall)
  PROVE  CallsOK'
<1>1. CASE Ended(c)
  BY <1>1, CallPlaced, PlainCalls DEF Ended
<1>2. CASE Then(c, ListCall)
  BY <1>2, CallPlaced, PlainCalls DEF Then
<1> QED
  BY <1>1, <1>2

(* A slot that is freed leaves no one waiting who did not wait before.     *)
LEMMA ViewKept ==
  ASSUME ViewOK, CallsOK, NEW c \in Call, Ended(c), view' = view, editors' = editors
  PROVE  ViewOK'
BY DEF ViewOK, CallsOK, Ended, Mounted

(* The copy of a row is a copy.                                            *)
LEMMA CopyOfRow ==
  ASSUME RowsOK, NEW i \in Item
  PROVE  Copy(i) \in CopyRow /\ Copy(i).item = i /\ Copy(i).revision = rows[i]
BY DEF RowsOK, Copy, CopyRow

(* What Editor makes of a copy is an editor.                               *)
LEMMA EditorMade ==
  ASSUME NEW r \in CopyRow, NEW kind \in Kind
  PROVE  EditorOK(Editor(kind, r.item, r, r))
<1>1. r.item \in Item
  BY DEF CopyRow
<1> QED
  BY <1>1 DEF EditorOK, EditorRow, Editor, Filled

(* Editors that are closed, and others that take their place.              *)
LEMMA EditorsPlaced ==
  ASSUME EditorsOK, \A e \in editors' : e \in editors \/ EditorOK(e)
  PROVE  EditorsOK'
BY DEF EditorsOK
-----------------------------------------------------------------------------
(* What stays when a view is left.                                         *)
LEMMA LeftOK ==
  ASSUME CallsOK
  PROVE  Left = [c \in Call |-> Left[c]] /\ \A c \in Call : CallOK(Left[c])
<1>1. Left = [c \in Call |-> Left[c]]
  BY DEF Left
<1>2. ASSUME NEW c \in Call
      PROVE  CallOK(Left[c])
  <2>1. CASE calls[c] # Quiet /\ calls[c].op \in Write /\ ~calls[c].done
    <3>1. Left[c] = [calls[c] EXCEPT !.mounted = FALSE, !.kind = ""]
      BY <2>1 DEF Left
    <3>2. CallOK(calls[c]) /\ calls[c] \in CallRow
      BY <2>1 DEF CallsOK, CallOK
    <3> QED
      BY <3>1, <3>2, <2>1 DEF CallOK, CallRow, Filled, Kind, Write
  <2>2. CASE ~(calls[c] # Quiet /\ calls[c].op \in Write /\ ~calls[c].done)
    BY <2>2, PlainCalls DEF Left
  <2> QED
    BY <2>1, <2>2
<1> QED
  BY <1>1, <1>2

(* Mounting a view.                                                        *)
LEMMA ShowKeeps ==
  ASSUME ConsoleInv, NEW v \in MemberTab \cup AdminTab, Show(v), rows' = rows
  PROVE  Harmless
<1>1. RowsOK' /\ ShownOK' /\ EditorsOK'
  BY DEF ConsoleInv, RowsOK, ShownOK, EditorsOK, Show
<1>2. CallsOK'
  <2>1. CASE calls' = Left
    BY <2>1, LeftOK DEF ConsoleInv, CallsOK
  <2>2. CASE \E c \in Call : calls' = [Left EXCEPT ![c] = ListCall]
    BY <2>2, LeftOK, PlainCalls DEF ConsoleInv, CallsOK
  <2> QED
    BY <2>1, <2>2 DEF Show
<1>3. ViewOK'
  BY DEF ViewOK, Show
<1> QED
  BY <1>1, <1>2, <1>3 DEF Harmless, ConsoleInv

(* The view is taken away.                                                 *)
LEMMA UnmountKeeps ==
  ASSUME ConsoleInv, Unmount
  PROVE  Harmless
<1>1. RowsOK' /\ ShownOK' /\ EditorsOK'
  BY DEF ConsoleInv, RowsOK, ShownOK, EditorsOK, Unmount
<1>2. CallsOK'
  BY LeftOK DEF ConsoleInv, CallsOK, Unmount
<1>3. ViewOK'
  <2>1. ASSUME NEW c \in Call
        PROVE  Left[c] = Quiet \/ ~Left[c].mounted
    <3>1. CallOK(calls[c])
      BY DEF ConsoleInv, CallsOK
    <3> QED
      BY <3>1 DEF Left, CallOK, CallRow
  <2> QED
    BY <2>1 DEF ViewOK, Unmount, Mounted
<1> QED
  BY <1>1, <1>2, <1>3 DEF Harmless, ConsoleInv, Unmount

(* What leaves the tables, the calls and the editors alone, or changes one *)
(* of them into something that is all right.                               *)
LEMMA PartsKept ==
  ASSUME ConsoleInv, rows' = rows,
         shown' = shown \/ ShownOK',
         editors' = editors \/ EditorsOK',
         calls' = calls \/ CallsOK',
         InView, UNCHANGED tab
  PROVE  Harmless
BY DEF ConsoleInv, Harmless, RowsOK, ShownOK, EditorsOK, CallsOK, ViewOK, InView, tab

(* Editors and answers are there in a view only.                           *)
LEMMA SomeView ==
  ASSUME ConsoleInv, editors # {} \/ \E c \in Call : Mounted(c)
  PROVE  InView
BY DEF ConsoleInv, ViewOK, InView
-----------------------------------------------------------------------------
(* Asking for the list, or for more of it.                                 *)
LEMMA LoadKeeps ==
  ASSUME ConsoleInv, NEW c \in Call, Load(c) \/ LoadNext(c), InView
  PROVE  Harmless
<1>1. CallsOK'
  <2>1. CallsOK
    BY DEF ConsoleInv
  <2>2. CASE Load(c)
    BY <2>1, <2>2, CallPlaced, PlainCalls DEF Load, Send
  <2>3. CASE LoadNext(c)
    BY <2>1, <2>3, CallPlaced, PlainCalls DEF LoadNext, Send
  <2> QED
    BY <2>2, <2>3
<1> QED
  BY <1>1, PartsKept DEF Load, LoadNext

(* A list arrives: what it shows are copies.                               *)
LEMMA ListKeeps ==
  ASSUME ConsoleInv, NEW c \in Call, ListArrives(c) \/ NextArrives(c)
  PROVE  Harmless
<1>0. InView
  BY SomeView DEF ListArrives, NextArrives, Waits
<1>1. \A i \in Live(view) : Copy(i) \in CopyRow
  <2>1. Live(view) \subseteq Item
    BY <1>0 DEF Live, Item, ItemsOf, InView, MemberTab, AdminTab
  <2> QED
    BY <2>1, CopyOfRow DEF ConsoleInv
<1>2. ShownOK'
  BY <1>1 DEF ConsoleInv, ShownOK, ListArrives, NextArrives
<1>3. CallsOK'
  BY CallOver DEF ConsoleInv, ListArrives, NextArrives
<1> QED
  BY <1>0, <1>2, <1>3, PartsKept DEF ListArrives, NextArrives

(* Opening an editor on a row of the table, and closing one.               *)
LEMMA OpenKeeps ==
  ASSUME ConsoleInv, NEW kind \in Kind, NEW r, OpenOn(kind, r), InView
  PROVE  Harmless
<1>1. EditorOK(Editor(kind, r.item, r, r))
  BY EditorMade DEF ConsoleInv, ShownOK, OpenOn
<1>2. EditorsOK'
  BY <1>1 DEF OpenOn, EditorsOK
<1> QED
  BY <1>2, PartsKept DEF OpenOn

(* Closing an editor.                                                      *)
LEMMA CloseKeeps ==
  ASSUME ConsoleInv, NEW e, Close(e)
  PROVE  Harmless
<1>0. InView
  BY SomeView DEF Close
<1>1. EditorsOK'
  BY EditorsPlaced DEF Close, ConsoleInv
<1> QED
  BY <1>1, PartsKept, <1>0 DEF Close

(* Reading a row for an editor.                                            *)
LEMMA FetchKeeps ==
  ASSUME ConsoleInv, NEW c \in Call, NEW kind \in Kind, NEW i \in Item,
         Fetch(c, kind, i), editors' = editors \/ EditorsOK', InView
  PROVE  Harmless
<1>1. CallOK(Request("fetch", kind, i, Nothing, Nothing))
  BY RequestMade
<1>2. CallsOK'
  BY <1>1, CallPlaced DEF ConsoleInv, Fetch, Send
<1> QED
  BY <1>2, PartsKept DEF Fetch

(* A call that waits for its answer is a call.                             *)
LEMMA CallInFlight ==
  ASSUME ConsoleInv, NEW c \in Call, Mounted(c) \/ calls[c] # Quiet
  PROVE  calls[c] \in CallRow /\ CallOK(calls[c]) /\ calls[c] # Quiet
BY DEF ConsoleInv, CallsOK, CallOK, Mounted

(* The server answers a read.                                              *)
LEMMA ServeKeeps ==
  ASSUME ConsoleInv, NEW c \in Call, ServeFetch(c)
  PROVE  Harmless
<1>0. InView
  BY SomeView DEF ServeFetch, Waits
<1> DEFINE x == [calls[c] EXCEPT !.got = Copy(calls[c].target), !.done = TRUE]
<1>1. calls[c] \in CallRow /\ CallOK(calls[c]) /\ calls[c].op = "fetch"
      /\ calls[c].target \in Item
  BY CallInFlight DEF ServeFetch, Waits, CallOK
<1>2. Copy(calls[c].target) \in CopyRow /\ Copy(calls[c].target).item = calls[c].target
  BY <1>1, CopyOfRow DEF ConsoleInv
<1>3. /\ x \in CallRow
      /\ x.op = "fetch" /\ x.got = Copy(calls[c].target) /\ x.target = calls[c].target
  BY <1>1, <1>2 DEF CallRow
<1>4. CallOK(x)
  BY <1>1, <1>2, <1>3 DEF CallOK
<1>5. calls' = [calls EXCEPT ![c] = x]
  BY DEF ServeFetch
<1>6. CallsOK'
  <2> HIDE DEF x
  <2> QED
    BY <1>4, <1>5, CallPlaced DEF ConsoleInv
<1> QED
  BY <1>6, PartsKept, <1>0 DEF ServeFetch

(* A read that was answered has a copy.                                    *)
LEMMA FetchedCopy ==
  ASSUME ConsoleInv, NEW c \in Call, NEW kind, Fetched(c, kind)
  PROVE  calls[c].got \in CopyRow
BY CallInFlight DEF Fetched, CallOK

(* Reloading the edit modal.                                               *)
LEMMA ReloadKeeps ==
  ASSUME ConsoleInv, NEW c \in Call, Reload(c)
  PROVE  Harmless
<1>0. InView
  BY SomeView DEF Reload
<1>1. PICK e \in editors : e.kind = "edit" /\ Fetch(c, "edit", e.base.item)
                           /\ UNCHANGED editors
  BY DEF Reload
<1>2. EditorOK(e)
  BY DEF ConsoleInv, EditorsOK
<1>3. e.base.item \in Item
  BY <1>1, <1>2 DEF EditorOK, Filled, CopyRow
<1> QED
  BY <1>1, <1>3, FetchKeeps, <1>0 DEF Kind

(* The row read last fills the edit modal.                                 *)
LEMMA ReloadedKeeps ==
  ASSUME ConsoleInv, NEW c \in Call, Reloaded(c)
  PROVE  Harmless
<1>0. InView
  BY SomeView DEF Reloaded, Fetched
<1>1. EditorOK(Editor("edit", calls[c].got.item, calls[c].got, calls[c].got))
  BY FetchedCopy, EditorMade DEF Reloaded, Kind
<1>2. EditorsOK'
  BY <1>1, EditorsPlaced DEF Reloaded, Updated, ConsoleInv
<1>3. CallsOK'
  BY CallOver DEF Reloaded, ConsoleInv
<1> QED
  BY <1>2, <1>3, PartsKept, <1>0 DEF Reloaded

(* A modal opens with the row that was read for it.                        *)
LEMMA OpensKeeps ==
  ASSUME ConsoleInv, NEW c \in Call, NEW kind \in Kind, Opens(c, kind)
  PROVE  Harmless
<1>0. InView
  BY SomeView DEF Opens, Fetched
<1>1. EditorOK(Editor(kind, calls[c].got.item, calls[c].got, calls[c].got))
  BY FetchedCopy, EditorMade DEF Opens
<1>2. EditorsOK'
  BY <1>1, EditorsPlaced DEF Opens, ConsoleInv
<1>3. CallsOK'
  BY CallOver DEF Opens, ConsoleInv
<1> QED
  BY <1>2, <1>3, PartsKept, <1>0 DEF Opens
-----------------------------------------------------------------------------
(* A save sends an editor that is in one piece.                            *)
LEMMA SaveKeeps ==
  ASSUME ConsoleInv, NEW c \in Call, NEW e \in editors, Save(c, e),
         e.kind # "caps" \/ (e.base # Nothing /\ e.base.item = e.target)
  PROVE  Harmless
<1>0. InView
  BY SomeView DEF Save
<1>1. e \in EditorRow /\ Filled(e)
  BY DEF ConsoleInv, EditorsOK, EditorOK, Filled
<1>2. CallOK(Request("save", e.kind, e.target, e.form, e.base))
  <2>1. /\ e.kind \in Kind /\ e.target \in Item \cup {Nothing}
        /\ e.form \in CopyRow \cup {Nothing} /\ e.base \in CopyRow
        /\ e.form = e.base /\ e.base.item = e.target
    BY <1>1 DEF EditorRow, Filled
  <2> QED
    BY <2>1, RequestMade
<1>3. CallsOK'
  BY <1>2, CallPlaced DEF ConsoleInv, Save, Send
<1> QED
  BY <1>3, PartsKept, <1>0 DEF Save

(* So does the save of every editor but the capabilities drawer.           *)
LEMMA SaveOpenKeeps ==
  ASSUME ConsoleInv, NEW c \in Call, NEW kind, kind # "caps", SaveOpen(c, kind)
  PROVE  Harmless
BY SaveKeeps DEF SaveOpen

(* A save was accepted, and its answer closes the editor.                  *)
LEMMA SavedKeeps ==
  ASSUME ConsoleInv, NEW c \in Call, Saved(c)
  PROVE  Harmless
<1>0. InView
  BY SomeView DEF Saved
<1>1. EditorsOK'
  BY EditorsPlaced DEF Saved, ConsoleInv
<1>2. CallsOK'
  BY CallOver DEF Saved, ConsoleInv
<1> QED
  BY <1>1, <1>2, PartsKept, <1>0 DEF Saved

(* A save was refused: a mark on the edit modal.                           *)
LEMMA RefusedKeeps ==
  ASSUME ConsoleInv, NEW c \in Call, SaveRefused(c)
  PROVE  Harmless
<1>0. InView
  BY SomeView DEF SaveRefused, Waits
<1> DEFINE m == calls[c].kind = "edit" /\ view # "users"
<1>1. ASSUME NEW e \in editors
      PROVE  EditorOK([e EXCEPT !.conflict = m])
  <2>1. EditorOK(e)
    BY DEF ConsoleInv, EditorsOK
  <2>2. m \in BOOLEAN
    OBVIOUS
  <2> HIDE DEF m
  <2> QED
    BY <2>1, <2>2 DEF EditorOK, EditorRow, Filled
<1>2. EditorsOK'
  BY <1>1, EditorsPlaced DEF SaveRefused, Updated, ConsoleInv
<1>3. CallsOK'
  BY CallOver DEF SaveRefused, ConsoleInv
<1> QED
  BY <1>2, <1>3, PartsKept, <1>0 DEF SaveRefused

(* A row's button sends the copy the row is shown with.                    *)
LEMMA PressKeeps ==
  ASSUME ConsoleInv, NEW c \in Call, NEW op \in {"remove", "reset"}, NEW r, Press(c, op, r), InView
  PROVE  Harmless
<1>1. r \in CopyRow /\ r.item \in Item
  BY DEF ConsoleInv, ShownOK, Press, CopyRow
<1>2. CallOK(Request(op, "", r.item, r, r))
  BY <1>1, RequestMade DEF Kind
<1>3. CallsOK'
  BY <1>2, CallPlaced DEF ConsoleInv, Press, Send
<1> QED
  BY <1>3, PartsKept DEF Press

(* A row is created, and the list follows.                                 *)
LEMMA CreateKeeps ==
  ASSUME ConsoleInv, NEW c \in Call, Create(c) \/ Created(c), InView
  PROVE  Harmless
<1>1. CallOK(Request("create", "", Nothing, Nothing, Nothing))
  BY RequestMade DEF Kind
<1>2. CallsOK'
  BY <1>1, CallPlaced, CallOver DEF ConsoleInv, Create, Created, Send
<1> QED
  BY <1>2, PartsKept DEF Create, Created

(* A call fails.                                                           *)
LEMMA FailsKeeps ==
  ASSUME ConsoleInv, NEW c \in Call, Fails(c)
  PROVE  Harmless
<1>1. CallsOK'
  BY CallOver DEF Fails, ConsoleInv
<1>2. ViewOK'
  BY ViewKept DEF Fails, ConsoleInv, tab
<1> QED
  BY <1>1, <1>2 DEF Fails, ConsoleInv, Harmless, RowsOK, ShownOK, EditorsOK
-----------------------------------------------------------------------------
(* The capabilities drawer opens empty.                                    *)
LEMMA OpenCapabilitiesKeeps ==
  ASSUME ConsoleInv, NEW c \in Call, NEW i \in Item, OpenCapabilities(c, i)
  PROVE  Harmless
<1>1. EditorOK(Editor("caps", i, Nothing, Nothing))
  BY DEF EditorOK, Editor, EditorRow, Kind
<1>2. EditorsOK'
  BY <1>1, EditorsPlaced DEF OpenCapabilities, ConsoleInv
<1>3. InView
  BY DEF OpenCapabilities, Administers, InView, MemberTab
<1> QED
  BY <1>2, <1>3, FetchKeeps DEF OpenCapabilities, Kind

(* What was read fills the drawer.                                         *)
LEMMA CapabilitiesKeep ==
  ASSUME ConsoleInv, NEW c \in Call, CapabilitiesArrive(c)
  PROVE  Harmless
<1>0. InView
  BY SomeView DEF CapabilitiesArrive, Fetched
<1>1. calls[c].got \in CopyRow
  BY FetchedCopy DEF CapabilitiesArrive
<1>2. ASSUME NEW e \in editors, e.kind = "caps"
      PROVE  EditorOK([e EXCEPT !.form = calls[c].got, !.base = calls[c].got])
  <2>1. e \in EditorRow
    BY DEF ConsoleInv, EditorsOK, EditorOK
  <2> QED
    BY <1>1, <1>2, <2>1 DEF EditorOK, EditorRow
<1>3. EditorsOK'
  BY <1>2, EditorsPlaced DEF CapabilitiesArrive, Updated, ConsoleInv
<1>4. CallsOK'
  BY CallOver DEF CapabilitiesArrive, ConsoleInv
<1> QED
  BY <1>0, <1>3, <1>4, PartsKept DEF CapabilitiesArrive

(* A read that failed empties it.                                          *)
LEMMA FetchFailsKeeps ==
  ASSUME ConsoleInv, NEW c \in Call, FetchFails(c)
  PROVE  Harmless
<1>0. InView
  BY SomeView DEF FetchFails, Waits
<1>1. ASSUME NEW e \in editors, e.kind = "caps"
      PROVE  EditorOK([e EXCEPT !.base = Nothing])
  <2>1. e \in EditorRow
    BY DEF ConsoleInv, EditorsOK, EditorOK
  <2> QED
    BY <1>1, <2>1 DEF EditorOK, EditorRow
<1>2. EditorsOK' \/ editors' = editors
  BY <1>1, EditorsPlaced DEF FetchFails, Updated, ConsoleInv
<1>3. CallsOK'
  BY CallOver DEF FetchFails, ConsoleInv
<1> QED
  BY <1>0, <1>2, <1>3, PartsKept DEF FetchFails
-----------------------------------------------------------------------------
(* The rows keep their type when one of them changes.                      *)
LEMMA RowsChanged ==
  ASSUME RowsOK, NEW i \in Item, Changed(i) \/ Removed(i)
  PROVE  RowsOK'
BY ConsoleAssumption DEF RowsOK, Changed, Removed, Change

(* What NoLostUpdate says of one call.                                     *)
NotLost(c) ==
  ( /\ calls[c].op \in {"save", "reset"}
    /\ calls[c].target \notin User
    /\ calls'[c] # calls[c] /\ rows' # rows ) =>
  calls[c].form = Copy(calls[c].target)

(* A write that is based on the revision of its row was made from its      *)
(* content.                                                                *)
LEMMA BasedOnPresent ==
  ASSUME ConsoleInv, NEW c \in Call, calls[c].op \in {"save", "reset"},
         calls[c].target \notin User, RevisionMatches(calls[c])
  PROVE  calls[c].form = Copy(calls[c].target)
<1>1. calls[c] # Quiet
  BY NotQuiet
<1>2. Filled(calls[c])
  BY <1>1 DEF ConsoleInv, CallsOK, CallOK
<1>3. calls[c].base.revision = rows[calls[c].target]
  BY DEF RevisionMatches
<1> QED
  BY <1>2, <1>3 DEF Filled, CopyRow, Copy

(* A write accepted by the server.                                         *)
LEMMA AcceptKeeps ==
  ASSUME ConsoleInv, NEW c \in Call, AcceptSave(c) \/ AcceptPress(c)
  PROVE  ConsoleInv' /\ \A d \in Call : NotLost(d)
<1>1. calls[c] # Quiet /\ calls[c] \in CallRow /\ CallOK(calls[c])
  BY NotQuiet DEF ConsoleInv, CallsOK, CallOK, AcceptSave, AcceptPress
<1>2. CASE AcceptSave(c)
  <2>1. calls[c].target \in Item
    BY <1>1, <1>2 DEF AcceptSave, CallOK, Filled, CopyRow
  <2>2. RowsOK'
    BY <1>2, <2>1, RowsChanged DEF AcceptSave, ConsoleInv
  <2>3. CallOK([calls[c] EXCEPT !.done = TRUE])
    BY <1>1, <1>2 DEF AcceptSave, CallOK, CallRow, Filled
  <2>4. calls' = [calls EXCEPT ![c] = [calls[c] EXCEPT !.done = TRUE]] \/ Ended(c)
    BY <1>2 DEF AcceptSave
  <2>5. CallsOK'
    BY <2>3, <2>4, CallPlaced, CallOver DEF ConsoleInv
  <2>6. ViewOK'
    <3>1. CASE Ended(c)
      BY <1>2, <3>1, ViewKept DEF AcceptSave, tab, ConsoleInv
    <3>2. CASE ~Ended(c)
      <4>1. Mounted(c)
        BY <1>1, <1>2, <3>2 DEF AcceptSave, Mounted
      <4> QED
        BY <1>2, <4>1, SomeView DEF AcceptSave, tab, InView, ViewOK
    <3> QED
      BY <3>1, <3>2
  <2>7. \A d \in Call : NotLost(d)
    <3>1. \A d \in Call : d # c => calls'[d] = calls[d]
      BY <2>4 DEF Ended, ConsoleInv, CallsOK
    <3> QED
      BY <1>2, <3>1, BasedOnPresent DEF NotLost, AcceptSave
  <2> QED
    BY <1>2, <2>2, <2>5, <2>6, <2>7 DEF AcceptSave, ConsoleInv, ShownOK, EditorsOK
<1>3. CASE AcceptPress(c)
  <2>1. ASSUME calls[c].op = "remove"
        PROVE  RowsOK'
    <3>1. Removed(calls[c].target)
      BY <1>3, <2>1 DEF AcceptPress
    <3> QED
      BY <3>1 DEF Removed, Change, ConsoleInv, RowsOK
  <2>2. ASSUME calls[c].op = "reset"
        PROVE  RowsOK'
    <3>1. calls[c].target \in Item
      BY <1>1, <2>2 DEF CallOK, Filled, CopyRow
    <3> QED
      BY <1>3, <2>2, <3>1, RowsChanged DEF AcceptPress, ConsoleInv
  <2>3. CallsOK'
    BY <1>3, CallOver DEF AcceptPress, ConsoleInv
  <2>4. ViewOK'
    <3>1. CASE Ended(c)
      BY <1>3, <3>1, ViewKept DEF AcceptPress, tab, ConsoleInv
    <3>2. CASE ~Ended(c)
      <4>1. Mounted(c)
        BY <1>1, <1>3, <3>2 DEF AcceptPress, Mounted
      <4> QED
        BY <1>3, <4>1, SomeView DEF AcceptPress, tab, InView, ViewOK
    <3> QED
      BY <3>1, <3>2
  <2>5. \A d \in Call : NotLost(d)
    <3>1. \A d \in Call : d # c => calls'[d] = calls[d]
      BY <1>3 DEF AcceptPress, Then, Ended, ConsoleInv, CallsOK
    <3>2. NotLost(c)
      BY <1>3, BasedOnPresent DEF NotLost, AcceptPress
    <3> QED
      BY <3>1, <3>2 DEF NotLost
  <2> QED
    BY <1>3, <2>1, <2>2, <2>3, <2>4, <2>5 DEF AcceptPress, ConsoleInv, ShownOK, EditorsOK
<1> QED
  BY <1>2, <1>3

(* Someone else changes a row; no call of the tab is answered.             *)
LEMMA SomeoneKeeps ==
  ASSUME ConsoleInv, NEW i \in Item, SomeoneElse(i)
  PROVE  ConsoleInv' /\ \A d \in Call : NotLost(d)
<1>1. RowsOK'
  BY RowsChanged DEF ConsoleInv, SomeoneElse
<1> QED
  BY <1>1 DEF SomeoneElse, ConsoleInv, ShownOK, EditorsOK, CallsOK, ViewOK, Mounted, tab, NotLost

(* Nothing is lost where no row changes.                                   *)
LEMMA HarmlessKeeps ==
  ASSUME Harmless
  PROVE  ConsoleInv' /\ \A d \in Call : NotLost(d)
BY DEF Harmless, NotLost
-----------------------------------------------------------------------------
(* The calls a view sends, and their answers.                              *)
LEMMA CallStepKeeps ==
  ASSUME ConsoleInv, NEW c \in Call, CallStep(c)
  PROVE  ConsoleInv' /\ \A d \in Call : NotLost(d)
<1> DEFINE Goal == ConsoleInv' /\ \A d \in Call : NotLost(d)
<1>1. Harmless => Goal
  BY HarmlessKeeps
<1> HIDE DEF Goal
<1> USE DEF InView, MemberTab, AdminTab, Administers
<1>2. ASSUME \/ UsersLoad(c) \/ UsersMore(c) \/ GroupsLoad(c) \/ GroupsMore(c)
             \/ KeysLoad(c) \/ KeysMore(c) \/ ProvidersLoad(c) \/ ProvidersMore(c)
             \/ AuditLoad(c) \/ AuditMore(c)
      PROVE  Goal
  <2>1. InView /\ (Load(c) \/ LoadNext(c))
    BY <1>2 DEF UsersLoad, UsersMore, GroupsLoad, GroupsMore, KeysLoad, KeysMore,
                ProvidersLoad, ProvidersMore, AuditLoad, AuditMore
  <2> QED
    BY <1>1, <2>1, LoadKeeps
<1>3. ASSUME \/ UsersCreate(c) \/ GroupsCreate(c) \/ KeysCreate(c)
             \/ ProvidersCreate(c) \/ LanesWrite(c)
      PROVE  Goal
  <2>1. InView /\ Create(c)
    BY <1>3 DEF UsersCreate, GroupsCreate, KeysCreate, ProvidersCreate, LanesWrite
  <2> QED
    BY <1>1, <2>1, CreateKeeps
<1>4. ASSUME UsersUpdate(c) \/ GroupsUpdate(c) \/ KeysUpdate(c) \/ ProvidersUpdate(c)
             \/ PoolSave(c) \/ ScriptSave(c)
      PROVE  Goal
  <2>1. SaveOpen(c, "edit") \/ SaveOpen(c, "pool") \/ SaveOpen(c, "script")
    BY <1>4 DEF UsersUpdate, GroupsUpdate, KeysUpdate, ProvidersUpdate, PoolSave, ScriptSave
  <2> QED
    BY <1>1, <2>1, SaveOpenKeeps
<1>5. ASSUME UsersGroups(c) \/ UsersPassword(c)
      PROVE  Goal
  <2>1. \/ SaveOpen(c, "groups") \/ SaveOpen(c, "password")
        \/ InView /\ \E r \in shown : OpenOn("groups", r) \/ OpenOn("password", r)
    BY <1>5 DEF UsersGroups, UsersPassword
  <2> QED
    BY <1>1, <2>1, SaveOpenKeeps, OpenKeeps DEF Kind
<1>6. ASSUME GroupsReload(c) \/ KeysReload(c) \/ ProvidersReload(c)
      PROVE  Goal
  BY <1>1, <1>6, ReloadKeeps DEF GroupsReload, KeysReload, ProvidersReload
<1>7. ASSUME SaveCapabilities(c)
      PROVE  Goal
  BY <1>1, <1>7, SaveKeeps DEF SaveCapabilities
<1>8. ASSUME PoolOpens(c) \/ ScriptShows(c)
      PROVE  Goal
  BY <1>1, <1>8, OpensKeeps DEF PoolOpens, ScriptShows, Kind
<1>9. ASSUME AcceptSave(c) \/ AcceptPress(c)
      PROVE  Goal
  BY <1>9, AcceptKeeps DEF Goal
<1>10. ASSUME \E r \in shown : \/ GroupsDelete(c, r) \/ ProvidersDelete(c, r)
                               \/ KeysDelete(c, r) \/ ResetQuota(c, r)
       PROVE  Goal
  <2>1. InView /\ \E r \in shown : Press(c, "remove", r) \/ Press(c, "reset", r)
    BY <1>10 DEF GroupsDelete, ProvidersDelete, KeysDelete, ResetQuota
  <2> QED
    BY <1>1, <2>1, PressKeeps
<1>11. ASSUME \E i \in Item : PoolOpen(c, i) \/ ScriptShow(c, i)
       PROVE  Goal
  <2>1. InView /\ \E i \in Item : (Fetch(c, "pool", i) \/ Fetch(c, "script", i))
                                   /\ editors' = editors
    BY <1>11 DEF PoolOpen, ScriptShow, OpenFetched
  <2> QED
    BY <1>1, <2>1, FetchKeeps DEF Kind
<1>12. ASSUME \E i \in Item : OpenCapabilities(c, i)
       PROVE  Goal
  BY <1>1, <1>12, OpenCapabilitiesKeeps
<1>13. ASSUME \/ CapabilitiesArrive(c) \/ ListArrives(c) \/ NextArrives(c) \/ ServeFetch(c)
              \/ FetchFails(c) \/ Reloaded(c) \/ Saved(c) \/ SaveRefused(c) \/ Fails(c)
       PROVE  Goal
  BY <1>1, <1>13, CapabilitiesKeep, ListKeeps, ServeKeeps, FetchFailsKeeps, ReloadedKeeps,
     SavedKeeps, RefusedKeeps, FailsKeeps
<1>14. ASSUME Created(c)
       PROVE  Goal
  <2>1. InView
    BY <1>14, SomeView DEF Created, Waits
  <2> QED
    BY <1>1, <1>14, <2>1, CreateKeeps
<1>15. Goal
  BY <1>2, <1>3, <1>4, <1>5, <1>6, <1>7, <1>8, <1>9, <1>10, <1>11, <1>12, <1>13, <1>14
     DEF CallStep
<1> QED
  BY <1>15 DEF Goal

(* A session begins or is read again.                                      *)
LEMMA EnterKeeps ==
  ASSUME ConsoleInv, NEW role, Enter(role) \/ RefreshSession(role)
  PROVE  Harmless
<1>1. CASE Enter(role)
  <2>1. PICK v \in MemberTab \cup AdminTab : Show(v)
    BY <1>1 DEF Enter, MemberTab
  <2> QED
    BY <1>1, <2>1, ShowKeeps DEF Enter
<1>2. CASE UNCHANGED <<rows, view, shown, next, editors, calls, usageVars>>
  BY <1>2 DEF ConsoleInv, Harmless, RowsOK, ShownOK, EditorsOK, CallsOK, ViewOK, Mounted
<1>3. CASE Unmount
  BY <1>3, UnmountKeeps
<1> QED
  BY <1>1, <1>2, <1>3 DEF RefreshSession

(* Every step of the console.                                              *)
LEMMA ConsoleStep ==
  ASSUME ConsoleInv, [ConsoleNext]_consoleVars
  PROVE  ConsoleInv' /\ \A c \in Call : NotLost(c)
<1> DEFINE Goal == ConsoleInv' /\ \A d \in Call : NotLost(d)
<1>1. Harmless => Goal
  BY HarmlessKeeps
<1> HIDE DEF Goal
<1>2. ASSUME NEW role \in {"admin", "user"},
             SessionLoads(role) \/ Login(role) \/ RefreshSession(role)
      PROVE  Goal
  BY <1>1, <1>2, EnterKeeps DEF SessionLoads, Login
<1>3. ASSUME NoSession \/ Logout \/ Unauthorized
      PROVE  Goal
  BY <1>1, <1>3, UnmountKeeps DEF NoSession, Logout, Unauthorized, Leave
<1>4. ASSUME NEW v \in MemberTab \cup AdminTab, Navigate(v)
      PROVE  Goal
  <2>1. PICK w \in MemberTab \cup AdminTab : Show(w)
    BY <1>4 DEF Navigate, MemberTab
  <2> QED
    BY <1>1, <1>4, <2>1, ShowKeeps DEF Navigate
<1>5. ASSUME NEW c \in Call, CallStep(c)
      PROVE  Goal
  BY <1>5, CallStepKeeps DEF Goal
<1>6. ASSUME NEW r \in shown, UsersEdit(r) \/ GroupsEdit(r) \/ KeysEdit(r) \/ ProvidersEdit(r)
      PROVE  Goal
  <2>1. InView /\ OpenOn("edit", r)
    BY <1>6 DEF UsersEdit, GroupsEdit, KeysEdit, ProvidersEdit, Administers, InView,
                MemberTab, AdminTab
  <2> QED
    BY <1>1, <2>1, OpenKeeps DEF Kind
<1>7. ASSUME NEW e \in editors, Close(e)
      PROVE  Goal
  BY <1>1, <1>7, CloseKeeps
<1>8. ASSUME NEW i \in Item, SomeoneElse(i)
      PROVE  Goal
  BY <1>8, SomeoneKeeps DEF Goal
<1>9. ASSUME UNCHANGED <<rows, view, shown, editors, calls>>
      PROVE  Goal
  BY <1>1, <1>9 DEF ConsoleInv, Harmless, RowsOK, ShownOK, EditorsOK, CallsOK, ViewOK, Mounted
<1>10. Goal
  BY <1>2, <1>3, <1>4, <1>5, <1>6, <1>7, <1>8, <1>9 DEF ConsoleNext, consoleVars, tab
<1> QED
  BY <1>10 DEF Goal

(* Editors and calls are in one piece from the first view on: whatever is  *)
(* saved was filled with the copy it names, of the row it names            *)
(* (GroupsView.tsx:216 and 262, ErrorRecovery.tsx:35).                     *)
THEOREM ConsoleInvariant == ConsoleSpec => []ConsoleInv
<1>1. ConsoleInit => ConsoleInv
  BY PlainCalls DEF ConsoleInit, ConsoleInv, RowsOK, ShownOK, EditorsOK, CallsOK, ViewOK, Mounted
<1>2. ConsoleInv /\ [ConsoleNext]_consoleVars => ConsoleInv'
  BY ConsoleStep
<1> QED
  BY <1>1, <1>2, PTL DEF ConsoleSpec

(* A write that the server accepts at a revision was made from the present *)
(* content of the row it changes, with any number of calls in flight and   *)
(* any number of changes by others.                                        *)
THEOREM NoUpdateIsLost == ConsoleSpec => NoLostUpdate
<1>1. ConsoleInv /\ [ConsoleNext]_consoleVars =>
        [\A c \in Call : NotLost(c)]_consoleVars
  BY ConsoleStep
<1> QED
  BY <1>1, ConsoleInvariant, PTL DEF ConsoleSpec, NoLostUpdate, NotLost
-----------------------------------------------------------------------------
ReadCall == [op : {"read"}, job : Job, next : Nat, got : Seq(Nat)]

(* A reader has the chunks before the one it asks for, in order.           *)
ReadOK(x) ==
  x.op = "read" =>
    /\ x \in ReadCall
    /\ x.next \in 1..Chunks[x.job]
    /\ x.got = [i \in 1..x.next - 1 |-> i]

ReadsOK == /\ asked = [c \in Call |-> asked[c]]
           /\ \A c \in Call : ReadOK(asked[c])

(* No reader is ever told that its last page leaves the result incomplete. *)
LastPageCompletes ==
  \A c \in Call : asked[c].op = "read" /\ NextIndex(asked[c].job, asked[c].next) = 0 =>
    Complete(asked[c].job, asked[c].got \o ChunksFrom(asked[c].job, asked[c].next))

(* Numbers counted up from 1, taken apart.                                 *)
LEMMA CountingOn ==
  ASSUME NEW k \in Nat, NEW l \in Nat, NEW a \in Seq(Nat), NEW b \in Seq(Nat),
         Len(a) = k, \A i \in 1..k : a[i] = i,
         Len(b) = l, \A i \in 1..l : b[i] = k + i
  PROVE  a \o b = [i \in 1..k + l |-> i]
<1> DEFINE count == [i \in 1..k + l |-> i]
<1>1. count \in Seq(Nat) /\ Len(count) = k + l
  OBVIOUS
<1>2. a \o b \in Seq(Nat) /\ Len(a \o b) = k + l
  BY ConcatProperties
<1>3. ASSUME NEW i \in 1..Len(a \o b)
      PROVE  (a \o b)[i] = count[i]
  <2>1. i \in 1..k + l /\ count[i] = i
    BY <1>2
  <2>2. CASE i <= k
    BY <2>1, <2>2, ConcatProperties
  <2>3. CASE i > k
    <3>1. i - k \in 1..l
      BY <2>1, <2>3
    <3>2. (a \o b)[i] = b[i - k]
      BY <2>1, <2>3, ConcatProperties
    <3>3. b[i - k] = k + (i - k)
      BY <3>1
    <3>4. i \in Int
      BY <2>1
    <3> HIDE <1>1
    <3>5. k + (i - k) = i
      BY <3>4
    <3> QED
      BY <2>1, <3>2, <3>3, <3>5
  <2> QED
    BY <2>1, <2>2, <2>3
<1> HIDE DEF count
<1>4. a \o b = count
  BY <1>1, <1>2, <1>3, SeqEqual
<1> QED
  BY <1>4 DEF count

(* The chunks before a page and those on it are the chunks before the      *)
(* next.                                                                   *)
LEMMA PageAppends ==
  ASSUME NEW j \in Job, NEW n \in 1..Chunks[j], NEW got, got = [i \in 1..n - 1 |-> i]
  PROVE  /\ got \o ChunksFrom(j, n) =
              [i \in 1..(IF NextIndex(j, n) = 0 THEN Chunks[j] ELSE NextIndex(j, n) - 1) |-> i]
         /\ NextIndex(j, n) = 0 \/ NextIndex(j, n) \in 1..Chunks[j]
<1> DEFINE l == Least(PageSize, Chunks[j] - n + 1)
           m == NextIndex(j, n)
           t == IF m = 0 THEN Chunks[j] ELSE m - 1
           page == ChunksFrom(j, n)
<1>1. Chunks[j] \in Nat \ {0} /\ PageSize \in Nat \ {0} /\ n \in Nat \ {0} /\ n <= Chunks[j]
  BY UsageViewAssumption
<1>2. l \in Nat /\ t = (n - 1) + l /\ (m = 0 \/ m \in 1..Chunks[j])
  <2> HIDE DEF m
  <2>1. m = IF n + PageSize <= Chunks[j] THEN n + PageSize ELSE 0
    BY DEF m, NextIndex
  <2>2. l = IF PageSize <= Chunks[j] - n + 1 THEN PageSize ELSE Chunks[j] - n + 1
    BY DEF Least
  <2> HIDE DEF l
  <2>3. CASE n + PageSize <= Chunks[j]
    BY <1>1, <2>1, <2>2, <2>3
  <2>4. CASE ~(n + PageSize <= Chunks[j])
    BY <1>1, <2>1, <2>2, <2>4
  <2> QED
    BY <2>3, <2>4
<1>3. page = [i \in 1..l |-> n + i - 1]
  BY DEF ChunksFrom
<1> HIDE DEF l, m, t, page
<1>4. got \in Seq(Nat) /\ Len(got) = n - 1 /\ \A i \in 1..n - 1 : got[i] = i
  BY <1>1
<1>5. page \in Seq(Nat) /\ Len(page) = l /\ \A i \in 1..l : page[i] = (n - 1) + i
  <2>1. \A i \in 1..l : n + i - 1 \in Nat /\ n + i - 1 = (n - 1) + i
    BY <1>1, <1>2
  <2> QED
    BY <1>2, <1>3, <2>1
<1>6. ASSUME NEW k, k = n - 1
      PROVE  got \o page = [i \in 1..k + l |-> i]
  <2>1. k \in Nat /\ l \in Nat
    BY <1>1, <1>2, <1>6
  <2>2. /\ got \in Seq(Nat) /\ Len(got) = k /\ \A i \in 1..k : got[i] = i
        /\ page \in Seq(Nat) /\ Len(page) = l /\ \A i \in 1..l : page[i] = k + i
    BY <1>4, <1>5, <1>6
  <2> QED
    BY <2>1, <2>2, CountingOn
<1>7. got \o page = [i \in 1..(n - 1) + l |-> i]
  BY <1>6
<1> QED
  BY <1>2, <1>7 DEF m, t, page

(* Other calls than a reader's.                                            *)
LEMMA NoReader ==
  /\ ReadOK(Idle)
  /\ \A w : ReadOK([op |-> "report", window |-> w]) /\ ReadOK([op |-> "more", window |-> w])
  /\ \A j, w : ReadOK([op |-> "detail", job |-> j, then |-> w])
               /\ ReadOK([op |-> "cancel", job |-> j, then |-> w])
BY DEF ReadOK, Idle

(* One call of the page is replaced by another.                            *)
LEMMA AskedPlaced ==
  ASSUME ReadsOK, NEW c \in Call, NEW x, ReadOK(x), asked' = [asked EXCEPT ![c] = x]
  PROVE  ReadsOK'
BY DEF ReadsOK
-----------------------------------------------------------------------------
(* A round of the reader's loop, and what it puts on display.              *)
LEMMA PageStepKeeps ==
  ASSUME ReadsOK, NEW c \in Call, PageArrives(c)
  PROVE  /\ ReadsOK'
         /\ result' # result =>
              result' = [job |-> asked[c].job, chunks |-> [i \in 1..Chunks[asked[c].job] |-> i]]
<1> DEFINE j == asked[c].job
           n == asked[c].next
           got == asked[c].got \o ChunksFrom(j, n)
           m == NextIndex(j, n)
<1>1. asked[c] \in ReadCall /\ ReadOK(asked[c]) /\ asked[c].op = "read"
  BY DEF ReadsOK, ReadOK, PageArrives
<1>2. j \in Job /\ n \in 1..Chunks[j] /\ asked[c].got = [i \in 1..n - 1 |-> i]
  BY <1>1 DEF ReadOK, ReadCall
<1>3. /\ got = [i \in 1..(IF m = 0 THEN Chunks[j] ELSE m - 1) |-> i]
      /\ m = 0 \/ m \in 1..Chunks[j]
  BY <1>2, PageAppends
<1>4. Chunks[j] \in Nat \ {0}
  BY <1>2, UsageViewAssumption
<1>5. CASE m # 0
  <2>1. asked' = [asked EXCEPT ![c] = [asked[c] EXCEPT !.next = m, !.got = got]]
        /\ result' = result
    BY <1>5 DEF PageArrives
  <2> HIDE DEF got, m
  <2>2. m \in 1..Chunks[j] /\ got = [i \in 1..m - 1 |-> i]
    BY <1>3, <1>5
  <2>3. got \in Seq(Nat) /\ m \in Nat
    BY <1>4, <2>2
  <2>4. ReadOK([asked[c] EXCEPT !.next = m, !.got = got])
    BY <1>1, <2>2, <2>3 DEF ReadOK, ReadCall
  <2> QED
    BY <2>1, <2>4, AskedPlaced
<1>6. CASE m = 0
  <2>1. Done(c) /\ (result' # result => result' = [job |-> j, chunks |-> Sorted(got)]
                                        /\ Complete(j, got))
    BY <1>6 DEF PageArrives
  <2>2. ReadsOK'
    BY <2>1, AskedPlaced, NoReader DEF Done
  <2>3. Complete(j, got) => Sorted(got) = [i \in 1..Chunks[j] |-> i]
    BY DEF Complete, Sorted
  <2> QED
    BY <2>1, <2>2, <2>3
<1> QED
  BY <1>5, <1>6

(* The other steps of the page.                                            *)
LEMMA UsageStep ==
  ASSUME ReadsOK, PageOpens \/ PageCloses \/ PageStep \/ UNCHANGED usageVars
  PROVE  /\ ReadsOK'
         /\ result' # result /\ result' # Nothing =>
              \/ result'.chunks = [i \in 1..Chunks[result'.job] |-> i]
              \/ result'.chunks = <<>> /\ jobs[result'.job] # "kept"
<1> DEFINE Shown == result' # result /\ result' # Nothing =>
              \/ result'.chunks = [i \in 1..Chunks[result'.job] |-> i]
              \/ result'.chunks = <<>> /\ jobs[result'.job] # "kept"
<1>1. ASSUME PageOpens \/ PageCloses
      PROVE  ReadsOK' /\ Shown
  <2>1. \A c \in Call : asked'[c] = Idle \/ asked'[c] = [op |-> "report", window |-> 1]
    BY <1>1 DEF PageOpens, PageCloses
  <2>2. asked' = [c \in Call |-> asked'[c]]
    BY <1>1 DEF PageOpens, PageCloses
  <2>3. \A c \in Call : ReadOK(asked'[c])
    BY <2>1, NoReader
  <2> QED
    BY <1>1, <2>2, <2>3 DEF PageOpens, PageCloses, ReadsOK
<1>2. ASSUME UNCHANGED <<asked, result>>
      PROVE  ReadsOK' /\ Shown
  BY <1>2 DEF ReadsOK
<1>3. ASSUME NEW c \in Call, NEW x, ReadOK(x), asked' = [asked EXCEPT ![c] = x],
             result' \in {result, Nothing}
      PROVE  ReadsOK' /\ Shown
  BY <1>3, AskedPlaced
<1>4. ASSUME NEW c \in Call, PageArrives(c)
      PROVE  ReadsOK' /\ Shown
  <2>1. ASSUME result' # result
        PROVE  result'.job = asked[c].job
               /\ result'.chunks = [i \in 1..Chunks[asked[c].job] |-> i]
    <3> DEFINE text == [i \in 1..Chunks[asked[c].job] |-> i]
    <3>1. result' = [job |-> asked[c].job, chunks |-> text]
      BY <1>4, <2>1, PageStepKeeps
    <3> HIDE DEF text
    <3>2. result'.job = asked[c].job /\ result'.chunks = text
      BY <3>1
    <3> QED
      BY <3>2 DEF text
  <2>2. ReadsOK'
    BY <1>4, PageStepKeeps
  <2> QED
    BY <2>1, <2>2
<1>5. ASSUME NEW c \in Call, NoResult(c)
      PROVE  ReadsOK' /\ Shown
  <2>1. ReadsOK'
    BY <1>5, AskedPlaced, NoReader DEF NoResult, Done
  <2> QED
    BY <1>5, <2>1 DEF NoResult
<1>6. ASSUME NEW c \in Call, ViewResult(c)
      PROVE  ReadsOK' /\ Shown
  <2> DEFINE x == [op |-> "read", job |-> drawer.job, next |-> 1, got |-> <<>>]
  <2>1. drawer.job \in Job /\ asked' = [asked EXCEPT ![c] = x] /\ result' = Nothing
    BY <1>6 DEF ViewResult, Ask
  <2>2. Chunks[drawer.job] \in Nat \ {0}
    BY <2>1, UsageViewAssumption
  <2>3. <<>> \in Seq(Nat) /\ <<>> = [i \in 1..1 - 1 |-> i]
    OBVIOUS
  <2>4. ReadOK(x)
    BY <2>1, <2>2, <2>3 DEF ReadOK, ReadCall
  <2> HIDE DEF x
  <2> QED
    BY <1>3, <2>1, <2>4
<1> HIDE DEF Shown
<1>7. ASSUME NEW c \in Call,
             \/ Refresh(c) \/ LoadMore(c) \/ ReportFails(c) \/ MoreFails(c)
             \/ \E more \in BOOLEAN : ReportArrives(c, more) \/ MoreArrives(c, more)
             \/ CancelFails(c) \/ ReadFails(c)
      PROVE  ReadsOK' /\ Shown
  <2>1. result' = result /\ (Done(c) \/ \E w : \/ Ask(c, [op |-> "report", window |-> w])
                                               \/ Ask(c, [op |-> "more", window |-> w]))
    BY <1>7 DEF Refresh, LoadMore, ReportFails, MoreFails, ReportArrives, MoreArrives,
                CancelFails, ReadFails
  <2> QED
    BY <1>3, <2>1, NoReader DEF Done, Ask
<1>8. ASSUME NEW c \in Call,
             \/ \E j \in Job : OpenJob(c, j)
             \/ \E found \in BOOLEAN : DetailEnds(c, found)
             \/ CancelJob(c) \/ CancelArrives(c)
      PROVE  ReadsOK' /\ Shown
  <2>1. PICK x : asked' = [asked EXCEPT ![c] = x] /\ result' = result /\
                 ( \/ x = Idle
                   \/ \E w : x = [op |-> "report", window |-> w]
                   \/ \E j, w : \/ x = [op |-> "detail", job |-> j, then |-> w]
                                \/ x = [op |-> "cancel", job |-> j, then |-> w] )
    <3>1. CASE \E j \in Job : OpenJob(c, j)
      <4>1. PICK j \in Job : OpenJob(c, j)
        BY <3>1
      <4>2. asked' = [asked EXCEPT ![c] = [op |-> "detail", job |-> j, then |-> 0]]
            /\ result' = result
        BY <4>1 DEF OpenJob, Ask
      <4> QED
        BY <4>2
    <3>2. CASE \E found \in BOOLEAN : DetailEnds(c, found)
      BY <3>2 DEF DetailEnds, Done
    <3>3. CASE CancelJob(c)
      BY <3>3 DEF CancelJob, Ask
    <3>4. CASE CancelArrives(c)
      BY <3>4 DEF CancelArrives
    <3> QED
      BY <1>8, <3>1, <3>2, <3>3, <3>4
  <2>2. ReadOK(x)
    BY <2>1, NoReader
  <2> QED
    BY <1>3, <2>1, <2>2
<1>9. ASSUME CloseJob \/ \E j \in Job : ResultAppears(j) \/ ResultExpires(j)
      PROVE  ReadsOK' /\ Shown
  <2>1. UNCHANGED <<asked, result>>
    BY <1>9 DEF CloseJob, ResultAppears, ResultExpires, pageVars
  <2> QED
    BY <1>2, <2>1
<1>10. ReadsOK' /\ Shown
  BY <1>1, <1>2, <1>4, <1>5, <1>6, <1>7, <1>8, <1>9 DEF PageStep, usageVars, pageVars
<1> QED
  BY <1>10 DEF Shown

(* The console mounts and leaves the page, and lets it take its steps.     *)
LEMMA ConsoleUsage ==
  ASSUME [ConsoleNext]_consoleVars
  PROVE  PageOpens \/ PageCloses \/ PageStep \/ UNCHANGED usageVars
<1>1. \A v : Show(v) => PageOpens \/ PageCloses
  BY DEF Show
<1>2. ASSUME NEW role, SessionLoads(role) \/ Login(role) \/ RefreshSession(role)
      PROVE  PageOpens \/ PageCloses \/ UNCHANGED usageVars
  <2>1. \/ \E v : Show(v)
        \/ Unmount \/ UNCHANGED usageVars
    BY <1>2 DEF SessionLoads, Login, RefreshSession, Enter
  <2> QED
    BY <1>1, <2>1 DEF Unmount
<1>3. ASSUME NoSession \/ Logout \/ Unauthorized
      PROVE  PageCloses
  BY <1>3 DEF NoSession, Logout, Unauthorized, Leave, Unmount
<1>4. ASSUME NEW v, Navigate(v)
      PROVE  PageOpens \/ PageCloses
  BY <1>1, <1>4 DEF Navigate
<1>5. ASSUME NEW c \in Call, CallStep(c)
      PROVE  UNCHANGED usageVars
  <2>1. UNCHANGED tab => UNCHANGED usageVars
    BY DEF tab
  <2>2. \A kind : SaveOpen(c, kind) => UNCHANGED tab
    BY DEF SaveOpen, Save
  <2>3. CASE \/ UsersLoad(c) \/ UsersMore(c) \/ UsersCreate(c) \/ UsersUpdate(c)
             \/ UsersGroups(c) \/ UsersPassword(c)
             \/ GroupsLoad(c) \/ GroupsMore(c) \/ GroupsCreate(c) \/ GroupsReload(c)
             \/ GroupsUpdate(c) \/ SaveCapabilities(c) \/ CapabilitiesArrive(c)
    BY <2>1, <2>2, <2>3
       DEF UsersLoad, UsersMore, UsersCreate, UsersUpdate, UsersGroups, UsersPassword,
           GroupsLoad, GroupsMore, GroupsCreate, GroupsReload, GroupsUpdate,
           SaveCapabilities, CapabilitiesArrive, Load, LoadNext, Create, OpenOn, Reload,
           Fetch, Save
  <2>4. CASE \/ KeysLoad(c) \/ KeysMore(c) \/ KeysCreate(c) \/ KeysReload(c) \/ KeysUpdate(c)
             \/ ProvidersLoad(c) \/ ProvidersMore(c) \/ ProvidersCreate(c) \/ LanesWrite(c)
             \/ ProvidersReload(c) \/ ProvidersUpdate(c)
             \/ PoolOpens(c) \/ PoolSave(c) \/ ScriptShows(c) \/ ScriptSave(c)
             \/ AuditLoad(c) \/ AuditMore(c)
    BY <2>1, <2>2, <2>4
       DEF KeysLoad, KeysMore, KeysCreate, KeysReload, KeysUpdate, ProvidersLoad,
           ProvidersMore, ProvidersCreate, LanesWrite, ProvidersReload, ProvidersUpdate,
           PoolOpens, PoolSave, ScriptShows, ScriptSave, AuditLoad, AuditMore, Load, LoadNext,
           Create, Reload, Fetch, Opens
  <2>5. CASE \/ ListArrives(c) \/ NextArrives(c) \/ ServeFetch(c) \/ FetchFails(c)
             \/ Reloaded(c) \/ Saved(c) \/ SaveRefused(c) \/ Created(c) \/ Fails(c)
             \/ AcceptSave(c) \/ AcceptPress(c)
    BY <2>1, <2>5 DEF ListArrives, NextArrives, ServeFetch, FetchFails, Reloaded, Saved,
                      SaveRefused, Created, Fails, AcceptSave, AcceptPress
  <2>6. CASE \/ \E r \in shown : \/ GroupsDelete(c, r) \/ ProvidersDelete(c, r)
                                 \/ KeysDelete(c, r) \/ ResetQuota(c, r)
             \/ \E i \in Item : OpenCapabilities(c, i) \/ PoolOpen(c, i) \/ ScriptShow(c, i)
    BY <2>1, <2>6 DEF GroupsDelete, ProvidersDelete, KeysDelete, ResetQuota, Press,
                      OpenCapabilities, PoolOpen, ScriptShow, OpenFetched, Fetch
  <2> QED
    BY <1>5, <2>3, <2>4, <2>5, <2>6 DEF CallStep
<1>6. ASSUME \/ \E r \in shown : UsersEdit(r) \/ GroupsEdit(r) \/ KeysEdit(r) \/ ProvidersEdit(r)
             \/ \E e \in editors : Close(e)
             \/ \E i \in Item : SomeoneElse(i)
      PROVE  UNCHANGED usageVars
  BY <1>6 DEF UsersEdit, GroupsEdit, KeysEdit, ProvidersEdit, OpenOn, Close, SomeoneElse, tab
<1>7. UNCHANGED consoleVars => UNCHANGED usageVars
  BY DEF consoleVars, tab
<1> QED
  BY <1>2, <1>3, <1>4, <1>5, <1>6, <1>7 DEF ConsoleNext

(* A reader always has the chunks before the one it asks for, whatever     *)
(* else the page does; so the checks after its last page never refuse what *)
(* it read (job-reader.ts:91-133).                                         *)
THEOREM ReaderInvariant == ConsoleSpec => [](ReadsOK /\ LastPageCompletes)
<1>1. ConsoleInit => ReadsOK
  BY NoReader DEF ConsoleInit, PageInit, ReadsOK
<1>2. ReadsOK /\ [ConsoleNext]_consoleVars => ReadsOK'
  BY ConsoleUsage, UsageStep
<1>3. ReadsOK => LastPageCompletes
  <2> SUFFICES ASSUME ReadsOK, NEW c \in Call, asked[c].op = "read",
                      NextIndex(asked[c].job, asked[c].next) = 0
               PROVE  Complete(asked[c].job,
                               asked[c].got \o ChunksFrom(asked[c].job, asked[c].next))
    BY DEF LastPageCompletes
  <2> DEFINE j == asked[c].job
             all == asked[c].got \o ChunksFrom(j, asked[c].next)
  <2>1. j \in Job /\ asked[c].next \in 1..Chunks[j]
        /\ asked[c].got = [i \in 1..asked[c].next - 1 |-> i]
    BY DEF ReadsOK, ReadOK, ReadCall
  <2>2. all = [i \in 1..Chunks[j] |-> i]
    BY <2>1, PageAppends
  <2>3. Chunks[j] \in Nat
    BY <2>1, UsageViewAssumption
  <2> HIDE DEF all
  <2>4. Len(all) = Chunks[j] /\ DOMAIN all = 1..Chunks[j]
    BY <2>2, <2>3
  <2>5. {all[i] : i \in DOMAIN all} = 1..Chunks[j]
    BY <2>2, <2>4
  <2>6. Complete(j, all)
    BY <2>4, <2>5 DEF Complete
  <2> QED
    BY <2>6 DEF all
<1> QED
  BY <1>1, <1>2, <1>3, PTL DEF ConsoleSpec

(* What comes on display is the whole result, in order and nothing twice,  *)
(* for results and pages of any size; it is empty only where there is no   *)
(* result.                                                                 *)
THEOREM ResultsAreWhole == ConsoleSpec => ReadIsTheArtifact
<1>1. ReadsOK /\ [ConsoleNext]_consoleVars =>
        [result' # result /\ result' # Nothing =>
           \/ result'.chunks = [i \in 1..Chunks[result'.job] |-> i]
           \/ result'.chunks = <<>> /\ jobs[result'.job] # "kept"]_usageVars
  BY ConsoleUsage, UsageStep
<1> QED
  BY <1>1, ReaderInvariant, PTL DEF ConsoleSpec, ReadIsTheArtifact
-----------------------------------------------------------------------------
(* The report.  A call of the page is for a window that has been frozen.   *)
InWindow(x, last) ==
  /\ x.op \in {"report", "more"} => x.window \in 1..last
  /\ x.op \in {"detail", "cancel"} => x.then \in 0..last

(* The cursor is that of a window which is listed.                         *)
WindowsOK ==
  /\ frozen \in Nat
  /\ \A c \in Call : InWindow(asked[c], frozen)
  /\ cursor # 0 => cursor \in report

(* The answer to a call for a window that is not the last one.             *)
LateAnswer(c) ==
  /\ asked[c].op \in {"report", "more"}
  /\ asked[c].window < frozen
  /\ asked'[c] = Idle

(* An answer that was asked for a window other than the last one is late.  *)
LEMMA OtherIsLate ==
  ASSUME ReadsOK, WindowsOK, NEW c \in Call, asked[c].op \in {"report", "more"},
         asked[c].window # frozen, Done(c)
  PROVE  LateAnswer(c)
<1>1. asked[c].window \in 1..frozen /\ frozen \in Nat
  BY DEF WindowsOK, InWindow
<1>2. asked'[c] = Idle
  BY DEF ReadsOK, Done
<1> QED
  BY <1>1, <1>2 DEF LateAnswer

(* One call of the page is replaced by another.                            *)
LEMMA WindowPlaced ==
  ASSUME ReadsOK, WindowsOK, NEW c \in Call, NEW x, asked' = [asked EXCEPT ![c] = x],
         frozen' \in {frozen, frozen + 1}, InWindow(x, frozen'), cursor' # 0 => cursor' \in report'
  PROVE  WindowsOK'
<1>1. frozen \in Nat /\ frozen' \in Nat /\ frozen <= frozen'
  BY DEF WindowsOK
<1>2. \A d \in Call : asked'[d] = IF d = c THEN x ELSE asked[d]
  BY DEF ReadsOK
<1>3. \A d \in Call : InWindow(asked[d], frozen)
  BY DEF WindowsOK
<1>4. \A d \in Call : InWindow(asked[d], frozen')
  BY <1>1, <1>3 DEF InWindow
<1>5. \A d \in Call : InWindow(asked'[d], frozen')
  BY <1>2, <1>4
<1> QED
  BY <1>1, <1>5 DEF WindowsOK

(* A step keeps the windows apart, and the rule of NoCursorAfterFailure is *)
(* broken only by a late answer.                                           *)
LEMMA WindowStep ==
  ASSUME ReadsOK, WindowsOK, [UsageNext]_usageVars
  PROVE  /\ WindowsOK'
         /\ NoCursorAfterFailure /\ ~NoCursorAfterFailure' => \E c \in Call : LateAnswer(c)
<1> DEFINE Goal == /\ WindowsOK'
                   /\ NoCursorAfterFailure /\ ~NoCursorAfterFailure' => \E c \in Call : LateAnswer(c)
<1>1. frozen \in Nat /\ (cursor # 0 => cursor \in report)
  BY DEF WindowsOK
<1>2. \A last : InWindow(Idle, last)
  BY DEF InWindow, Idle
<1>3. CASE PageOpens
  <2>1. frozen' = 1 /\ cursor' = 0
    BY <1>3 DEF PageOpens
  <2>2. \A c \in Call : asked'[c] = Idle \/ asked'[c] = [op |-> "report", window |-> 1]
    BY <1>3 DEF PageOpens
  <2>3. InWindow([op |-> "report", window |-> 1], 1)
    BY DEF InWindow
  <2>4. \A c \in Call : InWindow(asked'[c], frozen')
    BY <1>2, <2>1, <2>2, <2>3
  <2> QED
    BY <2>1, <2>4 DEF WindowsOK, NoCursorAfterFailure
<1>4. ASSUME NEW c \in Call, Refresh(c)
      PROVE  Goal
  <2>1. /\ frozen' = frozen + 1 /\ cursor' = 0
        /\ asked' = [asked EXCEPT ![c] = [op |-> "report", window |-> frozen + 1]]
    BY <1>4 DEF Refresh, Ask
  <2>2. InWindow([op |-> "report", window |-> frozen + 1], frozen + 1)
    BY <1>1 DEF InWindow
  <2> QED
    BY <2>1, <2>2, WindowPlaced DEF NoCursorAfterFailure
<1>5. ASSUME NEW c \in Call, NEW more \in BOOLEAN, ReportArrives(c, more) \/ MoreArrives(c, more)
      PROVE  Goal
  <2> DEFINE w == asked[c].window
  <2>1. /\ asked[c].op \in {"report", "more"} /\ Done(c) /\ frozen' = frozen
        /\ w \in report' /\ cursor' \in {w, 0}
    BY <1>5 DEF ReportArrives, MoreArrives
  <2>2. WindowsOK'
    BY <1>2, <2>1, WindowPlaced DEF Done
  <2>3. CASE w = frozen
    BY <2>1, <2>2, <2>3 DEF NoCursorAfterFailure
  <2>4. CASE w # frozen
    BY <2>1, <2>2, <2>4, OtherIsLate
  <2> QED
    BY <2>3, <2>4
<1>6. ASSUME NEW c \in Call, ReportFails(c)
      PROVE  Goal
  <2>1. Done(c) /\ cursor' = 0 /\ frozen' = frozen
    BY <1>6 DEF ReportFails
  <2> QED
    BY <1>2, <2>1, WindowPlaced DEF Done, NoCursorAfterFailure
<1>7. ASSUME NEW c \in Call, NEW x, asked' = [asked EXCEPT ![c] = x],
             UNCHANGED <<frozen, report, cursor>>, UNCHANGED loading \/ loading',
             InWindow(x, frozen)
      PROVE  Goal
  <2>1. WindowsOK'
    BY <1>1, <1>7, WindowPlaced
  <2> QED
    BY <1>7, <2>1 DEF NoCursorAfterFailure
<1>8. ASSUME UNCHANGED <<frozen, report, cursor, loading, asked>>
      PROVE  Goal
  BY <1>8 DEF WindowsOK, NoCursorAfterFailure
<1> HIDE DEF Goal
<1>9. ASSUME NEW c \in Call,
             MoreFails(c) \/ CancelFails(c) \/ NoResult(c) \/ ReadFails(c)
      PROVE  Goal
  <2>1. Done(c) /\ UNCHANGED <<frozen, report, cursor, loading>>
    BY <1>9 DEF MoreFails, CancelFails, NoResult, ReadFails
  <2> QED
    BY <1>2, <1>7, <2>1 DEF Done
<1>10. ASSUME NEW c \in Call, LoadMore(c)
       PROVE  Goal
  <2>1. /\ frozen # 0 /\ asked' = [asked EXCEPT ![c] = [op |-> "more", window |-> frozen]]
        /\ UNCHANGED <<frozen, report, cursor, loading>>
    BY <1>10 DEF LoadMore, Ask
  <2>2. InWindow([op |-> "more", window |-> frozen], frozen)
    BY <1>1, <2>1 DEF InWindow
  <2> QED
    BY <1>7, <2>1, <2>2
<1>11. ASSUME NEW c \in Call, NEW j \in Job, OpenJob(c, j)
       PROVE  Goal
  <2>1. /\ asked' = [asked EXCEPT ![c] = [op |-> "detail", job |-> j, then |-> 0]]
        /\ UNCHANGED <<frozen, report, cursor, loading>>
    BY <1>11 DEF OpenJob, Ask
  <2>2. InWindow([op |-> "detail", job |-> j, then |-> 0], frozen)
    BY <1>1 DEF InWindow
  <2> QED
    BY <1>7, <2>1, <2>2
<1>12. ASSUME NEW c \in Call, CancelJob(c)
       PROVE  Goal
  <2>1. /\ asked' = [asked EXCEPT ![c] = [op |-> "cancel", job |-> drawer.job, then |-> frozen]]
        /\ UNCHANGED <<frozen, report, cursor, loading>>
    BY <1>12 DEF CancelJob, Ask
  <2>2. InWindow([op |-> "cancel", job |-> drawer.job, then |-> frozen], frozen)
    BY <1>1 DEF InWindow
  <2> QED
    BY <1>7, <2>1, <2>2
<1>13. ASSUME NEW c \in Call, CancelArrives(c)
       PROVE  Goal
  <2> DEFINE x == [op |-> "detail", job |-> asked[c].job, then |-> asked[c].then]
  <2>1. /\ asked[c].op = "cancel" /\ asked' = [asked EXCEPT ![c] = x]
        /\ UNCHANGED <<frozen, report, cursor, loading>>
    BY <1>13 DEF CancelArrives
  <2>2. InWindow(x, frozen)
    BY <2>1 DEF WindowsOK, InWindow
  <2> QED
    BY <1>7, <2>1, <2>2
<1>14. ASSUME NEW c \in Call, NEW found \in BOOLEAN, DetailEnds(c, found)
       PROVE  Goal
  <2>1. UNCHANGED <<frozen, report, cursor>> /\ asked[c].op = "detail"
    BY <1>14 DEF DetailEnds
  <2>2. CASE asked[c].then = 0
    BY <1>2, <1>7, <1>14, <2>1, <2>2 DEF DetailEnds, Done
  <2>3. CASE asked[c].then # 0
    <3>1. /\ asked' = [asked EXCEPT ![c] = [op |-> "report", window |-> asked[c].then]]
          /\ loading' = TRUE
      BY <1>14, <2>3 DEF DetailEnds
    <3>2. InWindow([op |-> "report", window |-> asked[c].then], frozen)
      BY <1>1, <2>1, <2>3 DEF WindowsOK, InWindow
    <3> QED
      BY <1>7, <2>1, <3>1, <3>2
  <2> QED
    BY <2>2, <2>3
<1>15. ASSUME NEW c \in Call, ViewResult(c)
       PROVE  Goal
  <2> DEFINE x == [op |-> "read", job |-> drawer.job, next |-> 1, got |-> <<>>]
  <2>1. asked' = [asked EXCEPT ![c] = x] /\ UNCHANGED <<frozen, report, cursor, loading>>
    BY <1>15 DEF ViewResult, Ask
  <2>2. InWindow(x, frozen)
    BY DEF InWindow
  <2> QED
    BY <1>7, <2>1, <2>2
<1>16. ASSUME NEW c \in Call, PageArrives(c)
       PROVE  Goal
  <2>1. UNCHANGED <<frozen, report, cursor, loading>> /\ asked[c].op = "read"
    BY <1>16 DEF PageArrives
  <2>2. asked[c] \in ReadCall
    BY <2>1 DEF ReadsOK, ReadOK
  <2>3. CASE Done(c)
    BY <1>2, <1>7, <2>1, <2>3 DEF Done
  <2>4. ASSUME NEW m, NEW got, asked' = [asked EXCEPT ![c].next = m, ![c].got = got]
        PROVE  Goal
    <3>1. asked' = [asked EXCEPT ![c] = [asked[c] EXCEPT !.next = m, !.got = got]]
      BY <2>4
    <3>2. [asked[c] EXCEPT !.next = m, !.got = got].op = "read"
      BY <2>1, <2>2 DEF ReadCall
    <3>3. InWindow([asked[c] EXCEPT !.next = m, !.got = got], frozen)
      BY <3>2 DEF InWindow
    <3> QED
      BY <1>7, <2>1, <3>1, <3>3
  <2>5. Done(c) \/ \E m, got : asked' = [asked EXCEPT ![c].next = m, ![c].got = got]
    BY <1>16 DEF PageArrives
  <2> QED
    BY <2>3, <2>4, <2>5
<1>17. ASSUME \/ CloseJob
              \/ \E j \in Job : ResultAppears(j) \/ ResultExpires(j)
              \/ UNCHANGED usageVars
       PROVE  Goal
  <2>1. UNCHANGED <<frozen, report, cursor, loading, asked>>
    BY <1>17 DEF CloseJob, ResultAppears, ResultExpires, pageVars, usageVars
  <2> QED
    BY <1>8, <2>1
<1>18. Goal
  <2>1. PageOpens => Goal
    BY <1>3 DEF Goal
  <2> QED
    BY <2>1, <1>4, <1>5, <1>6, <1>9, <1>10, <1>11, <1>12, <1>13, <1>14, <1>15, <1>16, <1>17
       DEF UsageNext, PageStep
<1> QED
  BY <1>18 DEF Goal

(* The one way in which the page comes to offer the cursor of an earlier   *)
(* window after a failed refresh: an answer to a call that was made before *)
(* the refresh arrives after the failure.  If every answer were dropped    *)
(* that is not for the frozen window (UsageView.tsx:127), what the test    *)
(* says (harness.spec.ts:260, 275) would hold.                             *)
THEOREM OnlyLateAnswersBringCursors ==
  UsageSpec => /\ []WindowsOK
               /\ [][NoCursorAfterFailure /\ ~NoCursorAfterFailure' =>
                       \E c \in Call : LateAnswer(c)]_usageVars
<1>1. PageInit => ReadsOK /\ WindowsOK
  <2>1. InWindow(Idle, 0) /\ ReadOK(Idle)
    BY NoReader DEF InWindow, Idle
  <2> QED
    BY <2>1 DEF PageInit, ReadsOK, WindowsOK
<1>2. ReadsOK /\ WindowsOK /\ [UsageNext]_usageVars => ReadsOK' /\ WindowsOK'
  BY UsageStep, WindowStep DEF UsageNext
<1>3. ReadsOK /\ WindowsOK /\ [UsageNext]_usageVars =>
        [NoCursorAfterFailure /\ ~NoCursorAfterFailure' =>
           \E c \in Call : LateAnswer(c)]_usageVars
  BY WindowStep
<1> QED
  BY <1>1, <1>2, <1>3, PTL DEF UsageSpec
=============================================================================
