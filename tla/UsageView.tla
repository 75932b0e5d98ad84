----------------------------- MODULE UsageView ------------------------------
(***************************************************************************)
(* The usage page of the console: a report of jobs, read page by page over *)
(* a window of time that a refresh moves; the drawer of one job; and the   *)
(* reader that puts the result of a job together from pages of chunks.     *)
(*                                                                         *)
(* The page asks the server with calls that are answered in any order.     *)
(* What the server does in a call and what the page does with the answer   *)
(* are one step here: a report carries nothing that a delay makes wrong,   *)
(* and the reader looks at its own pages only.                             *)
(*                                                                         *)
(* Windows are numbered in the order they are frozen; chunks are numbered  *)
(* from 1 (the code numbers them from 0); every chunk has the same length. *)
(***************************************************************************)
EXTENDS Integers, Sequences, FiniteSets

CONSTANTS
  Job,
  Chunks,      \* number of chunks of each job's result
  PageSize,    \* chunks the server sends at most in one page
  Call,        \* calls in flight at the same time
  LastWindow,  \* bound: windows frozen by refreshing
  Nothing      \* where the page has no report, no job, no text

ASSUME UsageViewAssumption ==
  /\ Chunks \in [Job -> Nat \ {0}]
  /\ PageSize \in Nat \ {0}
  /\ LastWindow \in Nat \ {0}

VARIABLES
  jobs,     \* the server's jobs, as far as their results go
  frozen,   \* frozenWindow, 0 when the page has none yet
  report,   \* the windows whose jobs are listed, or Nothing
  cursor,   \* the window nextCursor continues, 0 for no cursor
  loading,  \* the flag of the refresh button
  drawer,   \* the job drawer: open, the job it shows, and whether it shows
            \* it as one that is not over
  result,   \* the text on display: a job and its chunks, or Nothing
  asked     \* the page's calls in flight

pageVars  == <<frozen, report, cursor, loading, drawer, result, asked>>
usageVars == <<jobs, pageVars>>

Idle    == [op |-> "idle"]
Window  == 1..LastWindow

ClosedDrawer == [open |-> FALSE, job |-> Nothing, active |-> FALSE]

PageInit ==
  /\ jobs = [j \in Job |-> "unseen"]
  /\ frozen = 0 /\ report = Nothing /\ cursor = 0 /\ loading = FALSE
  /\ drawer = ClosedDrawer /\ result = Nothing
  /\ asked = [c \in Call |-> Idle]

JobState == {"running", "kept", "empty"}

(* The page is mounted anew: a window is frozen and its report asked for,  *)
(* over jobs that did what they did while nobody looked.                   *)
PageOpens ==
  /\ jobs' \in [Job -> JobState]
  /\ frozen' = 1 /\ report' = Nothing /\ cursor' = 0 /\ loading' = TRUE
  /\ drawer' = ClosedDrawer /\ result' = Nothing
  /\ \E c \in Call : asked' = [d \in Call |->
       IF d = c THEN [op |-> "report", window |-> 1] ELSE Idle]

(* The page is not mounted; nobody waits for what it had asked.            *)
PageCloses ==
  /\ jobs' = [j \in Job |-> "unseen"]
  /\ frozen' = 0 /\ report' = Nothing /\ cursor' = 0 /\ loading' = FALSE
  /\ drawer' = ClosedDrawer /\ result' = Nothing
  /\ asked' = [c \in Call |-> Idle]

Ask(c, call) == asked[c] = Idle /\ asked' = [asked EXCEPT ![c] = call]
Done(c)      == asked' = [asked EXCEPT ![c] = Idle]
InFlight(op) == \E c \in Call : asked[c].op = op
-----------------------------------------------------------------------------
(* loadData up to its first await, when a new window is frozen.            *)
Refresh(c) ==
  /\ ~loading
  /\ frozen < LastWindow
  /\ frozen' = frozen + 1 /\ cursor' = 0 /\ loading' = TRUE
  /\ Ask(c, [op |-> "report", window |-> frozen + 1])
  /\ UNCHANGED <<jobs, report, drawer, result>>

(* loadData when its two calls are settled.  A report that failed leaves   *)
(* no report and no cursor behind.                                         *)
ReportArrives(c, more) ==
  /\ asked[c].op = "report"
  /\ report' = {asked[c].window}
  /\ cursor' = IF more THEN asked[c].window ELSE 0
  /\ loading' = FALSE
  /\ Done(c)
  /\ UNCHANGED <<jobs, frozen, drawer, result>>

ReportFails(c) ==
  /\ asked[c].op = "report"
  /\ report' = Nothing /\ cursor' = 0 /\ loading' = FALSE
  /\ Done(c)
  /\ UNCHANGED <<jobs, frozen, drawer, result>>

(* handleLoadMoreUsage: asked for the frozen window with the cursor, and   *)
(* appended to the report there is when the answer comes.                  *)
LoadMore(c) ==
  /\ cursor # 0 /\ frozen # 0
  /\ ~InFlight("more")
  /\ Ask(c, [op |-> "more", window |-> frozen])
  /\ UNCHANGED <<jobs, frozen, report, cursor, loading, drawer, result>>

MoreArrives(c, more) ==
  /\ asked[c].op = "more"
  /\ report' = IF report = Nothing THEN {asked[c].window}
                                   ELSE report \cup {asked[c].window}
  /\ cursor' = IF more THEN asked[c].window ELSE 0
  /\ Done(c)
  /\ UNCHANGED <<jobs, frozen, loading, drawer, result>>

MoreFails(c) ==
  /\ asked[c].op = "more"
  /\ Done(c)
  /\ UNCHANGED <<jobs, frozen, report, cursor, loading, drawer, result>>
-----------------------------------------------------------------------------
(* openJobDetail, for a job of the list.  "then" is the window that        *)
(* handleCancelJob loads afterwards, 0 for none.                           *)
OpenJob(c, j) ==
  /\ report # Nothing /\ ~drawer.open
  /\ drawer' = [drawer EXCEPT !.open = TRUE]
  /\ Ask(c, [op |-> "detail", job |-> j, then |-> 0])
  /\ UNCHANGED <<jobs, frozen, report, cursor, loading, result>>

CloseJob ==
  /\ drawer.open
  /\ drawer' = [drawer EXCEPT !.open = FALSE]
  /\ UNCHANGED <<jobs, frozen, report, cursor, loading, result, asked>>

(* The end of openJobDetail, in which it caught its own failure; after a   *)
(* cancel it is followed by loadData(false), which loads the window that   *)
(* was frozen when the user confirmed.                                     *)
DetailEnds(c, found) ==
  /\ asked[c].op = "detail"
  /\ drawer' = IF found
               THEN [drawer EXCEPT !.job = asked[c].job,
                                   !.active = jobs[asked[c].job] = "running"]
               ELSE [drawer EXCEPT !.open = FALSE]
  /\ IF asked[c].then = 0
     THEN Done(c) /\ UNCHANGED loading
     ELSE /\ asked' = [asked EXCEPT ![c] = [op |-> "report", window |-> asked[c].then]]
          /\ loading' = TRUE
  /\ UNCHANGED <<jobs, frozen, report, cursor, result>>

(* handleCancelJob.                                                        *)
CancelJob(c) ==
  /\ drawer.open /\ drawer.active
  /\ ~InFlight("cancel")
  /\ Ask(c, [op |-> "cancel", job |-> drawer.job, then |-> frozen])
  /\ UNCHANGED <<jobs, frozen, report, cursor, loading, drawer, result>>

(* What a cancel may do to a job: end it, or nothing that shows yet.       *)
Cancelled(j) == {jobs, [jobs EXCEPT ![j] = IF @ = "running" THEN "empty" ELSE @]}

(* The cancel is recorded and answered, and the job is looked at again.    *)
CancelArrives(c) ==
  /\ asked[c].op = "cancel"
  /\ jobs' \in Cancelled(asked[c].job)
  /\ asked' = [asked EXCEPT ![c] =
       [op |-> "detail", job |-> asked[c].job, then |-> asked[c].then]]
  /\ drawer' = [drawer EXCEPT !.open = TRUE]
  /\ UNCHANGED <<frozen, report, cursor, loading, result>>

(* The cancel is refused, or its answer is lost; it may have been done.    *)
CancelFails(c) ==
  /\ asked[c].op = "cancel"
  /\ jobs' \in Cancelled(asked[c].job)
  /\ Done(c)
  /\ UNCHANGED <<frozen, report, cursor, loading, drawer, result>>
-----------------------------------------------------------------------------
(* The result of a job comes with its success.                             *)
ResultAppears(j) ==
  /\ jobs[j] = "running"
  /\ jobs' = [jobs EXCEPT ![j] = "kept"]
  /\ UNCHANGED pageVars

(* A job that ends without a result, or whose result has been purged.      *)
ResultExpires(j) ==
  /\ jobs[j] \in {"running", "kept"}
  /\ jobs' = [jobs EXCEPT ![j] = "empty"]
  /\ UNCHANGED pageVars

(* handleViewResult, for the job in the drawer.                            *)
ViewResult(c) ==
  /\ drawer.open /\ drawer.job \in Job
  /\ result' = Nothing
  /\ Ask(c, [op |-> "read", job |-> drawer.job, next |-> 1, got |-> <<>>])
  /\ UNCHANGED <<jobs, frozen, report, cursor, loading, drawer>>

Least(a, b) == IF a <= b THEN a ELSE b

(* store.read: the chunks from the cursor on, at most a page of them; more *)
(* follow when it found one beyond the page.                               *)
ChunksFrom(j, next) ==
  [i \in 1..Least(PageSize, Chunks[j] - next + 1) |-> next + i - 1]

NextIndex(j, next) ==
  IF next + PageSize <= Chunks[j] THEN next + PageSize ELSE 0

(* The checks after the last page: sorted by index the chunks are          *)
(* consecutive from the first, and together as long as the first page      *)
(* declared.                                                               *)
Complete(j, got) ==
  /\ {got[i] : i \in DOMAIN got} = 1..Len(got)
  /\ Len(got) = Chunks[j]

(* What the reader shows of a set of chunks that is complete.              *)
Sorted(got) == [i \in 1..Len(got) |-> i]

(* One round of the reader's loop: a page arrives, and the next is asked   *)
(* for, or the text is put together; an incomplete one is an error.        *)
PageArrives(c) ==
  /\ asked[c].op = "read"
  /\ jobs[asked[c].job] = "kept"
  /\ LET j    == asked[c].job
         got  == asked[c].got \o ChunksFrom(j, asked[c].next)
         next == NextIndex(j, asked[c].next)
     IN IF next # 0
        THEN /\ asked' = [asked EXCEPT ![c].next = next, ![c].got = got]
             /\ UNCHANGED result
        ELSE /\ Done(c)
             /\ IF Complete(j, got)
                THEN result' = [job |-> j, chunks |-> Sorted(got)]
                ELSE UNCHANGED result
  /\ UNCHANGED <<jobs, frozen, report, cursor, loading, drawer>>

(* There is no result: the first page says so and the text is empty; with  *)
(* a cursor the server answers INVALID_REQUEST (ReadFails).                *)
NoResult(c) ==
  /\ asked[c].op = "read"
  /\ asked[c].next = 1
  /\ jobs[asked[c].job] # "kept"
  /\ Done(c)
  /\ result' = [job |-> asked[c].job, chunks |-> <<>>]
  /\ UNCHANGED <<jobs, frozen, report, cursor, loading, drawer>>

(* Fault variant: a page that fails ends the loop like the last page, and  *)
(* what was read until then is shown.                                      *)
ReadFailsQuietly(c) ==
  /\ asked[c].op = "read"
  /\ Done(c)
  /\ result' = [job |-> asked[c].job, chunks |-> asked[c].got]
  /\ UNCHANGED <<jobs, frozen, report, cursor, loading, drawer>>

(* A page is refused (the result has gone, the session has) or lost.       *)
ReadFails(c) ==
  /\ asked[c].op = "read"
  /\ Done(c)
  /\ UNCHANGED <<jobs, frozen, report, cursor, loading, drawer, result>>

PageStep ==
  \/ \E c \in Call :
       \/ Refresh(c) \/ LoadMore(c) \/ ReportFails(c) \/ MoreFails(c)
       \/ \E more \in BOOLEAN : ReportArrives(c, more) \/ MoreArrives(c, more)
       \/ \E j \in Job : OpenJob(c, j)
       \/ \E found \in BOOLEAN : DetailEnds(c, found)
       \/ CancelJob(c) \/ CancelArrives(c) \/ CancelFails(c)
       \/ ViewResult(c) \/ PageArrives(c) \/ NoResult(c) \/ ReadFails(c)
  \/ CloseJob
  \/ \E j \in Job : ResultAppears(j) \/ ResultExpires(j)

(* The page alone: it is opened once.                                      *)
UsageNext == (frozen = 0 /\ PageOpens) \/ PageStep

UsageSpec == PageInit /\ [][UsageNext]_usageVars
-----------------------------------------------------------------------------
(* A text that comes on display is the whole result of its job, in order   *)
(* and nothing twice, however its pages were read; it is empty only when   *)
(* the job has no result at that moment (job-reader.ts:91-133).            *)
ReadIsTheArtifact ==
  [][result' # result /\ result' # Nothing =>
       \/ result'.chunks = [i \in 1..Chunks[result'.job] |-> i]
       \/ result'.chunks = <<>> /\ jobs[result'.job] # "kept"]_usageVars

(* What the browser test says of the page (harness.spec.ts:260, 275): no   *)
(* control carries the cursor of an earlier window after the report of the *)
(* window that a refresh has frozen failed, so that it is not on display.  *)
NoCursorAfterFailure ==
  ~loading /\ report # Nothing /\ frozen \notin report => cursor = 0
=============================================================================
