------------------------------ MODULE CloakDriver ------------------------------
(***************************************************************************)
(* The driver of the Cloak browser                                         *)
(* (services/cloak-chromium-runtime/bp_cloak_driver.py): a WebDriver server *)
(* over one Playwright context, and the operations of routes/browser.py    *)
(* that work with tabs through it.                                         *)
(*                                                                         *)
(* The driver keeps the page it drives, a CDP session, a handle for each   *)
(* page it has met and the pages it takes for crashed.  Its commands are   *)
(* coroutines: other commands, pages that open (and become the page it     *)
(* drives), close or crash come in at every await.                         *)
(*                                                                         *)
(* Abstracted: what pages contain and answer, cookies, timeouts, sizes,    *)
(* and the time-out of a command.                                          *)
(***************************************************************************)
EXTENDS Naturals, Sequences, FiniteSets

CONSTANTS
  Process,  \* operations under way at once
  None,     \* no page
  MaxPage,  \* pages there ever are
  MaxEvents, \* pages that open or close by themselves, crashes, deaths of the browser
  Ops       \* the operations that are called

Tab == 1..MaxPage

VARIABLES
  started,   \* DriverState.started
  lock,      \* who holds DriverState.lock over an await: it launches the browser
  alive,     \* the browser runs
  open,      \* the context's pages
  hung,      \* pages whose renderer has crashed
  handles,   \* DriverState.handles: the page with the handle "page-(i-1)", for each i
  marked,    \* DriverState.crashed_pages
  page,      \* DriverState.page
  cdp,       \* the page DriverState.cdp is attached to
  proc,      \* operations
  events,    \* history: what happened to the browser by itself
  raced,     \* history: an operation met another, or a page that opened or closed
  last       \* history: how the last operation ended

driver  == <<started, lock, alive, open, hung, handles, marked, page, cdp>>
history == <<events, raced>>
vars    == <<driver, proc, history, last>>
-----------------------------------------------------------------------------
Command == {"handles", "window", "select", "drive", "title", "cdp", "close"}

Idle == [op |-> "none", todo |-> <<>>, at |-> "idle", page |-> None, list |-> <<>>, target |-> 0,
         closes |-> FALSE, focus |-> None, tried |-> FALSE, alone |-> TRUE, crashes |-> 0]
NoAnswer == [op |-> "none", ok |-> TRUE, crashes |-> 0, focus |-> None,
             target |-> 0, closes |-> FALSE]

TypeOK ==
  /\ <<started, alive, raced>> \in BOOLEAN \X BOOLEAN \X BOOLEAN
  /\ lock \in Process \cup {None}
  /\ open \subseteq Tab /\ hung \subseteq Tab /\ marked \subseteq Tab
  /\ handles \in Seq(Tab)
  /\ {page, cdp} \subseteq Tab \cup {None}
  /\ proc \in [Process ->
       [op : Ops \cup {"none"}, todo : Seq([do : Command, handle : 0..MaxPage]),
        at : {"idle", "start", "launch", "first", "session", "use", "front", "new", "attach", "send"},
        page : Tab \cup {None}, list : Seq(Tab), target : 0..MaxPage, closes : BOOLEAN,
        focus : Tab \cup {None}, tried : BOOLEAN, alone : BOOLEAN, crashes : 0..MaxEvents]]
  /\ events \in 0..MaxEvents

Init ==
  /\ started = FALSE /\ lock = None /\ alive = FALSE /\ open = {} /\ hung = {}
  /\ handles = <<>> /\ marked = {} /\ page = None /\ cdp = None
  /\ proc = [p \in Process |-> Idle]
  /\ events = 0 /\ raced = FALSE /\ last = NoAnswer
-----------------------------------------------------------------------------
Busy == {p \in Process : proc[p].op # "none"}
Do(p) == Head(proc[p].todo)
\* What is remembered of an operation only for the properties.
NotAlone(r) == IF r.op = "none" THEN r ELSE [r EXCEPT !.alone = FALSE, !.focus = None, !.crashes = 0]

Becomes(p, r) == proc' = [proc EXCEPT ![p] = r]

OpenPages(marks) == SelectSeq(handles, LAMBDA q : q \in open /\ q \notin marks)
Usable(q) == q \in open /\ q \notin marked

HandleOf(q) == CHOOSE i \in DOMAIN handles : handles[i] = q

NewPage == Len(handles) + 1

One(do, handle) == [do |-> do, handle |-> handle]

\* The commands of an operation; those of "tabs" and "switch" depend on what
\* the first ones answer.
Commands(op) ==
  CASE op = "read"   -> <<One("drive", 0)>>
    [] op = "click"  -> <<One("handles", 0), One("cdp", 0), One("handles", 0), One("drive", 0)>>
    [] op = "tabs"   -> <<One("handles", 0), One("window", 0)>>
    [] op = "switch" -> <<One("handles", 0)>>

\* api_tabs looks at every tab in turn and then goes back to the first.
TourOf(list, current) ==
  [i \in 1..(2 * Len(list) + 1) |->
     IF i = 2 * Len(list) + 1 THEN One("select", current)
     ELSE IF i % 2 = 1 THEN One("select", HandleOf(list[(i + 1) \div 2])) ELSE One("title", 0)]

SwitchOf(r) ==
  (IF r.closes THEN <<One("close", 0)>> ELSE <<>>) \o <<One("select", r.target), One("drive", 0)>>
-----------------------------------------------------------------------------
Answer(p, ok) ==
  LET r == proc[p] IN
  /\ last' = IF r.alone
             THEN [op |-> r.op, ok |-> ok, crashes |-> r.crashes, focus |-> r.focus,
                   target |-> r.target, closes |-> r.closes]
             ELSE NoAnswer
  /\ Becomes(p, Idle)

\* A command raises: the operation fails.
Fails(p) == Answer(p, FALSE) /\ UNCHANGED <<driver, history>>

\* A command is answered; "more" are the commands its answer calls for.
Answered(p, r, more) ==
  IF Tail(r.todo) \o more = <<>> THEN Answer(p, TRUE)
  ELSE /\ Becomes(p, [r EXCEPT !.todo = Tail(@) \o more, !.at = "start", !.page = None,
                               !.tried = FALSE])
       /\ UNCHANGED last

Begin(p, op, target, closes) ==
  /\ proc[p].op = "none"
  /\ proc' = [q \in Process |->
       LET r == [Idle EXCEPT !.op = op, !.todo = Commands(op), !.at = "start",
                             !.focus = IF Usable(page) THEN page ELSE None, !.target = target, !.closes = closes] IN
       IF q # p THEN NotAlone(proc[q]) ELSE IF Busy = {} THEN r ELSE NotAlone(r)]
  /\ raced' = (raced \/ Busy # {})
  /\ last' = NoAnswer
  /\ UNCHANGED <<driver, events>>
-----------------------------------------------------------------------------
\* Mutant of TakesLock: the browser is launched outside the lock.
TakesLockNot(p) == TRUE

Launching(p) == proc[p].at \in {"launch", "first", "session"}

\* ensure_started: the first to come launches the browser, the others wait.
TakesLock(p) == lock = None

Launch(p) ==
  /\ proc[p].at = "start" /\ ~started /\ TakesLock(p)
  /\ lock' = p
  /\ Becomes(p, [proc[p] EXCEPT !.at = "launch"])
  /\ UNCHANGED <<started, alive, open, hung, handles, marked, page, cdp, history, last>>

\* The browser runs: the driver has its context and hears of its pages from here
\* on, and takes the first of them if there is one.  A browser that lives keeps the
\* SingletonLock of the profile, which remove_stale_profile_locks removes only when
\* its holder is dead: no other is launched over it.
Launched(p) ==
  LET q == NewPage IN
  /\ proc[p].at = "launch" /\ ~alive
  /\ alive' = TRUE
  /\ \/ /\ q <= MaxPage
        /\ open' = {q} /\ handles' = Append(handles, q) /\ page' = q
        /\ Becomes(p, [proc[p] EXCEPT !.at = "session", !.page = q])
     \/ Becomes(p, [proc[p] EXCEPT !.at = "first"]) /\ UNCHANGED <<open, handles, page>>
  /\ UNCHANGED <<started, lock, hung, marked, cdp, history, last>>

\* It has none, and new_page opens one.
FirstPage(p) ==
  LET q == NewPage IN
  /\ proc[p].at = "first" /\ alive /\ q <= MaxPage
  /\ open' = open \cup {q} /\ handles' = Append(handles, q) /\ page' = q /\ cdp' = None
  /\ Becomes(p, [proc[p] EXCEPT !.at = "session", !.page = q])
  /\ UNCHANGED <<started, lock, alive, hung, marked, history, last>>

\* The CDP session is attached, and only then is the driver started.
Started(p) ==
  /\ proc[p].at = "session" /\ proc[p].page \in open
  /\ cdp' = proc[p].page /\ started' = TRUE /\ lock' = None
  /\ Becomes(p, [proc[p] EXCEPT !.at = "start", !.page = None])
  /\ UNCHANGED <<alive, open, hung, handles, marked, page, history, last>>

\* Any of the three awaits raises.  After the first of them the browser stays behind.
LaunchFails(p) ==
  /\ Launching(p)
  /\ lock' = None
  /\ Answer(p, FALSE)
  /\ UNCHANGED <<started, alive, open, hung, handles, marked, page, cdp, history>>
-----------------------------------------------------------------------------
Starts(p, do) == proc[p].at = "start" /\ started /\ Do(p).do = do

\* window_handles; api_switch_tab rejects a target that is not in the list.
Handles(p) ==
  LET r == [proc[p] EXCEPT !.list = OpenPages(marked)]
      there == \E i \in DOMAIN r.list : HandleOf(r.list[i]) = r.target IN
  /\ Starts(p, "handles")
  /\ IF r.op = "switch"
     THEN IF there THEN Answered(p, r, SwitchOf(r)) ELSE Answer(p, FALSE)
     ELSE Answered(p, r, <<>>)
  /\ UNCHANGED <<driver, history>>

\* get_window answers with a page that has crashed, but not with a closed one.
Window(p) ==
  LET r == proc[p]
      q == IF page \in open THEN page ELSE Head(OpenPages(marked)) IN
  /\ Starts(p, "window")
  /\ IF page \notin open /\ OpenPages(marked) = <<>>
     THEN Becomes(p, [r EXCEPT !.at = "new"]) /\ UNCHANGED <<page, last>>
     ELSE page' = q /\ Answered(p, [r EXCEPT !.list = <<>>], TourOf(r.list, HandleOf(q)))
  /\ UNCHANGED <<started, lock, alive, open, hung, handles, marked, cdp, history>>

\* set_active_by_handle: a handle without an open page is taken for an index.
Select(p) ==
  LET h == Do(p).handle
      list == OpenPages(marked)
      found == IF Usable(handles[h]) THEN handles[h] ELSE IF h <= Len(list) THEN list[h] ELSE None
  IN
  /\ Starts(p, "select")
  /\ IF found = None THEN Fails(p)
     ELSE /\ page' = found
          /\ Becomes(p, [proc[p] EXCEPT !.at = "attach", !.page = found])
          /\ UNCHANGED <<started, lock, alive, open, hung, handles, marked, cdp, history, last>>

\* recover_page: the page the driver now has is marked, whichever the command used.
Recover(p, r) ==
  LET marks == marked \cup {page}
      list == OpenPages(marks) IN
  /\ marked' = marks
  /\ IF list = <<>>
     THEN Becomes(p, [r EXCEPT !.at = "new"]) /\ UNCHANGED page
          /\ cdp' = IF page \in marked THEN cdp ELSE None
     ELSE /\ page' = Head(list) /\ cdp' = None
          /\ Becomes(p, [r EXCEPT !.at = "front", !.page = Head(list)])
  /\ UNCHANGED <<started, lock, alive, open, hung, handles, history, last>>

\* active_page.
ActivePage(p) ==
  /\ \E do \in {"drive", "title", "cdp", "close"} : Starts(p, do)
  /\ IF Usable(page)
     THEN Becomes(p, [proc[p] EXCEPT !.at = "use", !.page = page])
          /\ UNCHANGED <<driver, history, last>>
     ELSE Recover(p, proc[p])

\* bring_to_front; then whichever page the driver has.
Front(p) ==
  LET r == proc[p] IN
  /\ r.at = "front"
  /\ IF r.page \notin open THEN Answer(p, FALSE)
     ELSE IF Do(p).do = "select" THEN Answered(p, r, <<>>)
     ELSE Becomes(p, [r EXCEPT !.at = "use", !.page = page]) /\ UNCHANGED last
  /\ UNCHANGED <<driver, history>>

\* context.new_page, which fails when the browser has gone.
Opens(p) ==
  LET r == proc[p]
      q == NewPage IN
  /\ r.at = "new"
  /\ IF ~alive THEN Fails(p)
     ELSE /\ q <= MaxPage
          /\ open' = open \cup {q} /\ handles' = Append(handles, q)
          /\ page' = q /\ cdp' = None
          /\ CASE Do(p).do = "window" -> Answered(p, [r EXCEPT !.list = <<>>], TourOf(r.list, q))
               [] Do(p).do = "close" /\ r.tried -> /\ Becomes(p, [r EXCEPT !.at = "attach", !.page = q])
                                                  /\ UNCHANGED last
               [] OTHER -> Becomes(p, [r EXCEPT !.at = "front", !.page = q]) /\ UNCHANGED last
          /\ UNCHANGED <<started, lock, alive, hung, marked, history>>

\* Mutant of OnPage: the crash of a page under a command is an error like others.
OnPageFails(p, r) ==
  IF r.page \notin open \ hung THEN Fails(p)
  ELSE Answered(p, r, <<>>) /\ UNCHANGED <<driver, history>>

\* A command on a page that has crashed recovers once; on a closed one it fails.
OnPage(p, r) ==
  IF r.page \notin open THEN Fails(p)
  ELSE IF r.page \in hung
       THEN IF r.tried THEN Fails(p) ELSE Recover(p, [r EXCEPT !.tried = TRUE])
  ELSE Answered(p, r, <<>>) /\ UNCHANGED <<driver, history>>

Drive(p) == proc[p].at = "use" /\ Do(p).do = "drive" /\ OnPage(p, proc[p])

\* get_title does not recover.
Title(p) == proc[p].at = "use" /\ Do(p).do = "title" /\ OnPage(p, [proc[p] EXCEPT !.tried = TRUE])

\* active_cdp.
ActiveCdp(p) ==
  LET r == proc[p] IN
  /\ r.at = "use" /\ Do(p).do = "cdp"
  /\ Becomes(p, IF cdp = None THEN [r EXCEPT !.at = "attach", !.page = page]
                ELSE [r EXCEPT !.at = "send", !.page = cdp])
  /\ UNCHANGED <<driver, history, last>>

Send(p) == proc[p].at = "send" /\ OnPage(p, proc[p])

Attach(p) ==
  LET r == proc[p] IN
  /\ r.at = "attach"
  /\ IF r.page \notin open THEN Fails(p)
     ELSE /\ cdp' = r.page
          /\ CASE Do(p).do = "cdp"    -> Becomes(p, [r EXCEPT !.at = "send"]) /\ UNCHANGED last
               [] Do(p).do = "select" -> Becomes(p, [r EXCEPT !.at = "front"]) /\ UNCHANGED last
               [] OTHER               -> Answered(p, r, <<>>)
          /\ UNCHANGED <<started, lock, alive, open, hung, handles, marked, page, history>>

\* close_window: the page closes and the driver turns to the first that is left.
CloseWindow(p) ==
  LET r == proc[p]
      left == SelectSeq(handles, LAMBDA q : q \in open \ {r.page} /\ q \notin marked) IN
  /\ r.at = "use" /\ Do(p).do = "close"
  /\ open' = open \ {r.page} /\ marked' = marked \ {r.page}
  /\ cdp' = IF r.page = page THEN None ELSE cdp
  /\ IF left = <<>>
     THEN Becomes(p, [r EXCEPT !.at = "new", !.tried = TRUE]) /\ UNCHANGED page
     ELSE page' = Head(left) /\ Becomes(p, [r EXCEPT !.at = "attach", !.page = Head(left)])
  /\ UNCHANGED <<started, lock, alive, hung, handles, history, last>>
-----------------------------------------------------------------------------
Event == events < MaxEvents /\ events' = events + 1

Disturb == /\ Event
           /\ proc' = [p \in Process |-> NotAlone(proc[p])]
           /\ raced' = (raced \/ Busy # {})
           /\ last' = NoAnswer

\* A page opens another: remember_new_page makes it the page that is driven.
PageOpens ==
  LET q == NewPage IN
  /\ alive /\ open # {} /\ q < MaxPage  \* the last page is for recovery
  /\ open' = open \cup {q} /\ handles' = Append(handles, q) /\ page' = q /\ cdp' = None
  /\ Disturb
  /\ UNCHANGED <<started, lock, alive, hung, marked>>

\* mark_page_closed.
PageCloses(q) ==
  /\ q \in open
  /\ open' = open \ {q} /\ marked' = marked \ {q}
  /\ cdp' = IF q = page THEN None ELSE cdp
  /\ Disturb
  /\ UNCHANGED <<started, lock, alive, hung, handles, page>>

\* mark_page_crashed.
PageCrashes(q) ==
  /\ q \in open \ hung
  /\ hung' = hung \cup {q} /\ marked' = marked \cup {q}
  /\ cdp' = IF q = page THEN None ELSE cdp
  /\ Event
  /\ proc' = [p \in Process |-> IF p \in Busy /\ proc[p].alone THEN [proc[p] EXCEPT !.crashes = @ + 1]
                                ELSE proc[p]]
  /\ last' = NoAnswer
  /\ UNCHANGED <<started, lock, alive, open, handles, page, raced>>

\* The browser dies, and the driver is not told.
BrowserDies ==
  /\ alive
  /\ alive' = FALSE /\ open' = {} /\ marked' = marked \ open
  /\ cdp' = IF page \in open THEN None ELSE cdp
  /\ Disturb
  /\ UNCHANGED <<started, lock, hung, handles, page>>
-----------------------------------------------------------------------------
Advance(p) ==
  \/ Launch(p) \/ Launched(p) \/ FirstPage(p) \/ Started(p) \/ LaunchFails(p)
  \/ Handles(p) \/ Window(p) \/ Select(p) \/ ActivePage(p) \/ Front(p) \/ Opens(p) \/ Drive(p) \/ Title(p) \/ ActiveCdp(p) \/ Send(p) \/ Attach(p)
  \/ CloseWindow(p)

Next ==
  \/ \E p \in Process :
       \/ Advance(p)
       \/ \E op \in Ops \ {"switch"} : Begin(p, op, 0, FALSE)
       \/ /\ "switch" \in Ops
          /\ \E target \in DOMAIN handles, closes \in BOOLEAN : Begin(p, "switch", target, closes)
  \/ PageOpens \/ BrowserDies
  \/ \E q \in Tab : PageCloses(q) \/ PageCrashes(q)

Spec == Init /\ [][Next]_vars
-----------------------------------------------------------------------------
(* However many operations find no browser, one of them launches it at a   *)
(* time, whatever became of those before it, and none does once the driver *)
(* has one.                                                                *)
LaunchedOnce ==
  \A p \in Process : Launching(p) => ~started /\ \A q \in Process \ {p} : ~Launching(q)

(* Once the driver has a browser, an operation that reads the page is      *)
(* answered although its page crashes under it.                            *)
ReadSurvivesCrash == last.op = "read" /\ last.crashes <= 1 /\ alive /\ started => last.ok

(* Listing the tabs looks at each of them, and leaves the one that was in  *)
(* front where it was.                                                     *)
TabsKeepFocus ==
  last.op = "tabs" /\ last.ok /\ last.crashes = 0 /\ last.focus # None => page = last.focus

(* "switchedTo" is the tab the driver is on: unless the tab to close is    *)
(* the target, or the driver's own tab has gone (it then turns to the      *)
(* first, which may be the target, and closes that).                       *)
SwitchIsTrue ==
  /\ last.op = "switch" /\ last.ok /\ last.crashes = 0
  /\ last.closes => last.focus \notin {None, handles[last.target]}
  => page = handles[last.target]

(* Commands one after the other: CDP commands go to the page the others    *)
(* go to, whatever has crashed, closed or opened between them.             *)
CdpFollowsPage == ~raced /\ Busy = {} => cdp \in {None, page}

(* Commands one after the other: no page that works is taken for crashed,  *)
(* which would hide it from every list of tabs for good.                   *)
MarkedHaveCrashed == ~raced => marked \cap open \subseteq hung

(* The driver stays on the right tab of its browser.                       *)
DriverKeepsPlace ==
  ReadSurvivesCrash /\ TabsKeepFocus /\ SwitchIsTrue /\ CdpFollowsPage /\ MarkedHaveCrashed

(* Why one launches at a time (the inductive invariant): it has the lock,  *)
(* which is given back when the driver is started and when it fails.       *)
LauncherHasLock ==
  /\ DOMAIN proc = Process
  /\ \A p \in Process : "at" \in DOMAIN proc[p]
  /\ \A p \in Process : Launching(p) => lock = p /\ ~started
=============================================================================
