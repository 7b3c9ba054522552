--------------------------- MODULE FingerprintAgent ---------------------------
(***************************************************************************)
(* services/selenium-chrome/cdp-fingerprint-agent.py: it has Chrome stop   *)
(* every new page before it runs, installs the fingerprint's script in it, *)
(* lets it run, checks the result and leaves.                              *)
(*                                                                         *)
(* The agent has one thread.  While a call waits for its answer, events    *)
(* are handled on top of it: the next page is initialised in the middle of *)
(* the first one's call, whose time runs on meanwhile, and which then has  *)
(* run out of time although its answer is there.                           *)
(*                                                                         *)
(* Chrome is external.  It carries a command out when it is sent: an event *)
(* that comes in between might as well have come before; it reports where  *)
(* a page goes from its attachment on.  Abstracted: the                    *)
(* calls of a page before it runs are one, and the two after are one; an   *)
(* URL is safe to run a check in or is not; a check finds what it expects  *)
(* or does not; time is whether a call runs out of it.                     *)
(***************************************************************************)
EXTENDS Naturals, Sequences, SequencesExt

CONSTANTS
  Page,       \* pages there ever are
  Open,       \* those that are open before the agent connects
  MaxFaults   \* calls that run out of time, and connections that end

ASSUME PagesAssumption == IsFiniteSet(Page)

VARIABLES
  page,          \* Chrome's pages
  attached,      \* sessions the agent's connection has in Chrome
  auto,          \* Target.setAutoAttach is in force
  inbox,         \* events and answers the agent has not received
  stack,         \* the calls that wait, the last one first
  answers,       \* self.responses
  initializing, initialized,
  url,           \* of a session's target, as far as the agent knows
  health,        \* the health file
  connected,
  faults,
  passed         \* history: a check has passed since the agent connected

chrome == <<page, attached, auto>>
books == <<initializing, initialized, url>>
agent == <<stack, answers, books, health, connected, faults, passed>>
vars == <<chrome, inbox, agent>>
-----------------------------------------------------------------------------
\* A page has a session by auto-attachment and one by Target.attachToTarget.
Session == Page \X {"auto", "asked"}
Boot == <<"boot", "boot">>
NotSeen == [s \in Session |-> "safe"]
NoPage == [at |-> "none", url |-> "safe", moved |-> FALSE, script |-> "no", held |-> FALSE]

Init ==
  /\ page = [p \in Page |-> IF p \in Open THEN [NoPage EXCEPT !.at = "running"] ELSE NoPage]
  /\ attached = {} /\ auto = FALSE /\ inbox = <<>>
  /\ stack = <<>> /\ answers = {} /\ initializing = {} /\ initialized = {} /\ url = NotSeen
  /\ health = "none" /\ connected = FALSE /\ faults = 0 /\ passed = FALSE
-----------------------------------------------------------------------------
(* Chrome. *)
Event(type, s, u) == [type |-> type, s |-> s, url |-> u, id |-> <<>>, ok |-> TRUE]
Answer(id, ok) == [type |-> "answer", s |-> Boot, url |-> "safe", id |-> id, ok |-> ok]
OfPage(p) == {s \in attached : s[1] = p}
EventsTo(S, type, pages) == SetToSeq({Event(type, s, pages[s[1]].url) : s \in S})

Opens(p) ==
  /\ page[p].at = "none"
  /\ \E u \in {"safe", "unsafe"} :
       page' = [page EXCEPT ![p] = [NoPage EXCEPT !.at = IF auto THEN "waiting" ELSE "running",
                                                  !.url = u, !.held = auto]]
  /\ IF auto
     THEN /\ attached' = attached \cup {<<p, "auto">>}
          /\ inbox' = Append(inbox, Event("attached", <<p, "auto">>, page'[p].url))
     ELSE UNCHANGED <<attached, inbox>>
  /\ UNCHANGED <<auto, agent>>

Closes(p) ==
  /\ page[p].at \in {"waiting", "running"}
  /\ page' = [page EXCEPT ![p] = [NoPage EXCEPT !.at = "closed", !.moved = page[p].moved]]
  /\ attached' = attached \ OfPage(p)
  /\ inbox' = inbox \o EventsTo(OfPage(p), "detached", page)
  /\ UNCHANGED <<auto, agent>>

\* A page leaves the URL it was opened with for one of the other kind.  Bound:
\* one page does, once.
Navigates(p) ==
  /\ page[p].at = "running" /\ \A q \in Page : ~page[q].moved
  /\ page' = [page EXCEPT ![p].moved = TRUE, ![p].url = IF @ = "safe" THEN "unsafe" ELSE "safe"]
  /\ inbox' = inbox \o EventsTo(OfPage(p), "navigated", page')
  /\ UNCHANGED <<attached, auto, agent>>

\* What Chrome does on a command, and the messages it sends for it.
Carries(id, in) ==
  LET s == id[2]
      step == id[3]
      here == s \in attached
      answer(ok) == <<Answer(id, ok)>>
  IN CASE step = "list" -> inbox' = in \o answer(TRUE) /\ UNCHANGED chrome
       [] step = "attach" /\ page[s[1]].at = "closed" -> inbox' = in \o answer(FALSE) /\ UNCHANGED chrome
       [] step = "attach" /\ page[s[1]].at # "closed" ->
            /\ attached' = attached \cup {s}
            /\ inbox' = in \o <<Event("attached", s, page[s[1]].url)>> \o answer(TRUE)
            /\ UNCHANGED <<page, auto>>
       [] step = "detach" ->
            /\ attached' = attached \ {s}
            /\ inbox' = in \o (IF here THEN <<Event("detached", s, "safe")>> ELSE <<>>) \o answer(here)
            /\ UNCHANGED <<page, auto>>
       [] step = "install" ->  \* which Chrome may refuse
            \E ok \in {here, FALSE} :
              /\ inbox' = in \o answer(ok)
              /\ page' = IF ~here THEN page
                         ELSE [page EXCEPT ![s[1]].script = IF ok THEN "yes" ELSE IF @ = "yes" THEN @ ELSE "refused"]
              /\ UNCHANGED <<attached, auto>>
       [] step = "resume" ->
            /\ inbox' = in \o answer(here)
            /\ page' = IF here /\ page[s[1]].at = "waiting" THEN [page EXCEPT ![s[1]].at = "running"] ELSE page
            /\ UNCHANGED <<attached, auto>>
       [] step = "check" ->
            /\ \E ok \in {here, FALSE} : inbox' = in \o answer(ok)
            /\ UNCHANGED chrome

\* A connection that closes lets its pages run, without the script.
Released(p) ==
  [page[p] EXCEPT !.at = IF @ = "waiting" THEN "running" ELSE @, !.held = FALSE, !.script = "no"]
-----------------------------------------------------------------------------
(* Calls.  A frame is a function that waits: _init_page for an event         *)
(* ("init") or for bootstrap ("again"), a check of frameNavigated ("nav"),   *)
(* or bootstrap itself.                                                      *)

Frame(kind, s, step) == [kind |-> kind, s |-> s, step |-> step, warned |-> FALSE, left |-> {}]
Id(f) == <<f.kind, f.s, f.step>>

\* f sends the command of its step and waits, on top of rest; in is the inbox.
Waits(f, rest, in) == stack' = <<f>> \o rest /\ Carries(Id(f), in)
Returns(rest, in)  == stack' = rest /\ inbox' = in /\ UNCHANGED chrome

\* Mutant of First: the page runs first.
FirstResume == <<"resume", "install">>

\* The calls of _init_page before its page counts as initialised.
First == <<"install", "resume">>

\* _init_page, unless it is under way for this session.
Inits(kind, s, rest, in) ==
  IF s \in initialized \cup initializing
  THEN Returns(rest, in) /\ UNCHANGED initializing
  ELSE initializing' = initializing \cup {s} /\ Waits(Frame(kind, s, First[1]), rest, in)

\* After Target.detachFromTarget, and on Target.detachedFromTarget.
Forgets(s) == initializing' = initializing \ {s} /\ initialized' = initialized \ {s}

\* A check that has observed nothing leaves a health that was ok.
Unobserved == IF health = "ok" THEN "ok" ELSE "warning"

\* The call on top of the stack, of _init_page or of a check, has ended.
PageCall(f, rest, ok) ==
  LET g == [f EXCEPT !.warned = @ \/ ~ok] IN
  CASE f.step = First[1] ->
         Waits([g EXCEPT !.step = First[2]], rest, inbox) /\ UNCHANGED <<books, health, passed>>
    [] f.step = First[2] ->
         \* The page is initialised: it is checked where that is safe, and left.
         /\ initializing' = initializing \ {f.s} /\ initialized' = initialized \cup {f.s}
         /\ Waits([g EXCEPT !.step = IF url[f.s] = "safe" THEN "check" ELSE "detach"], rest, inbox)
         /\ UNCHANGED <<url, health, passed>>
    [] f.step = "check" ->
         /\ \/ ok /\ ~f.warned /\ health' = "ok" /\ passed' = TRUE
            \/ ok /\ health' = "warning" /\ UNCHANGED passed
            \/ ~ok /\ health' = Unobserved /\ UNCHANGED passed
         /\ IF f.kind = "nav" THEN Returns(rest, inbox)
            ELSE Waits([f EXCEPT !.step = "detach"], rest, inbox)
         /\ UNCHANGED books
    [] f.step = "detach" ->
         Forgets(f.s) /\ Returns(rest, inbox) /\ UNCHANGED <<url, health, passed>>

\* The agent gives up its connection, which stays open until it has another.
Fails ==
  /\ stack' = <<>> /\ initializing' = {} /\ initialized' = {} /\ url' = NotSeen
  /\ connected' = FALSE /\ health' = "error" /\ passed' = FALSE
  /\ UNCHANGED <<chrome, inbox>>

\* The next of the pages bootstrap attaches to, or the loop.
NextTarget(f, rest) ==
  IF f.left = {} THEN Returns(rest, inbox)
  ELSE \E p \in f.left :
         Waits([f EXCEPT !.s = <<p, "asked">>, !.step = "attach", !.left = @ \ {p}], rest, inbox)

\* The call of bootstrap on top of the stack has ended.
BootCall(f, rest, ok) ==
  CASE f.step # "attach" /\ ~ok -> Fails
    [] f.step = "auto" /\ ok ->
         Waits([f EXCEPT !.step = "list"], rest, inbox) /\ UNCHANGED <<books, health, connected, passed>>
    [] f.step = "list" /\ ok ->
         /\ NextTarget([f EXCEPT !.left = {p \in Page : page[p].at \in {"waiting", "running"}}], rest)
         /\ UNCHANGED <<books, health, connected, passed>>
    [] f.step = "attach" /\ ~ok ->
         NextTarget(f, rest) /\ UNCHANGED <<books, health, connected, passed>>
    [] f.step = "attach" /\ ok ->
         /\ Inits("again", f.s, <<[f EXCEPT !.step = "attached"]>> \o rest, inbox)
         /\ url' = [url EXCEPT ![f.s] = page[f.s[1]].url]
         /\ UNCHANGED <<initialized, health, connected, passed>>

Ended(f, rest, ok) ==
  IF f.kind = "boot" THEN BootCall(f, rest, ok)
  ELSE PageCall(f, rest, ok) /\ UNCHANGED connected

\* bootstrap goes on when the page it has attached to is done.
NextAttached ==
  /\ connected /\ stack # <<>> /\ Head(stack).step = "attached"
  /\ NextTarget(Head(stack), Tail(stack))
  /\ UNCHANGED <<answers, books, health, connected, faults, passed>>

\* The answer the call on top waits for is there.
Answered(ok) ==
  /\ connected /\ stack # <<>> /\ <<Id(Head(stack)), ok>> \in answers
  /\ Ended(Head(stack), Tail(stack), ok)
  /\ answers' = IF connected' THEN answers \ {<<Id(Head(stack)), ok>>} ELSE {}
  /\ UNCHANGED faults

\* Or its time has run out, whether the answer is there or not.
TimesOut ==
  /\ connected /\ stack # <<>> /\ Head(stack).step # "attached" /\ faults < MaxFaults
  /\ Ended(Head(stack), Tail(stack), FALSE)
  /\ answers' = IF connected' THEN answers ELSE {}
  /\ faults' = faults + 1
-----------------------------------------------------------------------------
\* _handle_raw, while a call waits or in the loop.
Receives(type) ==
  /\ connected /\ inbox # <<>> /\ Head(inbox).type = type
  /\ stack # <<>> => /\ Head(stack).step # "attached"
                     /\ \A ok \in BOOLEAN : <<Id(Head(stack)), ok>> \notin answers
  /\ UNCHANGED <<connected, faults, passed, health>>

ReceiveAnswer ==
  /\ Receives("answer")
  /\ answers' = answers \cup {<<Head(inbox).id, Head(inbox).ok>>}
  /\ Returns(stack, Tail(inbox)) /\ UNCHANGED books

\* Target.attachedToTarget.
ReceiveAttached ==
  /\ Receives("attached")
  /\ url' = [url EXCEPT ![Head(inbox).s] = Head(inbox).url]
  /\ Inits("init", Head(inbox).s, stack, Tail(inbox))
  /\ UNCHANGED <<answers, initialized>>

\* Target.detachedFromTarget.
ReceiveDetached ==
  /\ Receives("detached")
  /\ Forgets(Head(inbox).s) /\ Returns(stack, Tail(inbox)) /\ UNCHANGED <<answers, url>>

\* Page.frameNavigated: checked again, if the page has been initialised.
ReceiveNavigated ==
  LET s == Head(inbox).s IN
  /\ Receives("navigated")
  /\ url' = [url EXCEPT ![s] = Head(inbox).url]
  /\ IF s \in initialized /\ url'[s] = "safe"
     THEN Waits(Frame("nav", s, "check"), stack, Tail(inbox)) ELSE Returns(stack, Tail(inbox))
  /\ UNCHANGED <<answers, initializing, initialized>>
-----------------------------------------------------------------------------
\* bootstrap's first write.
Starting == "starting"

\* main: a new connection; the old one closes.
Connect ==
  LET f == Frame("boot", Boot, "auto") IN
  /\ ~connected /\ connected' = TRUE
  /\ health' = Starting /\ passed' = FALSE /\ answers' = {} /\ stack' = <<f>>
  /\ LET pages == [p \in Page |-> Released(p)]
         new == {<<p, "auto">> : p \in {p \in Page : pages[p].at = "running"}} IN
     /\ page' = pages /\ auto' = TRUE /\ attached' = new
     /\ inbox' = EventsTo(new, "attached", pages) \o <<Answer(Id(f), TRUE)>>
  /\ UNCHANGED <<books, faults>>

\* The connection ends; or the process does (supervisorctl restart), and the
\* health file stays.
Disconnect ==
  /\ connected /\ faults < MaxFaults
  /\ connected' = FALSE /\ faults' = faults + 1
  /\ health' \in {health, "error"}
  /\ stack' = <<>> /\ answers' = {} /\ initializing' = {} /\ initialized' = {} /\ url' = NotSeen
  /\ inbox' = <<>> /\ attached' = {} /\ auto' = FALSE /\ passed' = FALSE
  /\ page' = [p \in Page |-> Released(p)]

Next ==
  \/ NextAttached \/ TimesOut \/ Connect \/ Disconnect
  \/ \E ok \in BOOLEAN : Answered(ok)
  \/ ReceiveAnswer \/ ReceiveAttached \/ ReceiveDetached \/ ReceiveNavigated
  \/ \E p \in Page : Opens(p) \/ Closes(p) \/ Navigates(p)

Spec == Init /\ [][Next]_vars
-----------------------------------------------------------------------------
\* A page that Chrome has stopped before its first document runs with the script
\* or after Chrome has refused it: not because a call has run out of time, a
\* page was initialised in the middle of another's, or one twice.
ScriptBeforeRun ==
  \A p \in Page : page[p].held /\ page[p].at = "running" /\ connected => page[p].script # "no"

\* When the agent is idle its books are empty, and once it has nothing more to
\* hear no page is left stopped: however calls were nested, answered late or cut
\* short by the page that closes.
IdleMeansDone ==
  connected /\ stack = <<>> =>
    /\ initializing = {} /\ initialized = {}
    /\ inbox = <<>> => \A p \in Page : page[p].at # "waiting"

\* A health that is ok was found by a check of this connection: a failed check
\* keeps the health there was, which may not be that of another connection.
OkIsOfThisConnection == connected /\ health = "ok" => passed

\* What the agent promises of the pages it is connected to.
AgentHolds == ScriptBeforeRun /\ IdleMeansDone /\ OkIsOfThisConnection
-----------------------------------------------------------------------------
(* The inductive invariant: bootstrap's frame is under all the others; a    *)
(* frame of _init_page past its first call has its page's script installed  *)
(* or refused, as long as it has its session, and past its second one has   *)
(* let the page run; the books know the sessions that have a frame; and a   *)
(* page that waits has its frame, or the event it comes from.               *)

PageRow == [at : {"none", "waiting", "running", "closed"}, url : {"safe", "unsafe"}, moved : BOOLEAN,
            script : {"no", "refused", "yes"}, held : BOOLEAN]
Calls   == {"boot", "init", "again", "nav"} \X (Session \cup {Boot})
           \X {"auto", "list", "attach", "install", "resume", "check", "detach"}
Message == [type : {"attached", "detached", "navigated", "answer"}, s : Session \cup {Boot},
            url : {"safe", "unsafe"}, id : Calls \cup {<<>>}, ok : BOOLEAN]
Call    == [kind : {"boot", "init", "again", "nav"}, s : Session \cup {Boot},
            step : {"auto", "list", "attach", "attached", "install", "resume", "check", "detach"},
            warned : BOOLEAN, left : SUBSET Page]

Fields ==
  /\ page \in [Page -> PageRow] /\ attached \subseteq Session /\ auto \in BOOLEAN
  /\ inbox \in Seq(Message) /\ stack \in Seq(Call)
  /\ answers \subseteq (Calls \cup {<<>>}) \X BOOLEAN
  /\ url \in [Session -> {"safe", "unsafe"}] /\ connected \in BOOLEAN

\* Sessions the agent is about to hear of, and its calls that wait.
Said(in)    == {in[i].s : i \in {j \in DOMAIN in : in[j].type = "attached"}}
Frames(st)  == {st[i] : i \in DOMAIN st}
OfInit(f)   == f.kind \in {"init", "again"}
Real(s)     == s \in Session /\ page[s[1]].at # "none"

CallRight(f) ==
  /\ f.kind = "boot" <=> f.step \in {"auto", "list", "attach", "attached"}
  /\ f.kind = "nav" => f.step = "check"
  /\ f.kind # "boot" \/ f.step \in {"attach", "attached"} => Real(f.s)
  /\ f.step \in {"attach", "attached"} => f.s[2] = "asked" /\ f.s[1] \notin f.left
  /\ \A p \in f.left : page[p].at # "none"

BootIsLast(st) == \A i \in DOMAIN st : i # Len(st) => st[i].kind # "boot"

\* Bootstrap has yet to attach to these, and nobody else does.
ToAsk(f)  == IF f.step \in {"auto", "list"} THEN Page ELSE f.left
Unasked(s) == s \notin Said(inbox) /\ \A f \in Frames(stack) : OfInit(f) => f.s # s

Installed(f) ==
  f.s \in attached => /\ page[f.s[1]].script # "no"
                      /\ f.step # "install" => page[f.s[1]].at # "waiting"

Booked ==
  /\ \A s \in initializing : \E f \in Frames(stack) : OfInit(f) /\ f.s = s /\ f.step \in {"install", "resume"}
  /\ \A s \in initialized : \E f \in Frames(stack) : OfInit(f) /\ f.s = s /\ f.step \in {"check", "detach"}

Attended ==
  \A p \in Page : connected /\ page[p].at = "waiting" =>
    /\ <<p, "auto">> \in attached
    /\ \/ <<p, "auto">> \in Said(inbox)
       \/ \E f \in Frames(stack) : OfInit(f) /\ f.s = <<p, "auto">> /\ f.step = "install"

IInv ==
  /\ Fields /\ BootIsLast(stack) /\ (connected \/ stack = <<>>)
  /\ \A s \in Said(inbox) : Real(s)
  /\ \A f \in Frames(stack) : /\ CallRight(f)
                              /\ OfInit(f) => Installed(f)
                              /\ f.kind = "boot" => \A p \in ToAsk(f) : Unasked(<<p, "asked">>)
  /\ Booked /\ Attended /\ ScriptBeforeRun /\ OkIsOfThisConnection
=============================================================================
