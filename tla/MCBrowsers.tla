----------------------------- MODULE MCBrowsers -----------------------------
(***************************************************************************)
(* What drives a browser: the WebDriver sessions of ChromeDriver           *)
(* (BrowserSessions) and the Cloak runtime's own driver (CloakDriver),     *)
(* with two operations at once on two pages and with one operation on      *)
(* four.  They join those of MCBrowserIdentity, in a specification of      *)
(* their own; "which" says which of them moves, the variables of the       *)
(* others are off.                                                         *)
(***************************************************************************)
EXTENDS MCBrowserIdentity

CONSTANTS Objects, Wd, None, Ops, DriverOps

VARIABLES cache, wd, lock, running, live, proc, mishaps, last,
          started, launching, alive, open, hung, handles, marked, shown,
          cdp, driving, events, raced, lastCommand

\* An object is new when it is made, and so is an id.
ASSUME NoneAssumption == None \notin Objects \cup Wd \cup Process \cup Nat
ASSUME ObjectsAssumption ==
  \A c \in Objects \cup {None}, f \in [Process -> Objects \cup {None}] :
    \E e \in Objects : e # c /\ \A p \in Process : f[p] # e
ASSUME IdsAssumption ==
  \A w \in [Objects -> Wd \cup {None}], f \in [Process -> Wd \cup {None}] :
    \E s \in Wd : (\A e \in Objects : w[e] # s) /\ \A p \in Process : f[p] # s
ASSUME OpsAssumption ==
  Ops \subseteq {"navigate", "current", "observe", "click", "click-element", "type", "key",
                "scroll", "screenshot", "image/export", "home", "change"}
ASSUME FaultsAssumption == MaxFaults \in Nat

Web == INSTANCE BrowserSessions WITH Entry <- Objects, faults <- mishaps
Pair == INSTANCE CloakDriver WITH
  Ops <- DriverOps, MaxPage <- 2, MaxEvents <- 3, lock <- launching,
  page <- shown, proc <- driving, last <- lastCommand
Alone == INSTANCE CloakDriver WITH
  Process <- {"the only one"}, Ops <- DriverOps, MaxPage <- 4, MaxEvents <- 3,
  lock <- launching, page <- shown, proc <- driving, last <- lastCommand

Identity == <<vars, Others>>
WebVars == <<cache, wd, lock, running, live, proc, mishaps, last>>
DriverVars == <<started, launching, alive, open, hung, handles, marked, shown,
                cdp, driving, events, raced, lastCommand>>

BrowsersInit ==
  /\ page = Off /\ attached = Off /\ auto = Off /\ inbox = Off /\ stack = Off /\ answers = Off
  /\ initializing = Off /\ initialized = Off /\ url = Off /\ health = Off /\ connected = Off
  /\ faults = Off /\ passed = Off
  /\ pool = Off /\ seeded = Off /\ poolRequest = Off /\ edits = Off /\ crashes = Off /\ spoiled = Off
  /\ rows = Off /\ docker = Off /\ builds = Off /\ requests = Off /\ sessions = Off /\ overtaken = Off
  /\ \/ /\ Only("webdriver") /\ Web!Init
        /\ started = Off /\ launching = Off /\ alive = Off /\ open = Off /\ hung = Off
        /\ handles = Off /\ marked = Off /\ shown = Off /\ cdp = Off /\ driving = Off
        /\ events = Off /\ raced = Off /\ lastCommand = Off
     \/ /\ \/ Only("cloak, two") /\ Pair!Init
           \/ Only("cloak, one") /\ Alone!Init
        /\ cache = Off /\ wd = Off /\ lock = Off /\ running = Off /\ live = Off /\ proc = Off
        /\ mishaps = Off /\ last = Off

BrowsersNext ==
  \/ Only("webdriver") /\ Web!Next /\ UNCHANGED <<which, Identity, DriverVars>>
  \/ Only("cloak, two") /\ Pair!Next /\ UNCHANGED <<which, Identity, WebVars>>
  \/ Only("cloak, one") /\ Alone!Next /\ UNCHANGED <<which, Identity, WebVars>>

BrowsersSpec == BrowsersInit /\ [][BrowsersNext]_<<which, Identity, WebVars, DriverVars>>
-----------------------------------------------------------------------------
\* BrowserSessions: what an operation that has the browser to itself relies on.
LoneOperations == Only("webdriver") => Web!LoneOperations

\* CloakDriver: operations launch one browser.
LaunchedOnce == Only("cloak, two") => Pair!LaunchedOnce

\* CloakDriver: commands go to the browser, the page and the handle they are
\* meant for.
DriverKeepsPlace ==
  /\ Only("cloak, two") => Pair!DriverKeepsPlace
  /\ Only("cloak, one") => Alone!DriverKeepsPlace

\* Bound of the run: two requests at a time on a browser are not of one kind,
\* unless both only read and nothing has failed.
BrowsersBounds ==
  Only("webdriver") =>
    \A p, q \in Process : p # q /\ proc[p].op = proc[q].op =>
      proc[p].op = "none" \/ (proc[p].op = "current" /\ mishaps = 0)
=============================================================================
