---------------------------- MODULE BrowserSessions ----------------------------
(***************************************************************************)
(* The WebDriver session that drives the browser of one browser session    *)
(* (backend/app/tools/browser/session.py), and the routes that drive it    *)
(* (routes/browser.py).                                                    *)
(*                                                                         *)
(* Each operation creates a WebDriver session on the container's Selenium, *)
(* or takes the one there is, and deletes it when it is done.  A cached    *)
(* BrowserSession holds the id and a lock; the lock covers the creation    *)
(* only, so operations share a session and delete it under each other.     *)
(* Selenium admits one session at a time (container.py, SE_NODE_MAX_SESSIONS). *)
(*                                                                         *)
(* Abstracted: what the pages answer; the setup of downloads, of device    *)
(* emulation and of stealth scripts after the lock, whose errors are       *)
(* swallowed; the Cloak driver and Browser Lite, whose sessions an         *)
(* operation does not delete.                                              *)
(***************************************************************************)
EXTENDS Naturals, Sequences, FiniteSets

CONSTANTS
  Process, \* requests under way at once
  Entry,   \* BrowserSession objects, taken again once nothing refers to them
  Wd,      \* WebDriver session ids, likewise
  None,    \* no entry, no id
  Ops,     \* the operations that are called
  MaxFaults \* calls that fail for reasons of their own, and crashes of the container

VARIABLES
  cache,   \* _sessions[chat_session_id]
  wd,      \* wd_session_id of each entry
  lock,    \* each entry's asyncio.Lock: the holder, then those who wait, in order
  running, \* the container runs
  live,    \* WebDriver sessions Selenium has
  proc,    \* requests
  faults,  \* faults so far
  last     \* history: how the last request ended, until the next one begins

vars == <<cache, wd, lock, running, live, proc, faults, last>>
-----------------------------------------------------------------------------
(* What an operation does with its session: "read" and "effect" calls fail  *)
(* it, "soft" ones (quick_observe) do not; "look" and "pick" look for an    *)
(* element and may find none, "pick" clicks it.  safe: its failures are reported with          *)
(* retry_safety "safe".  retried: run_browser_session_operation runs it.    *)

Operation(calls, safe, retried) == [calls |-> calls, safe |-> safe, retried |-> retried]

Navigate     == Operation(<<"effect", "soft">>, FALSE, FALSE)
Current      == Operation(<<"read", "read">>, TRUE, TRUE)
Observe      == Operation(<<"read", "read">>, TRUE, TRUE)
Click        == Operation(<<"read", "effect", "read", "soft">>, FALSE, FALSE)
ClickElement == Operation(<<"read", "pick", "read", "soft">>, FALSE, FALSE)
TypeText     == Operation(<<"effect", "read", "soft">>, FALSE, FALSE)
PressKey     == Operation(<<"effect", "read", "soft">>, FALSE, FALSE)
Scroll       == Operation(<<"effect", "read">>, FALSE, FALSE)
Screenshot   == Operation(<<"read">>, TRUE, FALSE)
ExportImage  == Operation(<<"look", "read">>, TRUE, FALSE)
Homepage     == Operation(<<"read", "effect">>, FALSE, FALSE)

Row(op) ==
  CASE op = "navigate" -> Navigate       [] op = "current" -> Current
    [] op = "observe" -> Observe         [] op = "click" -> Click
    [] op = "click-element" -> ClickElement [] op = "type" -> TypeText
    [] op = "key" -> PressKey            [] op = "scroll" -> Scroll
    [] op = "screenshot" -> Screenshot   [] op = "image/export" -> ExportImage
    [] op = "home" -> Homepage           [] op = "change" -> Operation(<<>>, FALSE, FALSE)

LastAttempt == 2  \* attempts 0, 1, 2 of an operation that is retried
-----------------------------------------------------------------------------
Id == Wd \cup {None}

Idle == [op |-> "none", at |-> "idle", entry |-> None, sid |-> None, call |-> 0, attempt |-> 0,
         error |-> "none", effect |-> FALSE, alone |-> TRUE, began |-> 0]

NoAnswer == [op |-> "none", answer |-> "ok", effect |-> FALSE, alone |-> FALSE, clean |-> TRUE]

At == {"idle", "container", "lock", "check", "find", "adopt", "discard", "create", "call",
       "exit", "clear", "reset", "reset clear", "remove", "ensure", "replace", "invalidate"}

Request ==
  [op : Ops \cup {"none"}, at : At, entry : Entry \cup {None}, sid : Id, call : 0..4,
   attempt : 0..LastAttempt, error : {"none", "not found", "transient", "final"},
   effect : BOOLEAN, alone : BOOLEAN, began : 0..MaxFaults]

Ended == [op : Ops \cup {"none"}, answer : {"ok", "not found", "failed"},
          effect : BOOLEAN, alone : BOOLEAN, clean : BOOLEAN]

Fields ==
  /\ cache \in Entry \cup {None} /\ wd \in [Entry -> Id] /\ running \in BOOLEAN /\ live \subseteq Wd
  /\ proc \in [Process -> Request] /\ faults \in 0..MaxFaults /\ last \in Ended

TypeOK == Fields /\ lock \in [Entry -> Seq(Process)]

Init ==
  /\ cache = None /\ wd = [e \in Entry |-> None] /\ lock = [e \in Entry |-> <<>>]
  /\ running = FALSE /\ live = {}
  /\ proc = [p \in Process |-> Idle]
  /\ faults = 0
  /\ last = NoAnswer
-----------------------------------------------------------------------------
Busy == {p \in Process : proc[p].op # "none"}
Becomes(p, r) == proc' = [proc EXCEPT ![p] = r]
Fault   == faults < MaxFaults /\ faults' = faults + 1
NoFault == UNCHANGED faults

NewEntry == CHOOSE e \in Entry : e # cache /\ \A p \in Process : proc[p].entry # e
NewWd == CHOOSE s \in Wd : /\ s \notin live
                           /\ \A e \in Entry : wd[e] # s
                           /\ \A p \in Process : proc[p].sid # s

\* ensure_session, up to its first await: the entry is found or made.
Enter(p, r, found, w) ==
  LET e == IF found = None THEN NewEntry ELSE found IN
  /\ cache' = e
  /\ wd' = IF found = None THEN [w EXCEPT ![e] = None] ELSE w
  /\ Becomes(p, [r EXCEPT !.at = "container", !.entry = e, !.sid = None, !.call = 1,
                          !.error = "none"])
  /\ UNCHANGED last

Answer(p, r, answer) ==
  /\ last' = [op |-> r.op, answer |-> answer, effect |-> r.effect, alone |-> r.alone,
              clean |-> r.began = faults']
  /\ Becomes(p, Idle)

\* reset_browser_session, after its cleanup; then the next attempt.
AfterReset(p, r, w) ==
  IF r.attempt = LastAttempt - 1
  THEN /\ cache' = None /\ wd' = w /\ UNCHANGED last
       /\ Becomes(p, [r EXCEPT !.at = "remove", !.entry = None, !.sid = None])
  ELSE Enter(p, [r EXCEPT !.attempt = @ + 1], None, w)

\* cleanup_session deletes the session the cache now has, if any.
Cached(w) == cache # None /\ w[cache] # None
Cleanup(p, r, w, at) ==
  /\ Becomes(p, [r EXCEPT !.at = at, !.entry = cache, !.sid = w[cache]])
  /\ wd' = w /\ UNCHANGED <<cache, last>>

\* The attempt is over: the request answers, or resets and tries again.
Decide(p, r, w) ==
  IF r.error \in {"none", "not found"}
  THEN /\ Answer(p, r, IF r.error = "none" THEN "ok" ELSE "not found")
       /\ wd' = w /\ UNCHANGED cache
  ELSE IF r.error = "final" \/ ~Row(r.op).retried \/ r.attempt = LastAttempt
  THEN Answer(p, r, "failed") /\ wd' = w /\ UNCHANGED cache
  ELSE IF Cached(w) THEN Cleanup(p, r, w, "reset") ELSE AfterReset(p, r, w)

\* _BrowserSessionCtx.__aexit__; ensure_homepage leaves the session behind.
Leave(p, r) ==
  IF Cached(wd) /\ r.op # "home" THEN Cleanup(p, r, wd, "exit") ELSE Decide(p, r, wd)
-----------------------------------------------------------------------------
Begin(p, op) ==
  LET r == [Idle EXCEPT !.op = op, !.alone = Busy = {}, !.began = faults]
      others == [q \in Process |-> [proc[q] EXCEPT !.alone = @ /\ q \notin Busy]] IN
  /\ proc[p].op = "none"
  /\ IF op = "change"
     THEN /\ proc' = [others EXCEPT ![p] = [r EXCEPT !.at = "invalidate"]]
          /\ UNCHANGED <<cache, wd>>
     ELSE LET e == IF cache = None THEN NewEntry ELSE cache IN
          /\ cache' = e
          /\ wd' = IF cache = None THEN [wd EXCEPT ![e] = None] ELSE wd
          /\ proc' = [others EXCEPT ![p] = [r EXCEPT !.at = "container", !.entry = e, !.call = 1]]
  /\ last' = NoAnswer
  /\ UNCHANGED <<lock, running, live, faults>>

\* ensure_container_running, or the hooks around it, raise.
ContainerFails(p) ==
  /\ proc[p].at = "container"
  /\ Fault
  /\ \E error \in {"transient", "final"} : Decide(p, [proc[p] EXCEPT !.error = error], wd)
  /\ UNCHANGED <<lock, running, live>>

ContainerRuns(p) ==
  LET r == proc[p] IN
  /\ r.at = "container"
  /\ running' = TRUE
  /\ lock' = [lock EXCEPT ![r.entry] = Append(@, p)]
  /\ Becomes(p, [r EXCEPT !.at = "lock"])
  /\ UNCHANGED <<cache, wd, live, faults, last>>

\* _ensure_session_impl, up to its first await.
Locked(p) ==
  LET r == proc[p] IN
  /\ r.at = "lock" /\ Head(lock[r.entry]) = p
  /\ Becomes(p, [r EXCEPT !.at = IF wd[r.entry] # None THEN "check" ELSE "find",
                          !.sid = wd[r.entry]])
  /\ UNCHANGED <<cache, wd, lock, running, live, faults, last>>

\* The lock is left with the id the entry now has: a cleanup may have cleared it.
Got(p, s, w) ==
  LET r == proc[p] IN
  /\ wd' = w
  /\ lock' = [lock EXCEPT ![r.entry] = Tail(@)]
  /\ Becomes(p, [r EXCEPT !.at = "call", !.sid = s, !.entry = None])
  /\ UNCHANGED <<cache, running, faults, last>>

Alive(p) ==
  LET r == proc[p] IN
  r.at \in {"check", "adopt"} /\ r.sid \in live /\ Got(p, wd[r.entry], wd) /\ UNCHANGED live

Dead(p) ==
  LET r == proc[p] IN
  /\ r.sid \in live => Fault
  /\ r.sid \notin live => NoFault
  /\ \/ /\ r.at = "check"
        /\ wd' = [wd EXCEPT ![r.entry] = None]
        /\ Becomes(p, [r EXCEPT !.at = "find", !.sid = None])
     \/ r.at = "adopt" /\ Becomes(p, [r EXCEPT !.at = "discard"]) /\ UNCHANGED wd
  /\ UNCHANGED <<cache, lock, running, live, last>>

\* Mutant of Find: an existing session is left alone.
FindNone(p) ==
  /\ proc[p].at = "find"
  /\ Becomes(p, [proc[p] EXCEPT !.at = "create"])
  /\ UNCHANGED <<cache, wd, lock, running, live, faults, last>>

\* _find_existing_session: none is found also when /status fails.
Find(p) ==
  LET r == proc[p] IN
  /\ r.at = "find"
  /\ \/ \E s \in live : /\ wd' = [wd EXCEPT ![r.entry] = s]
                        /\ Becomes(p, [r EXCEPT !.at = "adopt", !.sid = s]) /\ NoFault
     \/ /\ IF live = {} THEN NoFault ELSE Fault
        /\ Becomes(p, [r EXCEPT !.at = "create"]) /\ UNCHANGED wd
  /\ UNCHANGED <<cache, lock, running, live, last>>

\* _cleanup_stale_session swallows its errors.
Discard(p) ==
  LET r == proc[p] IN
  /\ r.at = "discard"
  /\ \/ live' = live \ {r.sid} /\ NoFault
     \/ r.sid \in live /\ Fault /\ UNCHANGED live
  /\ Becomes(p, [r EXCEPT !.at = "create", !.sid = None])
  /\ wd' = [wd EXCEPT ![r.entry] = None]
  /\ UNCHANGED <<cache, lock, running, last>>

\* Selenium holds the request while it has another session.
Create(p) ==
  LET s == NewWd IN
  /\ proc[p].at = "create" /\ running /\ live = {}
  /\ live' = {s}
  /\ Got(p, s, [wd EXCEPT ![proc[p].entry] = s])

\* The request times out, which is no transient error, or it fails.
CreateFails(p) ==
  LET r == proc[p] IN
  /\ r.at = "create"
  /\ lock' = [lock EXCEPT ![r.entry] = Tail(@)]
  /\ IF running /\ live = {} THEN Fault ELSE NoFault
  /\ \E error \in {"transient", "final"} :
       /\ live # {} => error = "final"
       /\ Decide(p, [r EXCEPT !.error = error], wd)
  /\ UNCHANGED <<running, live>>
-----------------------------------------------------------------------------
Call(p) == Row(proc[p].op).calls[proc[p].call]

\* A call is answered; after the last one the operation leaves.
Passes(p, r) ==
  IF r.call < Len(Row(r.op).calls)
  THEN Becomes(p, [r EXCEPT !.call = @ + 1]) /\ UNCHANGED <<cache, wd, last>>
  ELSE Leave(p, r)

CallAnswered(p) ==
  LET r == proc[p] IN
  /\ r.at = "call"
  /\ r.sid \in live \/ Call(p) = "soft"
  /\ NoFault
  /\ Passes(p, [r EXCEPT !.effect = @ \/ Call(p) \in {"effect", "pick"}])
  /\ UNCHANGED <<lock, running, live>>

NotFound(p) ==
  LET r == proc[p] IN
  /\ r.at = "call" /\ r.sid \in live /\ Call(p) \in {"pick", "look"}
  /\ NoFault
  /\ Leave(p, [r EXCEPT !.error = "not found"])
  /\ UNCHANGED <<lock, running, live>>

\* "invalid session id" is a transient error.  Any call may fail for reasons of
\* its own, and what it was to do may have been done.
CallFails(p) ==
  LET r == proc[p] IN
  /\ r.at = "call" /\ Call(p) # "soft"
  /\ \/ r.sid \notin live /\ NoFault /\ Leave(p, [r EXCEPT !.error = "transient"])
     \/ /\ r.sid \in live /\ Fault
        /\ \E error \in {"transient", "final"}, done \in BOOLEAN :
             Leave(p, [r EXCEPT !.error = error,
                                !.effect = @ \/ (done /\ Call(p) \in {"effect", "pick"})])
  /\ UNCHANGED <<lock, running, live>>
-----------------------------------------------------------------------------
\* cleanup_session: the DELETE, then the entry forgets its id, whichever it now is.
Delete(p) ==
  LET r == proc[p] IN
  /\ r.at \in {"exit", "reset"}
  /\ \/ live' = live \ {r.sid} /\ NoFault
     \/ r.sid \in live /\ Fault /\ UNCHANGED live
  /\ Becomes(p, [r EXCEPT !.at = IF @ = "exit" THEN "clear" ELSE "reset clear", !.sid = None])
  /\ UNCHANGED <<cache, wd, lock, running, last>>

Clear(p) ==
  LET r == proc[p]
      w == [wd EXCEPT ![r.entry] = None] IN
  /\ NoFault
  /\ \/ r.at = "clear" /\ Decide(p, r, w)
     \/ r.at = "reset clear" /\ AfterReset(p, r, w)
  /\ UNCHANGED <<lock, running, live>>

\* recreate_browser_runtime, after its reset.
RemoveContainer(p) ==
  LET r == proc[p] IN
  /\ r.at = "remove"
  /\ \/ /\ running' = FALSE /\ live' = {}
        /\ Becomes(p, [r EXCEPT !.at = "ensure"]) /\ NoFault /\ UNCHANGED last
     \/ Fault /\ Answer(p, r, "failed") /\ UNCHANGED <<running, live>>
  /\ UNCHANGED <<cache, wd, lock>>

EnsureContainer(p) ==
  LET r == proc[p] IN
  /\ r.at = "ensure"
  /\ \/ running' = TRUE /\ NoFault /\ Enter(p, [r EXCEPT !.attempt = @ + 1], cache, wd)
     \/ Fault /\ Answer(p, r, "failed") /\ UNCHANGED <<running, cache, wd>>
  /\ UNCHANGED <<lock, live>>

\* The session's settings change: invalidate_session_cache, then a new container.
Invalidate(p) ==
  /\ proc[p].at = "invalidate"
  /\ cache' = None
  /\ Becomes(p, [proc[p] EXCEPT !.at = "replace"])
  /\ UNCHANGED <<wd, lock, running, live, faults, last>>

Replace(p) ==
  /\ proc[p].at = "replace" /\ NoFault
  /\ running' = TRUE /\ live' = {}
  /\ Answer(p, proc[p], "ok")
  /\ UNCHANGED <<cache, wd, lock>>

\* The container stops.
Crash ==
  /\ running /\ Fault
  /\ running' = FALSE /\ live' = {}
  /\ UNCHANGED <<cache, wd, lock, proc, last>>
-----------------------------------------------------------------------------
Advance(p) ==
  \/ ContainerFails(p) \/ ContainerRuns(p) \/ Locked(p) \/ Alive(p) \/ Dead(p) \/ Find(p)
  \/ Discard(p) \/ Create(p) \/ CreateFails(p) \/ CallAnswered(p) \/ NotFound(p) \/ CallFails(p)
  \/ Delete(p) \/ Clear(p) \/ RemoveContainer(p) \/ EnsureContainer(p) \/ Replace(p)
  \/ Invalidate(p)

Next == Crash \/ \E p \in Process : Advance(p) \/ \E op \in Ops : Begin(p, op)

Spec == Init /\ [][Next]_vars
-----------------------------------------------------------------------------
(* Whatever earlier requests have left behind (a session nobody deleted, an *)
(* entry that knows a session that is gone), a request that has the browser *)
(* to itself and meets no fault succeeds: ensure_session heals the cache.  *)
LoneOperationSucceeds == last.alone /\ last.clean => last.answer # "failed"

(* And it leaves no WebDriver session behind: ChromeDriver lets go of the   *)
(* browser.  (ensure_homepage keeps its session on purpose.)               *)
LoneOperationCleansUp ==
  Busy = {} /\ last.alone /\ last.clean /\ last.op # "home" => live = {}

(* A failure that is reported as safe to retry has had no effect on the page. *)
SafeMeansNoEffect == last.answer = "failed" /\ Row(last.op).safe => ~last.effect

(* What an operation that has the browser to itself can rely on.           *)
LoneOperations == LoneOperationSucceeds /\ LoneOperationCleansUp /\ SafeMeansNoEffect
-----------------------------------------------------------------------------
(* The inductive invariant. It says nothing of the locks: beside a request *)
(* that is alone nobody else runs, and that it gets its lock is liveness.  *)

\* Where a request can be, and how far.
Fits(r) ==
  /\ r.op = "none" <=> r.at = "idle"
  /\ r.op = "change" <=> r.at \in {"invalidate", "replace"}
  /\ r.op \notin {"none", "change"} =>
       r.call \in DOMAIN Row(r.op).calls /\ (Row(r.op).safe => ~r.effect)
  /\ r.at \in {"container", "lock", "check", "find", "adopt", "discard", "create"} => r.entry \in Entry
  /\ r.at \in {"reset", "reset clear"} => r.attempt < LastAttempt
  /\ r.at \in {"remove", "ensure"} => r.attempt = LastAttempt - 1

\* A request that is alone and has met no fault: the cache has the entry it
\* works on, and Selenium the session that the entry knows.
OnCourse(r) ==
  /\ r.error \in {"none", "not found"}
  /\ r.at \notin {"discard", "reset", "reset clear", "remove", "ensure"}
  /\ r.at \in {"container", "lock", "check", "find", "adopt", "create"} => r.entry = cache
  /\ r.at \in {"lock", "check", "find", "adopt", "create"} => running
  /\ r.at = "check" => r.sid = wd[cache]
  /\ r.at \in {"adopt", "call"} => cache # None /\ r.sid = wd[cache]
  /\ r.at \in {"adopt", "call", "exit"} => r.sid \in live
  /\ r.at \in {"create", "clear"} => live = {}

\* Nobody has come in between, and unless something has failed all is well.
Undisturbed(p) ==
  proc[p].op # "none" /\ proc[p].alone =>
    /\ \A q \in Process \ {p} : proc[q].op = "none"
    /\ proc[p].began = faults => OnCourse(proc[p])

\* Selenium admits one session.
OneLive == \A s, t \in live : s = t

IInv ==
  /\ Fields /\ OneLive
  /\ \A p \in Process : Fits(proc[p]) /\ proc[p].began <= faults /\ Undisturbed(p)
  /\ last.alone => Busy = {}
  /\ LoneOperations
=============================================================================
