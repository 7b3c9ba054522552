---------------------------- MODULE SessionRuntime ----------------------------
(***************************************************************************)
(* The container of one browser session (backend/app/container.py and the  *)
(* routes in routes/sessions.py that drive it), its network gateway        *)
(* (network_egress.py) and its token for file capture (file_capture.py).   *)
(*                                                                         *)
(* Requests start, stop, pause, re-create and delete the container.  Each  *)
(* is a sequence of Docker commands and SQL statements that nothing locks  *)
(* by session: two requests interleave between any two of them, any command *)
(* may fail and any request may end half way.                              *)
(*                                                                         *)
(* A session whose row names a network profile runs its browser inside the *)
(* network namespace of a gateway container, made for it beforehand.       *)
(* Abstracted: fingerprints, images, ports and presets, which the commands *)
(* carry and no step of a request depends on; the wait for the browser to  *)
(* answer, which only logs; the hooks of the enterprise edition.           *)
(***************************************************************************)
EXTENDS Naturals, FiniteSets

CONSTANTS
  Process,  \* requests under way at once
  Profile   \* network profiles (managed ones: Clash, OpenVPN)

Direct == "direct"  \* no profile
Route == Profile \cup {Direct}

ASSUME ProcessAssumption == IsFiniteSet(Process)
ASSUME DirectAssumption == Direct \notin Profile

VARIABLES
  row,        \* the row of sessions: whether it is there, and network_egress_id
  disabled,   \* profiles whose status is "disabled"
  container,  \* the browser's container
  gateway,    \* the session's gateway container
  stray,      \* valid tokens that no container and no request holds
  proc,       \* requests
  overlapped, \* history: two requests were under way at once
  kept,       \* history: Docker refused to remove the container
  settled     \* history: the last change of the profile has answered ok

vars == <<row, disabled, container, gateway, stray, proc, overlapped, kept, settled>>
history == <<overlapped, kept, settled>>
-----------------------------------------------------------------------------
Token == {"none", "valid", "revoked"}

(* The container's network: "direct", the namespace of the gateway, that of *)
(* a gateway which has stopped since ("stale": a restart joins it again) or *)
(* of one that has been removed ("lost": the container cannot start again). *)
Net == {"direct", "gateway", "stale", "lost"}

NoContainer == [at |-> "none", via |-> Direct, net |-> "direct", token |-> "none"]
Idle == [op |-> "none", at |-> "idle", via |-> Direct, token |-> "none"]

Container == [at : {"none", "running", "paused", "exited"}, via : Route, net : Net, token : Token]

Place == {"idle", "inspect", "unpause", "new", "restart", "gateway start", "start", "resolve",
          "update", "stop", "gateway stop", "pause", "remove", "gateway remove", "revoke", "insert",
          "read", "prepare", "gateway run", "gateway wait", "run", "undo", "drop row"}
Request == [op : {"none", "ensure", "stop", "pause", "change", "preset", "delete"},
            at : Place, via : Route, token : Token]

TypeOK ==
  /\ row \in [there : BOOLEAN, egress : Route]
  /\ disabled \subseteq Profile
  /\ container \in Container
  /\ gateway \in {"none", "running", "exited"}
  /\ stray \in Nat
  /\ proc \in [Process -> Request]
  /\ overlapped \in BOOLEAN /\ kept \in BOOLEAN /\ settled \in BOOLEAN

Init ==
  /\ row \in [there : {TRUE}, egress : Route] /\ disabled = {}
  /\ container = NoContainer /\ gateway = "none" /\ stray = 0
  /\ proc = [p \in Process |-> Idle]
  /\ overlapped = FALSE /\ kept = FALSE /\ settled = TRUE
-----------------------------------------------------------------------------
At(p, at)   == proc[p].at = at
Goes(p, at) == proc' = [proc EXCEPT ![p].at = at]
One(token)  == IF token = "valid" THEN 1 ELSE 0

\* The request ends, well or badly; a token it has issued and not handed to a
\* container stays valid.
Ends(p) == proc' = [proc EXCEPT ![p] = Idle] /\ stray' = stray + One(proc[p].token)

\* What becomes of the container's network when the gateway is removed or stops.
WithoutGateway == [container EXCEPT !.net = IF @ = "direct" THEN @ ELSE "lost"]
GatewayStopped ==
  [container EXCEPT !.net = IF @ = "gateway" /\ container.at # "exited" THEN "stale" ELSE @]

\* A route is called: it finds the session first.
Begin(p, op, via) ==
  /\ proc[p].op = "none" /\ row.there
  /\ proc' = [proc EXCEPT ![p] =
       [Idle EXCEPT !.op = op, !.via = via,
                    !.at = CASE op = "ensure" -> "inspect"
                             [] op = "stop"   -> "stop"
                             [] op = "pause"  -> "pause"
                             [] op \in {"change", "preset"} -> "resolve"
                             [] op = "delete" -> "remove"]]
  /\ overlapped' = (overlapped \/ \E q \in Process : proc[q].op # "none")
  /\ UNCHANGED <<row, disabled, container, gateway, stray, kept, settled>>

\* A call raises (database, runtime worker), or the backend dies.
Abandon(p) ==
  /\ proc[p].op # "none" /\ Ends(p)
  /\ UNCHANGED <<row, disabled, container, gateway, history>>
-----------------------------------------------------------------------------
(* ensure_container_running does what its first look at the container asks for. *)

Inspect(p) ==
  /\ At(p, "inspect")
  /\ CASE container.at = "running" -> Ends(p)
       [] container.at = "paused"  -> Goes(p, "unpause") /\ UNCHANGED stray
       [] container.at = "none"    -> Goes(p, "new") /\ UNCHANGED stray
       [] container.at = "exited"  -> Goes(p, "restart") /\ UNCHANGED stray
  /\ UNCHANGED <<row, disabled, container, gateway, history>>

\* _session_container_params: a disabled profile is refused, also for a
\* container that is there; a session that has gone has no profile.
Params(p, next) ==
  /\ IF row.there /\ row.egress \in disabled THEN Ends(p) ELSE Goes(p, next) /\ UNCHANGED stray
  /\ UNCHANGED <<row, disabled, container, gateway, history>>

ParamsOfNew(p)     == At(p, "new") /\ Params(p, "revoke")
ParamsOfRestart(p) == At(p, "restart") /\ Params(p, "gateway start")

\* start_session_egress_gateway: a gateway that is not there is passed over.
StartGateway(p) ==
  /\ At(p, "gateway start")
  /\ \/ /\ gateway' = IF gateway = "exited" THEN "running" ELSE gateway
        /\ Goes(p, "start") /\ UNCHANGED stray
     \/ gateway = "exited" /\ UNCHANGED gateway /\ Ends(p)
  /\ UNCHANGED <<row, disabled, container, history>>

\* docker start joins the gateway's namespace, which has to be there.
StartContainer(p) ==
  /\ At(p, "start")
  /\ Ends(p)
  /\ \/ /\ container.at # "none"
        /\ container.net # "direct" => container.net # "lost" /\ gateway = "running"
        /\ container' = [container EXCEPT !.at = IF @ = "exited" THEN "running" ELSE @,
                          !.net = IF container.at = "exited" /\ @ = "stale" THEN "gateway" ELSE @]
     \/ UNCHANGED container
  /\ UNCHANGED <<row, disabled, gateway, history>>

Unpause(p) ==
  /\ At(p, "unpause")
  /\ Ends(p)
  /\ container' \in {container} \cup
       (IF container.at = "paused" THEN {[container EXCEPT !.at = "running"]} ELSE {})
  /\ UNCHANGED <<row, disabled, gateway, history>>

Pause(p) ==
  /\ At(p, "pause")
  /\ Ends(p)
  /\ container' \in {container} \cup
       (IF container.at = "running" THEN {[container EXCEPT !.at = "paused"]} ELSE {})
  /\ UNCHANGED <<row, disabled, gateway, history>>
-----------------------------------------------------------------------------
(* change_network_egress, and the routes that re-create the container as it *)
(* is: a new preset or fingerprint.  The row is written before anything is  *)
(* stopped.                                                                 *)

Recreates(p) == proc[p].op \in {"change", "preset"}

Resolve(p) ==
  LET via == IF proc[p].op = "change" THEN proc[p].via ELSE row.egress IN
  /\ At(p, "resolve")
  /\ IF ~row.there \/ via \in disabled THEN Ends(p) ELSE Goes(p, "update") /\ UNCHANGED stray
  /\ UNCHANGED <<row, disabled, container, gateway, history>>

Update(p) ==
  /\ At(p, "update")
  /\ row' = IF row.there /\ proc[p].op = "change" THEN [row EXCEPT !.egress = proc[p].via] ELSE row
  /\ settled' = (settled /\ proc[p].op # "change")
  /\ Goes(p, "stop")
  /\ UNCHANGED <<disabled, container, gateway, stray, overlapped, kept>>

\* stop_container.  recreate_container goes on when it fails.
StopContainer(p) ==
  /\ At(p, "stop")
  /\ \/ /\ container.at # "none" /\ container' = [container EXCEPT !.at = "exited"]
        /\ Goes(p, "gateway stop") /\ UNCHANGED stray
     \/ /\ IF Recreates(p) THEN Goes(p, "remove") /\ UNCHANGED stray ELSE Ends(p)
        /\ UNCHANGED container
  /\ UNCHANGED <<row, disabled, gateway, history>>

StopGateway(p) ==
  /\ At(p, "gateway stop")
  /\ \/ gateway' = "exited" /\ gateway = "running" /\ container' = GatewayStopped
     \/ UNCHANGED <<gateway, container>>
  /\ IF Recreates(p) THEN Goes(p, "remove") /\ UNCHANGED stray ELSE Ends(p)
  /\ UNCHANGED <<row, disabled, history>>

\* remove_container: a docker rm that fails is logged, and what follows is done.
Remove(p) ==
  /\ At(p, "remove")
  /\ \/ /\ container' = NoContainer /\ stray' = stray + One(container.token)
        /\ UNCHANGED kept
     \/ kept' = (kept \/ container # NoContainer) /\ UNCHANGED <<container, stray>>
  /\ Goes(p, "gateway remove")
  /\ UNCHANGED <<row, disabled, gateway, overlapped, settled>>

RemoveGateway(p) ==
  /\ At(p, "gateway remove")
  /\ gateway' = "none" /\ container' = WithoutGateway
  /\ Goes(p, IF Recreates(p) THEN "revoke" ELSE "drop row")
  /\ UNCHANGED <<row, disabled, stray, history>>

Revoked(token) == IF token = "valid" THEN "revoked" ELSE token

\* Every token of the session is revoked, or deleted with it.
RevokeAll(requests) ==
  /\ container' = [container EXCEPT !.token = Revoked(@)]
  /\ proc' = [q \in Process |-> [requests[q] EXCEPT !.token = Revoked(@)]]
  /\ stray' = 0

\* DELETE FROM sessions, and the last step of delete_session.
DropRow(p) ==
  /\ At(p, "drop row")
  /\ row' = [row EXCEPT !.there = FALSE]
  /\ RevokeAll([proc EXCEPT ![p] = Idle])
  /\ UNCHANGED <<disabled, gateway, history>>
-----------------------------------------------------------------------------
(* create_container. *)

\* Mutant of Revoke: the tokens issued before stay valid.
RevokeNothing(p) ==
  /\ At(p, "revoke")
  /\ \/ Goes(p, "insert")
     \/ Goes(p, "read")
  /\ UNCHANGED <<row, disabled, container, gateway, stray, history>>

\* issue_file_capture_token revokes the session's tokens and inserts a new
\* one, which a missing session refuses.  Any failure leaves the container
\* without a token.
Revoke(p) ==
  /\ At(p, "revoke")
  /\ \/ row.there /\ RevokeAll([proc EXCEPT ![p].at = "insert"])
     \/ Goes(p, "read") /\ UNCHANGED <<container, stray>>
  /\ UNCHANGED <<row, disabled, gateway, history>>

Insert(p) ==
  /\ At(p, "insert")
  /\ \/ row.there /\ proc' = [proc EXCEPT ![p].at = "read", ![p].token = "valid"]
     \/ Goes(p, "read")
  /\ UNCHANGED <<row, disabled, container, gateway, stray, history>>

\* Mutant of Read: the profile is the one the request came with.
ReadNothing(p) ==
  /\ At(p, "read") /\ Goes(p, IF proc[p].via = Direct THEN "run" ELSE "prepare")
  /\ UNCHANGED <<row, disabled, container, gateway, stray, history>>

\* _session_egress_row: the profile the row names now.
Read(p) ==
  LET via == IF row.there THEN row.egress ELSE Direct IN
  /\ At(p, "read")
  /\ IF via \in disabled THEN Ends(p)
     ELSE /\ proc' = [proc EXCEPT ![p].via = via, ![p].at = IF via = Direct THEN "run" ELSE "prepare"]
          /\ UNCHANGED stray
  /\ UNCHANGED <<row, disabled, container, gateway, history>>

\* prepare_session_egress_gateway removes the gateway there is, whoever made it.
Prepare(p) ==
  /\ At(p, "prepare")
  /\ gateway' = "none" /\ container' = WithoutGateway
  /\ Goes(p, "gateway run")
  /\ UNCHANGED <<row, disabled, stray, history>>

RunGateway(p) ==
  /\ At(p, "gateway run")
  /\ \/ gateway = "none" /\ gateway' = "running" /\ Goes(p, "gateway wait") /\ UNCHANGED stray
     \/ gateway' \in {gateway, IF gateway = "none" THEN "exited" ELSE gateway} /\ Ends(p)
  /\ UNCHANGED <<row, disabled, container, history>>

\* _wait_session_gateway_ready: one that does not get ready is removed.
AwaitGateway(p) ==
  /\ At(p, "gateway wait")
  /\ \/ gateway = "running" /\ Goes(p, "run")
     \/ Goes(p, "undo")
  /\ UNCHANGED <<row, disabled, container, gateway, stray, history>>

\* docker run.  One that fails may leave a container which has not started.
Run(p) ==
  LET made == [at |-> "running", via |-> proc[p].via, token |-> proc[p].token,
               net |-> IF proc[p].via = Direct THEN "direct" ELSE "gateway"]
      able == container.at = "none" /\ (proc[p].via = Direct \/ gateway = "running")
      handed == [proc EXCEPT ![p].token = "none", ![p].at = "undo"] IN
  /\ At(p, "run")
  /\ \/ /\ able /\ container' = made
        /\ proc' = [proc EXCEPT ![p] = Idle] /\ UNCHANGED stray
        /\ settled' = (settled \/ proc[p].op = "change")
     \/ /\ able /\ container' = [made EXCEPT !.at = "exited"]
        /\ IF proc[p].via = Direct THEN proc' = [proc EXCEPT ![p] = Idle] ELSE proc' = handed
        /\ UNCHANGED <<stray, settled>>
     \/ /\ IF proc[p].via = Direct THEN Ends(p) ELSE Goes(p, "undo") /\ UNCHANGED stray
        /\ UNCHANGED <<container, settled>>
  /\ UNCHANGED <<row, disabled, gateway, overlapped, kept>>

\* A creation that has failed removes the session's gateway, whoever made it.
\* For a port that is taken it tries again, with the profile it has read.
Undo(p) ==
  /\ At(p, "undo")
  /\ gateway' = "none" /\ container' = WithoutGateway
  /\ \/ Ends(p)
     \/ Goes(p, "prepare") /\ UNCHANGED stray
  /\ UNCHANGED <<row, disabled, history>>
-----------------------------------------------------------------------------
(* The containers end on their own; an administrator disables a profile or  *)
(* enables it again.                                                        *)

ContainerExits ==
  /\ container.at \in {"running", "paused"}
  /\ container' = [container EXCEPT !.at = "exited"]
  /\ UNCHANGED <<row, disabled, gateway, stray, proc, history>>

GatewayExits ==
  /\ gateway = "running"
  /\ gateway' = "exited" /\ container' = GatewayStopped
  /\ UNCHANGED <<row, disabled, stray, proc, history>>

SetDisabled(e) ==
  /\ disabled' = (disabled \cup {e}) \ (disabled \cap {e})
  /\ UNCHANGED <<row, container, gateway, stray, proc, history>>
-----------------------------------------------------------------------------
Creating(p) ==
  \/ Revoke(p) \/ Insert(p) \/ Read(p) \/ Prepare(p)
  \/ RunGateway(p) \/ AwaitGateway(p) \/ Run(p) \/ Undo(p)

Next ==
  \/ \E p \in Process :
       \/ \E op \in {"ensure", "stop", "pause", "preset", "delete"} : Begin(p, op, Direct)
       \/ \E e \in Route : Begin(p, "change", e)
       \/ Abandon(p)
       \/ Inspect(p) \/ ParamsOfNew(p) \/ ParamsOfRestart(p)
       \/ StartGateway(p) \/ StartContainer(p) \/ Unpause(p) \/ Pause(p)
       \/ Resolve(p) \/ Update(p) \/ StopContainer(p) \/ StopGateway(p)
       \/ Remove(p) \/ RemoveGateway(p) \/ DropRow(p)
       \/ Creating(p)
  \/ ContainerExits \/ GatewayExits
  \/ \E e \in Profile : SetDisabled(e)

Spec == Init /\ [][Next]_vars
-----------------------------------------------------------------------------
Holding == {p \in Process : proc[p].token = "valid"}

\* Creations that overlap leave a session with several valid tokens, but never
\* with more than there were requests at once: tokens do not pile up, whatever
\* fails, is abandoned or removes its container without revoking.
TokensBounded == stray + One(container.token) + Cardinality(Holding) <= Cardinality(Process)

\* Once a session is gone no token is valid for it, although a request that
\* outlives the session may go on to issue one and to start a container.
NoTokenAfterDeletion == ~row.there => stray = 0 /\ container.token # "valid" /\ Holding = {}

\* As long as requests come one at a time and Docker removes what it is told
\* to, the token in the container is never revoked behind its back, whatever
\* else fails half way: files can be captured.
CaptureTokenLives == ~overlapped /\ ~kept => container.token # "revoked" \/ ~row.there

\* What holds of the tokens of a session, whatever its requests do.
TokenSafety == TokensBounded /\ NoTokenAfterDeletion /\ CaptureTokenLives

\* "Route sessions through Direct, Clash, or OpenVPN exits, changeable at any
\* time" (README.md): once a change has answered ok, and until the next, the
\* container uses the exit its row names, through stops, restarts, presets,
\* exits of either container and requests that fail, as long as requests come
\* one at a time.
RoutedAsAsked ==
  row.there /\ settled /\ ~overlapped => container.at = "none" \/ container.via = row.egress

\* Why (the inductive invariant): a request that is about to insert a token counts
\* as if it held one; and a request that is alone finds the container, its token
\* and the exit in the row as it has left them.
Claims  == {p \in Process : proc[p].token = "valid" \/ At(p, "insert")}
Leaving == {"new", "gateway remove", "revoke"}
Made    == {"prepare", "gateway run", "gateway wait", "run", "undo"}

ClaimsBounded == stray + One(container.token) + Cardinality(Claims) <= Cardinality(Process)
IdleRequests  == \A p \in Process : proc[p].op = "none" => proc[p] = Idle
IssuedLate    == \A p \in Process : proc[p].token # "none" => proc[p].at \in Made \cup {"read"}
NothingOfNone == container.at = "none" => container = NoContainer

Alone ==
  ~overlapped => \A p, q \in Process : proc[p].op # "none" /\ proc[q].op # "none" => p = q
AloneLeaves ==
  ~overlapped /\ ~kept => \A p \in Process : proc[p].at \in Leaving => container.at = "none"
AloneCreates ==
  ~overlapped /\ row.there =>
    \A p \in Process : /\ proc[p].token # "revoked"
                       /\ proc[p].at \in Made => proc[p].via = row.egress

IInv ==
  /\ TypeOK /\ TokenSafety /\ RoutedAsAsked
  /\ ClaimsBounded /\ IdleRequests /\ IssuedLate /\ NothingOfNone
  /\ Alone /\ AloneLeaves /\ AloneCreates

\* "Delete session and container" (cli_template.sh): when the session has gone
\* and nothing is under way, there is no container.
DeletedHasNoContainer ==
  ~row.there /\ (\A p \in Process : proc[p].op = "none") => container.at = "none"
=============================================================================
