----------------------------- MODULE NetworkEgress -----------------------------
(***************************************************************************)
(* One managed network profile (backend/app/routes/network_egress.py and   *)
(* network_egress.py): its row, the container that a check of it starts,    *)
(* and the sessions attached to it.                                        *)
(*                                                                         *)
(* Every request reads the row, runs Docker commands and writes the row     *)
(* from what it has read; nothing locks the profile meanwhile.  What a      *)
(* request leaves behind is only certain when it was clean: no other was   *)
(* under way while it ran, and Docker removed what it was told to.         *)
(*                                                                         *)
(* The profile is a Clash one: its container runs the configuration of the *)
(* row.  "unsupported" is one of the ways to be unhealthy.  Abstracted:    *)
(* names, credentials, addresses, and how a configuration is fetched.      *)
(***************************************************************************)
EXTENDS Naturals

CONSTANTS
  Process,  \* requests under way at once
  Session,  \* sessions that may attach
  Config    \* contents of a configuration

Keep   == "keep"    \* a field that an edit leaves out
Unread == "unread"  \* in the place of a configuration

VARIABLES
  profile,   \* the row of network_egress_profiles
  container, \* the managed container
  attached,  \* sessions whose row names the profile
  request,   \* requests under way
  edited,    \* history: the last edit of the configuration was clean
  barred     \* history: the last request to disable the profile was clean

vars == <<profile, container, attached, request, edited, barred>>
-----------------------------------------------------------------------------
Status == {"unchecked", "healthy", "unhealthy", "disabled"}
Row    == [there : BOOLEAN, config : Config \cup {Unread}, status : Status]
Op     == {"none", "edit", "check", "gateway", "delete", "attach"}
Body   == [config : Config \cup {Keep}, disabled : {"yes", "no", Keep}]

NoContainer == [at |-> "none", config |-> Unread]
NoBody == [config |-> Keep, disabled |-> Keep]
Blank  == [there |-> FALSE, config |-> Unread, status |-> "unchecked"]
Idle   == [op |-> "none", at |-> "idle", body |-> NoBody, seen |-> Blank,
           verdict |-> "unchecked", clean |-> TRUE]

Place   == {"idle", "read", "count", "inspect", "remove", "run", "note", "look", "conclude",
            "write", "drop"}
Request == [op : Op, at : Place, body : Body, seen : Row, verdict : Status, clean : BOOLEAN]
Managed == [at : {"none", "running", "exited"}, config : Config \cup {Unread}]

TypeOK ==
  /\ profile \in Row
  /\ container \in Managed
  /\ attached \subseteq Session
  /\ request \in [Process -> Request]
  /\ edited \in BOOLEAN /\ barred \in BOOLEAN

\* A profile as it is created, disabled or not.
Init ==
  /\ profile \in [there : {TRUE}, config : Config, status : {"unchecked", "disabled"}]
  /\ container = NoContainer
  /\ attached = {} /\ request = [p \in Process |-> Idle]
  /\ edited = TRUE /\ barred = TRUE
-----------------------------------------------------------------------------
At(p, op, at)  == request[p].op = op /\ request[p].at = at
Goes(p, at)    == request' = [request EXCEPT ![p].at = at]
Ends(p)        == request' = [request EXCEPT ![p] = Idle]
Busy           == {p \in Process : request[p].op # "none"}

\* A request begins, and is under way together with those that are.
Begin(p, op, body) ==
  /\ request[p].op = "none"
  /\ request' = [q \in Process |->
       IF q = p THEN [Idle EXCEPT !.op = op, !.at = "read", !.body = body, !.clean = (Busy = {})]
       ELSE [request[q] EXCEPT !.clean = @ /\ request[q].op = "none"]]
  /\ UNCHANGED <<profile, container, attached, edited, barred>>

\* A call raises, or the backend dies.
Abandon(p) ==
  /\ request[p].op # "none" /\ Ends(p)
  /\ UNCHANGED <<profile, container, attached, edited, barred>>

Changes(p)  == request[p].body.config # Keep
Disables(p) == request[p].body.disabled = "yes"

\* What follows fetch_egress_for_tenant; a disabled profile is neither checked
\* nor given to a session.
After(p) ==
  CASE request[p].op = "edit"   -> IF Changes(p) \/ Disables(p) THEN "remove" ELSE "write"
    [] request[p].op = "delete" -> "count"
    [] request[p].op = "check"  -> IF profile.status = "disabled" THEN "idle" ELSE "inspect"
    [] OTHER -> IF profile.status = "disabled" THEN "idle" ELSE "note"

\* A profile that is not there is an error.
Read(p) ==
  /\ request[p].at = "read"
  /\ IF ~profile.there \/ After(p) = "idle" THEN Ends(p)
     ELSE request' = [request EXCEPT ![p].at = After(p), ![p].seen = profile]
  /\ UNCHANGED <<profile, container, attached, edited, barred>>

\* docker rm -f, whose result nobody looks at.
Remove(p, next) ==
  /\ request[p].at = "remove"
  /\ \/ container' = NoContainer /\ Goes(p, next)
     \/ /\ container.at # "none" /\ UNCHANGED container
        /\ request' = [request EXCEPT ![p].at = next, ![p].clean = FALSE]
  /\ UNCHANGED <<profile, attached, edited, barred>>

\* update_egress_status, of a row that may have gone or been disabled meanwhile.
SetStatus(status) ==
  /\ profile' = IF profile.there THEN [profile EXCEPT !.status = status] ELSE profile
  /\ UNCHANGED <<container, attached, edited, barred>>
-----------------------------------------------------------------------------
(* update_network_egress. *)

\* Mutant of EditRemoves: only a new configuration removes the container.
EditRemovesForConfig(p) ==
  /\ request[p].op = "edit"
  /\ IF Changes(p) THEN Remove(p, "write")
     ELSE /\ request[p].at = "remove" /\ Goes(p, "write")
          /\ UNCHANGED <<profile, container, attached, edited, barred>>

EditRemoves(p) == request[p].op = "edit" /\ Remove(p, "write")

\* The status an edit writes: what it was asked for, what a new configuration
\* starts with, or what it has read.
StatusOfEdit(p) ==
  CASE request[p].body.disabled = "yes" -> "disabled"
    [] request[p].body.disabled = "no"  -> "unchecked"
    [] OTHER -> IF Changes(p) THEN "unchecked" ELSE request[p].seen.status

Write(p) ==
  /\ At(p, "edit", "write")
  /\ LET config == IF Changes(p) THEN request[p].body.config ELSE request[p].seen.config IN
     profile' = IF profile.there THEN [profile EXCEPT !.config = config, !.status = StatusOfEdit(p)]
                ELSE profile
  /\ edited' = IF Changes(p) THEN request[p].clean ELSE edited
  /\ barred' = IF Disables(p) THEN request[p].clean
               ELSE barred /\ (StatusOfEdit(p) = "disabled" => request[p].clean)
  /\ Ends(p)
  /\ UNCHANGED <<container, attached>>
-----------------------------------------------------------------------------
(* check_egress and ensure_managed_egress. *)

Inspect(p) ==
  /\ At(p, "check", "inspect")
  /\ Goes(p, IF container.at = "running" THEN "look" ELSE "remove")
  /\ UNCHANGED <<profile, container, attached, edited, barred>>

CheckRemoves(p) == request[p].op = "check" /\ Remove(p, "run")

\* docker run with the configuration that was read; a name in use is an error.
Run(p) ==
  /\ At(p, "check", "run")
  /\ \/ /\ container.at = "none"
        /\ container' = [at |-> "running", config |-> request[p].seen.config]
        /\ request' = [request EXCEPT ![p].at = "note", ![p].verdict = "healthy"]
     \/ /\ UNCHANGED container
        /\ request' = [request EXCEPT ![p].at = "note", ![p].verdict = "unhealthy"]
  /\ UNCHANGED <<profile, attached, edited, barred>>

Note(p) ==
  /\ At(p, "check", "note")
  /\ SetStatus(request[p].verdict)
  /\ Goes(p, IF request[p].verdict = "healthy" THEN "look" ELSE "conclude")

Look(p) ==
  /\ At(p, "check", "look")
  /\ request' = [request EXCEPT ![p].at = "conclude",
                   ![p].verdict = IF container.at = "running" THEN "healthy" ELSE "unhealthy"]
  /\ UNCHANGED <<profile, container, attached, edited, barred>>

Conclude(p) ==
  /\ At(p, "check", "conclude")
  /\ SetStatus(request[p].verdict) /\ Ends(p)

\* prepare_session_egress_gateway notes how the gateway of a session has done.
NoteGateway(p) ==
  /\ At(p, "gateway", "note")
  /\ \E status \in {"healthy", "unhealthy"} : SetStatus(status)
  /\ Ends(p)
-----------------------------------------------------------------------------
(* delete_network_egress, and the sessions that come and go. *)

Count(p) ==
  /\ At(p, "delete", "count")
  /\ IF attached # {} THEN Ends(p) ELSE Goes(p, "remove")
  /\ UNCHANGED <<profile, container, attached, edited, barred>>

DeletionRemoves(p) == request[p].op = "delete" /\ Remove(p, "drop")

\* The reference of sessions is ON DELETE SET NULL.
Drop(p) ==
  /\ At(p, "delete", "drop")
  /\ profile' = [profile EXCEPT !.there = FALSE] /\ attached' = {}
  /\ Ends(p)
  /\ UNCHANGED <<container, edited, barred>>

\* create_session and change_network_egress: the profile was there and enabled
\* when it was read; the reference refuses one that has gone.
Attach(p, s) ==
  /\ At(p, "attach", "note") /\ Ends(p)
  /\ attached' = IF profile.there THEN attached \cup {s} ELSE attached
  /\ UNCHANGED <<profile, container, edited, barred>>

\* The session is deleted, or changes to another profile.
Detach(s) ==
  /\ s \in attached /\ attached' = attached \ {s}
  /\ UNCHANGED <<profile, container, request, edited, barred>>

ContainerExits ==
  /\ container.at = "running" /\ container' = [container EXCEPT !.at = "exited"]
  /\ UNCHANGED <<profile, attached, request, edited, barred>>
-----------------------------------------------------------------------------
Next ==
  \/ \E p \in Process :
       \/ \E body \in Body : Begin(p, "edit", body)
       \/ \E op \in {"check", "gateway", "delete", "attach"} : Begin(p, op, NoBody)
       \/ Abandon(p) \/ Read(p)
       \/ EditRemoves(p) \/ Write(p)
       \/ Inspect(p) \/ CheckRemoves(p) \/ Run(p) \/ Note(p) \/ Look(p) \/ Conclude(p)
       \/ NoteGateway(p)
       \/ Count(p) \/ DeletionRemoves(p) \/ Drop(p)
       \/ \E s \in Session : Attach(p, s)
  \/ \E s \in Session : Detach(s)
  \/ ContainerExits

Spec == Init /\ [][Next]_vars
-----------------------------------------------------------------------------
\* After an edit of the configuration that was clean the container never runs
\* another one than the row's, whatever checks, renames and other requests
\* overlap afterwards or have overlapped before.
RunsItsConfig ==
  edited /\ profile.there /\ container.at = "running" => container.config = profile.config

\* A profile that a clean request has disabled runs no container: the checks
\* that follow do not start it again.
DisabledRunsNothing ==
  barred /\ profile.there /\ profile.status = "disabled" => container.at # "running"

\* What a clean request leaves behind is what the container runs.
ProfileGoverns == RunsItsConfig /\ DisabledRunsNothing

\* Whoever takes a disabled profile out of that status was asked to by an edit,
\* or has read the profile before it was disabled: a check, or the gateway of a
\* session, that finds it disabled leaves it so.
DisabledStep ==
  profile.there /\ profile.status = "disabled" /\ profile'.status # "disabled" =>
    \E p \in Process : /\ request[p].op # "none" /\ request'[p] # request[p]
                       /\ \/ request[p].seen.status # "disabled"
                          \/ request[p].body # NoBody
DisabledStays == [][DisabledStep]_vars

(* Why (the inductive invariant): a clean request is the only one under way, so *)
(* what it has read is still so and what it has removed has gone; and who goes *)
(* on after its reading has not found the profile disabled.                   *)
Began(p) == request[p].op # "none" /\ request[p].at # "read"
Clean(p) == request[p].op # "none" /\ request[p].clean

CleanIsAlone == \A p, q \in Process : Clean(p) /\ request[q].op # "none" => p = q
CleanRemoves ==
  \A p \in Process :
    Clean(p) /\ At(p, "edit", "write") /\ (Changes(p) \/ Disables(p)) => container.at = "none"
CleanReads ==
  \A p \in Process :
    Clean(p) /\ Began(p) /\ request[p].op = "edit" => request[p].seen.status = profile.status

ConfigCurrent ==
  edited /\ profile.there =>
    \A p \in Process : Began(p) => request[p].seen.config = profile.config
NothingChecked ==
  barred /\ profile.there /\ profile.status = "disabled" =>
    \A p \in Process : Began(p) => request[p].op # "check"

ReadEnabled ==
  \A p \in Process :
    /\ request[p].verdict # "disabled"
    /\ Began(p) /\ request[p].op \in {"check", "gateway"} => request[p].seen.status # "disabled"

IInv ==
  /\ TypeOK /\ ProfileGoverns
  /\ CleanIsAlone /\ CleanRemoves /\ CleanReads
  /\ ConfigCurrent /\ NothingChecked /\ ReadEnabled

\* "PATCH receives only the name for a rename. This leaves the configuration
\* [...] unchanged" (docs/network-egress-editing.md).
RenameKeepsConfig ==
  [][\A p \in Process :
       At(p, "edit", "write") /\ request[p].body = NoBody /\ request'[p].op = "none" /\ profile' # profile
         => profile'.config = profile.config]_vars
=============================================================================
