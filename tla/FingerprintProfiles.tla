-------------------------- MODULE FingerprintProfiles --------------------------
(***************************************************************************)
(* The fingerprint profile of one session: the JSON in its row of          *)
(* sessions, and the copies its container has of it.                       *)
(*                                                                         *)
(* Six routes of backend/app/routes/sessions.py read the profile whole,    *)
(* change a part of it and write it back whole, some after minutes of      *)
(* probing or while the container is made anew; nothing locks the session. *)
(* A container gets the profile, its DNS servers and its network exit when *)
(* it is created (container.py); services/selenium-chrome/start-browser.sh *)
(* writes its files from that profile again at every start.                *)
(*                                                                         *)
(* Abstracted: of a profile, everything but its identity (user agent,      *)
(* hardware, ...), the DNS servers and the observation of its network, and *)
(* the warning about DNS; a container paused is one that runs; how an exit *)
(* is prepared is in SessionRuntime. Rows older than profiles, which have  *)
(* none, and Browser Lite sessions are left out.                           *)
(***************************************************************************)
EXTENDS Naturals

CONSTANTS
  Process,   \* requests under way at once
  Egress,    \* network profiles, each with a gateway of its own
  Identity   \* what generate_profile may make

Direct == "direct"
Exit == Egress \cup {Direct}
Nothing == "nothing"  \* not observed, or without a result
\* The DNS servers of the environment, or others (observed, or a user's).
Dns == {"declared", "other"}
Recreating == {"preset", "egress", "regenerate"}

VARIABLES
  row,        \* fingerprint_profile and network_egress_id
  container,  \* the browser's container
  proc,       \* requests
  sound       \* history: what no failed or overlapped request has disturbed since it was made anew

vars == <<row, container, proc, sound>>
-----------------------------------------------------------------------------
\* What an observation tells, of all that the services it asks say: which exit it
\* was made through, or nothing, when it is unresolved.
Observation == Exit \cup {Nothing}

Fingerprint == [id : Identity, dns : Dns, observed : Observation, warned : BOOLEAN]

\* What a container has of a profile; --dns is given to it at its creation.
Copy(profile) == [id |-> profile.id, dns |-> profile.dns]

\* declared_network_profile, attached: what was observed is gone.
Declared(profile) == [profile EXCEPT !.dns = "declared", !.observed = Nothing]

NewDns(profile, dns) ==
  [profile EXCEPT !.dns = dns, !.warned = @ \/ dns # profile.dns]

NoProfile == [id |-> "none", dns |-> "declared", observed |-> Nothing, warned |-> FALSE]
NoCopy == Copy(NoProfile)
NoContainer == [at |-> "none", made |-> NoCopy, files |-> "made", exit |-> Direct]
Idle == [op |-> "none", at |-> "idle", profile |-> NoProfile, made |-> NoCopy, exit |-> Direct,
         alone |-> TRUE]

Copies == {Copy(profile) : profile \in Fingerprint}

Row     == [profile : Fingerprint, exit : Exit]
Browser == {NoContainer} \cup
  [at : {"running", "exited"}, made : Copies, files : {"made", "synced"}, exit : Exit]
Op      == Recreating \cup {"none", "refresh", "dns", "start"}
Place   == {"idle", "write", "remove", "create", "inspect", "params", "restart", "probe", "sync"}
Request == [op : Op, at : Place, profile : Fingerprint \cup {NoProfile}, made : Copies \cup {NoCopy},
            exit : Exit, alone : BOOLEAN]

TypeOK ==
  /\ row \in Row /\ container \in Browser
  /\ proc \in [Process -> Request]
  /\ sound \subseteq {"container", "observation"}

\* create_session has attached the declared network.
Init ==
  /\ \E i \in Identity, e \in Exit :
       row = [profile |-> [id |-> i, dns |-> "declared", observed |-> Nothing, warned |-> FALSE],
              exit |-> e]
  /\ container = NoContainer
  /\ proc = [p \in Process |-> Idle]
  /\ sound = {"container", "observation"}
-----------------------------------------------------------------------------
At(p, at) == proc[p].at = at
Goes(p, at) == proc' = [proc EXCEPT ![p].at = at]

\* The handler reads the row.
Begin(p, op, exit) ==
  LET others == {q \in Process \ {p} : proc[q].op # "none"}
      first == CASE op \in {"refresh", "start"} -> "inspect" [] OTHER -> "write"
      read == CASE op = "egress" -> Declared(row.profile)
                [] op \in {"preset", "refresh", "dns"} -> row.profile
                [] OTHER -> NoProfile
  IN /\ proc[p].op = "none"
     /\ proc' = [q \in Process |->
          IF q = p THEN [op |-> op, at |-> first, profile |-> read, made |-> NoCopy, exit |-> exit,
                         alone |-> others = {} /\ op \in Recreating]
          ELSE [proc[q] EXCEPT !.alone = FALSE]]
     /\ sound' = IF others = {} THEN sound ELSE {}
     /\ UNCHANGED <<row, container>>

\* The request fails: a tenant's quota, Docker, the database; or the backend dies.
Abandon(p) ==
  /\ proc[p].op # "none"
  /\ proc' = [proc EXCEPT ![p] = Idle] /\ sound' = {}
  /\ UNCHANGED <<row, container>>

\* A request that has made the container anew ends.
Ends(p, anew) ==
  /\ proc' = [proc EXCEPT ![p] = Idle]
  /\ sound' = IF proc[p].alone THEN sound \cup anew ELSE sound
-----------------------------------------------------------------------------
Saves(p, profile, next) ==
  /\ row' = [profile |-> profile, exit |-> IF proc[p].op = "egress" THEN proc[p].exit ELSE row.exit]
  /\ proc' = [proc EXCEPT ![p] = [Idle EXCEPT !.op = proc[p].op, !.at = next, !.made = IF next = "sync" THEN NoCopy ELSE Copy(profile),
                                            !.alone = proc[p].alone]]
  /\ UNCHANGED <<container, sound>>

\* change_device_preset, change_network_egress.
WriteAndRecreate(p) ==
  /\ At(p, "write") /\ proc[p].op \in {"preset", "egress"}
  /\ Saves(p, proc[p].profile, "remove")

\* regenerate_fingerprint.
WriteNew(p) ==
  /\ At(p, "write") /\ proc[p].op = "regenerate"
  /\ \E i \in Identity :
       Saves(p, [id |-> i, dns |-> "declared", observed |-> Nothing, warned |-> FALSE], "remove")

\* refresh_network_profile.
WriteObserved(p) ==
  /\ At(p, "write") /\ proc[p].op = "refresh"
  /\ Saves(p, proc[p].profile, "sync")

\* Mutant of WriteDns: without the warning.
WriteDnsSilently(p) ==
  /\ At(p, "write") /\ proc[p].op = "dns"
  /\ \E dns \in Dns : Saves(p, [proc[p].profile EXCEPT !.dns = dns], "sync")

\* sync_observed_network_profile, override_network_profile: the servers of the
\* observation or of the user, which may be the ones it has. (The first wants an
\* observation; all it does the second may do.)
WriteDns(p) ==
  /\ At(p, "write") /\ proc[p].op = "dns"
  /\ \E dns \in Dns : Saves(p, NewDns(proc[p].profile, dns), "sync")

\* sync_fingerprint_profile_to_container, whose failure is only logged.
Sync(p) ==
  /\ At(p, "sync")
  /\ \/ /\ container.at = "running"
        /\ container' = [container EXCEPT !.files = "synced"]
        /\ Ends(p, {})
     \/ Ends(p, {}) /\ UNCHANGED container
  /\ UNCHANGED row
-----------------------------------------------------------------------------
\* recreate_container: stop and remove ...
Remove(p) ==
  /\ At(p, "remove")
  /\ container' = NoContainer
  /\ Goes(p, "create")
  /\ UNCHANGED <<row, sound>>

\* ... and create_container, which reads the session's exit itself. A container
\* that is there, under the same name, is an error.
Create(p) ==
  /\ At(p, "create")
  /\ IF container.at # "none" THEN Abandon(p)
     ELSE /\ container' = [at |-> "running", made |-> proc[p].made, files |-> "made",
                           exit |-> row.exit]
          /\ IF proc[p].op = "refresh" THEN Goes(p, "probe") /\ UNCHANGED sound
             ELSE Ends(p, IF proc[p].op \in {"egress", "regenerate"} THEN {"container", "observation"}
                          ELSE {"container"})
          /\ UNCHANGED row

\* ensure_container_running: is the container there?
Inspect(p) ==
  /\ At(p, "inspect")
  /\ CASE container.at = "none" -> Goes(p, "params") /\ UNCHANGED sound
       [] container.at = "exited" -> Goes(p, "restart") /\ UNCHANGED sound
       [] container.at = "running" ->
            IF proc[p].op = "refresh" THEN Goes(p, "probe") /\ UNCHANGED sound ELSE Ends(p, {})
  /\ UNCHANGED <<row, container>>

\* _session_container_params: a new container gets the profile of now.
Params(p) ==
  /\ At(p, "params")
  /\ proc' = [proc EXCEPT ![p].at = "create", ![p].made = Copy(row.profile)]
  /\ UNCHANGED <<row, container, sound>>

\* docker start: start-browser.sh writes the files of the profile it was made with.
Restart(p) ==
  /\ At(p, "restart")
  /\ IF container.at = "none" THEN Abandon(p)
     ELSE /\ container' = [container EXCEPT !.at = "running",
                             !.files = IF container.at = "exited" THEN "made" ELSE @]
          /\ IF proc[p].op = "refresh" THEN Goes(p, "probe") /\ UNCHANGED sound ELSE Ends(p, {})
          /\ UNCHANGED row

\* The probe runs in a hidden page of the container's browser, and its fallback in
\* the container: both go through the exit that was given to the container.
Answers == {Nothing} \cup (IF container.at = "running" THEN {container.exit} ELSE {})

\* resolve_network_via_browser.
Probe(p) ==
  /\ At(p, "probe")
  /\ \E seen \in Answers :
       proc' = [proc EXCEPT ![p].at = "write", ![p].profile.observed = seen, ![p].made = NoCopy]
  /\ UNCHANGED <<row, container, sound>>

\* stop_session_container, or the container ends on its own.
Stops ==
  /\ container.at = "running"
  /\ container' = [container EXCEPT !.at = "exited"]
  /\ UNCHANGED <<row, proc, sound>>

\* Chrome ends, and supervisord starts it again.
BrowserRestarts ==
  /\ container.at = "running"
  /\ container' = [container EXCEPT !.files = "made"]
  /\ UNCHANGED <<row, proc, sound>>

Next ==
  \/ \E p \in Process :
       \/ \E op \in {"preset", "regenerate", "refresh", "dns", "start"} :
            Begin(p, op, Direct)
       \/ \E e \in Exit : Begin(p, "egress", e)
       \/ Abandon(p)
       \/ WriteAndRecreate(p) \/ WriteNew(p) \/ WriteObserved(p) \/ WriteDns(p) \/ Sync(p)
       \/ Remove(p) \/ Create(p) \/ Inspect(p) \/ Params(p) \/ Restart(p) \/ Probe(p)
  \/ Stops \/ BrowserRestarts

Spec == Init /\ [][Next]_vars
-----------------------------------------------------------------------------
There == container.at # "none"
Quiet == \A p \in Process : proc[p].op = "none"

\* A re-creation (preset, exit, identity) that no other request overlaps repairs
\* whatever went wrong before it: from then on the container has the identity
\* and the exit of the row, its DNS servers too or the row says that they
\* differ.
RecreationRepairs ==
  "container" \in sound /\ Quiet /\ There =>
    /\ container.made.id = row.profile.id /\ container.exit = row.exit
    /\ container.exit = Direct /\ container.made.dns # row.profile.dns => row.profile.warned

\* What is shown as the observed network was observed through the session's own
\* exit: a change of exit or of identity drops it, and probes of a container
\* that was not made anew for its exit come only after a request that failed.
ObservedThroughItsExit ==
  "observation" \in sound /\ Quiet /\ row.profile.observed # Nothing => row.profile.observed = row.exit

\* The container, the row and what was observed of them agree.
ProfileHolds == RecreationRepairs /\ ObservedThroughItsExit

(* Why (the inductive invariant): a request that no other has overlapped still *)
(* has of the row what it read there, and makes the container from what the row *)
(* is by then.                                                               *)
Steps(op) ==
  CASE op = "none"        -> {"idle"}
    [] op \in Recreating  -> {"write", "remove", "create"}
    [] op = "refresh"     -> {"inspect", "params", "create", "restart", "probe", "write", "sync"}
    [] op = "dns"         -> {"write", "sync"}
    [] op = "start"       -> {"inspect", "params", "create", "restart"}

\* p is between its reading of the profile and its writing.
HasRead(p) ==
  \/ proc[p].op \in {"preset", "egress", "dns"} /\ At(p, "write")
  \/ proc[p].op = "refresh" /\ ~At(p, "sync")
Makes(p) == proc[p].at \in {"remove", "create"}
Undisturbed(p) == proc[p].op # "none" /\ (proc[p].alone \/ sound # {})

SoundMeans ==
  /\ "observation" \in sound => "container" \in sound
  /\ \A p, q \in Process : Undisturbed(p) /\ proc[q].op # "none" => p = q
  /\ \A p \in Process : Undisturbed(p) => (proc[p].alone <=> proc[p].op \in Recreating)

ReadIsRow(p) ==
  /\ HasRead(p) /\ proc[p].op # "egress" /\ sound # {} =>
       /\ [proc[p].profile EXCEPT !.observed = Nothing] = [row.profile EXCEPT !.observed = Nothing]
       /\ proc[p].op # "refresh" => proc[p].profile.observed = row.profile.observed
  /\ HasRead(p) /\ proc[p].op = "egress" => proc[p].profile.observed = Nothing
  /\ proc[p].op = "refresh" /\ At(p, "write") /\ "observation" \in sound =>
       proc[p].profile.observed \in {Nothing, row.exit}

MadeFromRow(p) ==
  Undisturbed(p) /\ Makes(p) =>
    /\ proc[p].made = Copy(row.profile)
    /\ proc[p].op \in {"egress", "regenerate"} => row.profile.observed = Nothing

Fits(p) ==
  /\ proc[p].at \in Steps(proc[p].op)
  /\ HasRead(p) => proc[p].profile \in Fingerprint
  /\ Makes(p) => proc[p].made \in Copies
  /\ ReadIsRow(p) /\ MadeFromRow(p)

Matches ==
  /\ container.made.id = row.profile.id /\ container.exit = row.exit
  /\ container.exit = Direct /\ container.made.dns # row.profile.dns => row.profile.warned
Repaired ==
  "container" \in sound /\ (\A p \in Process : proc[p].op \notin Recreating) /\ There => Matches
Observed == "observation" \in sound => row.profile.observed \in {Nothing, row.exit}

IInv == TypeOK /\ SoundMeans /\ (\A p \in Process : Fits(p)) /\ Repaired /\ Observed

\* "restart this session to apply it" (the warning dns_recreate_required, and
\* frontend/src/locales/en.ts:354): a container that is stopped and started has
\* the DNS servers of the profile.
RestartAppliesDns ==
  [][\A p \in Process :
       At(p, "restart") /\ container'.at = "running" /\ container.at = "exited" /\ container.exit = Direct
         => container'.made.dns = row.profile.dns]_vars
=============================================================================
