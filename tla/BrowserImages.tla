---------------------------- MODULE BrowserImages ----------------------------
(***************************************************************************)
(* The Docker images sessions run: backend/app/routes/browser_images.py,   *)
(* and how a session gets its image, in routes/sessions.py (at creation)   *)
(* and in container.py (at the start of its container).                    *)
(*                                                                         *)
(* A build is a row, then a task of its own that pulls, builds, asks the   *)
(* image for its Chrome's version and records it; requests, tasks,         *)
(* deletions and sessions interleave between any two statements, and the   *)
(* backend may stop, which forgets the tasks and keeps the rows.           *)
(*                                                                         *)
(* Abstracted: one tenant; logs, names, progress and the registry's tags.  *)
(* A version is a pair of its major and the rest, 0 where nothing is said  *)
(* of the rest ("120", or a version that was not detected, "120.0.0.0").   *)
(***************************************************************************)
EXTENDS Naturals

CONSTANTS
  Admin,     \* requests of administrators under way at once
  Session,   \* sessions
  Version,   \* versions of Chrome, pairs <<major, rest>>
  MaxImage   \* rows there ever are

Image == 1..MaxImage
Stock == 0                \* CLOAK_BROWSER_IMAGE_NAME, or no image given
NoContainer == MaxImage + 1
NoVersion == <<0, 0>>
Runtime == {"standard", "cloak"}

VARIABLES
  rows,      \* browser_images; ids in the order of created_at
  docker,    \* the images Docker has
  builds,    \* the tasks _do_build and _do_build_cloak_runtime
  requests,  \* build_image and delete_image under way
  sessions,  \* rows of sessions, with the image of each one's container
  overtaken  \* history: sessions that were made after a deletion had counted

vars == <<rows, docker, builds, requests, sessions, overtaken>>
-----------------------------------------------------------------------------
NoRow == [status |-> "none", runtime |-> "standard", base |-> NoVersion, version |-> NoVersion]
NoTask == [at |-> "none", version |-> NoVersion]
Idle == [at |-> "idle", image |-> Stock, base |-> NoVersion, runtime |-> "standard", version |-> NoVersion,
         seen |-> {}]
NoSession == [at |-> "none", runtime |-> "standard", image |-> Stock, version |-> NoVersion,
              next |-> Stock, container |-> NoContainer]

\* A version that was not detected or is not said is NoVersion or ends in 0.
Known == Version \cup {NoVersion} \cup {<<v[1], 0>> : v \in Version}

Row == [status : {"none", "pending", "building", "ready", "failed", "deleted"},
        runtime : Runtime, base : Known, version : Known]
Building == [at : {"none", "start", "build", "record", "rmi"}, version : Known]
Request == [at : {"idle", "base", "insert", "count", "drop", "rmi"}, image : Image \cup {Stock},
            base : Known, runtime : Runtime, version : Known, seen : SUBSET Session]
SessionRow == [at : {"none", "resolved", "made", "start"}, runtime : Runtime,
               image : Image \cup {Stock}, version : Known, next : Image \cup {Stock},
               container : Image \cup {Stock, NoContainer}]

TypeOK ==
  /\ rows \in [Image -> Row]
  /\ docker \subseteq Image \cup {Stock}
  /\ builds \in [Image -> Building]
  /\ requests \in [Admin -> Request]
  /\ sessions \in [Session -> SessionRow]
  /\ overtaken \subseteq Session

Init ==
  /\ rows = [i \in Image |-> NoRow] /\ docker \in {{}, {Stock}}
  /\ builds = [i \in Image |-> NoTask]
  /\ requests = [a \in Admin |-> Idle]
  /\ sessions = [s \in Session |-> NoSession] /\ overtaken = {}
-----------------------------------------------------------------------------
Of(runtime) == {i \in Image : rows[i].runtime = runtime}
Ready(runtime) == {i \in Of(runtime) : rows[i].status = "ready"}
ReadyAs(v) == {i \in Ready("standard") : rows[i].version = v}
\* ORDER BY created_at DESC LIMIT 1, and ORDER BY chrome_major DESC before it.
Newest(S) == CHOOSE i \in S : \A j \in S : j <= i
NewestMajor(S) ==
  Newest({i \in S : \A j \in S : rows[j].base[1] <= rows[i].base[1]})
NewestOr(S, i) == IF S = {} THEN i ELSE Newest(S)

\* Statements on the row of i do nothing when it has been deleted.
Set(i, status, v) ==
  rows' = IF rows[i].status = "deleted" THEN rows
          ELSE [rows EXCEPT ![i].status = status, ![i].version = v]
Keep(i, status) == Set(i, status, rows[i].version)

InUse(i) == \E s \in Session : sessions[s].container = i
\* docker rmi, whose failure is ignored: it refuses an image with a container.
Rmi(i) == docker' = IF InUse(i) THEN docker ELSE docker \ {i}
-----------------------------------------------------------------------------
\* _resolve_browser_image: for a version, a major or nothing (NoVersion).
Resolved(ask) ==
  IF ask = NoVersion THEN NewestMajor(Ready("standard"))
  ELSE IF ask[2] # 0 /\ ReadyAs(ask) # {} THEN Newest(ReadyAs(ask))
  ELSE Newest({i \in Ready("standard") : rows[i].base[1] = ask[1]})
CanResolve(ask) ==
  \/ \E i \in Ready("standard") : ask = NoVersion \/ rows[i].base[1] = ask[1]
  \/ ReadyAs(ask) # {}

\* _resolve_session_image (routes/sessions.py).
SessionImage(s) ==
  LET x == sessions[s] IN
  IF x.image # Stock /\ rows[x.image].status = "ready" THEN x.image
  ELSE IF x.runtime = "cloak" THEN NewestOr(Ready("cloak"), Stock)
  ELSE IF x.version # NoVersion /\ ReadyAs(x.version) # {} THEN Newest(ReadyAs(x.version))
  ELSE IF Ready("standard") # {} THEN NewestMajor(Ready("standard"))
  ELSE Stock

\* _session_container_params (container.py): the image of the version, where
\* there is one, takes the place of the image of the id.
ContainerImage(s) ==
  LET x == sessions[s]
      byId == IF x.image # Stock /\ rows[x.image].status = "ready" THEN x.image ELSE Stock
      known == IF x.runtime = "cloak" /\ byId = Stock THEN NewestOr(Ready("cloak"), Stock)
               ELSE IF x.version # NoVersion THEN NewestOr(ReadyAs(x.version), byId)
               ELSE byId
  IN IF x.runtime = "standard" /\ known = Stock /\ Ready("standard") # {}
     THEN NewestMajor(Ready("standard")) ELSE known
-----------------------------------------------------------------------------
\* build_image: is a full version ready already?
AskBuild(a, ask) ==
  /\ requests[a].at = "idle"
  /\ ask[2] # 0 => ReadyAs(ask) = {}
  /\ requests' = [requests EXCEPT ![a].at = "base", ![a].base = ask]
  /\ UNCHANGED <<rows, docker, builds, sessions, overtaken>>

\* Is its base being built?
CheckBase(a) ==
  LET busy == {i \in Of("standard") : rows[i].status \in {"pending", "building"}
                                      /\ rows[i].base = requests[a].base} IN
  /\ requests[a].at = "base"
  /\ requests' = [requests EXCEPT ![a] = IF busy = {} THEN [@ EXCEPT !.at = "insert"] ELSE Idle]
  /\ UNCHANGED <<rows, docker, builds, sessions, overtaken>>

Insert(runtime, base) ==
  \E i \in Image :
    /\ rows[i].status = "none" /\ \A j \in Image : rows[j].status = "none" => i <= j
    /\ rows' = [rows EXCEPT ![i] = [status |-> "pending", runtime |-> runtime, base |-> base,
                                    version |-> NoVersion]]
    /\ builds' = [builds EXCEPT ![i].at = "start"]

InsertBuild(a) ==
  /\ requests[a].at = "insert"
  /\ Insert("standard", requests[a].base)
  /\ requests' = [requests EXCEPT ![a] = Idle]
  /\ UNCHANGED <<docker, sessions, overtaken>>

\* _start_cloak_runtime_build.
AskCloak(a) ==
  /\ requests[a].at = "idle"
  /\ Insert("cloak", NoVersion)
  /\ UNCHANGED <<docker, requests, sessions, overtaken>>
-----------------------------------------------------------------------------
Task(i, at) == builds' = [builds EXCEPT ![i].at = at]
End(i) == builds' = [builds EXCEPT ![i] = NoTask]

StartBuild(i) ==
  /\ builds[i].at = "start"
  /\ Keep(i, "building") /\ Task(i, "build")
  /\ UNCHANGED <<docker, requests, sessions, overtaken>>

\* docker build succeeds, and the image says which version it has: rest 0 when
\* it does not say.
Build(i, v) ==
  /\ builds[i].at = "build"
  /\ IF rows[i].runtime = "cloak" THEN v = NoVersion ELSE v # NoVersion
  /\ v[2] = 0 => v[1] = rows[i].base[1]
  /\ docker' = docker \cup {i}
  /\ builds' = [builds EXCEPT ![i] = [at |-> "record", version |-> v]]
  /\ UNCHANGED <<rows, requests, sessions, overtaken>>

BuildFails(i) ==
  /\ builds[i].at = "build"
  /\ Keep(i, "failed") /\ End(i)
  /\ UNCHANGED <<docker, requests, sessions, overtaken>>

\* Mutant of Duplicates: looks among the builds of its own base only.
DuplicatesOfBase(i) == {j \in ReadyAs(builds[i].version) \ {i} : rows[j].base = rows[i].base}

\* The ready images of the version that was found.
Duplicates(i) == ReadyAs(builds[i].version) \ {i}

\* The version is of another major; or the transaction under the advisory lock
\* of the version, and docker rmi after it when the version is there already.
Record(i) ==
  LET v == builds[i].version
      cloak == rows[i].runtime = "cloak" IN
  /\ builds[i].at = "record"
  /\ IF ~cloak /\ (v[1] # rows[i].base[1] \/ Duplicates(i) # {})
     THEN Keep(i, "failed") /\ Task(i, "rmi")
     ELSE Set(i, "ready", v) /\ End(i)
  /\ UNCHANGED <<docker, requests, sessions, overtaken>>

DropBuilt(i) ==
  /\ builds[i].at = "rmi"
  /\ Rmi(i) /\ End(i)
  /\ UNCHANGED <<rows, requests, sessions, overtaken>>
-----------------------------------------------------------------------------
Made == {s \in Session : sessions[s].at \in {"made", "start"}}

\* delete_image: the row is read (CLOAK_BROWSER_IMAGE_NAME has none); without a
\* version nothing is counted.
Delete(a, i) ==
  LET counts == i = Stock \/ rows[i].runtime = "cloak" \/ rows[i].version # NoVersion IN
  /\ requests[a].at = "idle"
  /\ i # Stock => rows[i].status \notin {"none", "deleted"}
  /\ requests' = [requests EXCEPT ![a] =
       [Idle EXCEPT !.at = IF counts THEN "count" ELSE "drop", !.image = i, !.seen = Made,
                    !.runtime = IF i = Stock THEN "cloak" ELSE rows[i].runtime,
                    !.version = IF i = Stock THEN NoVersion ELSE rows[i].version]]
  /\ UNCHANGED <<rows, docker, builds, sessions, overtaken>>

\* The sessions that stand in the way.
Users(a) ==
  LET r == requests[a] IN
  IF r.runtime = "cloak"
  THEN {s \in Made : sessions[s].image = r.image
                     /\ (r.image = Stock => sessions[s].runtime = "cloak")}
  ELSE {s \in Made : sessions[s].image = r.image \/ sessions[s].version = r.version}

Count(a) ==
  /\ requests[a].at = "count"
  /\ requests' = [requests EXCEPT ![a] =
       IF Users(a) # {} THEN Idle
       ELSE [@ EXCEPT !.at = IF requests[a].image = Stock THEN "rmi" ELSE "drop",
                      !.seen = Made]]
  /\ UNCHANGED <<rows, docker, builds, sessions, overtaken>>

Overtaken(a) ==
  overtaken \cup {s \in Session \ requests[a].seen : sessions[s].at # "none"
                                                    /\ sessions[s].image = requests[a].image}

DropRow(a) ==
  /\ requests[a].at = "drop"
  /\ rows' = [rows EXCEPT ![requests[a].image].status = "deleted"]
  /\ requests' = [requests EXCEPT ![a].at = "rmi"]
  /\ overtaken' = Overtaken(a)
  /\ UNCHANGED <<docker, builds, sessions>>

RmiDeleted(a) ==
  /\ requests[a].at = "rmi"
  /\ Rmi(requests[a].image)
  /\ requests' = [requests EXCEPT ![a] = Idle]
  /\ overtaken' = IF requests[a].image = Stock THEN Overtaken(a) ELSE overtaken
  /\ UNCHANGED <<rows, builds, sessions>>
-----------------------------------------------------------------------------
\* create_session resolves the image ...
ResolveStandard(s, ask) ==
  /\ sessions[s].at = "none" /\ CanResolve(ask)
  /\ sessions' = [sessions EXCEPT ![s] = [NoSession EXCEPT
       !.at = "resolved", !.image = Resolved(ask), !.version = rows[Resolved(ask)].version]]
  /\ overtaken' = overtaken \ {s}
  /\ UNCHANGED <<rows, docker, builds, requests>>

\* _resolve_cloak_image: a given image, or the newest, or the stock one.
ResolveCloak(s) ==
  /\ sessions[s].at = "none"
  /\ \E i \in Ready("cloak") \cup (docker \cap {Stock}) :
       sessions' = [sessions EXCEPT ![s] = [NoSession EXCEPT !.at = "resolved", !.runtime = "cloak",
                                                            !.image = i]]
  /\ overtaken' = overtaken \ {s}
  /\ UNCHANGED <<rows, docker, builds, requests>>

\* ... and inserts the row, after the statements on egress and fingerprint.
Create(s) ==
  /\ sessions[s].at = "resolved"
  /\ sessions' = [sessions EXCEPT ![s].at = "made"]
  /\ UNCHANGED <<rows, docker, builds, requests, overtaken>>

\* ensure_container_running: the image is looked up, then run.
Start(s) ==
  /\ sessions[s].at = "made" /\ sessions[s].container = NoContainer
  /\ sessions' = [sessions EXCEPT ![s].at = "start", ![s].next = ContainerImage(s)]
  /\ UNCHANGED <<rows, docker, builds, requests, overtaken>>

\* create_container raises where no image is known, docker run where it is gone.
Run(s) ==
  LET x == sessions[s] IN
  /\ x.at = "start"
  /\ sessions' = [sessions EXCEPT ![s].at = "made", ![s].next = Stock,
       ![s].container = IF x.next \in docker /\ (x.next = Stock => x.runtime = "cloak")
                        THEN x.next ELSE NoContainer]
  /\ UNCHANGED <<rows, docker, builds, requests, overtaken>>

\* A session made later under the name s is another one.
DeleteSession(s) ==
  /\ sessions[s].at = "made"
  /\ sessions' = [sessions EXCEPT ![s] = NoSession]
  /\ requests' = [a \in Admin |-> [requests[a] EXCEPT !.seen = @ \ {s}]]
  /\ UNCHANGED <<rows, docker, builds, overtaken>>

\* The backend stops and starts again.
Restart ==
  /\ builds' = [i \in Image |-> NoTask]
  /\ requests' = [a \in Admin |-> Idle]
  /\ sessions' = [s \in Session |-> IF sessions[s].at = "resolved" THEN NoSession
                                    ELSE IF sessions[s].at = "none" THEN NoSession
                                    ELSE [sessions[s] EXCEPT !.at = "made", !.next = Stock]]
  /\ UNCHANGED <<rows, docker, overtaken>>

Next ==
  \/ \E a \in Admin :
       \/ \E ask \in Version : AskBuild(a, ask)
       \/ \E i \in Image \cup {Stock} : Delete(a, i)
       \/ CheckBase(a) \/ InsertBuild(a) \/ AskCloak(a)
       \/ Count(a) \/ DropRow(a) \/ RmiDeleted(a)
  \/ \E i \in Image :
       \/ StartBuild(i) \/ BuildFails(i) \/ Record(i) \/ DropBuilt(i)
       \/ \E v \in Version \cup {NoVersion} \cup {<<rows[i].base[1], 0>>} : Build(i, v)
  \/ \E s \in Session :
       \/ \E ask \in Version \cup {NoVersion} : ResolveStandard(s, ask)
       \/ ResolveCloak(s) \/ Create(s) \/ Start(s) \/ Run(s) \/ DeleteSession(s)
  \/ Restart

Spec == Init /\ [][Next]_vars
-----------------------------------------------------------------------------
\* However builds of one version, asked for under different tags, interleave,
\* one of them at most is ready: what the advisory lock of _do_build is for.
OneReadyPerVersion ==
  \A i, j \in Ready("standard") : rows[i].version = rows[j].version => i = j

\* The two lookups of a session's image, in routes/sessions.py (the image its
\* network profile is declared for) and container.py (the image its container
\* is made from), are written apart and look in a different order: they find
\* the same image for every session, the ones whose image has gone included.
LookupsAgree == \A s \in Made : SessionImage(s) = ContainerImage(s)

\* A session that no deletion has overtaken while it was being made keeps the
\* image of the row it was made for: the row and the Docker image stay, and its
\* container runs it, whatever is built, deleted or restarted meanwhile. (One of
\* CLOAK_BROWSER_IMAGE_NAME keeps no id, and moves to the next runtime built.)
SessionKeepsItsImage ==
  \A s \in Made \ overtaken : sessions[s].image # Stock =>
    /\ ContainerImage(s) = sessions[s].image
    /\ sessions[s].image \in docker
    /\ sessions[s].container \in {NoContainer, sessions[s].image}

\* What holds of images, versions and the sessions that use them.
ImagesHold == OneReadyPerVersion /\ LookupsAgree /\ SessionKeepsItsImage
-----------------------------------------------------------------------------
(* The inductive invariant. *)

\* A row that a build still works on is not ready; the image of one that is ready,
\* or about to be, is in Docker; what was recorded is of the row's major.
RowsRight(i) ==
  /\ rows[i].status = "none" => builds[i].at = "none"
  /\ builds[i].at \in {"start", "build", "record"} => rows[i].status \in {"pending", "building", "deleted"}
  /\ builds[i].at = "rmi" => rows[i].status \in {"failed", "deleted"}
  /\ builds[i].at = "record" /\ rows[i].status # "deleted" => i \in docker
  /\ builds[i].at = "record" /\ rows[i].runtime = "standard" => builds[i].version # NoVersion
  /\ rows[i].status = "ready" => i \in docker
  /\ rows[i].status = "ready" /\ rows[i].runtime = "standard" =>
       rows[i].version # NoVersion /\ rows[i].version[1] = rows[i].base[1]

\* A deletion that has counted met no session of the image; one that has dropped
\* the row left it deleted.
DeletionRight(a) ==
  LET r == requests[a] IN
  /\ r.at = "drop" => /\ r.image # Stock
                      /\ \A s \in r.seen : s \in Made /\ sessions[s].image # r.image
  /\ r.at = "rmi" /\ r.image # Stock => rows[r.image].status = "deleted"

\* A session has the image and the version of a row that was ready, and still is
\* unless a deletion has overtaken the session.
SessionRight(s) ==
  LET x == sessions[s] IN
  x.at # "none" =>
    /\ x.runtime = "standard" => x.image # Stock
    /\ x.runtime = "cloak" => x.version = NoVersion
    /\ x.image # Stock =>
         /\ rows[x.image].status \in {"ready", "deleted"} /\ rows[x.image].runtime = x.runtime
         /\ x.runtime = "standard" => x.version = rows[x.image].version /\ x.version # NoVersion
         /\ s \notin overtaken =>
              /\ rows[x.image].status = "ready"
              /\ x.at = "start" => x.next = x.image
              /\ x.container \in {NoContainer, x.image}

IInv ==
  /\ TypeOK /\ OneReadyPerVersion
  /\ \A i \in Image : RowsRight(i)
  /\ \A a \in Admin : DeletionRight(a)
  /\ \A s \in Session : SessionRight(s)
=============================================================================
