------------------------- MODULE MCBrowserIdentity --------------------------
(***************************************************************************)
(* What a browser is and shows of itself: the image it runs                *)
(* (BrowserImages), the agent that installs the fingerprint's script in    *)
(* its pages (FingerprintAgent) and the pool that fingerprints are drawn   *)
(* from (FingerprintPool).  They are checked one at a time: "which" says   *)
(* which of them moves; the first rests in its initial state when it does  *)
(* not, the variables of the others are off.                               *)
(***************************************************************************)
EXTENDS FingerprintAgent, TLC

CONSTANTS p1, p2, a1, x1, early, late, Process, MaxEdits, MaxCrashes, Admin, Holder,
          MaxImage, Version

VARIABLES which, pool, seeded, poolRequest, edits, crashes, spoiled,
          rows, docker, builds, requests, sessions, overtaken

ASSUME MaxImageAssumption == MaxImage \in Nat
ASSUME VersionAssumption == Version \subseteq Nat \X Nat

\* For the run: of two majors, and one that does not say the rest.
Versions == {<<1, 0>>, <<1, 1>>, <<2, 1>>}

Pool == INSTANCE FingerprintPool WITH request <- poolRequest
Images == INSTANCE BrowserImages WITH Session <- Holder

Only(tag) == which = tag
Off == "off"

NotPool == <<rows, docker, builds, requests, sessions, overtaken>>
NotImages == <<pool, seeded, poolRequest, edits, crashes, spoiled>>
Others == <<pool, seeded, poolRequest, edits, crashes, spoiled,
            rows, docker, builds, requests, sessions, overtaken>>

MCInit ==
  \/ /\ Only("agent") /\ Init
     /\ pool = Off /\ seeded = Off /\ poolRequest = Off /\ edits = Off /\
        crashes = Off /\ spoiled = Off /\ rows = Off /\ docker = Off /\
        builds = Off /\ requests = Off /\ sessions = Off /\ overtaken = Off
  \/ /\ Only("pool") /\ Pool!Init /\ Init
     /\ rows = Off /\ docker = Off /\ builds = Off /\ requests = Off /\
        sessions = Off /\ overtaken = Off
  \/ /\ Only("images") /\ Images!Init /\ Init
     /\ pool = Off /\ seeded = Off /\ poolRequest = Off /\ edits = Off /\
        crashes = Off /\ spoiled = Off

MCNext ==
  \/ Only("agent") /\ Next /\ UNCHANGED <<which, Others>>
  \/ Only("pool") /\ Pool!Next /\ UNCHANGED <<which, vars, NotPool>>
  \/ Only("images") /\ Images!Next /\ UNCHANGED <<which, vars, NotImages>>

MCSpec == MCInit /\ [][MCNext]_<<which, vars, Others>>
-----------------------------------------------------------------------------
\* FingerprintPool: there is something to draw from, and a reset restores.
PoolHolds == Only("pool") => Pool!PoolHolds

\* BrowserImages: versions, lookups and sessions agree on the images.
ImagesHold == Only("images") => Images!ImagesHold

(* Bounds of the run: a page leaves its URL or a call or the connection     *)
(* fails, not both; the pool is edited or the backend stops, not both; of   *)
(* builds, an administrator's request and a session that gets its image,    *)
(* two at a time.                                                           *)
RunBounds ==
  /\ Only("agent") => faults = 0 \/ \A p \in Page : ~page[p].moved
  /\ Only("pool") => edits + crashes < 2
  /\ Only("images") => \/ \A i \in 1..MaxImage : builds[i].at = "none"
                       \/ \A a \in Admin : requests[a].at = "idle"
                       \/ \A s \in Holder : sessions[s].at \in {"none", "made"}

Symmetry == Permutations(Process)
=============================================================================
