------------------------- MODULE MCSessionResources -------------------------
(***************************************************************************)
(* What sessions have and share: the files captured in a session           *)
(* (SessionFiles) and the network profile it may use (NetworkEgress).      *)
(* They are checked one at a time: "which" says which of them moves; the   *)
(* first rests in its initial state when it does not, the variables of the *)
(* other are off.                                                          *)
(***************************************************************************)
EXTENDS SessionFiles, TLC

CONSTANTS d1, s1, s2, x1, c1, c2, Session, Config

VARIABLES which, profile, container, attached, request, edited, barred

Egress == INSTANCE NetworkEgress WITH Process <- Slot

Only(tag) == which = tag
Off == "off"

Others == <<profile, container, attached, request, edited, barred>>

MCInit ==
  \/ /\ Only("files") /\ Init
     /\ profile = Off /\ container = Off /\ attached = Off /\ request = Off /\
        edited = Off /\ barred = Off
  \/ Only("egress") /\ Egress!Init /\ Init

MCNext ==
  \/ Only("files") /\ Next /\ UNCHANGED <<which, Others>>
  \/ Only("egress") /\ Egress!Next /\ UNCHANGED <<which, vars>>

MCSpec == MCInit /\ [][MCNext]_<<which, vars, Others>>
-----------------------------------------------------------------------------
\* NetworkEgress: the container of a profile runs what its row says.
ProfileGoverns == Only("egress") => Egress!ProfileGoverns

\* NetworkEgress: nothing re-enables a profile behind the back of the one who
\* disabled it.
DisabledStays == [][Only("egress") => Egress!DisabledStep]_<<which, profile, request>>

(* Bounds of the run: two at a time of the saves, the deletion of a file    *)
(* and the end of the session; a network profile that is gone, of which    *)
(* nothing is promised, is not followed any further.                       *)
Bounded ==
  /\ Only("files") =>
       Cardinality({s \in Slot : save[s].at # "free"})
         + (IF deletion.at # "idle" THEN 1 ELSE 0) + (IF purge.at # "idle" THEN 1 ELSE 0) <= 2
  /\ Only("egress") => profile.there

\* Slots are the requests of NetworkEgress, too.
Symmetry == Permutations(Slot) \cup Permutations(Config)
=============================================================================
