-------------------------- MODULE MCSessionRuntime --------------------------
(***************************************************************************)
(* The container of a session: its commands, gateway and token             *)
(* (SessionRuntime) and the fingerprint profile that it is made with       *)
(* (FingerprintProfiles).  They are checked one at a time: "which" says    *)
(* which of them moves; the first rests in its initial state when it does  *)
(* not, the variables of the other are off.                                *)
(***************************************************************************)
EXTENDS SessionRuntime, TLC

CONSTANTS p1, p2, clash, i1, i2, Identity

VARIABLES which, fingerprint, browser, writes, sound

Profiles == INSTANCE FingerprintProfiles WITH
  Egress <- Profile, row <- fingerprint, container <- browser, proc <- writes

Only(tag) == which = tag
Off == "off"

Others == <<fingerprint, browser, writes, sound>>

MCInit ==
  \/ /\ Only("runtime") /\ Init
     /\ fingerprint = Off /\ browser = Off /\ writes = Off /\ sound = Off
  \/ Only("profiles") /\ Profiles!Init /\ Init /\ row.egress = Direct

MCNext ==
  \/ Only("runtime") /\ Next /\ UNCHANGED <<which, Others>>
  \/ Only("profiles") /\ Profiles!Next /\ UNCHANGED <<which, vars>>

MCSpec == MCInit /\ [][MCNext]_<<which, vars, Others>>
-----------------------------------------------------------------------------
\* FingerprintProfiles: the container, the row and what was observed agree.
ProfileHolds == Only("profiles") => Profiles!ProfileHolds

(* Bounds of the run: one token that nobody holds, Docker keeps a container *)
(* only while requests come one at a time, and of two requests at a time   *)
(* on a profile one, and only one, probes the network.                     *)
Bounded ==
  /\ Only("runtime") => stray <= 1 /\ ~(kept /\ overlapped)
  /\ Only("profiles") =>
       \A p, q \in Process : p # q /\ writes[p].op # "none" /\ writes[q].op # "none" =>
         (writes[p].op = "refresh" <=> writes[q].op # "refresh")

Symmetry == Permutations(Process) \cup Permutations(Identity)
=============================================================================
