-------------------------- MODULE MCViewerTickets ---------------------------
(***************************************************************************)
(* Viewers of a session: the tickets that admit them (ViewerTickets) and   *)
(* the filter that keeps the input of a view-only one from the browser     *)
(* (RfbViewFilter). They are checked one at a time: "which" says which of  *)
(* them moves; the first rests in its initial state when it does not, the  *)
(* variables of the others are off.                                        *)
(***************************************************************************)
EXTENDS ViewerTickets, TLC

CONSTANTS c1, c2, t1, l1, l2, owner, other, ownerUser, ownerToken, Kinds,
          Fillers, MaxLength

VARIABLES which, sent, arrived, pending, buffer, upstream

MCUserOf == [s \in Subject |-> owner]
MCInteractive == Subject \ {ownerToken}

(* The sequences of up to MaxLength messages; those of one sequence have   *)
(* the same filler, which reads as another message.                        *)
Items(type) ==
  CASE type = 2 -> {2}
    [] type = 6 -> {0, 5}
    [] type \in {150, 248} -> {9}
    [] OTHER -> {0}

Messages(filler) == UNION {[type : {t}, items : Items(t), filler : {filler}] : t \in Kinds}
MCStreams == UNION {[1 .. k -> Messages(f)] : k \in 1 .. MaxLength, f \in Fillers}

Filter == INSTANCE RfbViewFilter WITH Streams <- MCStreams

Only(tag) == which = tag
Off == "off"

Others == <<sent, arrived, pending, buffer, upstream>>

MCInit ==
  \/ /\ Only("tickets") /\ Init
     /\ sent = Off /\ arrived = Off /\ pending = Off /\ buffer = Off /\
        upstream = Off
  \/ /\ Only("filter") /\ Filter!Init /\ Init

MCNext ==
  \/ Only("tickets") /\ Next /\ UNCHANGED <<which, Others>>
  \/ Only("filter") /\ Filter!Next /\ UNCHANGED <<which, vars>>

MCSpec == MCInit /\ [][MCNext]_<<which, vars, Others>> /\ Fairness
-----------------------------------------------------------------------------
\* RfbViewFilter: the display messages pass, all of them and nothing else.
FilterHolds == Only("filter") => Filter!FilterHolds
=============================================================================
