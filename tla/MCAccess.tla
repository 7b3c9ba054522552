------------------------------ MODULE MCAccess ------------------------------
(***************************************************************************)
(* Who gets in: accounts and their tenants (Accounts) and the tokens of    *)
(* their logins (RememberTokens). They are checked one at a time: "which"  *)
(* says which of them moves; the first rests in its initial state when it  *)
(* does not, the variables of the others are off.                          *)
(***************************************************************************)
EXTENDS Accounts, TLC

CONSTANTS p1, p2, s1, s2, e1, e2, Days, MaxClock, MaxRows, MaxFaults

ASSUME RememberDays == Days \in Nat

VARIABLES which, rememberRows, active, clock, cookie, tabRequest, faults,
          began, raced, failed, ended

Remember == INSTANCE RememberTokens WITH
  Call <- Process, rows <- rememberRows, request <- tabRequest,
  overlapped <- raced

Only(tag) == which = tag
Off == "off"

Others == <<rememberRows, active, clock, cookie, tabRequest, faults,
            began, raced, failed, ended>>

MCInit ==
  \/ /\ Only("accounts") /\ Init
     /\ rememberRows = Off /\ active = Off /\ clock = Off /\ cookie = Off /\
        tabRequest = Off /\ faults = Off /\ began = Off /\
        raced = Off /\ failed = Off /\ ended = Off
  \/ /\ Only("remember") /\ Remember!Init /\ Init

MCNext ==
  \/ Only("accounts") /\ Next /\ UNCHANGED <<which, Others>>
  \/ Only("remember") /\ Remember!Next /\ UNCHANGED <<which, vars>>

MCSpec == MCInit /\ [][MCNext]_<<which, vars, Others>>
-----------------------------------------------------------------------------
\* RememberTokens: one good token a login, none after it.
LoginsHold == Only("remember") => Remember!LoginsHold

Symmetry == Permutations(Process) \cup Permutations(Slug) \cup Permutations(Email)
=============================================================================
