---------------------------- MODULE DeviceLease ----------------------------
(***************************************************************************)
(* What an exclusive device lease promises, with none of the machinery     *)
(* that keeps the promise (AgentDeviceLeases implements this module, see   *)
(* Abs there):                                                             *)
(*   - the device is free or held under one lease by one operator, with a  *)
(*     deadline that is at most MaxTtl away;                               *)
(*   - it is taken only when free or past the deadline, and put into other *)
(*     hands before the deadline only by a reclaim, which says so in how   *)
(*     the displaced lease ended;                                          *)
(*   - a lease lapses only after its deadline, and how it ended stays.     *)
(***************************************************************************)
EXTENDS Naturals

CONSTANTS
  Lease,     \* lease ids
  Operator,  \* the credentials that may operate the device
  MaxTtl,    \* MAX_LEASE_TTL_SECONDS
  Free       \* the device is held by nobody

VARIABLES
  clock,     \* the database server's clock
  held,      \* Free, or the lease the device is held under
  ended      \* how each lease ended, "no" if it did not

vars == <<clock, held, ended>>

Holding == [lease : Lease, by : Operator, until : Nat]
Endings == {"released", "reclaimed", "expired", "deleted"}

TypeOK ==
  /\ clock \in Nat
  /\ held \in Holding \cup {Free}
  /\ ended \in [Lease -> Endings \cup {"no"}]

Init ==
  /\ clock = 0
  /\ held = Free
  /\ ended = [l \in Lease |-> "no"]

\* A deadline granted now is at most MaxTtl away.
Grantable == 0 .. clock + MaxTtl

Elapsed == held # Free /\ held.until <= clock

Used(l) == ended[l] # "no" \/ (held # Free /\ held.lease = l)

End(ending) == ended' = [ended EXCEPT ![held.lease] = ending]

Hold(l, s, u) ==
  /\ ~Used(l)
  /\ u \in Grantable
  /\ held' = [lease |-> l, by |-> s, until |-> u]
  /\ UNCHANGED clock

Take(l, s, u) ==
  /\ Hold(l, s, u)
  /\ \/ held = Free /\ UNCHANGED ended
     \/ Elapsed /\ End("expired")

\* A reclaim displaces whoever holds the device.  One that comes just after the
\* holder's lease has lapsed may still put the lapse down to itself.
Reclaim(l, s, u) ==
  /\ Hold(l, s, u)
  /\ \/ held # Free /\ End("reclaimed")
     \/ \E m \in Lease : /\ held = Free
                         /\ ended[m] = "expired"
                         /\ ended' = [ended EXCEPT ![m] = "reclaimed"]

Extend(u) ==
  /\ held # Free
  /\ u \in Grantable
  /\ held' = [held EXCEPT !.until = u]
  /\ UNCHANGED <<clock, ended>>

Release == held # Free /\ End("released") /\ held' = Free /\ UNCHANGED clock

Lapse == Elapsed /\ End("expired") /\ held' = Free /\ UNCHANGED clock

\* The device itself is deleted.
Delete ==
  /\ held' = Free
  /\ ended' = [l \in Lease |-> IF Used(l) THEN "deleted" ELSE "no"]
  /\ UNCHANGED clock

Tick == clock' = clock + 1 /\ UNCHANGED <<held, ended>>

Next ==
  \/ \E l \in Lease, s \in Operator, u \in Grantable : Take(l, s, u) \/ Reclaim(l, s, u)
  \/ \E u \in Grantable : Extend(u)
  \/ Release \/ Lapse \/ Delete
  \/ Tick

Spec == Init /\ [][Next]_vars
=============================================================================
