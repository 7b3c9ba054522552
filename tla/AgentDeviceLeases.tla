------------------------- MODULE AgentDeviceLeases -------------------------
(***************************************************************************)
(* The lease service of backend/app/agent_devices.py for one device (a     *)
(* browser session): operators acquire, renew, release and reclaim the     *)
(* exclusive lease, run browser actions under it, and the runtime's        *)
(* heartbeats expire it.  Devices share no row, so one is enough.          *)
(*                                                                         *)
(* What PostgreSQL gives the code is modelled as the code uses it:         *)
(*   - the operator calls run in one transaction that first takes the      *)
(*     session row FOR UPDATE: `lock' holds that row;                      *)
(*   - NOW() is the time the transaction BEGAN, before the wait for the    *)
(*     row: the field now.  The new deadline is computed by the            *)
(*     application even earlier: the field expires;                       *)
(*   - a raise inside `async with conn.transaction()' rolls everything     *)
(*     back, audit rows and expiries included (RejectInTx);                *)
(*   - begin_control_action and record_runtime_action call                 *)
(*     _expire_active_leases with no transaction and no row lock, each     *)
(*     statement commits on its own (Heartbeat, MarkExpired,               *)
(*     AuditExpired).                                                      *)
(*                                                                         *)
(* Abstracted: tenants, lease modes, evidence and the wording of audit     *)
(* rows; the capping of NULL deadlines, which column expires_at has not    *)
(* admitted since migration 0021; the columns no later query of these      *)
(* operations reads (updated_at survives as the CHECK evaluated when it    *)
(* is written).  The writes that follow the last read of a transaction     *)
(* are one step: until COMMIT the others see the old rows or wait.         *)
(***************************************************************************)
EXTENDS Naturals, FiniteSets

CONSTANTS
  Req,          \* request slots: HTTP calls in flight at the same time
  Lease,        \* lease ids (bound: leases ever inserted)
  Subject,      \* credentials: "user:<id>" or "token:<id>"
  User,         \* user accounts
  UserOf,       \* the account of each credential
  Interactive,  \* the credentials of the form "user:<id>"
  Admin,        \* accounts with role admin or superadmin
  Owner,        \* sessions.user_id of the device
  Ops,          \* the operations clients submit in this instance
  MaxTtl,       \* MAX_LEASE_TTL_SECONDS
  MaxClock,     \* bound on the clock
  NoReq, NoLease, Free

ControlOps == {"reserve_device", "renew_lease", "release_device", "force_reclaim"}
Inserting  == {"reserve_device", "force_reclaim"}

ASSUME ReqAssumption     == NoReq \notin Req
ASSUME LeaseAssumption   == NoLease \notin Lease
ASSUME SubjectAssumption == /\ UserOf \in [Subject -> User]
                            /\ Interactive \subseteq Subject
ASSUME OwnerAssumption   == Admin \subseteq User /\ Owner \in User
ASSUME OpsAssumption     == Ops \subseteq ControlOps \cup {"browser_action", "heartbeat"}
ASSUME BoundAssumption   == MaxTtl \in Nat \ {0} /\ MaxClock \in Nat
ASSUME FreeAssumption    == Free \notin [lease : Lease, by : Subject, until : Nat]

VARIABLES
  clock,         \* the database server's clock
  exists,        \* the session row has not been deleted
  lock,          \* the request whose transaction holds the session row
  lease,         \* agent_device_leases
  expiryAudits,  \* committed lease_expired rows of each lease
  req,           \* the calls in flight
  recorded       \* the calls whose own audit row is committed

vars == <<clock, exists, lock, lease, expiryAudits, req, recorded>>
-----------------------------------------------------------------------------
(* The table and the predicates the queries and the policy are made of.    *)

Statuses == {"unused", "active", "released", "reclaimed", "expired", "deleted"}

NoDeadline == 0
LeaseRow == [status : Statuses, by : Subject \cup {NoReq}, expires : Nat]
Unused   == [status |-> "unused", by |-> NoReq, expires |-> NoDeadline]

Active     == {l \in Lease : lease[l].status = "active"}
Elapsed(t) == {l \in Active : lease[l].expires <= t}
Current(t) == {l \in Active : lease[l].expires > t}

\* _operator_subject / _lease_matches_actor: a token of the account stands in
\* for the account's own interactive lease, not the other way round.
Matches(l, s) ==
  LET holder == lease[l].by
  IN  \/ holder = s
      \/ holder \in Interactive /\ UserOf[holder] = UserOf[s]

CanManage(s) == UserOf[s] \in Admin \cup {Owner}

\* _session_for_user: a member is shown only sessions of their own.
CanSee(s) == UserOf[s] \notin Admin => UserOf[s] = Owner

\* Migration 0021: CHECK (expires_at <= updated_at + 30 minutes).
TtlCheck(expires, updated) == expires <= updated + MaxTtl

\* The visibility query joins the lease that is active at its own NOW().
DeviceOccupied == Current(clock) # {}
-----------------------------------------------------------------------------
(* The calls in flight.                                                    *)

Phases == {"idle", "arrived", "waiting", "locked", "chosen", "refused",
           "acting", "applied", "selected", "marked", "replied"}

Outcomes == {"none", "succeeded", "failed", "not_found", "device_occupied",
             "lease_invalid", "lease_required", "operator_mismatch",
             "insufficient_permissions", "check_violation"}

Request ==
  [pc      : Phases,
   op      : ControlOps \cup {"browser_action", "heartbeat", "none"},
   by      : Subject \cup {NoReq},
   target  : Lease \cup {NoLease},
   expires : Nat,          \* normalized_expires, computed before the transaction
   now     : Nat,          \* NOW() of the transaction
   seen    : SUBSET Lease, \* expired_rows
   outcome : Outcomes,
   claimed : BOOLEAN]      \* the reply carries an audit_event_id

IdleRequest ==
  [pc |-> "idle", op |-> "none", by |-> NoReq, target |-> NoLease,
   expires |-> NoDeadline, now |-> 0, seen |-> {}, outcome |-> "none",
   claimed |-> FALSE]

At(r, phase) == req[r].pc = phase

\* Mutant of Lapsing: a lease is let live for one more tick.
LapsingStrict(r, t) == {l \in Active : req[r].seen # {} /\ lease[l].expires < t}

\* _expire_active_leases: the UPDATE runs only when the SELECT found a row.
Lapsing(r, t) == IF req[r].seen = {} THEN {} ELSE Elapsed(t)

SetStatus(ls, status, table) ==
  [l \in Lease |-> IF l \in ls THEN [table[l] EXCEPT !.status = status] ELSE table[l]]

\* One lease_expired row for every row the SELECT returned.
WithAudits(ls) == [l \in Lease |-> expiryAudits[l] + IF l \in ls THEN 1 ELSE 0]

NewLease(r) == [status |-> "active", by |-> req[r].by, expires |-> req[r].expires]

\* The bound on lease ids: every pending insert finds a fresh one.
Inserters == {r \in Req : req[r].op \in Inserting /\ req[r].pc \notin {"idle", "replied"}}
FreshLeases == {l \in Lease : lease[l].status = "unused"}

Init ==
  /\ clock = 0
  /\ exists = TRUE
  /\ lock = NoReq
  /\ lease = [l \in Lease |-> Unused]
  /\ expiryAudits = [l \in Lease |-> 0]
  /\ req = [r \in Req |-> IdleRequest]
  /\ recorded = {}
-----------------------------------------------------------------------------
(* A call arrives, begins its transaction and takes the session row.       *)

\* Mutant of Submission: the cap on the deadline is off by one.
SubmissionUncapped(op, s, l, ttl) ==
  [IdleRequest EXCEPT !.pc = "arrived", !.op = op, !.by = s, !.target = l,
                      !.expires = IF ttl = 0 THEN NoDeadline ELSE clock + ttl + 1]

Submission(op, s, l, ttl) ==
  [IdleRequest EXCEPT !.pc = "arrived", !.op = op, !.by = s, !.target = l,
                      !.expires = IF ttl = 0 THEN NoDeadline ELSE clock + ttl]

\* A client names a lease by an id the service has given out, and asks for a
\* deadline as a TTL or an instant, at most MaxTtl ahead.
Targets(op) ==
  IF op \in {"renew_lease", "release_device"} THEN Lease \ FreshLeases ELSE {NoLease}
Ttls(op) == IF op \in Inserting \cup {"renew_lease"} THEN 1 .. MaxTtl ELSE {0}

Submit(r) ==
  /\ At(r, "idle")
  /\ \E op \in Ops \ {"heartbeat"}, s \in Subject : \E l \in Targets(op), ttl \in Ttls(op) :
       /\ op \in Inserting => Cardinality(Inserters) < Cardinality(FreshLeases)
       /\ req' = [req EXCEPT ![r] = Submission(op, s, l, ttl)]
  /\ UNCHANGED <<clock, exists, lock, lease, expiryAudits, recorded>>

\* BEGIN: NOW() stands still from here on.
Begin(r) ==
  /\ At(r, "arrived")
  /\ req' = [req EXCEPT ![r] = [@ EXCEPT !.pc = "waiting", !.now = clock]]
  /\ UNCHANGED <<clock, exists, lock, lease, expiryAudits, recorded>>

\* SELECT ... FOR UPDATE of the session row, then the SELECT of the elapsed leases.
Lock(r) ==
  /\ At(r, "waiting")
  /\ lock = NoReq
  /\ exists
  /\ CanSee(req[r].by)
  /\ lock' = r
  /\ req' = [req EXCEPT ![r] = [@ EXCEPT !.pc = "locked", !.seen = Elapsed(req[r].now)]]
  /\ UNCHANGED <<clock, exists, lease, expiryAudits, recorded>>

Reply(outcome, claimed) ==
  [IdleRequest EXCEPT !.pc = "replied", !.outcome = outcome, !.claimed = claimed]

\* 404: the session is gone, or is not the member's own.
NotFound(r) ==
  /\ At(r, "waiting")
  /\ lock = NoReq
  /\ ~(exists /\ CanSee(req[r].by))
  /\ req' = [req EXCEPT ![r] = Reply("not_found", FALSE)]
  /\ UNCHANGED <<clock, exists, lock, lease, expiryAudits, recorded>>
-----------------------------------------------------------------------------
(* The body of a transaction: what it decides, and COMMIT or ROLLBACK.     *)

InTx(r, op) == lock = r /\ req[r].op = op

\* Mutant of ReserveVerdict: the holder's own lease is no conflict.
ReserveVerdictOwn(r) ==
  IF \A l \in Current(req[r].now) : Matches(l, req[r].by) THEN "succeeded" ELSE "device_occupied"

ReserveVerdict(r) ==
  IF Current(req[r].now) # {} THEN "device_occupied" ELSE "succeeded"

\* renew_lease and release_lease check alike; release rewrites updated_at with
\* NOW(), and the CHECK compares it with the deadline a renewal left behind.
TargetVerdict(r) ==
  LET l == req[r].target
  IN  CASE l \notin Active \ Lapsing(r, req[r].now) -> "lease_invalid"
        [] l \in Active \ Lapsing(r, req[r].now)
             /\ ~Matches(l, req[r].by) /\ ~CanManage(req[r].by) -> "operator_mismatch"
        [] OTHER -> IF /\ req[r].op = "release_device"
                       /\ ~TtlCheck(lease[l].expires, req[r].now)
                    THEN "check_violation" ELSE "succeeded"

ReclaimVerdict(r) ==
  CASE ~CanManage(req[r].by) -> "insufficient_permissions"
    [] /\ CanManage(req[r].by)
       /\ At(r, "chosen")
       /\ req[r].target # NoLease
       /\ ~TtlCheck(lease[req[r].target].expires, req[r].now) -> "check_violation"
    [] OTHER -> "succeeded"

ActionVerdict(r) ==
  CASE Current(req[r].now) = {} -> "lease_required"
    [] \E l \in Current(req[r].now) : Matches(l, req[r].by) -> "succeeded"
    [] OTHER -> "operator_mismatch"

Verdict(r) ==
  CASE req[r].op = "reserve_device" -> ReserveVerdict(r)
    [] req[r].op \in {"renew_lease", "release_device"} -> TargetVerdict(r)
    [] req[r].op = "force_reclaim" -> ReclaimVerdict(r)
    [] OTHER -> ActionVerdict(r)

\* The expiries of this transaction and its other writes take effect together
\* with the audit rows of the expired leases.
Commit(r, table) ==
  /\ lock' = NoReq
  /\ lease' = table
  /\ expiryAudits' = WithAudits(req[r].seen)
  /\ UNCHANGED <<clock, exists>>

\* A successful control call replies with the audit row of its own transaction.
CommitControl(r, table) ==
  /\ Commit(r, table)
  /\ req' = [req EXCEPT ![r] = Reply("succeeded", TRUE)]
  /\ recorded' = recorded \cup {r}

Expired(r) == SetStatus(Lapsing(r, req[r].now), "expired", lease)

Acquire(r) ==
  /\ InTx(r, "reserve_device")
  /\ Verdict(r) = "succeeded"
  /\ \E l \in FreshLeases : CommitControl(r, [Expired(r) EXCEPT ![l] = NewLease(r)])

Renew(r) ==
  /\ InTx(r, "renew_lease")
  /\ Verdict(r) = "succeeded"
  /\ CommitControl(r, [Expired(r) EXCEPT ![req[r].target] = [@ EXCEPT !.expires = req[r].expires]])

Release(r) ==
  /\ InTx(r, "release_device")
  /\ Verdict(r) = "succeeded"
  /\ CommitControl(r, [Expired(r) EXCEPT ![req[r].target] = [@ EXCEPT !.status = "released"]])

\* reclaim_device reads the active lease without locking it ...
ChooseVictim(r) ==
  /\ InTx(r, "force_reclaim")
  /\ At(r, "locked")
  /\ Verdict(r) = "succeeded"
  /\ \E l \in IF Current(req[r].now) = {} THEN {NoLease} ELSE Current(req[r].now) :
       req' = [req EXCEPT ![r] = [@ EXCEPT !.pc = "chosen", !.target = l]]
  /\ UNCHANGED <<clock, exists, lock, lease, expiryAudits, recorded>>

\* Mutant of Reclaim: the displaced lease is left as it is.
ReclaimKeepsVictim(r) ==
  /\ InTx(r, "force_reclaim")
  /\ At(r, "chosen")
  /\ Verdict(r) = "succeeded"
  /\ \E l \in FreshLeases : CommitControl(r, [Expired(r) EXCEPT ![l] = NewLease(r)])

\* ... and overwrites its status by id, whatever it is by then.
Reclaim(r) ==
  /\ InTx(r, "force_reclaim")
  /\ At(r, "chosen")
  /\ Verdict(r) = "succeeded"
  /\ \E l \in FreshLeases :
       CommitControl(r, [SetStatus({req[r].target}, "reclaimed", Expired(r))
                          EXCEPT ![l] = NewLease(r)])

\* require_active_lease: the transaction ends, and the row is free again,
\* before the browser is touched.
RequireLease(r) ==
  /\ InTx(r, "browser_action")
  /\ Verdict(r) = "succeeded"
  /\ \E l \in Current(req[r].now) :
       req' = [req EXCEPT ![r] = [IdleRequest EXCEPT !.pc = "acting", !.by = req[r].by,
                                                     !.op = "browser_action", !.target = l]]
  /\ Commit(r, Expired(r))
  /\ UNCHANGED recorded

\* Mutants of RejectInTx: the expiry audits survive the rollback; the
\* transaction is left open.
RejectKeepsAudits(r) ==
  /\ lock = r
  /\ Verdict(r) # "succeeded"
  /\ lock' = NoReq
  /\ req' = [req EXCEPT ![r] = Reply(Verdict(r), FALSE)]
  /\ expiryAudits' = WithAudits(req[r].seen)
  /\ UNCHANGED <<clock, exists, lease, recorded>>

RejectLeavesRowLocked(r) ==
  /\ lock = r
  /\ req[r].pc \in {"locked", "chosen"}
  /\ Verdict(r) # "succeeded"
  /\ req' = [req EXCEPT ![r] = Reply(Verdict(r), FALSE)]
  /\ UNCHANGED <<clock, exists, lock, lease, expiryAudits, recorded>>

\* A rejection raises inside the transaction: the expiries and the audit row it
\* inserted are rolled back, yet a control call replies with that row's id.
\* A failed CHECK is an internal error and claims nothing.
RejectInTx(r) ==
  /\ lock = r
  /\ Verdict(r) # "succeeded"
  /\ lock' = NoReq
  /\ req' = [req EXCEPT ![r] =
       IF req[r].op \in ControlOps
       THEN Reply(Verdict(r), Verdict(r) # "check_violation")
       ELSE [Reply(Verdict(r), FALSE) EXCEPT !.pc = "refused"]]
  /\ UNCHANGED <<clock, exists, lease, expiryAudits, recorded>>
-----------------------------------------------------------------------------
(* A governed browser action, after its lease was checked.                 *)

\* begin_compatible_action records the rejection on a connection of its own.
RecordRejection(r) ==
  /\ At(r, "refused")
  /\ req' = [req EXCEPT ![r] = [@ EXCEPT !.pc = "replied", !.claimed = TRUE]]
  /\ recorded' = recorded \cup {r}
  /\ UNCHANGED <<clock, exists, lock, lease, expiryAudits>>

\* The browser navigates, clicks or types: seconds after the check.
SideEffect(r) ==
  /\ At(r, "acting")
  /\ req' = [req EXCEPT ![r] = [@ EXCEPT !.pc = "applied"]]
  /\ UNCHANGED <<clock, exists, lock, lease, expiryAudits, recorded>>

\* complete_compatible_action / fail_compatible_action.
Complete(r) ==
  /\ \/ At(r, "applied") /\ req' = [req EXCEPT ![r] = Reply("succeeded", TRUE)]
     \/ At(r, "acting") /\ req' = [req EXCEPT ![r] = Reply("failed", TRUE)]
  /\ recorded' = recorded \cup {r}
  /\ UNCHANGED <<clock, exists, lock, lease, expiryAudits>>
-----------------------------------------------------------------------------
(* The runtime's calls, outside any transaction.  A call that finds no     *)
(* elapsed lease returns early and changes nothing.                        *)

Heartbeat(r) ==
  /\ "heartbeat" \in Ops
  /\ At(r, "idle")
  /\ Elapsed(clock) # {}
  /\ req' = [req EXCEPT ![r] = [IdleRequest EXCEPT !.pc = "selected", !.op = "heartbeat",
                                                   !.seen = Elapsed(clock)]]
  /\ UNCHANGED <<clock, exists, lock, lease, expiryAudits, recorded>>

\* Mutant of MarkExpired: the rows selected are updated by id, and their deadlines
\* are not compared again.
MarkExpiredById(r) ==
  /\ At(r, "selected")
  /\ lease' = SetStatus(req[r].seen, "expired", lease)
  /\ req' = [req EXCEPT ![r] = [@ EXCEPT !.pc = "marked"]]
  /\ UNCHANGED <<clock, exists, lock, expiryAudits, recorded>>

MarkExpired(r) ==
  /\ At(r, "selected")
  /\ lease' = SetStatus(Lapsing(r, clock), "expired", lease)
  /\ req' = [req EXCEPT ![r] = [@ EXCEPT !.pc = "marked"]]
  /\ UNCHANGED <<clock, exists, lock, expiryAudits, recorded>>

AuditExpired(r) ==
  /\ At(r, "marked")
  /\ expiryAudits' = WithAudits(req[r].seen)
  /\ req' = [req EXCEPT ![r] = IdleRequest]
  /\ UNCHANGED <<clock, exists, lock, lease, recorded>>
-----------------------------------------------------------------------------
(* The surroundings: the reply is read, time passes, the session is        *)
(* deleted, the backend process dies and its connections roll back.        *)

Forget(r) ==
  /\ At(r, "replied")
  /\ req' = [req EXCEPT ![r] = IdleRequest]
  /\ recorded' = recorded \ {r}
  /\ UNCHANGED <<clock, exists, lock, lease, expiryAudits>>

Tick ==
  /\ clock < MaxClock
  /\ clock' = clock + 1
  /\ UNCHANGED <<exists, lock, lease, expiryAudits, req, recorded>>

\* DELETE FROM sessions waits for the row and cascades to its leases.
DeleteSession ==
  /\ exists
  /\ lock = NoReq
  /\ exists' = FALSE
  /\ lease' = SetStatus(Lease \ FreshLeases, "deleted", lease)
  /\ UNCHANGED <<clock, lock, expiryAudits, req, recorded>>

Crash ==
  /\ \E r \in Req : ~At(r, "idle")
  /\ req' = [r \in Req |-> IdleRequest]
  /\ lock' = NoReq
  /\ recorded' = {}
  /\ UNCHANGED <<clock, exists, lease, expiryAudits>>

Serve(r) ==
  \/ Begin(r)
  \/ Acquire(r) \/ Renew(r) \/ Release(r) \/ ChooseVictim(r) \/ Reclaim(r)
  \/ RequireLease(r) \/ RejectInTx(r)
  \/ RecordRejection(r) \/ SideEffect(r) \/ Complete(r)
  \/ AuditExpired(r) \/ Forget(r)

Next ==
  \/ \E r \in Req : \/ Submit(r) \/ Lock(r) \/ NotFound(r) \/ Serve(r)
                   \/ Heartbeat(r) \/ MarkExpired(r)
  \/ Tick \/ DeleteSession \/ Crash

Spec == Init /\ [][Next]_vars

\* The event loop serves what has arrived, PostgreSQL queues the waiters of a row.
Fairness ==
  /\ \A r \in Req : /\ WF_vars(Serve(r))
                    /\ SF_vars(Lock(r) \/ NotFound(r))
                    /\ SF_vars(MarkExpired(r))

FairSpec == Spec /\ Fairness
-----------------------------------------------------------------------------
(* What must hold.                                                         *)

TypeOK ==
  /\ clock \in Nat
  /\ exists \in BOOLEAN
  /\ lock \in Req \cup {NoReq}
  /\ lease \in [Lease -> LeaseRow]
  /\ expiryAudits \in [Lease -> Nat]
  /\ req \in [Req -> Request]
  /\ recorded \subseteq Req

\* The device has at most one active lease, whatever the waits for the session
\* row and the heartbeats in between: the unique index on active leases
\* (migration 0015) never has to refuse an insert.
OneActive == \A l, m \in Active : l = m

\* No holder is ever more than MaxTtl away from the deadline, although the
\* deadline is computed long before it is stored.
DeadlineWithinTtl == \A l \in Active : lease[l].expires <= clock + MaxTtl

\* Why both hold (the inductive invariant): a transaction reads clocks that do
\* not run ahead, holds the session row exactly between Lock and its end, has
\* seen every lease that had elapsed when it began, and a reclaim has chosen
\* the only lease that may still be current.
RequestsTimely ==
  \A r \in Req : req[r].now <= clock /\ req[r].expires <= clock + MaxTtl

RowHeldInTx == \A r \in Req : lock = r <=> req[r].pc \in {"locked", "chosen"}

ElapsedSeen == \A r \in Req : lock = r => Elapsed(req[r].now) \subseteq req[r].seen

VictimKnown ==
  \A r \in Req : At(r, "chosen") => /\ req[r].op = "force_reclaim"
                                   /\ Current(req[r].now) \subseteq {req[r].target}

IInv ==
  /\ TypeOK
  /\ OneActive
  /\ DeadlineWithinTtl
  /\ RequestsTimely
  /\ RowHeldInTx
  /\ ElapsedSeen
  /\ VictimKnown

\* A lease whose deadline lies ahead is never expired: neither by a transaction
\* that began earlier nor by a heartbeat; it ends by release, reclaim or deletion.
NeverExpiredEarly ==
  [][\A l \in Current(clock) : lease'[l].status # "expired"]_vars

\* An acquire that waited for the session row does not displace a holder whose
\* deadline lies ahead; only a reclaim does.
AcquireDisplacesNobody ==
  [][\A l \in FreshLeases :
       lease'[l].status = "active" /\ DeviceOccupied => req[lock].op = "force_reclaim"]_vars

\* A lease that has ended stays ended in the way it ended, except that a reclaim
\* may relabel a lease a heartbeat has expired since the reclaim chose it.
EndedStaysEnded ==
  [][\A l \in Lease :
       lease[l].status \in {"released", "reclaimed", "expired", "deleted"}
       => \/ lease'[l].status \in {lease[l].status, "deleted"}
          \/ /\ lease[l].status = "expired"
             /\ lease'[l].status = "reclaimed"
             /\ lock # NoReq /\ req[lock].target = l]_vars

\* Without the runtime's calls an expired lease has exactly one lease_expired
\* row, whatever requests are rejected or lost in a crash, and no other has one.
ExpiryAuditedExactlyOnce ==
  \A l \in Lease : lease[l].status # "deleted" =>
    expiryAudits[l] = IF lease[l].status = "expired" THEN 1 ELSE 0

\* Every call that has arrived is answered or lost in a crash: no transaction
\* keeps the session row, and no waiter starves.
EveryCallEnds == \A r \in Req : ~At(r, "idle") ~> At(r, "idle")

\* The lease the device is held under, and how the others ended.
Operators == {s \in Subject : CanSee(s)}
Held ==
  IF Active = {} THEN Free
  ELSE LET l == CHOOSE l \in Active : TRUE
       IN  [lease |-> l, by |-> lease[l].by, until |-> lease[l].expires]
Ended ==
  [l \in Lease |-> IF lease[l].status \in {"unused", "active"} THEN "no" ELSE lease[l].status]

Abs == INSTANCE DeviceLease WITH Operator <- Operators, held <- Held, ended <- Ended

\* The service implements the exclusive lease of DeviceLease.
ImplementsDeviceLease == Abs!Spec
-----------------------------------------------------------------------------
(* What the documentation and the tests say and the code does not do.      *)

\* CliDocPage.vue:344: auditStatus and auditEventId tell whether the action
\* entered the audit trail.
ClaimedAuditExists == \A r \in Req : req[r].claimed => r \in recorded

\* test_agent_devices.py:283: a permitted release of an active lease releases it.
PermittedReleaseSucceeds ==
  \A r \in Req : req[r].outcome # "check_violation"
=============================================================================
