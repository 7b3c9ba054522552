---------------------- MODULE AgentDeviceLeases_proofs ----------------------
(***************************************************************************)
(* Proofs about AgentDeviceLeases, for any number of requests, leases,     *)
(* operators and any TTL: the inductive invariant, from it that the lease  *)
(* is exclusive and its deadline bounded, and that the service implements  *)
(* DeviceLease.                                                            *)
(***************************************************************************)
EXTENDS AgentDeviceLeases, TLAPS

\* What the definitions of a call's record amount to.
LEMMA IdleType == IdleRequest \in Request /\ IdleRequest.pc = "idle"
  BY DEF IdleRequest, Request, Phases, Outcomes, NoDeadline

LEMMA InitIInv == Init => IInv
<1> SUFFICES ASSUME Init PROVE IInv
  OBVIOUS
<1> USE ReqAssumption, LeaseAssumption, BoundAssumption DEF Init
<1>1. TypeOK
  BY IdleType DEF TypeOK, LeaseRow, Unused, Statuses, NoDeadline
<1>2. Active = {}
  BY DEF Active, Unused
<1>3. OneActive /\ DeadlineWithinTtl
  BY <1>2 DEF OneActive, DeadlineWithinTtl
<1>4. RequestsTimely /\ RowHeldInTx /\ VictimKnown
  BY DEF RequestsTimely, RowHeldInTx, VictimKnown, IdleRequest, At, NoDeadline
<1>5. ElapsedSeen
  BY <1>2 DEF ElapsedSeen, Elapsed
<1> QED
  BY <1>1, <1>3, <1>4, <1>5 DEF IInv

-----------------------------------------------------------------------------
(* Types.                                                                  *)

LEMMA SetStatusType ==
  ASSUME NEW table \in [Lease -> LeaseRow], NEW ls, NEW status \in Statuses
  PROVE  SetStatus(ls, status, table) \in [Lease -> LeaseRow]
  BY DEF SetStatus, LeaseRow

\* Replacing one call's record keeps the table of calls well typed.
LEMMA ReqType ==
  ASSUME TypeOK, NEW r \in Req, NEW q \in Request, req' = [req EXCEPT ![r] = q]
  PROVE  req' \in [Req -> Request]
  BY DEF TypeOK

LEMMA ReplyType ==
  ASSUME NEW outcome \in Outcomes, NEW claimed \in BOOLEAN
  PROVE  Reply(outcome, claimed) \in Request
  BY IdleType DEF Reply, IdleRequest, Request, Phases

LEMMA VerdictType == ASSUME NEW r \in Req PROVE Verdict(r) \in Outcomes
  BY DEF Verdict, ReserveVerdict, TargetVerdict, ReclaimVerdict, ActionVerdict, Outcomes

LEMMA ActiveType == Active \subseteq Lease /\ FreshLeases \subseteq Lease
  BY DEF Active, FreshLeases

LEMMA WithAuditsType ==
  ASSUME TypeOK, NEW ls
  PROVE  WithAudits(ls) \in [Lease -> Nat]
  BY DEF TypeOK, WithAudits

\* The table a committing transaction starts from.
LEMMA ExpiredType == ASSUME TypeOK, NEW r \in Req PROVE Expired(r) \in [Lease -> LeaseRow]
  BY SetStatusType DEF TypeOK, Expired, Statuses

LEMMA NewLeaseType ==
  ASSUME TypeOK, NEW r \in Req, req[r].by \in Subject \cup {NoReq}
  PROVE  NewLease(r) \in LeaseRow
  BY DEF TypeOK, NewLease, LeaseRow, Statuses, Request

LEMMA CommitControlType ==
  ASSUME TypeOK, NEW r \in Req, NEW table \in [Lease -> LeaseRow], CommitControl(r, table)
  PROVE  TypeOK'
<1>1. Reply("succeeded", TRUE) \in Request
  BY ReplyType DEF Outcomes
<1>2. req' \in [Req -> Request]
  BY <1>1, ReqType DEF CommitControl
<1> QED
  BY <1>2, WithAuditsType, ReqAssumption DEF CommitControl, Commit, TypeOK

LEMMA TypeStep == TypeOK /\ [Next]_vars => TypeOK'
<1> SUFFICES ASSUME TypeOK, [Next]_vars PROVE TypeOK'
  OBVIOUS
<1>1. ASSUME NEW r \in Req, Submit(r) PROVE TypeOK'
  <2>1. PICK op \in Ops \ {"heartbeat"}, s \in Subject : \E l \in Targets(op), ttl \in Ttls(op) :
               req' = [req EXCEPT ![r] = Submission(op, s, l, ttl)]
    BY <1>1 DEF Submit
  <2>2. PICK l \in Targets(op), ttl \in Ttls(op) :
               req' = [req EXCEPT ![r] = Submission(op, s, l, ttl)]
    BY <2>1
  <2>3. l \in Lease \cup {NoLease} /\ ttl \in Nat
    BY ActiveType, BoundAssumption DEF Targets, Ttls
  <2>4. op \in ControlOps \cup {"browser_action", "heartbeat", "none"}
    BY OpsAssumption
  <2>5. (IF ttl = 0 THEN NoDeadline ELSE clock + ttl) \in Nat
    BY <2>3 DEF NoDeadline, TypeOK
  <2>6. Submission(op, s, l, ttl) \in Request
    BY <2>3, <2>4, <2>5, IdleType, ZenonT(60) DEF Submission, Request, Phases
  <2> QED
    BY <1>1, <2>2, <2>6, ReqType DEF Submit, TypeOK
<1>2. ASSUME NEW r \in Req, Begin(r) PROVE TypeOK'
  <2>1. [req[r] EXCEPT !.pc = "waiting", !.now = clock] \in Request
    BY ZenonT(60) DEF TypeOK, Request, Phases
  <2> QED
    BY <1>2, <2>1, ReqType DEF Begin, TypeOK
<1>3. ASSUME NEW r \in Req, Lock(r) PROVE TypeOK'
  <2>1. Elapsed(req[r].now) \subseteq Lease
    BY ActiveType DEF Elapsed
  <2>2. [req[r] EXCEPT !.pc = "locked", !.seen = Elapsed(req[r].now)] \in Request
    BY <2>1, ZenonT(60) DEF TypeOK, Request, Phases
  <2> QED
    BY <1>3, <2>2, ReqType DEF Lock, TypeOK
<1>4. ASSUME NEW r \in Req, NotFound(r) PROVE TypeOK'
  <2>1. Reply("not_found", FALSE) \in Request
    BY ReplyType DEF Outcomes
  <2> QED
    BY <1>4, <2>1, ReqType DEF NotFound, TypeOK
<1>5. ASSUME NEW r \in Req, Acquire(r) PROVE TypeOK'
  <2>1. PICK l \in FreshLeases : CommitControl(r, [Expired(r) EXCEPT ![l] = NewLease(r)])
    BY <1>5 DEF Acquire
  <2>2. NewLease(r) \in LeaseRow
    BY NewLeaseType DEF TypeOK, Request
  <2>3. [Expired(r) EXCEPT ![l] = NewLease(r)] \in [Lease -> LeaseRow]
    BY <2>2, ExpiredType
  <2> QED
    BY <2>1, <2>3, CommitControlType
<1>6. ASSUME NEW r \in Req, Renew(r) PROVE TypeOK'
  <2>1. ASSUME req[r].target \in Lease
        PROVE  [Expired(r)[req[r].target] EXCEPT !.expires = req[r].expires] \in LeaseRow
    <3>1. Expired(r)[req[r].target] \in LeaseRow
      BY <2>1, ExpiredType
    <3>2. req[r].expires \in Nat
      BY DEF TypeOK, Request
    <3> QED
      BY <3>1, <3>2 DEF LeaseRow
  <2>2. [Expired(r) EXCEPT ![req[r].target] = [@ EXCEPT !.expires = req[r].expires]]
          \in [Lease -> LeaseRow]
    BY <2>1, ExpiredType
  <2> QED
    BY <1>6, <2>2, CommitControlType DEF Renew
<1>7. ASSUME NEW r \in Req, Release(r) PROVE TypeOK'
  <2>1. ASSUME req[r].target \in Lease
        PROVE  [Expired(r)[req[r].target] EXCEPT !.status = "released"] \in LeaseRow
    <3>1. Expired(r)[req[r].target] \in LeaseRow
      BY <2>1, ExpiredType
    <3> QED
      BY <3>1 DEF LeaseRow, Statuses
  <2>2. [Expired(r) EXCEPT ![req[r].target] = [@ EXCEPT !.status = "released"]]
          \in [Lease -> LeaseRow]
    BY <2>1, ExpiredType
  <2> QED
    BY <1>7, <2>2, CommitControlType DEF Release
<1>8. ASSUME NEW r \in Req, ChooseVictim(r) PROVE TypeOK'
  <2>1. Current(req[r].now) \subseteq Lease
    BY ActiveType DEF Current
  <2>2. PICK l \in Lease \cup {NoLease} :
               req' = [req EXCEPT ![r] = [@ EXCEPT !.pc = "chosen", !.target = l]]
    BY <1>8, <2>1 DEF ChooseVictim
  <2>3. [req[r] EXCEPT !.pc = "chosen", !.target = l] \in Request
    BY ZenonT(60) DEF TypeOK, Request, Phases
  <2> QED
    BY <1>8, <2>2, <2>3, ReqType DEF ChooseVictim, TypeOK
<1>9. ASSUME NEW r \in Req, Reclaim(r) PROVE TypeOK'
  <2>1. PICK l \in FreshLeases :
          CommitControl(r, [SetStatus({req[r].target}, "reclaimed", Expired(r))
                              EXCEPT ![l] = NewLease(r)])
    BY <1>9 DEF Reclaim
  <2>2. NewLease(r) \in LeaseRow
    BY NewLeaseType DEF TypeOK, Request
  <2>3. SetStatus({req[r].target}, "reclaimed", Expired(r)) \in [Lease -> LeaseRow]
    BY ExpiredType, SetStatusType DEF Statuses
  <2> QED
    BY <2>1, <2>2, <2>3, CommitControlType
<1>10. ASSUME NEW r \in Req, RequireLease(r) PROVE TypeOK'
  <2>1. Current(req[r].now) \subseteq Lease
    BY ActiveType DEF Current
  <2>2. PICK l \in Lease :
          req' = [req EXCEPT ![r] = [IdleRequest EXCEPT !.pc = "acting", !.by = req[r].by,
                                                        !.op = "browser_action", !.target = l]]
    BY <1>10, <2>1 DEF RequireLease
  <2>3. [IdleRequest EXCEPT !.pc = "acting", !.by = req[r].by,
                            !.op = "browser_action", !.target = l] \in Request
    BY IdleType DEF TypeOK, Request, Phases
  <2>4. req' \in [Req -> Request]
    BY <2>2, <2>3, ReqType
  <2> QED
    BY <1>10, <2>4, ExpiredType, WithAuditsType DEF RequireLease, Commit, TypeOK
<1>11. ASSUME NEW r \in Req, RejectInTx(r) PROVE TypeOK'
  <2>1. Reply(Verdict(r), Verdict(r) # "check_violation") \in Request
    BY ReplyType, VerdictType
  <2>2. [Reply(Verdict(r), FALSE) EXCEPT !.pc = "refused"] \in Request
    <3>1. Reply(Verdict(r), FALSE) \in Request
      BY ReplyType, VerdictType
    <3> QED
      BY <3>1 DEF Request, Phases
  <2>3. req' \in [Req -> Request]
    BY <1>11, <2>1, <2>2, ReqType DEF RejectInTx
  <2> QED
    BY <1>11, <2>3 DEF RejectInTx, TypeOK
<1>12. ASSUME NEW r \in Req, RecordRejection(r) PROVE TypeOK'
  <2>1. [req[r] EXCEPT !.pc = "replied", !.claimed = TRUE] \in Request
    BY ZenonT(60) DEF TypeOK, Request, Phases
  <2> QED
    BY <1>12, <2>1, ReqType DEF RecordRejection, TypeOK
<1>13. ASSUME NEW r \in Req, SideEffect(r) PROVE TypeOK'
  <2>1. [req[r] EXCEPT !.pc = "applied"] \in Request
    BY DEF TypeOK, Request, Phases
  <2> QED
    BY <1>13, <2>1, ReqType DEF SideEffect, TypeOK
<1>14. ASSUME NEW r \in Req, Complete(r) PROVE TypeOK'
  <2>1. Reply("succeeded", TRUE) \in Request /\ Reply("failed", TRUE) \in Request
    BY ReplyType DEF Outcomes
  <2> QED
    BY <1>14, <2>1, ReqType DEF Complete, TypeOK
<1>15. ASSUME NEW r \in Req, AuditExpired(r) PROVE TypeOK'
  BY <1>15, IdleType, ReqType, WithAuditsType DEF AuditExpired, TypeOK
<1>16. ASSUME NEW r \in Req, Forget(r) PROVE TypeOK'
  BY <1>16, IdleType, ReqType DEF Forget, TypeOK
<1>17. ASSUME NEW r \in Req, Heartbeat(r) PROVE TypeOK'
  <2>1. Elapsed(clock) \subseteq Lease
    BY ActiveType DEF Elapsed
  <2>2. [IdleRequest EXCEPT !.pc = "selected", !.op = "heartbeat", !.seen = Elapsed(clock)]
          \in Request
    BY <2>1, IdleType DEF Request, Phases
  <2> QED
    BY <1>17, <2>2, ReqType DEF Heartbeat, TypeOK
<1>18. ASSUME NEW r \in Req, MarkExpired(r) PROVE TypeOK'
  <2>1. [req[r] EXCEPT !.pc = "marked"] \in Request
    BY DEF TypeOK, Request, Phases
  <2> QED
    BY <1>18, <2>1, ReqType, SetStatusType DEF MarkExpired, TypeOK, Statuses
<1>19. CASE Tick
  BY <1>19 DEF Tick, TypeOK
<1>20. CASE DeleteSession
  BY <1>20, SetStatusType DEF DeleteSession, TypeOK, Statuses
<1>21. CASE Crash
  BY <1>21, IdleType DEF Crash, TypeOK
<1>22. CASE UNCHANGED vars
  BY <1>22 DEF vars, TypeOK
<1> QED
  BY <1>1, <1>2, <1>3, <1>4, <1>5, <1>6, <1>7, <1>8, <1>9, <1>10, <1>11, <1>12, <1>13,
     <1>14, <1>15, <1>16, <1>17, <1>18, <1>19, <1>20, <1>21, <1>22 DEF Next, Serve

\* Every variable keeps its type, for any number of requests, leases and operators.
THEOREM TypeCorrect == Spec => []TypeOK
<1>1. Init => TypeOK
  BY InitIInv DEF IInv
<1> QED
  BY <1>1, TypeStep, PTL DEF Spec
-----------------------------------------------------------------------------
(* The steps that replace the record of one call.                          *)

\* A call that leaves the table and the clock alone keeps the invariant when its
\* new record is timely and is in a transaction exactly if it holds the row.
LEMMA CallStep ==
  ASSUME IInv, TypeOK', NEW r \in Req, NEW q \in Request,
         req' = [req EXCEPT ![r] = q],
         lease' = lease, clock' = clock,
         \A p \in Req \ {r} : lock' = p <=> lock = p,
         q.now <= clock, q.expires <= clock + MaxTtl,
         lock' = r <=> q.pc \in {"locked", "chosen"},
         lock' = r => Elapsed(q.now) \subseteq q.seen,
         q.pc = "chosen" => /\ q.op = "force_reclaim"
                            /\ Current(q.now) \subseteq {q.target}
  PROVE  IInv'
<1> USE DEF IInv
<1>0. req \in [Req -> Request] /\ \A p \in Req : req'[p] = IF p = r THEN q ELSE req[p]
  BY DEF TypeOK
<1>1. Active' = Active /\ \A t : Elapsed(t)' = Elapsed(t) /\ Current(t)' = Current(t)
  BY DEF Active, Elapsed, Current
<1>2. OneActive' /\ DeadlineWithinTtl'
  BY <1>1 DEF OneActive, DeadlineWithinTtl
<1>3. RequestsTimely'
  BY <1>0 DEF RequestsTimely
<1>4. RowHeldInTx'
  BY <1>0 DEF RowHeldInTx
<1>5. ElapsedSeen'
  <2> SUFFICES ASSUME NEW p \in Req, lock' = p PROVE (Elapsed(req[p].now) \subseteq req[p].seen)'
    BY DEF ElapsedSeen
  <2>1. \A l : l \in Elapsed(req[p].now)' <=> l \in Elapsed(req'[p].now)
    BY <1>1 DEF Elapsed, Active
  <2> QED
    BY <2>1, <1>0 DEF ElapsedSeen
<1>6. VictimKnown'
  <2> SUFFICES ASSUME NEW p \in Req, req'[p].pc = "chosen"
               PROVE  /\ req'[p].op = "force_reclaim"
                      /\ (Current(req[p].now) \subseteq {req[p].target})'
    BY DEF VictimKnown, At
  <2>1. \A l : l \in Current(req[p].now)' <=> l \in Current(req'[p].now)
    BY <1>1 DEF Current, Active
  <2> QED
    BY <2>1, <1>0 DEF VictimKnown, At
<1> QED
  BY <1>2, <1>3, <1>4, <1>5, <1>6

\* A transaction that ends and frees the row keeps the invariant when the table it
\* leaves behind has one active lease at most, with a deadline within the TTL.
LEMMA CommitStep ==
  ASSUME IInv, TypeOK', NEW r \in Req, NEW q \in Request,
         req' = [req EXCEPT ![r] = q],
         lock = r, lock' = NoReq, clock' = clock,
         q.now <= clock, q.expires <= clock + MaxTtl,
         q.pc \notin {"locked", "chosen"},
         OneActive', DeadlineWithinTtl'
  PROVE  IInv'
<1> USE DEF IInv
<1>0. req \in [Req -> Request] /\ \A p \in Req : req'[p] = IF p = r THEN q ELSE req[p]
  BY DEF TypeOK
<1>1. RequestsTimely'
  BY <1>0 DEF RequestsTimely
<1>2. RowHeldInTx'
  BY <1>0, ReqAssumption DEF RowHeldInTx
<1>3. ElapsedSeen'
  BY ReqAssumption DEF ElapsedSeen
<1>4. VictimKnown'
  BY <1>2, ReqAssumption DEF VictimKnown, RowHeldInTx, At
<1> QED
  BY <1>1, <1>2, <1>3, <1>4

-----------------------------------------------------------------------------
(* The steps that write the table.                                         *)

\* A transaction expires all that had elapsed when it began: the SELECT that
\* gates the UPDATE has seen it.
LEMMA ExpiredTable ==
  ASSUME IInv, NEW r \in Req, lock = r
  PROVE  /\ Lapsing(r, req[r].now) = Elapsed(req[r].now)
         /\ Expired(r) \in [Lease -> LeaseRow]
         /\ \A l \in Lease :
              /\ Expired(r)[l].expires = lease[l].expires
              /\ Expired(r)[l].by = lease[l].by
              /\ Expired(r)[l].status = IF l \in Elapsed(req[r].now) THEN "expired"
                                        ELSE lease[l].status
<1>1. Lapsing(r, req[r].now) = Elapsed(req[r].now)
  BY DEF IInv, ElapsedSeen, Lapsing
<1>2. Expired(r) \in [Lease -> LeaseRow]
  BY ExpiredType DEF IInv
<1>3. lease \in [Lease -> LeaseRow]
  BY DEF IInv, TypeOK
<1> QED
  BY <1>1, <1>2, <1>3 DEF Expired, SetStatus, LeaseRow

\* What is active is what had elapsed at t and what is current at t.
LEMMA ActiveSplit ==
  ASSUME TypeOK, NEW t \in Nat
  PROVE  /\ \A l \in Active : l \in Elapsed(t) \/ l \in Current(t)
         /\ Elapsed(t) \cap Current(t) = {}
  BY DEF TypeOK, Active, Elapsed, Current, LeaseRow

LEMMA SoleActive ==
  ASSUME NEW l, Active' \subseteq {l}, clock' = clock,
         lease'[l].expires <= clock + MaxTtl
  PROVE  OneActive' /\ DeadlineWithinTtl'
  BY DEF OneActive, DeadlineWithinTtl

LEMMA FewerActive ==
  ASSUME IInv, clock' = clock, Active' \subseteq Active,
         \A l \in Active' : lease'[l].expires <= clock + MaxTtl
  PROVE  OneActive' /\ DeadlineWithinTtl'
  BY DEF IInv, OneActive, DeadlineWithinTtl

\* Records of calls that begin or end nowhere near the row.
LEMMA Blank ==
  ASSUME NEW outcome \in Outcomes, NEW claimed \in BOOLEAN
  PROVE  /\ IdleRequest.now = 0 /\ IdleRequest.expires = 0
         /\ Reply(outcome, claimed).now = 0 /\ Reply(outcome, claimed).expires = 0
         /\ Reply(outcome, claimed).pc = "replied"
  BY DEF IdleRequest, Reply, NoDeadline

\* A new lease in place of all that was current.
LEMMA InsertStep ==
  ASSUME IInv, TypeOK', NEW r \in Req, lock = r,
         NEW table \in [Lease -> LeaseRow], NEW l \in FreshLeases,
         \A m \in Lease : table[m].status # "active",
         CommitControl(r, [table EXCEPT ![l] = NewLease(r)])
  PROVE  IInv'
<1> USE DEF IInv
<1>1. l \in Lease /\ lease' = [table EXCEPT ![l] = NewLease(r)] /\ clock' = clock
  BY DEF FreshLeases, CommitControl, Commit
<1>2. Active' \subseteq {l}
  BY <1>1 DEF Active
<1>3. lease'[l].expires <= clock + MaxTtl
  BY <1>1 DEF NewLease, RequestsTimely
<1>4. OneActive' /\ DeadlineWithinTtl'
  BY <1>1, <1>2, <1>3, SoleActive
<1>5. Reply("succeeded", TRUE) \in Request
  BY ReplyType DEF Outcomes
<1>6. /\ Reply("succeeded", TRUE).now = 0
      /\ Reply("succeeded", TRUE).expires = 0
      /\ Reply("succeeded", TRUE).pc = "replied"
  BY Blank DEF Outcomes
<1>7. clock \in Nat /\ MaxTtl \in Nat
  BY BoundAssumption DEF TypeOK
<1>8. 0 <= clock /\ 0 <= clock + MaxTtl
  BY <1>7
<1> QED
  BY <1>4, <1>5, <1>6, <1>8, CommitStep DEF CommitControl, Commit

\* A committed change of the table that makes no lease active.
LEMMA ChangeStep ==
  ASSUME IInv, TypeOK', NEW r \in Req, lock = r, NEW table, CommitControl(r, table),
         \A m \in Lease : table[m].status = "active" =>
           /\ lease[m].status = "active"
           /\ table[m].expires \in {lease[m].expires, req[r].expires}
  PROVE  IInv'
<1> USE DEF IInv
<1>1. lease' = table /\ clock' = clock
  BY DEF CommitControl, Commit
<1>2. Active' \subseteq Active /\ \A m \in Active' : lease'[m].expires <= clock + MaxTtl
  BY <1>1 DEF Active, DeadlineWithinTtl, RequestsTimely
<1>3. OneActive' /\ DeadlineWithinTtl'
  BY <1>1, <1>2, FewerActive
<1>4. Reply("succeeded", TRUE) \in Request
  BY ReplyType DEF Outcomes
<1>5. /\ Reply("succeeded", TRUE).now = 0
      /\ Reply("succeeded", TRUE).expires = 0
      /\ Reply("succeeded", TRUE).pc = "replied"
  BY Blank DEF Outcomes
<1>6. clock \in Nat /\ MaxTtl \in Nat
  BY BoundAssumption DEF TypeOK
<1>7. 0 <= clock /\ 0 <= clock + MaxTtl
  BY <1>6
<1> QED
  BY <1>3, <1>4, <1>5, <1>7, CommitStep DEF CommitControl, Commit

LEMMA AcquireIInv ==
  ASSUME IInv, TypeOK', NEW r \in Req, Acquire(r) PROVE IInv'
<1>1. lock = r /\ Current(req[r].now) = {}
  BY DEF Acquire, InTx, Verdict, ReserveVerdict
<1>2. PICK l \in FreshLeases : CommitControl(r, [Expired(r) EXCEPT ![l] = NewLease(r)])
  BY DEF Acquire
<1>3. req[r].now \in Nat
  BY DEF IInv, TypeOK, Request
<1>4. \A m \in Lease : Expired(r)[m].status # "active"
  BY <1>1, <1>3, ActiveSplit, ExpiredTable DEF IInv, Active
<1> QED
  BY <1>1, <1>2, <1>4, ExpiredTable, InsertStep

LEMMA ReclaimIInv ==
  ASSUME IInv, TypeOK', NEW r \in Req, Reclaim(r) PROVE IInv'
<1> DEFINE table == SetStatus({req[r].target}, "reclaimed", Expired(r))
<1>1. lock = r /\ Current(req[r].now) \subseteq {req[r].target}
  BY DEF Reclaim, InTx, IInv, VictimKnown
<1>2. PICK l \in FreshLeases : CommitControl(r, [table EXCEPT ![l] = NewLease(r)])
  BY DEF Reclaim
<1>3. req[r].now \in Nat
  BY DEF IInv, TypeOK, Request
<1>4. Expired(r) \in [Lease -> LeaseRow]
  BY <1>1, ExpiredTable
<1>5. table \in [Lease -> LeaseRow]
  BY <1>4, SetStatusType DEF Statuses
<1>6. \A m \in Lease : table[m].status # "active"
  <2> SUFFICES ASSUME NEW m \in Lease PROVE table[m].status # "active"
    OBVIOUS
  <2>1. CASE m = req[r].target
    BY <2>1, <1>4 DEF SetStatus, LeaseRow
  <2>2. CASE m # req[r].target
    <3>1. table[m] = Expired(r)[m]
      BY <2>2 DEF SetStatus
    <3>2. Expired(r)[m].status # "active"
      BY <2>2, <1>1, <1>3, ActiveSplit, ExpiredTable DEF IInv, Active
    <3> QED
      BY <3>1, <3>2
  <2> QED
    BY <2>1, <2>2
<1> QED
  BY <1>1, <1>2, <1>5, <1>6, InsertStep

LEMMA RenewIInv ==
  ASSUME IInv, TypeOK', NEW r \in Req, Renew(r) PROVE IInv'
<1> DEFINE table == [Expired(r) EXCEPT ![req[r].target] = [@ EXCEPT !.expires = req[r].expires]]
<1>1. lock = r /\ CommitControl(r, table)
  BY DEF Renew, InTx
<1>2. \A m \in Lease : table[m].status = "active" =>
        /\ lease[m].status = "active"
        /\ table[m].expires \in {lease[m].expires, req[r].expires}
  <2> SUFFICES ASSUME NEW m \in Lease, table[m].status = "active"
               PROVE  /\ lease[m].status = "active"
                      /\ table[m].expires \in {lease[m].expires, req[r].expires}
    OBVIOUS
  <2>1. Expired(r) \in [Lease -> LeaseRow]
    BY <1>1, ExpiredTable
  <2>2. /\ table[m].status = Expired(r)[m].status
        /\ table[m].expires \in {Expired(r)[m].expires, req[r].expires}
    BY <2>1 DEF LeaseRow
  <2> QED
    BY <2>2, <1>1, ExpiredTable
<1> QED
  BY <1>1, <1>2, ChangeStep

LEMMA ReleaseIInv ==
  ASSUME IInv, TypeOK', NEW r \in Req, Release(r) PROVE IInv'
<1> DEFINE table == [Expired(r) EXCEPT ![req[r].target] = [@ EXCEPT !.status = "released"]]
<1>1. lock = r /\ CommitControl(r, table)
  BY DEF Release, InTx
<1>2. \A m \in Lease : table[m].status = "active" =>
        /\ lease[m].status = "active"
        /\ table[m].expires \in {lease[m].expires, req[r].expires}
  <2> SUFFICES ASSUME NEW m \in Lease, table[m].status = "active"
               PROVE  /\ lease[m].status = "active"
                      /\ table[m].expires \in {lease[m].expires, req[r].expires}
    OBVIOUS
  <2>1. Expired(r) \in [Lease -> LeaseRow]
    BY <1>1, ExpiredTable
  <2>2. m # req[r].target
    BY <2>1 DEF LeaseRow
  <2>3. table[m] = Expired(r)[m]
    BY <2>1, <2>2
  <2> QED
    BY <2>3, <1>1, ExpiredTable
<1> QED
  BY <1>1, <1>2, ChangeStep

LEMMA RequireLeaseIInv ==
  ASSUME IInv, TypeOK', NEW r \in Req, RequireLease(r) PROVE IInv'
<1>1. PICK l \in Current(req[r].now) :
        req' = [req EXCEPT ![r] = [IdleRequest EXCEPT !.pc = "acting", !.by = req[r].by,
                                                      !.op = "browser_action", !.target = l]]
  BY DEF RequireLease
<1> DEFINE q == [IdleRequest EXCEPT !.pc = "acting", !.by = req[r].by,
                                    !.op = "browser_action", !.target = l]
<1>2. /\ lock = r /\ lock' = NoReq /\ clock' = clock
      /\ lease' = Expired(r)
  BY DEF RequireLease, InTx, Commit
<1>3. l \in Lease /\ req[r].by \in Subject \cup {NoReq}
  BY ActiveType DEF Current, IInv, TypeOK, Request
<1>4. q \in Request /\ q.now = 0 /\ q.expires = 0 /\ q.pc = "acting"
  BY <1>3, IdleType DEF Request, Phases, IdleRequest, NoDeadline
<1>5. Active' \subseteq Active /\ \A m \in Active' : lease'[m].expires <= clock + MaxTtl
  BY <1>2, ExpiredTable DEF Active, IInv, DeadlineWithinTtl
<1>6. OneActive' /\ DeadlineWithinTtl'
  BY <1>2, <1>5, FewerActive
<1>7. 0 <= clock /\ 0 <= clock + MaxTtl
  BY BoundAssumption DEF IInv, TypeOK
<1> QED
  BY <1>1, <1>2, <1>4, <1>6, <1>7, CommitStep

\* Rows that leave "active", and a record that is no transaction's: the heartbeat's
\* UPDATE and the deletion of the session.
LEMMA ShrinkStep ==
  ASSUME IInv, TypeOK', NEW ls, NEW status \in Statuses \ {"active"},
         lease' = SetStatus(ls, status, lease),
         clock' = clock, lock' = lock,
         req' = req \/ \E r \in Req : /\ req[r].pc = "selected"
                                      /\ req' = [req EXCEPT ![r] = [@ EXCEPT !.pc = "marked"]]
  PROVE  IInv'
<1> USE DEF IInv
<1>1. \A l \in Active' : l \in Active /\ lease'[l] = lease[l]
  BY DEF Active, SetStatus, TypeOK, LeaseRow
<1>2. \A p \in Req : /\ req'[p].now = req[p].now
                     /\ req'[p].expires = req[p].expires
                     /\ req'[p].seen = req[p].seen
                     /\ req'[p].op = req[p].op
                     /\ req'[p].target = req[p].target
                     /\ \/ req'[p].pc = req[p].pc
                        \/ req[p].pc = "selected" /\ req'[p].pc = "marked"
  BY DEF TypeOK, Request
<1>3. OneActive' /\ DeadlineWithinTtl'
  BY <1>1 DEF OneActive, DeadlineWithinTtl
<1>4. RequestsTimely' /\ RowHeldInTx'
  BY <1>2 DEF RequestsTimely, RowHeldInTx
<1>5. ElapsedSeen'
  <2> SUFFICES ASSUME NEW p \in Req, lock' = p, NEW l, l \in Elapsed(req[p].now)'
               PROVE  l \in req'[p].seen
    BY DEF ElapsedSeen
  <2>1. l \in Elapsed(req[p].now)
    BY <1>1, <1>2 DEF Elapsed
  <2> QED
    BY <2>1, <1>2 DEF ElapsedSeen
<1>6. VictimKnown'
  <2> SUFFICES ASSUME NEW p \in Req, req'[p].pc = "chosen"
               PROVE  /\ req'[p].op = "force_reclaim"
                      /\ \A l \in Current(req[p].now)' : l = req'[p].target
    BY DEF VictimKnown, At
  <2>1. req[p].pc = "chosen"
    BY <1>2
  <2>2. \A l \in Current(req[p].now)' : l \in Current(req[p].now)
    BY <1>1, <1>2 DEF Current
  <2> QED
    BY <2>1, <2>2, <1>2 DEF VictimKnown, At
<1> QED
  BY <1>3, <1>4, <1>5, <1>6

LEMMA TickIInv == ASSUME IInv, TypeOK', Tick PROVE IInv'
<1> USE DEF IInv, Tick
<1>0. clock \in Nat /\ MaxTtl \in Nat /\ clock' = clock + 1
  BY BoundAssumption DEF TypeOK
<1>1. Active' = Active
  BY DEF Active
<1>2. OneActive' /\ DeadlineWithinTtl'
  BY <1>0, <1>1, ActiveType DEF OneActive, DeadlineWithinTtl, TypeOK, LeaseRow
<1>3. RequestsTimely'
  BY <1>0 DEF RequestsTimely, TypeOK, Request
<1>4. RowHeldInTx' /\ ElapsedSeen' /\ VictimKnown'
  BY <1>1 DEF RowHeldInTx, ElapsedSeen, VictimKnown, At, Elapsed, Current
<1> QED
  BY <1>2, <1>3, <1>4

LEMMA CrashIInv == ASSUME IInv, TypeOK', Crash PROVE IInv'
<1> USE DEF IInv, Crash
<1>0. /\ clock' = clock /\ lock' = NoReq /\ lease' = lease
      /\ \A r \in Req : req'[r] = IdleRequest
  OBVIOUS
<1>1. Active' = Active
  BY DEF Active
<1>2. OneActive' /\ DeadlineWithinTtl'
  BY <1>0, <1>1 DEF OneActive, DeadlineWithinTtl
<1>3. RequestsTimely' /\ RowHeldInTx' /\ VictimKnown'
  BY <1>0, ReqAssumption, BoundAssumption
     DEF RequestsTimely, RowHeldInTx, VictimKnown, At, IdleRequest, NoDeadline, TypeOK
<1>4. ElapsedSeen'
  BY <1>0, ReqAssumption DEF ElapsedSeen
<1> QED
  BY <1>2, <1>3, <1>4

-----------------------------------------------------------------------------
(* The inductive invariant.                                                *)

\* Calls that leave the table alone.
LEMMA QuietIInv ==
  ASSUME IInv, TypeOK', NEW r \in Req,
         \/ Submit(r) \/ Begin(r) \/ Lock(r) \/ NotFound(r) \/ ChooseVictim(r) \/ RejectInTx(r)
         \/ RecordRejection(r) \/ SideEffect(r) \/ Complete(r) \/ AuditExpired(r)
         \/ Forget(r) \/ Heartbeat(r)
  PROVE  IInv'
<1> USE DEF IInv
<1>a. clock \in Nat /\ MaxTtl \in Nat /\ 0 <= clock /\ 0 <= clock + MaxTtl /\ clock <= clock
  BY BoundAssumption DEF TypeOK
<1>b. /\ req \in [Req -> Request] /\ req' \in [Req -> Request]
      /\ req[r] \in Request /\ req'[r] \in Request
      /\ lock \in Req \cup {NoReq} /\ r # NoReq
  BY ReqAssumption DEF TypeOK
<1>c. req[r].now <= clock /\ req[r].expires <= clock + MaxTtl
  BY DEF RequestsTimely
<1>d. lock = r <=> req[r].pc \in {"locked", "chosen"}
  BY DEF RowHeldInTx
<1>1. CASE Submit(r)
  <2>1. PICK op \in Ops \ {"heartbeat"}, s \in Subject : \E l \in Targets(op), ttl \in Ttls(op) :
               req' = [req EXCEPT ![r] = Submission(op, s, l, ttl)]
    BY <1>1 DEF Submit
  <2>2. PICK l \in Targets(op), ttl \in Ttls(op) :
               req' = [req EXCEPT ![r] = Submission(op, s, l, ttl)]
    BY <2>1
  <2>3. ttl \in Nat /\ ttl <= MaxTtl
    BY <1>a DEF Ttls
  <2>4. /\ req' = [req EXCEPT ![r] = req'[r]] /\ req'[r].pc = "arrived" /\ req'[r].now = 0
        /\ req'[r].expires = IF ttl = 0 THEN NoDeadline ELSE clock + ttl
    BY <2>2, <1>b DEF Submission, IdleRequest
  <2>5. req'[r].expires <= clock + MaxTtl
    BY <2>3, <2>4, <1>a DEF NoDeadline
  <2>6. lock # r /\ lock' = lock /\ lease' = lease /\ clock' = clock
    BY <1>1, <1>d DEF Submit, At
  <2> QED
    BY <1>a, <1>b, <2>4, <2>5, <2>6, CallStep
<1>2. CASE Begin(r)
  <2>1. /\ req' = [req EXCEPT ![r] = req'[r]] /\ req'[r].pc = "waiting"
        /\ req'[r].now = clock /\ req'[r].expires = req[r].expires
    BY <1>2, <1>b DEF Begin, Request
  <2>2. lock # r /\ lock' = lock /\ lease' = lease /\ clock' = clock
    BY <1>2, <1>d DEF Begin, At
  <2> QED
    BY <1>a, <1>b, <1>c, <2>1, <2>2, CallStep
<1>3. CASE Lock(r)
  <2>1. /\ req' = [req EXCEPT ![r] = req'[r]] /\ req'[r].pc = "locked"
        /\ req'[r].now = req[r].now /\ req'[r].expires = req[r].expires
        /\ req'[r].seen = Elapsed(req[r].now)
    BY <1>3, <1>b DEF Lock, Request
  <2>2. lock = NoReq /\ lock' = r /\ lease' = lease /\ clock' = clock
    BY <1>3 DEF Lock
  <2>3. \A p \in Req \ {r} : lock' = p <=> lock = p
    BY <2>2, ReqAssumption
  <2> QED
    BY <1>a, <1>b, <1>c, <2>1, <2>2, <2>3, CallStep
<1>4. CASE ChooseVictim(r)
  <2>1. PICK l \in IF Current(req[r].now) = {} THEN {NoLease} ELSE Current(req[r].now) :
               req' = [req EXCEPT ![r] = [@ EXCEPT !.pc = "chosen", !.target = l]]
    BY <1>4 DEF ChooseVictim
  <2>2. Current(req[r].now) \subseteq {l}
    BY <2>1 DEF OneActive, Current
  <2>3. /\ req' = [req EXCEPT ![r] = req'[r]] /\ req'[r].pc = "chosen"
        /\ req'[r].now = req[r].now /\ req'[r].expires = req[r].expires
        /\ req'[r].seen = req[r].seen /\ req'[r].op = req[r].op /\ req'[r].target = l
    BY <2>1, <1>b DEF Request
  <2>4. /\ lock = r /\ lock' = r /\ lease' = lease /\ clock' = clock
        /\ req[r].op = "force_reclaim"
    BY <1>4 DEF ChooseVictim, InTx
  <2>5. Elapsed(req[r].now) \subseteq req[r].seen
    BY <2>4 DEF ElapsedSeen
  <2> QED
    BY <1>a, <1>b, <1>c, <2>2, <2>3, <2>4, <2>5, CallStep
<1>5. CASE RejectInTx(r)
  <2>1. /\ lock = r /\ lock' = NoReq /\ lease' = lease /\ clock' = clock
        /\ req' = [req EXCEPT ![r] = req'[r]]
    BY <1>5, <1>b DEF RejectInTx
  <2>2. /\ req'[r].pc \in {"replied", "refused"} /\ req'[r].now = 0 /\ req'[r].expires = 0
    BY <1>5, <1>b DEF RejectInTx, Reply, IdleRequest, NoDeadline
  <2>3. \A p \in Req \ {r} : lock' = p <=> lock = p
    BY <2>1, ReqAssumption
  <2> QED
    BY <1>a, <1>b, <2>1, <2>2, <2>3, CallStep
<1>6. CASE RecordRejection(r) \/ SideEffect(r)
  <2>1. \/ req' = [req EXCEPT ![r] = [@ EXCEPT !.pc = "replied", !.claimed = TRUE]]
        \/ req' = [req EXCEPT ![r] = [@ EXCEPT !.pc = "applied"]]
    BY <1>6 DEF RecordRejection, SideEffect
  <2>2. \/ req'[r] = [req[r] EXCEPT !.pc = "replied", !.claimed = TRUE]
        \/ req'[r] = [req[r] EXCEPT !.pc = "applied"]
    BY <1>b, <2>1
  <2>3. req' = [req EXCEPT ![r] = req'[r]]
    BY <1>b, <2>1
  <2>4. /\ req'[r].pc \in {"replied", "applied"}
        /\ req'[r].now = req[r].now /\ req'[r].expires = req[r].expires
    BY <1>b, <2>2 DEF Request
  <2>5. lock # r /\ lock' = lock /\ lease' = lease /\ clock' = clock
    BY <1>6, <1>d DEF RecordRejection, SideEffect, At
  <2> QED
    BY <1>a, <1>b, <1>c, <2>3, <2>4, <2>5, CallStep
<1>7. CASE NotFound(r) \/ Complete(r) \/ AuditExpired(r) \/ Forget(r)
  <2>1. \/ \E outcome \in Outcomes, claimed \in BOOLEAN :
             req' = [req EXCEPT ![r] = Reply(outcome, claimed)]
        \/ req' = [req EXCEPT ![r] = IdleRequest]
    BY <1>7 DEF NotFound, Complete, AuditExpired, Forget, Outcomes
  <2>2. req' = [req EXCEPT ![r] = req'[r]]
    BY <1>b, <2>1
  <2>3. /\ req'[r].pc \in {"idle", "replied"}
        /\ req'[r].now = 0 /\ req'[r].expires = 0
    <3>1. CASE req' = [req EXCEPT ![r] = IdleRequest]
      BY <3>1, <1>b DEF IdleRequest, NoDeadline
    <3>2. CASE \E outcome \in Outcomes, claimed \in BOOLEAN :
                 req' = [req EXCEPT ![r] = Reply(outcome, claimed)]
      BY <3>2, <1>b DEF Reply, IdleRequest, NoDeadline
    <3> QED
      BY <3>1, <3>2, <2>1
  <2>4. lock # r /\ lock' = lock /\ lease' = lease /\ clock' = clock
    BY <1>7, <1>b, <1>d DEF NotFound, Complete, AuditExpired, Forget, At
  <2> QED
    BY <1>a, <1>b, <2>2, <2>3, <2>4, CallStep
<1>8. CASE Heartbeat(r)
  <2>1. req' = [req EXCEPT ![r] = req'[r]] /\ req'[r].pc = "selected"
        /\ req'[r].now = 0 /\ req'[r].expires = 0
    BY <1>8, <1>b DEF Heartbeat, IdleRequest, NoDeadline
  <2>2. lock # r /\ lock' = lock /\ lease' = lease /\ clock' = clock
    BY <1>8, <1>d DEF Heartbeat, At
  <2> QED
    BY <1>a, <1>b, <2>1, <2>2, CallStep
<1> QED
  BY <1>1, <1>2, <1>3, <1>4, <1>5, <1>6, <1>7, <1>8

LEMMA InductiveStep == IInv /\ [Next]_vars => IInv'
<1> SUFFICES ASSUME IInv, [Next]_vars PROVE IInv'
  OBVIOUS
<1>1. TypeOK'
  BY TypeStep DEF IInv
<1>2. ASSUME NEW r \in Req, MarkExpired(r) PROVE IInv'
  BY <1>1, <1>2, ShrinkStep DEF MarkExpired, At, Statuses
<1>3. CASE DeleteSession
  BY <1>1, <1>3, ShrinkStep DEF DeleteSession, Statuses
<1>4. CASE UNCHANGED vars
  BY <1>1, <1>4 DEF vars, IInv, OneActive, DeadlineWithinTtl, RequestsTimely, RowHeldInTx,
                    ElapsedSeen, VictimKnown, Active, Elapsed, Current, At
<1> QED
  BY <1>1, <1>2, <1>3, <1>4, QuietIInv, AcquireIInv, RenewIInv, ReleaseIInv, ReclaimIInv,
     RequireLeaseIInv, TickIInv, CrashIInv DEF Next, Serve

\* The invariant of any number of requests, leases and operators and of any TTL.
THEOREM InvariantHolds == Spec => []IInv
  BY InitIInv, InductiveStep, PTL DEF Spec

\* At most one lease of the device is active, whoever waits for the session row
\* and whatever the heartbeats expire in between.
THEOREM ExclusiveLease == Spec => []OneActive
<1>1. IInv => OneActive
  BY DEF IInv
<1> QED
  BY <1>1, InvariantHolds, PTL

\* No deadline ever lies further ahead than the TTL, however long the call that
\* computed it waited.
THEOREM BoundedDeadline == Spec => []DeadlineWithinTtl
<1>1. IInv => DeadlineWithinTtl
  BY DEF IInv
<1> QED
  BY <1>1, InvariantHolds, PTL

-----------------------------------------------------------------------------
(* What a step may never do.                                               *)

\* What a committed table expires had elapsed when its transaction began.
LEMMA ExpiresElapsedOnly ==
  ASSUME IInv, [Next]_vars, NEW l \in Current(clock), lease'[l].status = "expired"
  PROVE  FALSE
<1> USE DEF IInv
<1>1. /\ l \in Lease /\ lease[l].status = "active" /\ clock \in Nat
      /\ lease \in [Lease -> LeaseRow] /\ lease[l].expires \in Nat
      /\ lease[l].expires > clock
  BY DEF Current, Active, TypeOK, LeaseRow
<1>2. ASSUME NEW r \in Req, lock = r
      PROVE  l \notin Elapsed(req[r].now) /\ Expired(r)[l] = lease[l]
  <2>1. req[r].now \in Nat /\ req[r].now <= clock
    BY DEF TypeOK, Request, RequestsTimely
  <2>2. l \notin Elapsed(req[r].now)
    BY <1>1, <2>1 DEF Elapsed
  <2>3. l \notin Lapsing(r, req[r].now)
    BY <1>2, <2>2, ExpiredTable
  <2> QED
    BY <1>1, <2>2, <2>3 DEF Expired, SetStatus
<1>3. ASSUME NEW r \in Req, MarkExpired(r) PROVE FALSE
  <2>1. l \notin Lapsing(r, clock)
    BY <1>1 DEF Lapsing, Elapsed
  <2> QED
    BY <1>1, <1>3, <2>1 DEF MarkExpired, SetStatus
<1>4. ASSUME NEW r \in Req, Acquire(r) PROVE FALSE
  <2>1. PICK m \in FreshLeases : lease' = [Expired(r) EXCEPT ![m] = NewLease(r)]
    BY <1>4 DEF Acquire, CommitControl, Commit
  <2>2. lock = r /\ Expired(r) \in [Lease -> LeaseRow]
    BY <1>4, ExpiredType DEF Acquire, InTx
  <2>3. lease'[l] = Expired(r)[l] \/ lease'[l].status = "active"
    BY <1>1, <2>1, <2>2 DEF NewLease
  <2> QED
    BY <1>1, <1>2, <2>2, <2>3
<1>5. ASSUME NEW r \in Req, Reclaim(r) PROVE FALSE
  <2> DEFINE table == SetStatus({req[r].target}, "reclaimed", Expired(r))
  <2>1. PICK m \in FreshLeases : lease' = [table EXCEPT ![m] = NewLease(r)]
    BY <1>5 DEF Reclaim, CommitControl, Commit
  <2>2. lock = r /\ Expired(r) \in [Lease -> LeaseRow]
    BY <1>5, ExpiredType DEF Reclaim, InTx
  <2>3. table[l] = Expired(r)[l] \/ table[l].status = "reclaimed"
    BY <1>1, <2>2 DEF SetStatus, LeaseRow
  <2>4. lease'[l] = table[l] \/ lease'[l].status = "active"
    BY <1>1, <2>1 DEF NewLease, SetStatus
  <2> QED
    BY <1>1, <1>2, <2>2, <2>3, <2>4
<1>6. ASSUME NEW r \in Req, Renew(r) \/ Release(r) PROVE FALSE
  <2>1. /\ lock = r /\ Expired(r) \in [Lease -> LeaseRow]
    BY <1>6, ExpiredType DEF Renew, Release, InTx
  <2>2. Expired(r)[l] = lease[l] /\ Expired(r)[l] \in LeaseRow
    BY <1>1, <1>2, <2>1
  <2>3. CASE Renew(r)
    <3>1. lease' = [Expired(r) EXCEPT ![req[r].target] = [@ EXCEPT !.expires = req[r].expires]]
      BY <2>3 DEF Renew, CommitControl, Commit
    <3>2. lease'[l].status = Expired(r)[l].status
      BY <1>1, <2>1, <2>2, <3>1 DEF LeaseRow
    <3> QED
      BY <1>1, <2>2, <3>2
  <2>4. CASE Release(r)
    <3>1. lease' = [Expired(r) EXCEPT ![req[r].target] = [@ EXCEPT !.status = "released"]]
      BY <2>4 DEF Release, CommitControl, Commit
    <3>2. lease'[l].status \in {Expired(r)[l].status, "released"}
      BY <1>1, <2>1, <2>2, <3>1 DEF LeaseRow
    <3> QED
      BY <1>1, <2>2, <3>2
  <2> QED
    BY <1>6, <2>3, <2>4
<1>7. ASSUME NEW r \in Req, RequireLease(r) PROVE FALSE
  BY <1>1, <1>2, <1>7 DEF RequireLease, InTx, Commit
<1>8. CASE DeleteSession
  BY <1>1, <1>8 DEF DeleteSession, SetStatus, LeaseRow
<1>9. CASE lease' = lease
  BY <1>1, <1>9
<1> QED
  BY <1>3, <1>4, <1>5, <1>6, <1>7, <1>8, <1>9 DEF Next, Serve, vars, Submit, Begin, Lock,
     NotFound, ChooseVictim, RejectInTx, RecordRejection, SideEffect, Complete, AuditExpired,
     Forget, Heartbeat, Tick, Crash

\* No step expires a lease whose deadline lies ahead.
THEOREM NoEarlyExpiry == Spec => NeverExpiredEarly
<1>1. IInv /\ [Next]_vars => [\A l \in Current(clock) : lease'[l].status # "expired"]_vars
  BY ExpiresElapsedOnly
<1> QED
  BY <1>1, InvariantHolds, PTL DEF Spec, NeverExpiredEarly

\* Only a transaction that holds the row makes an unused lease active.
LEMMA OnlyInserts ==
  ASSUME IInv, [Next]_vars, NEW l \in FreshLeases, lease'[l].status = "active"
  PROVE  \E r \in Req : lock = r /\ (Acquire(r) \/ Reclaim(r))
<1> USE DEF IInv
<1>1. /\ l \in Lease /\ lease[l].status = "unused" /\ lease \in [Lease -> LeaseRow]
  BY DEF FreshLeases, TypeOK
<1>2. ASSUME NEW r \in Req PROVE Expired(r)[l].status # "active" /\ Expired(r)[l] \in LeaseRow
  <2>1. Expired(r) \in [Lease -> LeaseRow]
    BY ExpiredType
  <2> QED
    BY <1>1, <2>1 DEF Expired, SetStatus, LeaseRow
<1>3. ASSUME NEW r \in Req, MarkExpired(r) PROVE FALSE
  BY <1>1, <1>3 DEF MarkExpired, SetStatus, LeaseRow
<1>4. ASSUME NEW r \in Req, Renew(r) PROVE FALSE
  <2>1. lease' = [Expired(r) EXCEPT ![req[r].target] = [@ EXCEPT !.expires = req[r].expires]]
    BY <1>4 DEF Renew, CommitControl, Commit
  <2>2. lease'[l].status = Expired(r)[l].status
    BY <1>1, <1>2, <2>1, ExpiredType DEF LeaseRow
  <2> QED
    BY <1>2, <2>2
<1>5. ASSUME NEW r \in Req, Release(r) PROVE FALSE
  <2>1. lease' = [Expired(r) EXCEPT ![req[r].target] = [@ EXCEPT !.status = "released"]]
    BY <1>5 DEF Release, CommitControl, Commit
  <2>2. lease'[l].status \in {Expired(r)[l].status, "released"}
    BY <1>1, <1>2, <2>1, ExpiredType DEF LeaseRow
  <2> QED
    BY <1>2, <2>2
<1>6. ASSUME NEW r \in Req, RequireLease(r) PROVE FALSE
  BY <1>2, <1>6 DEF RequireLease, Commit
<1>7. CASE DeleteSession
  BY <1>1, <1>7 DEF DeleteSession, SetStatus, LeaseRow
<1>8. CASE lease' = lease
  BY <1>1, <1>8
<1>9. ASSUME NEW r \in Req, Acquire(r) \/ Reclaim(r) PROVE lock = r
  BY <1>9 DEF Acquire, Reclaim, InTx
<1> QED
  BY <1>3, <1>4, <1>5, <1>6, <1>7, <1>8, <1>9 DEF Next, Serve, vars, Submit, Begin, Lock,
     NotFound, ChooseVictim, RejectInTx, RecordRejection, SideEffect, Complete, AuditExpired,
     Forget, Heartbeat, Tick, Crash

\* No acquire displaces a holder whose deadline lies ahead, however stale the
\* NOW() its transaction compares deadlines with.
THEOREM AcquireIsExclusive == Spec => AcquireDisplacesNobody
<1>1. ASSUME IInv, [Next]_vars, NEW l \in FreshLeases,
             lease'[l].status = "active", DeviceOccupied
      PROVE  req[lock].op = "force_reclaim"
  <2>1. PICK r \in Req : lock = r /\ (Acquire(r) \/ Reclaim(r))
    BY <1>1, OnlyInserts
  <2>2. CASE Acquire(r)
    <3>1. Current(req[r].now) = {}
      BY <2>2 DEF Acquire, InTx, Verdict, ReserveVerdict
    <3>2. req[r].now \in Nat /\ clock \in Nat /\ req[r].now <= clock
      BY <1>1 DEF IInv, TypeOK, Request, RequestsTimely
    <3>3. \A m \in Active : lease[m].expires \in Nat
      BY <1>1, ActiveType DEF IInv, TypeOK, LeaseRow
    <3>4. Current(clock) \subseteq Current(req[r].now)
      BY <3>2, <3>3 DEF Current
    <3> QED
      BY <1>1, <3>1, <3>4 DEF DeviceOccupied
  <2>3. CASE Reclaim(r)
    BY <2>1, <2>3 DEF Reclaim, InTx
  <2> QED
    BY <2>1, <2>2, <2>3
<1>2. IInv /\ [Next]_vars =>
        [\A l \in FreshLeases : lease'[l].status = "active" /\ DeviceOccupied
           => req[lock].op = "force_reclaim"]_vars
  BY <1>1
<1> QED
  BY <1>2, InvariantHolds, PTL DEF Spec, AcquireDisplacesNobody
-----------------------------------------------------------------------------
(***************************************************************************)
(* AgentDeviceLeases implements DeviceLease: every step of the service      *)
(* either leaves the holder alone or is one of the abstract steps.  From    *)
(* the same invariant: how leases end, and what is audited when they expire.*)
(***************************************************************************)

\* Every operator call is some subject's, and so is every active lease.
CallersKnown == \A r \in Req : req[r].op \in ControlOps => req[r].by \in Subject
HoldersKnown == \A l \in Active : lease[l].by \in Subject

LEMMA CallersStep == IInv /\ CallersKnown /\ [Next]_vars => CallersKnown'
<1> SUFFICES ASSUME IInv, CallersKnown, [Next]_vars, NEW p \in Req, req'[p].op \in ControlOps
             PROVE  req'[p].by \in Subject
  BY DEF CallersKnown
<1> USE DEF IInv
<1>a. req \in [Req -> Request]
  BY DEF TypeOK
<1>b. req[p].op \in ControlOps => req[p].by \in Subject
  BY DEF CallersKnown
<1>1. ASSUME NEW r \in Req, NEW q \in Request, req' = [req EXCEPT ![r] = q],
             \/ q.op \notin ControlOps
             \/ q.op = req[r].op /\ q.by = req[r].by
             \/ q.by \in Subject
      PROVE  req'[p].by \in Subject
  BY <1>1, <1>a, <1>b
<1>2. ASSUME NEW r \in Req, Submit(r) PROVE req'[p].by \in Subject
  <2>1. PICK op \in Ops \ {"heartbeat"}, s \in Subject : \E l \in Targets(op), ttl \in Ttls(op) :
               req' = [req EXCEPT ![r] = Submission(op, s, l, ttl)]
    BY <1>2 DEF Submit
  <2>2. PICK l \in Targets(op), ttl \in Ttls(op) :
               req' = [req EXCEPT ![r] = Submission(op, s, l, ttl)]
    BY <2>1
  <2>3. Submission(op, s, l, ttl).by = s
    BY DEF Submission, IdleRequest
  <2> QED
    BY <2>2, <2>3, <1>a, <1>b
<1>3. ASSUME NEW r \in Req, NEW outcome, NEW claimed,
             \/ req' = [req EXCEPT ![r] = IdleRequest]
             \/ req' = [req EXCEPT ![r] = Reply(outcome, claimed)]
             \/ req' = [req EXCEPT ![r] = [Reply(outcome, claimed) EXCEPT !.pc = "refused"]]
      PROVE  req'[p].by \in Subject
  <2>1. /\ IdleRequest.op = "none" /\ Reply(outcome, claimed).op = "none"
        /\ [Reply(outcome, claimed) EXCEPT !.pc = "refused"].op = "none"
    BY DEF Reply, IdleRequest
  <2>2. req'[r].op = "none" /\ (p # r => req'[p] = req[p])
    BY <1>3, <2>1, <1>a
  <2> QED
    BY <2>2, <1>b DEF ControlOps
<1>4. ASSUME NEW r \in Req,
             \/ Acquire(r) \/ Renew(r) \/ Release(r) \/ Reclaim(r) \/ NotFound(r)
             \/ Complete(r) \/ AuditExpired(r) \/ Forget(r) \/ RejectInTx(r)
      PROVE  req'[p].by \in Subject
  <2>1. \E outcome, claimed :
             \/ req' = [req EXCEPT ![r] = IdleRequest]
             \/ req' = [req EXCEPT ![r] = Reply(outcome, claimed)]
             \/ req' = [req EXCEPT ![r] = [Reply(outcome, claimed) EXCEPT !.pc = "refused"]]
    BY <1>4 DEF Acquire, Renew, Release, Reclaim, CommitControl, NotFound, Complete,
                AuditExpired, Forget, RejectInTx
  <2> QED
    BY <2>1, <1>3
<1>5. ASSUME NEW r \in Req,
             \/ Begin(r) \/ Lock(r) \/ ChooseVictim(r) \/ RecordRejection(r) \/ SideEffect(r)
             \/ MarkExpired(r)
      PROVE  req'[p].by \in Subject
  <2>1. req'[p].op = req[p].op /\ req'[p].by = req[p].by
    <3>1. CASE Begin(r)
      BY <3>1, <1>a DEF Begin, Request
    <3>2. CASE Lock(r)
      BY <3>2, <1>a DEF Lock, Request
    <3>3. CASE ChooseVictim(r)
      BY <3>3, <1>a DEF ChooseVictim, Request
    <3>4. CASE RecordRejection(r)
      BY <3>4, <1>a DEF RecordRejection, Request
    <3>5. CASE SideEffect(r)
      BY <3>5, <1>a DEF SideEffect, Request
    <3>6. CASE MarkExpired(r)
      BY <3>6, <1>a DEF MarkExpired, Request
    <3> QED
      BY <1>5, <3>1, <3>2, <3>3, <3>4, <3>5, <3>6
  <2> QED
    BY <2>1, <1>b
<1>6. ASSUME NEW r \in Req, RequireLease(r) PROVE req'[p].by \in Subject
  <2>1. PICK l \in Current(req[r].now) :
          req' = [req EXCEPT ![r] = [IdleRequest EXCEPT !.pc = "acting", !.by = req[r].by,
                                                        !.op = "browser_action", !.target = l]]
    BY <1>6 DEF RequireLease
  <2>2. p # r
    BY <2>1, <1>a DEF IdleRequest, ControlOps
  <2> QED
    BY <2>1, <2>2, <1>a, <1>b
<1>7. ASSUME NEW r \in Req, Heartbeat(r) PROVE req'[p].by \in Subject
  <2>1. p # r
    BY <1>7, <1>a DEF Heartbeat, IdleRequest, ControlOps
  <2> QED
    BY <1>7, <2>1, <1>a, <1>b DEF Heartbeat
<1>8. CASE Crash
  BY <1>8 DEF Crash, IdleRequest, ControlOps
<1>9. CASE req' = req
  BY <1>9, <1>b
<1> QED
  BY <1>2, <1>4, <1>5, <1>6, <1>7, <1>8, <1>9 DEF Next, Serve, vars, Tick, DeleteSession

\* What the steps do to the rows, in one sentence each: a committed insert leaves
\* one active lease, the caller's; every other step leaves each row's holder
\* alone, and no row becomes active.
LEMMA HoldersStep == IInv /\ CallersKnown /\ HoldersKnown /\ [Next]_vars => HoldersKnown'
<1> SUFFICES ASSUME IInv, CallersKnown, HoldersKnown, [Next]_vars,
                    NEW l \in Lease, lease'[l].status = "active"
             PROVE  lease'[l].by \in Subject
  BY DEF HoldersKnown, Active
<1> USE DEF IInv
<1>a. lease \in [Lease -> LeaseRow] /\ req \in [Req -> Request]
  BY DEF TypeOK
<1>b. lease[l].status = "active" => lease[l].by \in Subject
  BY DEF HoldersKnown, Active
<1>c. ASSUME NEW r \in Req, lock = r
      PROVE  /\ Expired(r) \in [Lease -> LeaseRow]
             /\ Expired(r)[l].by = lease[l].by
             /\ Expired(r)[l].status = "active" => lease[l].status = "active"
  BY <1>c, ExpiredTable
<1>1. ASSUME NEW r \in Req, Acquire(r) \/ Reclaim(r) PROVE lease'[l].by \in Subject
  <2>1. lock = r /\ req[r].by \in Subject /\ Expired(r) \in [Lease -> LeaseRow]
    BY <1>1, <1>c DEF Acquire, Reclaim, InTx, CallersKnown, ControlOps
  <2>2. ASSUME NEW table, NEW m \in FreshLeases, lease' = [table EXCEPT ![m] = NewLease(r)],
               table \in [Lease -> LeaseRow], table[l].by = lease[l].by,
               table[l].status = "active" => lease[l].status = "active"
        PROVE  lease'[l].by \in Subject
    <3>1. lease'[l] = NewLease(r) \/ lease'[l] = table[l]
      BY <2>2
    <3> QED
      BY <2>1, <2>2, <3>1, <1>b DEF NewLease
  <2>3. CASE Acquire(r)
    <3>1. PICK m \in FreshLeases : lease' = [Expired(r) EXCEPT ![m] = NewLease(r)]
      BY <2>3 DEF Acquire, CommitControl, Commit
    <3> QED
      BY <2>1, <2>2, <3>1, <1>c
  <2>4. CASE Reclaim(r)
    <3> DEFINE table == SetStatus({req[r].target}, "reclaimed", Expired(r))
    <3>1. PICK m \in FreshLeases : lease' = [table EXCEPT ![m] = NewLease(r)]
      BY <2>4 DEF Reclaim, CommitControl, Commit
    <3>2. table \in [Lease -> LeaseRow]
      BY <2>1, SetStatusType DEF Statuses
    <3>3. /\ table[l].by = Expired(r)[l].by
          /\ table[l].status = "active" => Expired(r)[l].status = "active"
      BY <2>1 DEF SetStatus, LeaseRow
    <3> HIDE DEF table
    <3> QED
      BY <2>1, <2>2, <3>1, <3>2, <3>3, <1>c
  <2> QED
    BY <1>1, <2>3, <2>4
<1>2. ASSUME NEW r \in Req, Renew(r) \/ Release(r) PROVE lease'[l].by \in Subject
  <2>1. lock = r /\ Expired(r) \in [Lease -> LeaseRow]
    BY <1>2, <1>c DEF Renew, Release, InTx
  <2>2. CASE Renew(r)
    <3>1. lease' = [Expired(r) EXCEPT ![req[r].target] = [@ EXCEPT !.expires = req[r].expires]]
      BY <2>2 DEF Renew, CommitControl, Commit
    <3>2. lease'[l].by = Expired(r)[l].by /\ lease'[l].status = Expired(r)[l].status
      BY <2>1, <3>1 DEF LeaseRow
    <3> QED
      BY <2>1, <3>2, <1>b, <1>c
  <2>3. CASE Release(r)
    <3>1. lease' = [Expired(r) EXCEPT ![req[r].target] = [@ EXCEPT !.status = "released"]]
      BY <2>3 DEF Release, CommitControl, Commit
    <3>2. lease'[l] = Expired(r)[l]
      BY <2>1, <3>1 DEF LeaseRow
    <3> QED
      BY <2>1, <3>2, <1>b, <1>c
  <2> QED
    BY <1>2, <2>2, <2>3
<1>3. ASSUME NEW r \in Req, RequireLease(r) PROVE lease'[l].by \in Subject
  BY <1>3, <1>b, <1>c DEF RequireLease, InTx, Commit
<1>4. ASSUME NEW ls, NEW status \in Statuses \ {"active"}, lease' = SetStatus(ls, status, lease)
      PROVE  lease'[l].by \in Subject
  BY <1>4, <1>a, <1>b DEF SetStatus, LeaseRow
<1>5. ASSUME NEW r \in Req, MarkExpired(r) PROVE lease'[l].by \in Subject
  BY <1>4, <1>5 DEF MarkExpired, Statuses
<1>6. CASE DeleteSession
  BY <1>4, <1>6 DEF DeleteSession, Statuses
<1>7. CASE lease' = lease
  BY <1>7, <1>b
<1> QED
  BY <1>1, <1>2, <1>3, <1>5, <1>6, <1>7 DEF Next, Serve, vars, Submit, Begin, Lock,
     NotFound, ChooseVictim, RejectInTx, RecordRejection, SideEffect, Complete, AuditExpired,
     Forget, Heartbeat, Tick, Crash

-----------------------------------------------------------------------------
(* The row's holder is somebody who may see the device, and the lease a    *)
(* reclaim has chosen can only have been expired since.                    *)

LockersMaySee == \A r \in Req : lock = r => CanSee(req[r].by)

VictimLive ==
  \A r \in Req : At(r, "chosen") =>
    \/ req[r].target = NoLease
    \/ /\ req[r].target \in Lease
       /\ lease[req[r].target].status \in {"active", "expired"}
       /\ Active \subseteq {req[r].target}

\* What a step does to the call that holds the row, if it goes on holding it.
LEMMA RowHolderStep ==
  ASSUME IInv, [Next]_vars, NEW p \in Req, lock' = p
  PROVE  \/ Lock(p)
         \/ ChooseVictim(p)
         \/ /\ lock = p /\ req'[p] = req[p]
            /\ lease' = lease \/ \E r \in Req : MarkExpired(r)
<1> USE DEF IInv
<1>a. req \in [Req -> Request] /\ p # NoReq
  BY ReqAssumption DEF TypeOK
<1>b. \A r \in Req : lock = r <=> req[r].pc \in {"locked", "chosen"}
  BY DEF RowHeldInTx
<1>1. ASSUME NEW r \in Req,
             \/ Acquire(r) \/ Renew(r) \/ Release(r) \/ Reclaim(r) \/ RequireLease(r)
             \/ RejectInTx(r)
      PROVE  FALSE
  BY <1>1, <1>a DEF Acquire, Renew, Release, Reclaim, RequireLease, RejectInTx,
                    CommitControl, Commit
<1>2. ASSUME NEW r \in Req, r # p, NEW q, req' = [req EXCEPT ![r] = q], lock' = lock,
             lease' = lease \/ MarkExpired(r)
      PROVE  /\ lock = p /\ req'[p] = req[p]
             /\ lease' = lease \/ \E s \in Req : MarkExpired(s)
  BY <1>2, <1>a
<1>3. ASSUME NEW r \in Req,
             \/ Submit(r) \/ Begin(r) \/ NotFound(r) \/ RecordRejection(r) \/ SideEffect(r)
             \/ Complete(r) \/ AuditExpired(r) \/ Forget(r) \/ Heartbeat(r) \/ MarkExpired(r)
      PROVE  /\ lock = p /\ req'[p] = req[p]
             /\ lease' = lease \/ \E s \in Req : MarkExpired(s)
  <2>1. lock' = lock /\ r # p
    BY <1>3, <1>b DEF Submit, Begin, NotFound, RecordRejection, SideEffect, Complete,
                      AuditExpired, Forget, Heartbeat, MarkExpired, At
  <2>2. lease' = lease \/ MarkExpired(r)
    BY <1>3 DEF Submit, Begin, NotFound, RecordRejection, SideEffect, Complete,
                AuditExpired, Forget, Heartbeat
  <2>3. \E q : req' = [req EXCEPT ![r] = q]
    BY <1>3 DEF Submit, Begin, NotFound, RecordRejection, SideEffect, Complete,
                AuditExpired, Forget, Heartbeat, MarkExpired
  <2> QED
    BY <2>1, <2>2, <2>3, <1>2
<1>4. ASSUME NEW r \in Req, Lock(r) \/ ChooseVictim(r) PROVE Lock(p) \/ ChooseVictim(p)
  BY <1>4, <1>a DEF Lock, ChooseVictim, InTx
<1>5. CASE Tick \/ UNCHANGED vars
  BY <1>5 DEF Tick, vars
<1>6. CASE DeleteSession \/ Crash
  BY <1>6, <1>a DEF DeleteSession, Crash
<1> QED
  BY <1>1, <1>3, <1>4, <1>5, <1>6 DEF Next, Serve

LEMMA LockersStep == IInv /\ LockersMaySee /\ [Next]_vars => LockersMaySee'
<1> SUFFICES ASSUME IInv, LockersMaySee, [Next]_vars, NEW p \in Req, lock' = p
             PROVE  CanSee(req'[p].by)
  BY DEF LockersMaySee, CanSee
<1>a. req \in [Req -> Request]
  BY DEF IInv, TypeOK
<1>1. CASE Lock(p)
  BY <1>1, <1>a DEF Lock, Request, CanSee
<1>2. CASE ChooseVictim(p)
  BY <1>2, <1>a DEF ChooseVictim, InTx, Request, CanSee, LockersMaySee
<1>3. CASE lock = p /\ req'[p] = req[p]
  BY <1>3 DEF LockersMaySee
<1> QED
  BY <1>1, <1>2, <1>3, RowHolderStep

LEMMA VictimStep == IInv /\ VictimLive /\ [Next]_vars => VictimLive'
<1> SUFFICES ASSUME IInv, VictimLive, [Next]_vars, NEW p \in Req, req'[p].pc = "chosen"
             PROVE  \/ req'[p].target = NoLease
                    \/ /\ req'[p].target \in Lease
                       /\ lease'[req'[p].target].status \in {"active", "expired"}
                       /\ Active' \subseteq {req'[p].target}
  BY DEF VictimLive, At
<1> USE DEF IInv
<1>a. req \in [Req -> Request] /\ lease \in [Lease -> LeaseRow]
  BY DEF TypeOK
<1>b. lock' = p
  BY InductiveStep DEF RowHeldInTx
<1>1. CASE Lock(p)
  BY <1>1, <1>a DEF Lock, Request
<1>2. CASE ChooseVictim(p)
  <2>1. PICK l \in IF Current(req[p].now) = {} THEN {NoLease} ELSE Current(req[p].now) :
               req' = [req EXCEPT ![p] = [@ EXCEPT !.pc = "chosen", !.target = l]]
    BY <1>2 DEF ChooseVictim
  <2>2. req'[p].target = l /\ lease' = lease
    BY <1>2, <2>1, <1>a, ZenonT(60) DEF ChooseVictim, Request
  <2>3. l = NoLease \/ l \in Active
    BY <2>1 DEF Current
  <2> QED
    BY <2>2, <2>3 DEF OneActive, Active
<1>3. CASE lock = p /\ req'[p] = req[p] /\ lease' = lease
  BY <1>3 DEF VictimLive, At, Active
<1>4. ASSUME NEW r \in Req, MarkExpired(r), lock = p, req'[p] = req[p]
      PROVE  \/ req'[p].target = NoLease
             \/ /\ req'[p].target \in Lease
                /\ lease'[req'[p].target].status \in {"active", "expired"}
                /\ Active' \subseteq {req'[p].target}
  <2>1. \A l \in Lease : \/ lease'[l] = lease[l]
                         \/ lease'[l].status = "expired" /\ l \in Active
    BY <1>4, <1>a DEF MarkExpired, SetStatus, LeaseRow, Lapsing, Elapsed
  <2>2. Active' \subseteq Active
    BY <2>1 DEF Active
  <2> QED
    BY <1>4, <2>1, <2>2 DEF VictimLive, At
<1> QED
  BY <1>b, <1>1, <1>2, <1>3, <1>4, RowHolderStep

-----------------------------------------------------------------------------
(* The refinement mapping.                                                 *)

RInv ==
  /\ IInv
  /\ CallersKnown
  /\ HoldersKnown
  /\ LockersMaySee
  /\ VictimLive

LEMMA RInvStep == RInv /\ [Next]_vars => RInv'
  BY InductiveStep, CallersStep, HoldersStep, LockersStep, VictimStep DEF RInv

LEMMA HeldNow ==
  ASSUME OneActive
  PROVE  /\ Active = {} => Held = Free
         /\ \A l \in Active :
              Held = [lease |-> l, by |-> lease[l].by, until |-> lease[l].expires]
  BY DEF Held, OneActive

LEMMA HeldNext ==
  ASSUME OneActive'
  PROVE  /\ Active' = {} => Held' = Free
         /\ \A l \in Active' :
              Held' = [lease |-> l, by |-> lease'[l].by, until |-> lease'[l].expires]
  BY DEF Held, OneActive, Active

\* What is held is not free.
LEMMA HeldNotFree ==
  ASSUME RInv, NEW l \in Active
  PROVE  /\ Held # Free
         /\ Held = [lease |-> l, by |-> lease[l].by, until |-> lease[l].expires]
<1>1. Held = [lease |-> l, by |-> lease[l].by, until |-> lease[l].expires]
  BY HeldNow DEF RInv, IInv
<1>2. l \in Lease /\ lease[l].by \in Subject /\ lease[l].expires \in Nat
  BY ActiveType DEF RInv, HoldersKnown, IInv, TypeOK, LeaseRow
<1> QED
  BY <1>1, <1>2, FreeAssumption

Live == {"unused", "active"}

LEMMA EndedSame ==
  ASSUME \A l \in Lease : \/ lease'[l].status = lease[l].status
                          \/ lease'[l].status \in Live /\ lease[l].status \in Live
  PROVE  Ended' = Ended
  BY DEF Ended, Live

\* One lease ends, or is relabelled, and the others stay as they are.
LEMMA EndedOne ==
  ASSUME NEW m \in Lease, NEW ending, lease'[m].status = ending, ending \notin Live,
         \A l \in Lease \ {m} : \/ lease'[l].status = lease[l].status
                                \/ lease'[l].status \in Live /\ lease[l].status \in Live
  PROVE  Ended' = [Ended EXCEPT ![m] = ending]
  BY DEF Ended, Live

\* A step that leaves the table alone leaves the abstract state alone.
LEMMA Stutter ==
  ASSUME RInv, RInv', lease' = lease
  PROVE  Held' = Held /\ Ended' = Ended
<1>1. Active' = Active
  BY DEF Active
<1>2. Held' = Held
  <2>1. CASE Active = {}
    BY <1>1, <2>1, HeldNow, HeldNext DEF RInv, IInv
  <2>2. CASE Active # {}
    BY <1>1, <2>2, HeldNow, HeldNext DEF RInv, IInv
  <2> QED
    BY <2>1, <2>2
<1> QED
  BY <1>2, EndedSame

LEMMA Granted ==
  ASSUME RInv, NEW r \in Req
  PROVE  req[r].expires \in 0 .. clock + MaxTtl
  BY BoundAssumption DEF RInv, IInv, TypeOK, Request, RequestsTimely

\* A committed insert puts the caller in possession, under a lease never used.
LEMMA HoldInsert ==
  ASSUME RInv, RInv', NEW r \in Req, lock = r, req[r].op \in ControlOps,
         NEW table \in [Lease -> LeaseRow], NEW l \in FreshLeases,
         lease' = [table EXCEPT ![l] = NewLease(r)], clock' = clock
  PROVE  /\ Abs!Hold(l, req[r].by, req[r].expires)
         /\ l \in Lease /\ req[r].by \in Operators /\ lease'[l].status = "active"
<1> USE DEF RInv, IInv
<1>1. /\ l \in Lease /\ lease[l].status = "unused"
      /\ lease'[l] = NewLease(r)
  BY DEF FreshLeases
<1>2. l \in Active'
  BY <1>1 DEF Active, NewLease
<1>3. Held' = [lease |-> l, by |-> req[r].by, until |-> req[r].expires]
  BY <1>1, <1>2, HeldNext DEF NewLease
<1>4. ~Abs!Used(l)
  <2>1. Ended[l] = "no"
    BY <1>1 DEF Ended
  <2>2. ASSUME Held # Free PROVE Held.lease # l
    <3>1. PICK m \in Active : TRUE
      BY <2>2, HeldNow
    <3>2. m # l /\ Held.lease = m
      BY <1>1, <3>1, HeldNow DEF Active
    <3> QED
      BY <3>2
  <2> QED
    BY <2>1, <2>2 DEF Abs!Used
<1>5. req[r].by \in Operators
  BY DEF Operators, CallersKnown, LockersMaySee
<1> QED
  BY <1>1, <1>3, <1>4, <1>5, Granted DEF Abs!Hold, Abs!Grantable, NewLease

\* An insert of a transaction to which no lease was current: the device was free,
\* or its lease had elapsed and is expired by this transaction.
LEMMA TakeRefines ==
  ASSUME RInv, RInv', NEW r \in Req, lock = r, req[r].op \in ControlOps,
         Current(req[r].now) = {}, NEW l \in FreshLeases,
         lease' = [Expired(r) EXCEPT ![l] = NewLease(r)], clock' = clock
  PROVE  /\ Abs!Take(l, req[r].by, req[r].expires)
         /\ l \in Lease /\ req[r].by \in Operators
<1> USE DEF RInv, IInv
<1>1. Expired(r) \in [Lease -> LeaseRow]
  BY ExpiredTable
<1>2. /\ Abs!Hold(l, req[r].by, req[r].expires)
      /\ l \in Lease /\ req[r].by \in Operators /\ lease'[l].status = "active"
  BY <1>1, HoldInsert
<1>3. lease[l].status = "unused" /\ \A m \in Lease \ {l} : lease'[m] = Expired(r)[m]
  BY <1>1 DEF FreshLeases
<1>4. CASE Active = {}
  <2>1. \A m \in Lease \ {l} : lease'[m].status = lease[m].status
    BY <1>3, <1>4, ExpiredTable DEF Elapsed
  <2>2. Ended' = Ended
    BY <1>2, <1>3, <2>1, EndedSame DEF Live
  <2> QED
    BY <1>2, <1>4, <2>2, HeldNow DEF Abs!Take
<1>5. CASE Active # {}
  <2>1. PICK m \in Active : TRUE
    BY <1>5
  <2>2. /\ m \in Lease /\ m # l /\ req[r].now \in Nat /\ clock \in Nat
        /\ req[r].now <= clock /\ lease[m].expires \in Nat
    BY <2>1, <1>3 DEF Active, TypeOK, Request, LeaseRow, RequestsTimely
  <2>3. m \in Elapsed(req[r].now)
    BY <2>1, <2>2, ActiveSplit
  <2>4. lease'[m].status = "expired" /\ lease[m].expires <= clock
    BY <1>3, <2>2, <2>3, ExpiredTable DEF Elapsed
  <2>5. \A k \in Lease \ {m} : \/ lease'[k].status = lease[k].status
                               \/ lease'[k].status \in Live /\ lease[k].status \in Live
    <3> SUFFICES ASSUME NEW k \in Lease, k # m
                 PROVE  \/ lease'[k].status = lease[k].status
                        \/ lease'[k].status \in Live /\ lease[k].status \in Live
      OBVIOUS
    <3>1. k \notin Elapsed(req[r].now)
      BY <2>1 DEF OneActive, Elapsed
    <3>2. CASE k = l
      BY <3>2, <1>2, <1>3 DEF Live
    <3>3. CASE k # l
      BY <3>1, <3>3, <1>3, ExpiredTable
    <3> QED
      BY <3>2, <3>3
  <2>6. Ended' = [Ended EXCEPT ![m] = "expired"]
    BY <2>2, <2>4, <2>5, EndedOne DEF Live
  <2>7. Held # Free /\ Held.lease = m /\ Held.until = lease[m].expires
    BY <2>1, HeldNotFree
  <2> QED
    BY <1>2, <2>4, <2>6, <2>7 DEF Abs!Take, Abs!Elapsed, Abs!End
<1> QED
  BY <1>4, <1>5

LEMMA AcquireRefines == ASSUME RInv, RInv', NEW r \in Req, Acquire(r) PROVE Abs!Next
<1>1. /\ lock = r /\ req[r].op \in ControlOps /\ Current(req[r].now) = {}
  BY DEF Acquire, InTx, Verdict, ReserveVerdict, ControlOps
<1>2. PICK l \in FreshLeases :
        lease' = [Expired(r) EXCEPT ![l] = NewLease(r)] /\ clock' = clock
  BY DEF Acquire, CommitControl, Commit
<1> QED
  BY <1>1, <1>2, TakeRefines, Granted DEF Abs!Next, Abs!Grantable

LEMMA ReclaimRefines == ASSUME RInv, RInv', NEW r \in Req, Reclaim(r) PROVE Abs!Next
<1> USE DEF RInv, IInv
<1> DEFINE v == req[r].target
           table == SetStatus({v}, "reclaimed", Expired(r))
<1>1. /\ lock = r /\ req[r].op \in ControlOps /\ At(r, "chosen")
      /\ Current(req[r].now) \subseteq {v}
      /\ Expired(r) \in [Lease -> LeaseRow]
  BY ExpiredTable DEF Reclaim, InTx, ControlOps, VictimKnown
<1>2. PICK l \in FreshLeases : lease' = [table EXCEPT ![l] = NewLease(r)] /\ clock' = clock
  BY DEF Reclaim, CommitControl, Commit
<1>3. CASE v = NoLease
  <2>1. Current(req[r].now) = {}
    BY <1>1, <1>3, LeaseAssumption DEF Current, Active
  <2>2. table = Expired(r)
    BY <1>1, <1>3, LeaseAssumption DEF SetStatus
  <2> QED
    BY <1>1, <1>2, <2>1, <2>2, TakeRefines, Granted DEF Abs!Next, Abs!Grantable
<1>4. CASE v # NoLease
  <2>1. /\ v \in Lease /\ lease[v].status \in {"active", "expired"}
        /\ Active \subseteq {v}
    BY <1>1, <1>4 DEF VictimLive
  <2>2. table \in [Lease -> LeaseRow] /\ table[v].status = "reclaimed"
        /\ \A m \in Lease \ {v} : table[m] = Expired(r)[m]
    <3>1. table \in [Lease -> LeaseRow]
      BY <1>1, SetStatusType DEF Statuses
    <3>2. Expired(r)[v] \in LeaseRow /\ table[v] = [Expired(r)[v] EXCEPT !.status = "reclaimed"]
      BY <1>1, <2>1 DEF SetStatus
    <3>3. table[v].status = "reclaimed"
      BY <3>2 DEF LeaseRow
    <3>4. \A m \in Lease \ {v} : table[m] = Expired(r)[m]
      BY DEF SetStatus
    <3> QED
      BY <3>1, <3>3, <3>4
  <2>3. /\ Abs!Hold(l, req[r].by, req[r].expires)
        /\ l \in Lease /\ req[r].by \in Operators /\ lease'[l].status = "active"
    <3> HIDE DEF table
    <3> QED
      BY <1>1, <1>2, <2>2, HoldInsert
  <2>4. lease[l].status = "unused" /\ v # l
    BY <2>1 DEF FreshLeases
  <2>5. lease'[v].status = "reclaimed"
    BY <1>2, <2>1, <2>2, <2>4
  <2>6. \A k \in Lease \ {v} : \/ lease'[k].status = lease[k].status
                               \/ lease'[k].status \in Live /\ lease[k].status \in Live
    <3> SUFFICES ASSUME NEW k \in Lease, k # v
                 PROVE  \/ lease'[k].status = lease[k].status
                        \/ lease'[k].status \in Live /\ lease[k].status \in Live
      OBVIOUS
    <3>1. k \notin Elapsed(req[r].now)
      BY <2>1 DEF Elapsed
    <3>2. CASE k = l
      BY <3>2, <2>3, <2>4 DEF Live
    <3>3. CASE k # l
      <4>1. lease'[k] = Expired(r)[k]
        BY <1>2, <2>2, <3>3
      <4> QED
        BY <1>1, <3>1, <4>1, ExpiredTable
    <3> QED
      BY <3>2, <3>3
  <2>7. Ended' = [Ended EXCEPT ![v] = "reclaimed"]
    BY <2>1, <2>5, <2>6, EndedOne DEF Live
  <2>8. CASE lease[v].status = "active"
    <3>1. Held # Free /\ Held.lease = v
      BY <2>1, <2>8, HeldNotFree DEF Active
    <3>2. Abs!Reclaim(l, req[r].by, req[r].expires)
      BY <2>3, <2>7, <3>1 DEF Abs!Reclaim, Abs!End
    <3> QED
      BY <2>3, <3>2, Granted DEF Abs!Next, Abs!Grantable
  <2>9. CASE lease[v].status = "expired"
    <3>1. Active = {}
      BY <2>1, <2>9 DEF Active
    <3>2. Held = Free /\ Ended[v] = "expired"
      BY <2>1, <2>9, <3>1, HeldNow DEF Ended
    <3>3. Abs!Reclaim(l, req[r].by, req[r].expires)
      BY <2>1, <2>3, <2>7, <3>2 DEF Abs!Reclaim
    <3> QED
      BY <2>3, <3>3, Granted DEF Abs!Next, Abs!Grantable
  <2> QED
    BY <2>1, <2>8, <2>9
<1> QED
  BY <1>3, <1>4

\* The lease that a renewal or a release names is the one the device is held
\* under, and nothing has elapsed.
LEMMA TargetHeld ==
  ASSUME RInv, NEW r \in Req, lock = r,
         req[r].target \in Active \ Lapsing(r, req[r].now)
  PROVE  /\ req[r].target \in Lease
         /\ Expired(r) = lease
         /\ Held # Free
         /\ Held = [lease |-> req[r].target, by |-> lease[req[r].target].by,
                    until |-> lease[req[r].target].expires]
<1> USE DEF RInv, IInv
<1>1. Lapsing(r, req[r].now) = {}
  BY ExpiredTable DEF OneActive, Elapsed
<1>2. lease \in [Lease -> LeaseRow]
  BY DEF TypeOK
<1>3. Expired(r) = lease
  BY <1>1, <1>2 DEF Expired, SetStatus
<1> QED
  BY <1>3, HeldNotFree DEF Active

LEMMA RenewRefines == ASSUME RInv, RInv', NEW r \in Req, Renew(r) PROVE Abs!Next
<1> USE DEF RInv, IInv
<1> DEFINE l == req[r].target
<1>1. lock = r /\ l \in Active \ Lapsing(r, req[r].now)
  BY DEF Renew, InTx, Verdict, TargetVerdict
<1>2. /\ l \in Lease /\ Expired(r) = lease /\ Held # Free
      /\ Held = [lease |-> l, by |-> lease[l].by, until |-> lease[l].expires]
  BY <1>1, TargetHeld
<1>3. /\ lease' = [lease EXCEPT ![l] = [@ EXCEPT !.expires = req[r].expires]]
      /\ clock' = clock
  BY <1>2 DEF Renew, CommitControl, Commit
<1>4. lease \in [Lease -> LeaseRow] /\ lease[l] \in LeaseRow
  BY <1>2 DEF TypeOK
<1>5. /\ lease'[l] = [lease[l] EXCEPT !.expires = req[r].expires]
      /\ \A m \in Lease \ {l} : lease'[m] = lease[m]
  BY <1>2, <1>3, <1>4
<1>6. /\ lease'[l].status = lease[l].status /\ lease'[l].by = lease[l].by
      /\ lease'[l].expires = req[r].expires
  BY <1>4, <1>5 DEF LeaseRow
<1>7. l \in Active'
  BY <1>1, <1>2, <1>6 DEF Active
<1>8. Held' = [lease |-> l, by |-> lease[l].by, until |-> req[r].expires]
  BY <1>6, <1>7, HeldNext
<1>9. Ended' = Ended
  BY <1>5, <1>6, EndedSame
<1>10. Abs!Extend(req[r].expires)
  BY <1>2, <1>3, <1>8, <1>9, Granted DEF Abs!Extend, Abs!Grantable
<1> QED
  BY <1>10, Granted DEF Abs!Next, Abs!Grantable

LEMMA ReleaseRefines == ASSUME RInv, RInv', NEW r \in Req, Release(r) PROVE Abs!Next
<1> USE DEF RInv, IInv
<1> DEFINE l == req[r].target
<1>1. lock = r /\ l \in Active \ Lapsing(r, req[r].now)
  BY DEF Release, InTx, Verdict, TargetVerdict
<1>2. /\ l \in Lease /\ Expired(r) = lease /\ Held # Free
      /\ Held = [lease |-> l, by |-> lease[l].by, until |-> lease[l].expires]
  BY <1>1, TargetHeld
<1>3. lease' = [lease EXCEPT ![l] = [@ EXCEPT !.status = "released"]] /\ clock' = clock
  BY <1>2 DEF Release, CommitControl, Commit
<1>4. lease \in [Lease -> LeaseRow] /\ lease[l] \in LeaseRow
  BY <1>2 DEF TypeOK
<1>5. lease'[l].status = "released" /\ \A m \in Lease \ {l} : lease'[m] = lease[m]
  BY <1>2, <1>3, <1>4 DEF LeaseRow
<1>6. Ended' = [Ended EXCEPT ![l] = "released"]
  BY <1>2, <1>5, EndedOne DEF Live
<1>7. Active' = {}
  BY <1>1, <1>5 DEF Active, OneActive
<1>8. Held' = Free
  BY <1>7, HeldNext
<1>9. Abs!Release
  BY <1>2, <1>3, <1>6, <1>8 DEF Abs!Release, Abs!End
<1> QED
  BY <1>9 DEF Abs!Next

\* A governed browser action is admitted under the active lease, so it expires
\* nothing.
LEMMA RequireLeaseRefines == ASSUME RInv, NEW r \in Req, RequireLease(r) PROVE lease' = lease
<1> USE DEF RInv, IInv
<1>1. lock = r /\ lease' = Expired(r)
  BY DEF RequireLease, InTx, Commit
<1>2. PICK l \in Current(req[r].now) : TRUE
  BY DEF RequireLease
<1>3. req[r].now \in Nat
  BY DEF TypeOK, Request
<1>4. l \in Active /\ l \notin Elapsed(req[r].now)
  BY <1>2, <1>3, ActiveSplit DEF Current
<1>5. Elapsed(req[r].now) = {}
  BY <1>4 DEF OneActive, Elapsed
<1> QED
  BY <1>1, <1>5, ExpiredTable DEF Expired, SetStatus, TypeOK

LEMMA MarkExpiredRefines ==
  ASSUME RInv, RInv', NEW r \in Req, MarkExpired(r) PROVE Abs!Lapse \/ lease' = lease
<1> USE DEF RInv, IInv
<1>a. lease \in [Lease -> LeaseRow]
  BY DEF TypeOK
<1>1. lease' = SetStatus(Lapsing(r, clock), "expired", lease) /\ clock' = clock
  BY DEF MarkExpired
<1>2. CASE Lapsing(r, clock) = {}
  BY <1>1, <1>2, <1>a DEF SetStatus
<1>3. CASE Lapsing(r, clock) # {}
  <2>1. PICK l \in Elapsed(clock) : l \in Lapsing(r, clock)
    BY <1>3 DEF Lapsing
  <2>2. l \in Lease /\ l \in Active /\ lease[l].expires <= clock
    BY <2>1 DEF Elapsed, Active
  <2>3. lease'[l].status = "expired"
    BY <1>1, <1>a, <2>1, <2>2 DEF SetStatus, LeaseRow
  <2>4. \A m \in Lease \ {l} : m \notin Active /\ lease'[m] = lease[m]
    BY <1>1, <2>2 DEF SetStatus, Lapsing, Elapsed, OneActive
  <2>5. Active' = {}
    BY <2>3, <2>4 DEF Active
  <2>6. Ended' = [Ended EXCEPT ![l] = "expired"]
    BY <2>2, <2>3, <2>4, EndedOne DEF Live
  <2>7. Held' = Free
    BY <2>5, HeldNext
  <2>8. Held # Free /\ Held.lease = l /\ Held.until = lease[l].expires
    BY <2>2, HeldNotFree
  <2> QED
    BY <1>1, <2>2, <2>6, <2>7, <2>8 DEF Abs!Lapse, Abs!Elapsed, Abs!End
<1> QED
  BY <1>2, <1>3

LEMMA DeleteRefines == ASSUME RInv, RInv', DeleteSession PROVE Abs!Delete
<1> USE DEF RInv, IInv
<1>a. lease \in [Lease -> LeaseRow]
  BY DEF TypeOK
<1>1. lease' = SetStatus(Lease \ FreshLeases, "deleted", lease) /\ clock' = clock
  BY DEF DeleteSession
<1>2. \A l \in Lease : lease'[l].status = IF lease[l].status = "unused" THEN "unused"
                                          ELSE "deleted"
  BY <1>1, <1>a DEF SetStatus, FreshLeases, LeaseRow
<1>3. Held' = Free
  BY <1>2, HeldNext DEF Active
<1>4. \A l \in Lease : Abs!Used(l) <=> lease[l].status # "unused"
  <2> SUFFICES ASSUME NEW l \in Lease PROVE Abs!Used(l) <=> lease[l].status # "unused"
    OBVIOUS
  <2>1. CASE lease[l].status = "active"
    BY <2>1, HeldNotFree DEF Abs!Used, Active
  <2>2. CASE lease[l].status = "unused"
    <3>1. ASSUME Held # Free PROVE Held.lease # l
      <4>1. PICK m \in Active : TRUE
        BY <3>1, HeldNow
      <4>2. m # l /\ Held.lease = m
        BY <2>2, <4>1, HeldNow DEF Active
      <4> QED
        BY <4>2
    <3> QED
      BY <2>2, <3>1 DEF Abs!Used, Ended
  <2>3. CASE lease[l].status \notin {"active", "unused"}
    <3>1. Ended[l] = lease[l].status
      BY <2>3 DEF Ended
    <3>2. lease[l].status # "no"
      BY <1>a DEF LeaseRow, Statuses
    <3> QED
      BY <2>3, <3>1, <3>2 DEF Abs!Used
  <2> QED
    BY <2>1, <2>2, <2>3
<1>5. Ended' = [l \in Lease |-> IF Abs!Used(l) THEN "deleted" ELSE "no"]
  BY <1>2, <1>4 DEF Ended
<1> QED
  BY <1>1, <1>3, <1>5 DEF Abs!Delete

LEMMA StepRefines == RInv /\ RInv' /\ [Next]_vars => [Abs!Next]_(Abs!vars)
<1> SUFFICES ASSUME RInv, RInv', [Next]_vars PROVE [Abs!Next]_(Abs!vars)
  OBVIOUS
<1>1. CASE lease' = lease /\ clock' = clock
  BY <1>1, Stutter DEF Abs!vars
<1>2. CASE Tick
  BY <1>2, Stutter DEF Abs!Next, Abs!Tick, Tick
<1>3. ASSUME NEW r \in Req, Acquire(r) \/ Reclaim(r) \/ Renew(r) \/ Release(r) PROVE Abs!Next
  BY <1>3, AcquireRefines, ReclaimRefines, RenewRefines, ReleaseRefines
<1>4. ASSUME NEW r \in Req, RequireLease(r) PROVE [Abs!Next]_(Abs!vars)
  BY <1>1, <1>4, RequireLeaseRefines DEF RequireLease, Commit
<1>5. ASSUME NEW r \in Req, MarkExpired(r) PROVE [Abs!Next]_(Abs!vars)
  BY <1>1, <1>5, MarkExpiredRefines DEF MarkExpired, Abs!Next
<1>6. CASE DeleteSession
  BY <1>6, DeleteRefines DEF Abs!Next
<1> QED
  BY <1>1, <1>2, <1>3, <1>4, <1>5, <1>6 DEF Next, Serve, vars, Submit, Begin, Lock, NotFound,
     ChooseVictim, RejectInTx, RecordRejection, SideEffect, Complete, AuditExpired, Forget,
     Heartbeat, Crash

LEMMA InitRInv == Init => Abs!Init /\ RInv
<1> SUFFICES ASSUME Init PROVE Abs!Init /\ RInv
  OBVIOUS
<1>1. IInv
  BY InitIInv
<1>2. Active = {}
  BY DEF Init, Active, Unused
<1>3. Held = Free
  BY <1>1, <1>2, HeldNow DEF IInv
<1>4. Ended = [l \in Lease |-> "no"]
  BY DEF Init, Ended, Unused
<1>5. CallersKnown /\ LockersMaySee /\ VictimLive
  BY ReqAssumption DEF Init, CallersKnown, LockersMaySee, VictimLive, At, IdleRequest, ControlOps
<1> QED
  BY <1>1, <1>2, <1>3, <1>4, <1>5 DEF Init, Abs!Init, RInv, HoldersKnown

LEMMA RInvHolds == Spec => []RInv
<1>1. Init => RInv
  BY InitRInv
<1> QED
  BY <1>1, RInvStep, PTL DEF Spec

\* The lease service implements the exclusive lease: it is taken only when free or
\* past its deadline, lapses only past its deadline, and every lease ends the way
\* the abstract step that ended it says.
THEOREM Refinement == Spec => ImplementsDeviceLease
<1>1. Init => Abs!Init /\ RInv
  BY InitRInv
<1>2. RInv /\ [Next]_vars => RInv'
  BY RInvStep
<1>3. RInv /\ RInv' /\ [Next]_vars => [Abs!Next]_(Abs!vars)
  BY StepRefines
<1> QED
  BY <1>1, <1>2, <1>3, PTL DEF Spec, ImplementsDeviceLease, Abs!Spec

-----------------------------------------------------------------------------
(* How leases end.                                                         *)

\* The rows a transaction leaves as they are.
LEMMA EndedRow ==
  ASSUME IInv, NEW r \in Req, NEW l \in Lease, lease[l].status # "active"
  PROVE  Expired(r)[l] = lease[l] /\ Expired(r) \in [Lease -> LeaseRow]
BY ExpiredType DEF IInv, TypeOK, Expired, SetStatus, Lapsing, Elapsed, Active

\* A lease that has ended stays ended as it ended: only a reclaim that had chosen it
\* relabels it, and only one that a heartbeat has expired in the meantime
\* (reclaim_device overwrites the status by id).
THEOREM EndingsAreFinal == Spec => EndedStaysEnded
<1> DEFINE Kept(l) == \/ lease'[l].status \in {lease[l].status, "deleted"}
                      \/ /\ lease[l].status = "expired"
                         /\ lease'[l].status = "reclaimed"
                         /\ lock # NoReq /\ req[lock].target = l
           Final == \A l \in Lease :
                      lease[l].status \in {"released", "reclaimed", "expired", "deleted"} => Kept(l)
<1>1. ASSUME RInv, [Next]_vars, NEW l \in Lease,
             lease[l].status \in {"released", "reclaimed", "expired", "deleted"}
      PROVE  Kept(l)
  <2> USE DEF RInv, IInv
  <2>1. lease \in [Lease -> LeaseRow]
    BY <1>1 DEF TypeOK
  <2>2. ASSUME NEW r \in Req, Acquire(r) PROVE Kept(l)
    <3>1. PICK m \in FreshLeases : lease' = [Expired(r) EXCEPT ![m] = NewLease(r)]
      BY <2>2 DEF Acquire, CommitControl, Commit
    <3>2. m # l
      BY <1>1 DEF FreshLeases
    <3> QED
      BY <1>1, <3>1, <3>2, EndedRow
  <2>3. ASSUME NEW r \in Req, Renew(r) \/ Release(r) PROVE Kept(l)
    <3>1. req[r].target # l
      BY <1>1, <2>3 DEF Renew, Release, InTx, Verdict, TargetVerdict, Active
    <3>2. \E row : lease' = [Expired(r) EXCEPT ![req[r].target] = row]
      BY <2>3 DEF Renew, Release, CommitControl, Commit
    <3> QED
      BY <1>1, <3>1, <3>2, EndedRow
  <2>4. ASSUME NEW r \in Req, Reclaim(r) PROVE Kept(l)
    <3>1. PICK m \in FreshLeases :
            lease' = [SetStatus({req[r].target}, "reclaimed", Expired(r)) EXCEPT ![m] = NewLease(r)]
      BY <2>4 DEF Reclaim, CommitControl, Commit
    <3>2. m # l /\ lock = r /\ lock # NoReq
      BY <1>1, <2>4, ReqAssumption DEF FreshLeases, Reclaim, InTx
    <3>3. lease'[l] = IF l = req[r].target THEN [lease[l] EXCEPT !.status = "reclaimed"] ELSE lease[l]
      BY <1>1, <3>1, <3>2, EndedRow DEF SetStatus
    <3>4. l = req[r].target => lease[l].status = "expired"
      BY <1>1, <2>4, LeaseAssumption DEF VictimLive, Reclaim
    <3> QED
      BY <2>1, <3>2, <3>3, <3>4 DEF LeaseRow
  <2>5. ASSUME NEW r \in Req, RequireLease(r) PROVE Kept(l)
    BY <1>1, <2>5, EndedRow DEF RequireLease, Commit
  <2>6. ASSUME NEW r \in Req, MarkExpired(r) PROVE Kept(l)
    BY <1>1, <2>1, <2>6 DEF MarkExpired, SetStatus, Lapsing, Elapsed, Active
  <2>7. CASE DeleteSession
    BY <1>1, <2>1, <2>7 DEF DeleteSession, SetStatus, LeaseRow, FreshLeases
  <2>8. CASE lease' = lease
    BY <2>8
  <2> QED
    BY <1>1, <2>2, <2>3, <2>4, <2>5, <2>6, <2>7, <2>8 DEF Next, Serve, vars, Submit, Begin, Lock,
       NotFound, ChooseVictim, RejectInTx, RecordRejection, SideEffect, Complete, AuditExpired,
       Forget, Heartbeat, Tick, Crash
<1>2. RInv /\ [Next]_vars => [Final]_vars
  BY <1>1
<1>3. Spec => []RInv
  BY RInvHolds
<1> QED
  BY <1>2, <1>3, PTL DEF Spec, EndedStaysEnded

-----------------------------------------------------------------------------
(* What is audited.                                                        *)

\* Without the runtime's calls nobody comes between a transaction and the rows it
\* has seen: it expires and audits the same leases, and its victim is current.
Undisturbed ==
  \A r \in Req :
    /\ req[r].pc \notin {"selected", "marked"}
    /\ lock = r => req[r].seen \subseteq Elapsed(req[r].now)
    /\ At(r, "chosen") => req[r].target = NoLease \/ req[r].target \in Current(req[r].now)

AuditInv == IInv /\ Undisturbed /\ ExpiryAuditedExactlyOnce

LEMMA UndisturbedStep ==
  ASSUME "heartbeat" \notin Ops, IInv, Undisturbed, [Next]_vars
  PROVE  Undisturbed'
<1> USE DEF IInv
<1>1. req \in [Req -> Request] /\ IInv'
  BY InductiveStep DEF TypeOK
<1>2. ASSUME NEW r \in Req, MarkExpired(r) \/ Heartbeat(r) PROVE FALSE
  BY <1>2 DEF MarkExpired, Heartbeat, Undisturbed, At
<1> SUFFICES ASSUME NEW p \in Req
             PROVE  /\ req'[p].pc \notin {"selected", "marked"}
                    /\ lock' = p => \A l \in req'[p].seen : l \in Elapsed(req[p].now)'
                    /\ req'[p].pc = "chosen" =>
                         req'[p].target = NoLease \/ req'[p].target \in Current(req[p].now)'
  BY DEF Undisturbed, At
<1>3. req'[p].pc \notin {"selected", "marked"}
  <2>1. req[p].pc \notin {"selected", "marked"}
    BY DEF Undisturbed
  <2>2. ASSUME NEW r \in Req, NEW q \in Request, req' = [req EXCEPT ![r] = q],
               q.pc \notin {"selected", "marked"}
        PROVE  req'[p].pc \notin {"selected", "marked"}
    BY <1>1, <2>1, <2>2
  <2>3. ASSUME NEW r \in Req, Submit(r) PROVE req'[p].pc \notin {"selected", "marked"}
    <3>1. \E op, s, l, ttl : req' = [req EXCEPT ![r] = Submission(op, s, l, ttl)]
      BY <2>3 DEF Submit
    <3>2. \A op, s, l, ttl : Submission(op, s, l, ttl).pc = "arrived"
      BY DEF Submission, IdleRequest
    <3> QED
      BY <1>1, <2>1, <3>1, <3>2
  <2>4. ASSUME NEW r \in Req,
               \/ Acquire(r) \/ Renew(r) \/ Release(r) \/ Reclaim(r) \/ RejectInTx(r) \/ NotFound(r)
        PROVE  req'[p].pc \notin {"selected", "marked"}
    BY <1>1, <2>1, <2>4, ZenonT(60) DEF Acquire, Renew, Release, Reclaim, RejectInTx, NotFound, CommitControl, Reply,
                            IdleRequest
  <2>5. ASSUME NEW r \in Req,
               \/ Begin(r) \/ Lock(r) \/ ChooseVictim(r) \/ RecordRejection(r) \/ SideEffect(r)
        PROVE  req'[p].pc \notin {"selected", "marked"}
    <3>1. CASE Begin(r)
      BY <1>1, <2>1, <3>1 DEF Begin, Request
    <3>2. CASE Lock(r)
      BY <1>1, <2>1, <3>2 DEF Lock, Request
    <3>3. CASE ChooseVictim(r)
      BY <1>1, <2>1, <3>3 DEF ChooseVictim, Request
    <3>4. CASE RecordRejection(r)
      BY <1>1, <2>1, <3>4 DEF RecordRejection, Request
    <3>5. CASE SideEffect(r)
      BY <1>1, <2>1, <3>5 DEF SideEffect, Request
    <3> QED
      BY <2>5, <3>1, <3>2, <3>3, <3>4, <3>5
  <2>6. ASSUME NEW r \in Req, RequireLease(r) \/ Complete(r) \/ Forget(r) \/ AuditExpired(r)
        PROVE  req'[p].pc \notin {"selected", "marked"}
    <3>1. CASE RequireLease(r)
      BY <1>1, <2>1, <3>1 DEF RequireLease, IdleRequest
    <3>2. CASE Complete(r)
      BY <1>1, <2>1, <3>2 DEF Complete, Reply, IdleRequest
    <3>3. CASE Forget(r) \/ AuditExpired(r)
      BY <1>1, <2>1, <3>3 DEF Forget, AuditExpired, IdleRequest
    <3> QED
      BY <2>6, <3>1, <3>2, <3>3
  <2>7. CASE Crash
    BY <2>7 DEF Crash, IdleRequest
  <2>8. CASE Tick \/ DeleteSession \/ UNCHANGED vars
    BY <2>1, <2>8 DEF Tick, DeleteSession, vars
  <2> QED
    BY <1>2, <2>3, <2>4, <2>5, <2>6, <2>7, <2>8 DEF Next, Serve
<1>4. CASE lock' # p
  BY <1>1, <1>3, <1>4 DEF RowHeldInTx
<1>5. CASE lock' = p
  <2>1. lease' = lease
    BY <1>2, <1>5, RowHolderStep DEF Lock, ChooseVictim
  <2>2. \A t : Elapsed(t)' = Elapsed(t) /\ Current(t)' = Current(t)
    BY <2>1 DEF Elapsed, Current, Active
  <2>3. \A l : /\ l \in Elapsed(req[p].now)' <=> l \in Elapsed(req'[p].now)
               /\ l \in Current(req[p].now)' <=> l \in Current(req'[p].now)
    BY <2>1 DEF Elapsed, Current, Active
  <2>4. CASE Lock(p)
    <3>1. /\ req'[p].pc = "locked" /\ req'[p].now = req[p].now
          /\ req'[p].seen = Elapsed(req[p].now)
      BY <1>1, <2>4 DEF Lock, Request
    <3> QED
      BY <1>3, <2>3, <3>1
  <2>5. CASE ChooseVictim(p)
    <3>1. /\ req'[p].now = req[p].now /\ req'[p].seen = req[p].seen /\ lock = p
          /\ req'[p].target = NoLease \/ req'[p].target \in Current(req[p].now)
      BY <1>1, <2>5 DEF ChooseVictim, InTx, Request
    <3> QED
      BY <1>3, <2>3, <3>1 DEF Undisturbed
  <2>6. CASE lock = p /\ req'[p] = req[p]
    BY <1>3, <2>3, <2>6 DEF Undisturbed, At
  <2> QED
    BY <1>5, <2>4, <2>5, <2>6, RowHolderStep
<1> QED
  BY <1>4, <1>5

\* A committed transaction audits the leases that it expires.
LEMMA CommitAudits ==
  ASSUME AuditInv, NEW r \in Req, lock = r, NEW table, Commit(r, table),
         \A l \in Lease : /\ table[l].status = "deleted" <=> lease[l].status = "deleted"
                          /\ table[l].status = "expired" <=>
                               lease[l].status = "expired" \/ l \in Elapsed(req[r].now)
  PROVE  ExpiryAuditedExactlyOnce'
<1>1. req[r].seen = Elapsed(req[r].now)
  BY DEF AuditInv, IInv, ElapsedSeen, Undisturbed
<1>2. \A l \in Lease : l \in Elapsed(req[r].now) => lease[l].status = "active"
  BY DEF Elapsed, Active
<1>3. /\ lease' = table
      /\ \A l \in Lease : expiryAudits'[l] = expiryAudits[l] + IF l \in req[r].seen THEN 1 ELSE 0
      /\ expiryAudits \in [Lease -> Nat]
  BY DEF Commit, WithAudits, AuditInv, IInv, TypeOK
<1> QED
  BY <1>1, <1>2, <1>3 DEF AuditInv, ExpiryAuditedExactlyOnce

\* The rows of the tables that transactions commit.
LEMMA CommittedRows ==
  ASSUME IInv, NEW r \in Req, lock = r, NEW l \in Lease
  PROVE  /\ Expired(r)[l].status = IF l \in Elapsed(req[r].now) THEN "expired" ELSE lease[l].status
         /\ Expired(r)[l] \in LeaseRow
         /\ l \in Elapsed(req[r].now) => lease[l].status = "active" /\ l \notin Current(req[r].now)
         /\ l \in FreshLeases => lease[l].status = "unused"
<1>1. req[r].now \in Nat /\ lease[l].expires \in Nat
  BY DEF IInv, TypeOK, Request, LeaseRow
<1> QED
  BY <1>1, ExpiredTable DEF FreshLeases, Elapsed, Current, Active

LEMMA AuditStep ==
  ASSUME "heartbeat" \notin Ops, AuditInv, [Next]_vars
  PROVE  ExpiryAuditedExactlyOnce'
<1> USE DEF AuditInv
<1>1. lease \in [Lease -> LeaseRow]
  BY DEF IInv, TypeOK
<1>2. ASSUME NEW r \in Req, Acquire(r) PROVE ExpiryAuditedExactlyOnce'
  <2>1. PICK m \in FreshLeases : CommitControl(r, [Expired(r) EXCEPT ![m] = NewLease(r)])
    BY <1>2 DEF Acquire
  <2> DEFINE table == [Expired(r) EXCEPT ![m] = NewLease(r)]
  <2>2. lock = r /\ m \in Lease /\ Expired(r) \in [Lease -> LeaseRow]
    BY <1>2, ExpiredTable DEF Acquire, InTx, FreshLeases
  <2>3. \A l \in Lease : table[l] = IF l = m THEN NewLease(r) ELSE Expired(r)[l]
    BY <2>2
  <2>4. NewLease(r).status = "active"
    BY DEF NewLease
  <2> HIDE DEF table
  <2>5. \A l \in Lease : /\ table[l].status = "deleted" <=> lease[l].status = "deleted"
                         /\ table[l].status = "expired" <=>
                               lease[l].status = "expired" \/ l \in Elapsed(req[r].now)
    BY <2>2, <2>3, <2>4, CommittedRows
  <2> QED
    BY <2>1, <2>2, <2>5, CommitAudits DEF CommitControl, table
<1>3. ASSUME NEW r \in Req, Renew(r) \/ Release(r) PROVE ExpiryAuditedExactlyOnce'
  <2> DEFINE t == req[r].target
  <2>1. PICK row : /\ row = [Expired(r)[t] EXCEPT !.expires = req[r].expires]
                      \/ row = [Expired(r)[t] EXCEPT !.status = "released"]
                   /\ CommitControl(r, [Expired(r) EXCEPT ![t] = row])
    BY <1>3 DEF Renew, Release
  <2>2. /\ lock = r /\ t \in Active \ Elapsed(req[r].now) /\ t \in Lease
        /\ Expired(r) \in [Lease -> LeaseRow]
    BY <1>3, ExpiredTable, ActiveType DEF Renew, Release, InTx, Verdict, TargetVerdict
  <2>3. row.status \in {"active", "released"}
    <3>1. Expired(r)[t] \in LeaseRow /\ Expired(r)[t].status = "active"
      BY <2>2, CommittedRows DEF Active
    <3> QED
      BY <2>1, <3>1 DEF LeaseRow
  <2> DEFINE table == [Expired(r) EXCEPT ![t] = row]
  <2>4. \A l \in Lease : table[l] = IF l = t THEN row ELSE Expired(r)[l]
    BY <2>2
  <2> HIDE DEF table
  <2>5. \A l \in Lease : /\ table[l].status = "deleted" <=> lease[l].status = "deleted"
                         /\ table[l].status = "expired" <=>
                               lease[l].status = "expired" \/ l \in Elapsed(req[r].now)
    BY <2>2, <2>3, <2>4, CommittedRows DEF Active
  <2> QED
    BY <2>1, <2>2, <2>5, CommitAudits DEF CommitControl, table
<1>4. ASSUME NEW r \in Req, Reclaim(r) PROVE ExpiryAuditedExactlyOnce'
  <2> DEFINE t == req[r].target
  <2>1. PICK m \in FreshLeases :
          CommitControl(r, [SetStatus({t}, "reclaimed", Expired(r)) EXCEPT ![m] = NewLease(r)])
    BY <1>4 DEF Reclaim
  <2>2. /\ lock = r /\ m \in Lease /\ Expired(r) \in [Lease -> LeaseRow]
        /\ t = NoLease \/ t \in Current(req[r].now)
    BY <1>4, ExpiredTable DEF Reclaim, InTx, FreshLeases, Undisturbed
  <2>3. NewLease(r).status = "active"
    BY DEF NewLease
  <2> DEFINE table == [SetStatus({t}, "reclaimed", Expired(r)) EXCEPT ![m] = NewLease(r)]
  <2>4. ASSUME NEW l \in Lease
        PROVE  table[l].status = IF l = m THEN "active"
                                 ELSE IF l = t THEN "reclaimed" ELSE Expired(r)[l].status
    <3>1. Expired(r)[l] \in LeaseRow
      BY <2>2
    <3>2. SetStatus({t}, "reclaimed", Expired(r))[l].status = IF l = t THEN "reclaimed" ELSE Expired(r)[l].status
      BY <3>1 DEF SetStatus, LeaseRow
    <3> QED
      BY <2>2, <2>3, <3>2 DEF SetStatus
  <2> HIDE DEF table
  <2>5. ASSUME NEW l \in Lease
        PROVE  /\ table[l].status = "deleted" <=> lease[l].status = "deleted"
               /\ table[l].status = "expired" <=>
                     lease[l].status = "expired" \/ l \in Elapsed(req[r].now)
    <3>1. l = t => lease[l].status = "active" /\ l \notin Elapsed(req[r].now)
      BY <2>2, CommittedRows, LeaseAssumption DEF Current, Active
    <3> QED
      BY <2>2, <2>4, <3>1, CommittedRows
  <2> QED
    BY <2>1, <2>2, <2>5, CommitAudits DEF CommitControl, table
<1>5. ASSUME NEW r \in Req, RequireLease(r) PROVE ExpiryAuditedExactlyOnce'
  <2>1. lock = r /\ Commit(r, Expired(r))
    BY <1>5 DEF RequireLease, InTx
  <2>2. \A l \in Lease : /\ Expired(r)[l].status = "deleted" <=> lease[l].status = "deleted"
                         /\ Expired(r)[l].status = "expired" <=>
                               lease[l].status = "expired" \/ l \in Elapsed(req[r].now)
    BY <2>1, CommittedRows
  <2> QED
    BY <2>1, <2>2, CommitAudits
<1>6. CASE DeleteSession
  <2>1. \A l \in Lease : lease'[l].status = IF lease[l].status = "unused" THEN "unused" ELSE "deleted"
    BY <1>1, <1>6 DEF DeleteSession, SetStatus, LeaseRow, FreshLeases
  <2> QED
    BY <1>6, <2>1 DEF DeleteSession, ExpiryAuditedExactlyOnce
<1>7. ASSUME NEW r \in Req, Heartbeat(r) \/ MarkExpired(r) \/ AuditExpired(r) PROVE FALSE
  BY <1>7 DEF Heartbeat, MarkExpired, AuditExpired, Undisturbed, At
<1>8. CASE lease' = lease /\ expiryAudits' = expiryAudits
  BY <1>8 DEF ExpiryAuditedExactlyOnce
<1> QED
  BY <1>2, <1>3, <1>4, <1>5, <1>6, <1>7, <1>8 DEF Next, Serve, vars, Submit, Begin, Lock,
     NotFound, ChooseVictim, RejectInTx, RecordRejection, SideEffect, Complete, Forget, Tick, Crash

\* As long as only transactions expire leases, each expiry has one lease_expired row
\* and nothing else has: rejections roll both back, crashes lose both.  (The calls of
\* begin_control_action and record_runtime_action make no such promise: they commit
\* the expiry and its audit row apart.)
THEOREM ExpiriesAreAudited ==
  ASSUME "heartbeat" \notin Ops
  PROVE  Spec => []ExpiryAuditedExactlyOnce
<1>1. Init => AuditInv
  <2>1. Init => Undisturbed
    BY ReqAssumption DEF Init, Undisturbed, IdleRequest, At
  <2>2. Init => ExpiryAuditedExactlyOnce
    BY DEF Init, ExpiryAuditedExactlyOnce, Unused
  <2> QED
    BY <2>1, <2>2, InitIInv DEF AuditInv
<1>2. AuditInv /\ [Next]_vars => AuditInv'
  BY InductiveStep, UndisturbedStep, AuditStep DEF AuditInv
<1>3. AuditInv => ExpiryAuditedExactlyOnce
  BY DEF AuditInv
<1> QED
  BY <1>1, <1>2, <1>3, PTL DEF Spec
=============================================================================
