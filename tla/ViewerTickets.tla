---------------------------- MODULE ViewerTickets ----------------------------
(***************************************************************************)
(* Viewer tickets (backend/app/viewer_tickets.py) and the VNC WebSocket    *)
(* they open (routes/sessions.py), for one session, on top of the lease    *)
(* service: the leases are those of DeviceLease, which AgentDeviceLeases   *)
(* implements.                                                             *)
(*                                                                         *)
(* A ticket is issued to an operator, for control only under an active     *)
(* lease, and is consumed by a WebSocket, which is then bridged to the     *)
(* browser until either end closes it.  consume_viewer_ticket is one       *)
(* transaction that locks the ticket row and then the lease row; a lock    *)
(* stops every other writer of the row.  Deleting the session locks lease  *)
(* rows and then ticket rows (ON DELETE CASCADE): PostgreSQL breaks the    *)
(* deadlock by aborting one of the two.                                    *)
(*                                                                         *)
(* Abstracted: token strings (a token is its ticket), origins, tenants     *)
(* (a session has one), audit rows, the bytes on the wire (RfbViewFilter). *)
(* One clock stands for the application's and the database's.              *)
(***************************************************************************)
EXTENDS Naturals, FiniteSets

CONSTANTS
  Call,         \* HTTP calls and WebSockets at the same time
  Ticket,       \* ticket ids (bound: tickets ever issued)
  Lease, Subject, User, UserOf, Interactive, MaxTtl, Free,  \* as in the lease modules
  TicketTtl,    \* VIEWER_TICKET_TTL_SECONDS
  MaxClock,     \* bound on the clock
  NoCall, NoTicket, NoLease

Modes == {"control", "view"}

ASSUME TicketCallAssumption  == NoCall \notin Call /\ NoTicket \notin Ticket
ASSUME TicketLeaseAssumption == NoLease \notin Lease
                                /\ Free \notin [lease : Lease, by : Subject, until : Nat]
ASSUME TicketUserAssumption  == UserOf \in [Subject -> User] /\ Interactive \subseteq Subject
ASSUME TicketBoundAssumption == TicketTtl \in Nat \ {0} /\ MaxTtl \in Nat \ {0} /\ MaxClock \in Nat

VARIABLES
  clock, held, ended,  \* the lease service, see DeviceLease
  exists,              \* the session has not been deleted
  ticket,              \* session_viewer_tickets
  leaseLock,           \* the call whose transaction holds each lease row
  ticketLock,          \* the call whose transaction holds each ticket row
  call,                \* calls in flight and open WebSockets
  admitted             \* how often each ticket has opened a WebSocket

leaseVars == <<clock, held, ended>>
lockVars  == <<leaseLock, ticketLock>>
vars == <<clock, held, ended, exists, ticket, leaseLock, ticketLock, call, admitted>>

Leases == INSTANCE DeviceLease WITH Operator <- Subject
-----------------------------------------------------------------------------
Rows == {"unused", "stored", "deleted"}

TicketRow ==
  [row : Rows, mode : Modes, by : Subject \cup {NoCall}, lease : Lease \cup {NoLease},
   expires : Nat, consumed : BOOLEAN]

NoRow == [row |-> "unused", mode |-> "view", by |-> NoCall, lease |-> NoLease,
          expires |-> 0, consumed |-> FALSE]

Phases == {"idle", "issuing", "begun", "ticketLocked", "verified", "open",
           "deleting", "cascading", "replied"}

Outcomes == {"none", "issued", "lease_required", "error",
             "ticket_invalid", "ticket_consumed", "ticket_expired",
             "lease_inactive", "deleted"}

CallRecord ==
  [pc : Phases, by : Subject \cup {NoCall}, mode : Modes, ticket : Ticket \cup {NoTicket},
   lease : Lease \cup {NoLease}, time : Nat, outcome : Outcomes]

IdleCall == [pc |-> "idle", by |-> NoCall, mode |-> "view", ticket |-> NoTicket,
             lease |-> NoLease, time |-> 0, outcome |-> "none"]

At(c, phase) == call[c].pc = phase
Answer(outcome) == [IdleCall EXCEPT !.pc = "replied", !.outcome = outcome]
Reply(c, outcome) == call' = [call EXCEPT ![c] = Answer(outcome)]

\* _lease_matches_actor: a token of the account stands in for its interactive lease.
Matches(holder, s) == holder = s \/ (holder \in Interactive /\ UserOf[holder] = UserOf[s])

Stored(t) == ticket[t].row = "stored"
HeldUnder(l) == held # Free /\ held.lease = l

\* The lease rows of this session, and what the lease service knows of each.
LeaseRows == {l \in Lease : Leases!Used(l) /\ ended[l] # "deleted"}
LeaseState(l) == IF HeldUnder(l) THEN <<held.by, held.until>> ELSE <<ended[l]>>

Unlocked(table, rows) == \A x \in rows : table[x] = NoCall
LockAll(table, rows, c) == [x \in DOMAIN table |-> IF x \in rows THEN c ELSE table[x]]
FreeRows(table, c) == [x \in DOMAIN table |-> IF table[x] = c THEN NoCall ELSE table[x]]

\* COMMIT, ROLLBACK or the loss of the connection frees the rows of a call.
EndTransaction(c) ==
  /\ leaseLock' = FreeRows(leaseLock, c)
  /\ ticketLock' = FreeRows(ticketLock, c)

Init ==
  /\ Leases!Init
  /\ exists = TRUE
  /\ ticket = [t \in Ticket |-> NoRow]
  /\ leaseLock = [l \in Lease |-> NoCall]
  /\ ticketLock = [t \in Ticket |-> NoCall]
  /\ call = [c \in Call |-> IdleCall]
  /\ admitted = [t \in Ticket |-> 0]
-----------------------------------------------------------------------------
(* The lease service and the clock run on; a lease row that a transaction  *)
(* holds does not change, and no lease changes under a deletion.           *)

LeaseService ==
  /\ exists
  /\ \A c \in Call : ~At(c, "cascading")
  /\ \/ \E l \in Lease, s \in Subject, u \in clock + 1 .. clock + MaxTtl :
          Leases!Take(l, s, u) \/ Leases!Reclaim(l, s, u)
     \/ \E u \in clock + 1 .. clock + MaxTtl : Leases!Extend(u)
     \/ Leases!Release
     \/ Leases!Lapse
  /\ \A l \in Lease : leaseLock[l] # NoCall => LeaseState(l)' = LeaseState(l)
  /\ UNCHANGED <<exists, ticket, leaseLock, ticketLock, call, admitted>>

Tick ==
  /\ clock < MaxClock
  /\ Leases!Tick
  /\ UNCHANGED <<exists, ticket, leaseLock, ticketLock, call, admitted>>
-----------------------------------------------------------------------------
(* POST /viewer-ticket.                                                    *)

Issuing == {c \in Call : At(c, "issuing")}
FreshTickets == {t \in Ticket : ticket[t].row = "unused"}

\* require_active_lease, then issue_viewer_ticket up to its INSERT.  The former
\* compares the deadline with the start of a transaction that may have waited:
\* the lease may have elapsed since.  The ticket names the caller, not the holder.
RequestTicket(c) ==
  /\ At(c, "idle")
  /\ Cardinality(Issuing) < Cardinality(FreshTickets)
  /\ exists
  /\ \E s \in Subject, mode \in Modes :
       LET admit(l) == call' = [call EXCEPT ![c] =
             [IdleCall EXCEPT !.pc = "issuing", !.by = s, !.mode = mode, !.lease = l,
                              !.time = clock + TicketTtl]]
       IN  \/ mode = "view" /\ admit(NoLease)
           \/ mode = "control" /\ held # Free /\ Matches(held.by, s) /\ admit(held.lease)
           \/ /\ mode = "control"
              /\ held # Free => Leases!Elapsed \/ ~Matches(held.by, s)
              /\ Reply(c, "lease_required")
  /\ UNCHANGED <<leaseVars, exists, ticket, lockVars, admitted>>

\* Mutant of StoreTicket: no foreign key to the session.
StoreTicketUnchecked(c) ==
  /\ At(c, "issuing")
  /\ \E t \in FreshTickets :
       /\ ticket' = [ticket EXCEPT ![t] =
            [row |-> "stored", mode |-> call[c].mode, by |-> call[c].by,
             lease |-> call[c].lease, expires |-> call[c].time, consumed |-> FALSE]]
       /\ Reply(c, "issued")
  /\ UNCHANGED <<leaseVars, exists, lockVars, admitted>>

\* The INSERT: its foreign keys want the session and the lease, unlocked by a deletion.
StoreTicket(c) ==
  /\ At(c, "issuing")
  /\ ~\E d \in Call : At(d, "cascading")
  /\ IF exists
     THEN \E t \in FreshTickets :
            /\ ticket' = [ticket EXCEPT ![t] =
                 [row |-> "stored", mode |-> call[c].mode, by |-> call[c].by,
                  lease |-> call[c].lease, expires |-> call[c].time, consumed |-> FALSE]]
            /\ Reply(c, "issued")
     ELSE Reply(c, "error") /\ UNCHANGED ticket
  /\ UNCHANGED <<leaseVars, exists, lockVars, admitted>>
-----------------------------------------------------------------------------
(* WebSocket /vnc?ticket=...: consume_viewer_ticket, then the bridge.      *)

\* An unknown token is that of a ticket not issued yet.
Connect(c) ==
  /\ At(c, "idle")
  /\ \E t \in Ticket :
       call' = [call EXCEPT ![c] =
         [IdleCall EXCEPT !.pc = "begun", !.ticket = t, !.time = clock]]
  /\ UNCHANGED <<leaseVars, exists, ticket, lockVars, admitted>>

TicketVerdict(t) ==
  CASE ~Stored(t) -> "ticket_invalid"
    [] Stored(t) /\ ticket[t].consumed -> "ticket_consumed"
    [] Stored(t) /\ ~ticket[t].consumed /\ ticket[t].expires <= clock -> "ticket_expired"
    [] OTHER -> "valid"

\* SELECT ... FOR UPDATE of the ticket, and the checks on it.
LockTicket(c) ==
  /\ At(c, "begun")
  /\ ticketLock[call[c].ticket] = NoCall
  /\ LET t == call[c].ticket
         verdict == TicketVerdict(t)
     IN  IF verdict = "valid"
         THEN /\ ticketLock' = [ticketLock EXCEPT ![t] = c]
              /\ call' = [call EXCEPT ![c] =
                   [@ EXCEPT !.pc = IF ticket[t].mode = "control" THEN "ticketLocked"
                                                                  ELSE "verified"]]
         ELSE Reply(c, verdict) /\ UNCHANGED ticketLock
  /\ UNCHANGED <<leaseVars, exists, ticket, leaseLock, admitted>>

\* The SELECT of the lease: active, of the ticket's own subject, and not elapsed
\* when the transaction began.
LeaseGood(c) ==
  LET t == call[c].ticket
  IN  /\ HeldUnder(ticket[t].lease)
      /\ held.by = ticket[t].by
      /\ held.until > call[c].time

\* Mutants of LockLease: the lease is read without FOR UPDATE; a refusal leaves
\* its transaction open.
LockLeaseReadOnly(c) ==
  /\ At(c, "ticketLocked")
  /\ leaseLock[ticket[call[c].ticket].lease] = NoCall
  /\ IF LeaseGood(c)
     THEN /\ call' = [call EXCEPT ![c] = [@ EXCEPT !.pc = "verified"]]
          /\ UNCHANGED lockVars
     ELSE Reply(c, "lease_inactive") /\ EndTransaction(c)
  /\ UNCHANGED <<leaseVars, exists, ticket, admitted>>

LockLeaseKeepsTicket(c) ==
  /\ At(c, "ticketLocked")
  /\ LET l == ticket[call[c].ticket].lease
     IN  /\ leaseLock[l] = NoCall
         /\ IF LeaseGood(c)
            THEN /\ leaseLock' = [leaseLock EXCEPT ![l] = c]
                 /\ call' = [call EXCEPT ![c] = [@ EXCEPT !.pc = "verified"]]
            ELSE Reply(c, "lease_inactive") /\ UNCHANGED leaseLock
  /\ UNCHANGED <<leaseVars, exists, ticket, ticketLock, admitted>>

LockLease(c) ==
  /\ At(c, "ticketLocked")
  /\ LET l == ticket[call[c].ticket].lease
     IN  /\ leaseLock[l] = NoCall
         /\ IF LeaseGood(c)
            THEN /\ leaseLock' = [leaseLock EXCEPT ![l] = c]
                 /\ call' = [call EXCEPT ![c] = [@ EXCEPT !.pc = "verified"]]
                 /\ UNCHANGED ticketLock
            ELSE Reply(c, "lease_inactive") /\ EndTransaction(c)
  /\ UNCHANGED <<leaseVars, exists, ticket, admitted>>

\* Mutant of Consume: consumed_at is not written.
ConsumeUnmarked(c) ==
  /\ At(c, "verified")
  /\ LET t == call[c].ticket
     IN  /\ admitted' = [admitted EXCEPT ![t] = @ + 1]
         /\ call' = [call EXCEPT ![c] =
              [@ EXCEPT !.pc = "open", !.mode = ticket[t].mode, !.by = ticket[t].by,
                        !.lease = ticket[t].lease]]
  /\ EndTransaction(c)
  /\ UNCHANGED <<leaseVars, exists, ticket>>

\* UPDATE ... SET consumed_at WHERE consumed_at IS NULL, and COMMIT.
Consume(c) ==
  /\ At(c, "verified")
  /\ LET t == call[c].ticket
     IN  IF Stored(t) /\ ~ticket[t].consumed
         THEN /\ ticket' = [ticket EXCEPT ![t] = [@ EXCEPT !.consumed = TRUE]]
              /\ admitted' = [admitted EXCEPT ![t] = @ + 1]
              /\ call' = [call EXCEPT ![c] =
                   [@ EXCEPT !.pc = "open", !.mode = ticket[t].mode, !.by = ticket[t].by,
                             !.lease = ticket[t].lease]]
         ELSE Reply(c, "ticket_consumed") /\ UNCHANGED <<ticket, admitted>>
  /\ EndTransaction(c)
  /\ UNCHANGED <<leaseVars, exists>>

\* Either end of the bridge closes; nothing else ends it.
Close(c) ==
  /\ At(c, "open")
  /\ call' = [call EXCEPT ![c] = IdleCall]
  /\ UNCHANGED <<leaseVars, exists, ticket, lockVars, admitted>>
-----------------------------------------------------------------------------
(* DELETE FROM sessions: the cascade deletes the lease rows, then the      *)
(* tickets of those leases and of the session.                             *)

Deleting == {c \in Call : call[c].pc \in {"deleting", "cascading"}}

Delete(c) ==
  /\ At(c, "idle")
  /\ exists
  /\ Deleting = {}
  /\ call' = [call EXCEPT ![c] = [IdleCall EXCEPT !.pc = "deleting"]]
  /\ UNCHANGED <<leaseVars, exists, ticket, lockVars, admitted>>

CascadeToLeases(c) ==
  /\ At(c, "deleting")
  /\ Unlocked(leaseLock, LeaseRows)
  /\ leaseLock' = LockAll(leaseLock, LeaseRows, c)
  /\ call' = [call EXCEPT ![c] = [@ EXCEPT !.pc = "cascading"]]
  /\ UNCHANGED <<leaseVars, exists, ticket, ticketLock, admitted>>

CascadeToTickets(c) ==
  /\ At(c, "cascading")
  /\ Unlocked(ticketLock, {t \in Ticket : Stored(t)})
  /\ Leases!Delete
  /\ exists' = FALSE
  /\ ticket' = [t \in Ticket |-> IF Stored(t) THEN [ticket[t] EXCEPT !.row = "deleted"]
                                              ELSE ticket[t]]
  /\ EndTransaction(c)
  /\ Reply(c, "deleted")
  /\ UNCHANGED admitted

\* The consumer holds a ticket and waits for its lease row, the deletion holds
\* the lease rows and waits for the ticket.
Deadlocked(c, d) ==
  /\ At(c, "ticketLocked")
  /\ At(d, "cascading")
  /\ leaseLock[ticket[call[c].ticket].lease] = d
  /\ ticketLock[call[c].ticket] = c

\* PostgreSQL aborts whichever of the two has waited for deadlock_timeout first:
\* the WebSocket is closed with 1011, or the deletion fails.
BreakDeadlock ==
  /\ \E c, d \in Call :
       /\ Deadlocked(c, d)
       /\ \E v \in {c, d} : EndTransaction(v) /\ Reply(v, "error")
  /\ UNCHANGED <<leaseVars, exists, ticket, admitted>>
-----------------------------------------------------------------------------
Forget(c) ==
  /\ At(c, "replied")
  /\ call' = [call EXCEPT ![c] = IdleCall]
  /\ UNCHANGED <<leaseVars, exists, ticket, lockVars, admitted>>

\* The backend dies: transactions roll back, WebSockets break.
Crash ==
  /\ \E c \in Call : ~At(c, "idle")
  /\ call' = [c \in Call |-> IdleCall]
  /\ leaseLock' = [l \in Lease |-> NoCall]
  /\ ticketLock' = [t \in Ticket |-> NoCall]
  /\ UNCHANGED <<leaseVars, exists, ticket, admitted>>

Serve(c) ==
  \/ StoreTicket(c)
  \/ LockTicket(c) \/ LockLease(c) \/ Consume(c)
  \/ CascadeToLeases(c) \/ CascadeToTickets(c)
  \/ Forget(c)

Next ==
  \/ LeaseService \/ Tick
  \/ \E c \in Call : RequestTicket(c) \/ Connect(c) \/ Delete(c) \/ Serve(c) \/ Close(c)
  \/ BreakDeadlock \/ Crash

Spec == Init /\ [][Next]_vars

\* PostgreSQL queues the waiters of a row and detects deadlocks, the event loop
\* serves what has arrived.
Fairness ==
  /\ \A c \in Call : SF_vars(Serve(c))
  /\ WF_vars(BreakDeadlock)

FairSpec == Spec /\ Fairness
-----------------------------------------------------------------------------
(* What must hold.                                                         *)

TypeOK ==
  /\ Leases!TypeOK
  /\ exists \in BOOLEAN
  /\ ticket \in [Ticket -> TicketRow]
  /\ leaseLock \in [Lease -> Call \cup {NoCall}]
  /\ ticketLock \in [Ticket -> Call \cup {NoCall}]
  /\ call \in [Call -> CallRecord]
  /\ admitted \in [Ticket -> Nat]

\* A ticket opens one WebSocket at most, however many present it at once and
\* whatever transactions are aborted or lost in a crash.
SingleUse == \A t \in Ticket : admitted[t] <= 1

\* A WebSocket gets control only while the device is held by the operator of its
\* ticket under the lease of its ticket: no release, reclaim or lapse slips in
\* between the check of the lease and the commit.
Admits(c) == At(c, "verified") /\ call'[c].pc = "open"

AdmittedUnderLease ==
  [][\A c \in Call : Admits(c) /\ call'[c].mode = "control" =>
       /\ HeldUnder(call'[c].lease)
       /\ held.by = call'[c].by]_vars

\* No ticket opens a WebSocket once its session has been deleted, whether it was
\* issued or presented while the deletion was going on.
AdmittedWhileSessionExists == [][~exists => admitted' = admitted]_vars

\* Every request is answered and every WebSocket opened or refused, the deadlock
\* of a consumption with the deletion of its session included.
EveryCallEnds ==
  \A c \in Call : call[c].pc \notin {"idle", "open"} ~> call[c].pc \in {"idle", "open"}
-----------------------------------------------------------------------------
(* The inductive invariant.                                                *)

\* Who presents a ticket presents a ticket; who consumes it holds its row, and
\* the row is as it was found.
HoldsTicket(c) ==
  /\ call[c].pc \in {"begun", "ticketLocked", "verified"} => call[c].ticket \in Ticket
  /\ call[c].pc \in {"ticketLocked", "verified"} =>
       /\ ticketLock[call[c].ticket] = c
       /\ Stored(call[c].ticket)
       /\ ~ticket[call[c].ticket].consumed

\* Who is about to be given control holds the lease row, and the device is held
\* under that lease by the operator of the ticket.
HoldsLease(c) ==
  At(c, "verified") /\ ticket[call[c].ticket].mode = "control" =>
    /\ HeldUnder(ticket[call[c].ticket].lease)
    /\ held.by = ticket[call[c].ticket].by
    /\ leaseLock[ticket[call[c].ticket].lease] = c

\* consumed_at tells how often a ticket was used.
ConsumedTellsUse ==
  \A t \in Ticket :
    /\ admitted[t] <= 1
    /\ admitted[t] = 1 => ticket[t].consumed
    /\ ticket[t].row = "unused" => ~ticket[t].consumed

\* One deletion at a time, of a session that is there; nothing is left of it after.
OneDeletion ==
  /\ \A c, d \in Deleting : c = d
  /\ Deleting # {} => exists
  /\ ~exists => \A t \in Ticket : ~Stored(t)

IInv ==
  /\ TypeOK
  /\ \A c \in Call : HoldsTicket(c) /\ HoldsLease(c)
  /\ ConsumedTellsUse
  /\ OneDeletion
-----------------------------------------------------------------------------
(* What texts and tests of the repository say and the code does not do.    *)

\* test_agent_devices.py:337: a token may use its owner's lease.  A control ticket it
\* was issued under that lease is refused only when the lease is over.
RefusedOnlyWithoutLease ==
  [][\A c \in Call : At(c, "ticketLocked") /\ call'[c].outcome = "lease_inactive" =>
       LET l == ticket[call[c].ticket].lease IN ~HeldUnder(l) \/ Leases!Elapsed]_vars
=============================================================================
