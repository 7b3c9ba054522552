------------------------ MODULE ViewerTickets_proofs ------------------------
(***************************************************************************)
(* Proofs about ViewerTickets: a ticket opens one WebSocket at most, and   *)
(* control is given only under the lease of the ticket, for any number of  *)
(* calls, tickets, leases and operators and any lifetimes.                 *)
(*                                                                         *)
(* The argument is the two row locks of consume_viewer_ticket: what was    *)
(* read under a lock is still so when the transaction commits, because     *)
(* every other writer of the row waits.  IInv says it for the ticket       *)
(* (HoldsTicket) and for the lease (HoldsLease).                           *)
(***************************************************************************)
EXTENDS ViewerTickets, TLAPS

-----------------------------------------------------------------------------
(* Types.                                                                  *)

LEMMA IdleType == IdleCall \in CallRecord
  BY DEF IdleCall, CallRecord, Phases, Modes, Outcomes

LEMMA AnswerType ==
  ASSUME NEW outcome \in Outcomes
  PROVE  Answer(outcome) \in CallRecord /\ Answer(outcome).pc = "replied"
  BY IdleType DEF Answer, IdleCall, CallRecord, Phases

\* Replacing one call's record keeps the table of calls well typed.
LEMMA CallType ==
  ASSUME TypeOK, NEW c \in Call, NEW q \in CallRecord, call' = [call EXCEPT ![c] = q]
  PROVE  call' \in [Call -> CallRecord]
  BY DEF TypeOK

LEMMA ReplyType ==
  ASSUME TypeOK, NEW c \in Call, NEW outcome \in Outcomes, Reply(c, outcome)
  PROVE  /\ call' \in [Call -> CallRecord]
         /\ call'[c].pc = "replied"
         /\ \A d \in Call \ {c} : call'[d] = call[d]
  BY AnswerType, CallType DEF Reply, TypeOK

\* A request for a ticket goes on to the INSERT, or is answered.
LEMMA RequestType ==
  ASSUME TypeOK, NEW c \in Call, RequestTicket(c)
  PROVE  /\ call' \in [Call -> CallRecord]
         /\ call'[c].pc \in {"issuing", "replied"}
         /\ \A d \in Call \ {c} : call'[d] = call[d]
<1> DEFINE Asks(s, mode, l) ==
      [IdleCall EXCEPT !.pc = "issuing", !.by = s, !.mode = mode, !.lease = l,
                       !.time = clock + TicketTtl]
<1>1. PICK s \in Subject, mode \in Modes :
        \/ \E l \in Lease \cup {NoLease} : call' = [call EXCEPT ![c] = Asks(s, mode, l)]
        \/ Reply(c, "lease_required")
  BY DEF RequestTicket, TypeOK, Leases!TypeOK, Leases!Holding
<1>2. CASE Reply(c, "lease_required")
  BY <1>2, ReplyType DEF Outcomes
<1>3. ASSUME NEW l \in Lease \cup {NoLease}, call' = [call EXCEPT ![c] = Asks(s, mode, l)]
      PROVE  /\ call' \in [Call -> CallRecord]
             /\ call'[c].pc \in {"issuing", "replied"}
             /\ \A d \in Call \ {c} : call'[d] = call[d]
  <2>1. clock + TicketTtl \in Nat
    BY TicketBoundAssumption DEF TypeOK, Leases!TypeOK
  <2>2. Asks(s, mode, l) \in CallRecord /\ Asks(s, mode, l).pc = "issuing"
    BY <2>1, IdleType DEF CallRecord, Phases
  <2> QED
    BY <1>3, <2>2 DEF TypeOK
<1> QED
  BY <1>1, <1>2, <1>3

\* The end of a transaction frees the rows of its call and no other.
LEMMA FreeRowsType ==
  ASSUME NEW S, NEW table \in [S -> Call \cup {NoCall}], NEW c \in Call
  PROVE  /\ FreeRows(table, c) \in [S -> Call \cup {NoCall}]
         /\ \A x \in S : /\ table[x] # c => FreeRows(table, c)[x] = table[x]
                         /\ FreeRows(table, c)[x] # NoCall => FreeRows(table, c)[x] = table[x]
  BY DEF FreeRows

\* A consumption that looks at its ticket or its lease goes on, or is refused.
LEMMA LockEffect ==
  ASSUME TypeOK, NEW c \in Call, LockTicket(c) \/ LockLease(c)
  PROVE  /\ call'[c].pc \in {"ticketLocked", "verified", "replied"}
         /\ \A d \in Call \ {c} : call'[d] = call[d]
<1>1. CASE LockTicket(c) /\ TicketVerdict(call[c].ticket) = "valid"
  BY <1>1 DEF LockTicket, TypeOK, CallRecord
<1>2. CASE LockTicket(c) /\ TicketVerdict(call[c].ticket) # "valid"
  <2>1. TicketVerdict(call[c].ticket) \in Outcomes
    BY <1>2 DEF TicketVerdict, Outcomes
  <2> QED
    BY <1>2, <2>1, ReplyType DEF LockTicket
<1>3. CASE LockLease(c) /\ LeaseGood(c)
  BY <1>3 DEF LockLease, TypeOK, CallRecord
<1>4. CASE LockLease(c) /\ ~LeaseGood(c)
  BY <1>4, ReplyType DEF LockLease, Outcomes
<1> QED
  BY <1>1, <1>2, <1>3, <1>4

LEMMA LockAllType ==
  ASSUME NEW S, NEW table \in [S -> Call \cup {NoCall}], NEW rows, NEW c \in Call
  PROVE  /\ LockAll(table, rows, c) \in [S -> Call \cup {NoCall}]
         /\ \A x \in S \ rows : LockAll(table, rows, c)[x] = table[x]
  BY DEF LockAll

LEMMA EndTransactionType ==
  ASSUME TypeOK, NEW c \in Call, EndTransaction(c)
  PROVE  /\ leaseLock' \in [Lease -> Call \cup {NoCall}]
         /\ ticketLock' \in [Ticket -> Call \cup {NoCall}]
         /\ \A l \in Lease : leaseLock[l] # c => leaseLock'[l] = leaseLock[l]
         /\ \A t \in Ticket : ticketLock[t] # c => ticketLock'[t] = ticketLock[t]
  BY FreeRowsType DEF TypeOK, EndTransaction

\* The lease service keeps its own types, whatever it does.
LEMMA LeaseTypeStep ==
  ASSUME Leases!TypeOK,
         \/ \E l \in Lease, s \in Subject, u \in clock + 1 .. clock + MaxTtl :
               Leases!Take(l, s, u) \/ Leases!Reclaim(l, s, u)
         \/ \E u \in clock + 1 .. clock + MaxTtl : Leases!Extend(u)
         \/ Leases!Release \/ Leases!Lapse \/ Leases!Delete \/ Leases!Tick
  PROVE  Leases!TypeOK'
<1> USE TicketBoundAssumption DEF Leases!TypeOK, Leases!Holding, Leases!Endings
<1>1. CASE \E l \in Lease, s \in Subject, u \in clock + 1 .. clock + MaxTtl :
               Leases!Take(l, s, u) \/ Leases!Reclaim(l, s, u)
  BY <1>1 DEF Leases!Take, Leases!Reclaim, Leases!Hold, Leases!End, Leases!Elapsed
<1>2. CASE \E u \in clock + 1 .. clock + MaxTtl : Leases!Extend(u)
  BY <1>2 DEF Leases!Extend
<1>3. CASE Leases!Release \/ Leases!Lapse
  BY <1>3 DEF Leases!Release, Leases!Lapse, Leases!End, Leases!Elapsed
<1>4. CASE Leases!Delete
  BY <1>4 DEF Leases!Delete
<1>5. CASE Leases!Tick
  BY <1>5 DEF Leases!Tick
<1> QED
  BY <1>1, <1>2, <1>3, <1>4, <1>5

\* The UPDATE of a consumption finds the row of its ticket as the SELECT left it: it
\* never comes to the answer "ticket_consumed".
ConsumeEffect(c) ==
  LET t == call[c].ticket IN
  /\ t \in Ticket /\ ticketLock[t] = c /\ Stored(t) /\ ~ticket[t].consumed
  /\ ticket' = [ticket EXCEPT ![t] = [@ EXCEPT !.consumed = TRUE]]
  /\ admitted' = [admitted EXCEPT ![t] = @ + 1]
  /\ call' = [call EXCEPT ![c] =
       [@ EXCEPT !.pc = "open", !.mode = ticket[t].mode, !.by = ticket[t].by,
                 !.lease = ticket[t].lease]]
  /\ EndTransaction(c)

LEMMA ConsumeOpens ==
  ASSUME IInv, NEW c \in Call, Consume(c)
  PROVE  /\ ConsumeEffect(c)
         /\ call'[c].pc = "open"
         /\ call'[c].mode = ticket[call[c].ticket].mode
         /\ call'[c].by = ticket[call[c].ticket].by
         /\ call'[c].lease = ticket[call[c].ticket].lease
         /\ \A d \in Call \ {c} : call'[d] = call[d]
         /\ \A t \in Ticket \ {call[c].ticket} : ticket'[t] = ticket[t]
         /\ \A t \in Ticket : ticket'[t].row = ticket[t].row
<1>1. ConsumeEffect(c)
  <2>1. HoldsTicket(c) /\ call[c].pc = "verified"
    BY DEF IInv, Consume, At
  <2> QED
    BY <2>1 DEF HoldsTicket, Consume, ConsumeEffect
<1>2. /\ call'[c].pc = "open"
      /\ call'[c].mode = ticket[call[c].ticket].mode
      /\ call'[c].by = ticket[call[c].ticket].by
      /\ call'[c].lease = ticket[call[c].ticket].lease
      /\ \A d \in Call \ {c} : call'[d] = call[d]
  BY <1>1 DEF ConsumeEffect, IInv, TypeOK, CallRecord
<1>3. ticket' = [ticket EXCEPT ![call[c].ticket] = [@ EXCEPT !.consumed = TRUE]]
  BY <1>1 DEF ConsumeEffect
<1>4. /\ \A t \in Ticket \ {call[c].ticket} : ticket'[t] = ticket[t]
      /\ \A t \in Ticket : ticket'[t].row = ticket[t].row
  BY <1>3 DEF IInv, TypeOK, TicketRow
<1> QED
  BY <1>1, <1>2, <1>4

\* The types alone are not inductive: a consumption writes what the row of its
\* ticket holds, so it has to be a ticket.
LEMMA TypeStep == IInv /\ [Next]_vars => TypeOK'
<1> SUFFICES ASSUME IInv, TypeOK, [Next]_vars PROVE TypeOK'
  BY DEF IInv
<1> USE TicketCallAssumption, TicketLeaseAssumption, TicketBoundAssumption
<1>lease. UNCHANGED leaseVars => Leases!TypeOK'
  BY DEF TypeOK, leaseVars, Leases!TypeOK, Leases!Holding
<1>1. CASE LeaseService
  <2>1. Leases!TypeOK'
    BY <1>1, LeaseTypeStep DEF LeaseService, TypeOK
  <2> QED
    BY <1>1, <2>1 DEF LeaseService, TypeOK
<1>2. CASE Tick
  <2>1. Leases!TypeOK'
    BY <1>2, LeaseTypeStep DEF Tick, TypeOK
  <2> QED
    BY <1>2, <2>1 DEF Tick, TypeOK
<1>3. ASSUME NEW c \in Call, RequestTicket(c) PROVE TypeOK'
  <2>1. call' \in [Call -> CallRecord]
    BY <1>3, RequestType
  <2> QED
    BY <1>3, <1>lease, <2>1 DEF RequestTicket, TypeOK, lockVars
<1>4. ASSUME NEW c \in Call, Connect(c) PROVE TypeOK'
  <2>1. ASSUME NEW t \in Ticket
        PROVE  [IdleCall EXCEPT !.pc = "begun", !.ticket = t, !.time = clock] \in CallRecord
    BY IdleType DEF IdleCall, CallRecord, Phases, TypeOK, Leases!TypeOK
  <2>2. call' \in [Call -> CallRecord]
    BY <1>4, <2>1, CallType DEF Connect
  <2> QED
    BY <1>4, <1>lease, <2>2 DEF Connect, TypeOK, lockVars
<1>5. ASSUME NEW c \in Call, Delete(c) PROVE TypeOK'
  <2>1. [IdleCall EXCEPT !.pc = "deleting"] \in CallRecord
    BY IdleType DEF IdleCall, CallRecord, Phases
  <2>2. call' \in [Call -> CallRecord]
    BY <1>5, <2>1, CallType DEF Delete
  <2> QED
    BY <1>5, <1>lease, <2>2 DEF Delete, TypeOK, lockVars
<1>6. ASSUME NEW c \in Call, StoreTicket(c) PROVE TypeOK'
  <2>1. call' \in [Call -> CallRecord]
    BY <1>6, ReplyType DEF StoreTicket, Outcomes
  <2>2. ticket' \in [Ticket -> TicketRow]
    <3>1. [row |-> "stored", mode |-> call[c].mode, by |-> call[c].by,
           lease |-> call[c].lease, expires |-> call[c].time, consumed |-> FALSE] \in TicketRow
      BY DEF TypeOK, CallRecord, TicketRow, Rows
    <3> QED
      BY <1>6, <3>1 DEF StoreTicket, TypeOK
  <2> QED
    BY <1>6, <1>lease, <2>1, <2>2 DEF StoreTicket, TypeOK, lockVars
<1>7. ASSUME NEW c \in Call, LockTicket(c) PROVE TypeOK'
  <2>1. TicketVerdict(call[c].ticket) # "valid" => TicketVerdict(call[c].ticket) \in Outcomes
    BY DEF TicketVerdict, Outcomes
  <2>2. \A phase \in Phases : [call[c] EXCEPT !.pc = phase] \in CallRecord
    BY DEF TypeOK, CallRecord
  <2>3. call' \in [Call -> CallRecord]
    <3>1. CASE TicketVerdict(call[c].ticket) = "valid"
      <4>1. PICK phase \in Phases : call' = [call EXCEPT ![c] = [call[c] EXCEPT !.pc = phase]]
        BY <1>7, <3>1 DEF LockTicket, Phases
      <4> QED
        BY <4>1, <2>2, CallType
    <3>2. CASE TicketVerdict(call[c].ticket) # "valid"
      BY <1>7, <3>2, <2>1, ReplyType DEF LockTicket
    <3> QED
      BY <3>1, <3>2
  <2>4. ticketLock' \in [Ticket -> Call \cup {NoCall}]
    BY <1>7 DEF LockTicket, TypeOK
  <2> QED
    BY <1>7, <1>lease, <2>3, <2>4 DEF LockTicket, TypeOK
<1>8. ASSUME NEW c \in Call, LockLease(c) PROVE TypeOK'
  <2>1. [call[c] EXCEPT !.pc = "verified"] \in CallRecord
    BY DEF TypeOK, CallRecord, Phases
  <2>2. call' \in [Call -> CallRecord]
    BY <1>8, <2>1, CallType, ReplyType DEF LockLease, Outcomes
  <2>3. /\ leaseLock' \in [Lease -> Call \cup {NoCall}]
        /\ ticketLock' \in [Ticket -> Call \cup {NoCall}]
    BY <1>8, EndTransactionType DEF LockLease, TypeOK
  <2> QED
    BY <1>8, <1>lease, <2>2, <2>3 DEF LockLease, TypeOK
<1>9. ASSUME NEW c \in Call, Consume(c) PROVE TypeOK'
  <2> DEFINE t == call[c].ticket
  <2>1. ConsumeEffect(c)
    BY <1>9, ConsumeOpens
  <2>2. ticket' \in [Ticket -> TicketRow]
    BY <2>1, ZenonT(60) DEF ConsumeEffect, TypeOK, TicketRow
  <2>3. [call[c] EXCEPT !.pc = "open", !.mode = ticket[t].mode, !.by = ticket[t].by,
                        !.lease = ticket[t].lease] \in CallRecord
    <3>1. t \in Ticket
      BY <2>1 DEF ConsumeEffect
    <3> QED
      BY <3>1, ZenonT(60) DEF TypeOK, CallRecord, TicketRow, Phases
  <2>4. admitted' \in [Ticket -> Nat] /\ call' \in [Call -> CallRecord]
    BY <2>1, <2>3, CallType DEF ConsumeEffect, TypeOK
  <2> QED
    BY <1>9, <1>lease, <2>1, <2>2, <2>4, EndTransactionType DEF Consume, ConsumeEffect, TypeOK
<1>10. ASSUME NEW c \in Call, Close(c) \/ Forget(c) PROVE TypeOK'
  BY <1>10, <1>lease, IdleType, CallType DEF Close, Forget, TypeOK, lockVars
<1>11. ASSUME NEW c \in Call, CascadeToLeases(c) PROVE TypeOK'
  <2>1. [call[c] EXCEPT !.pc = "cascading"] \in CallRecord
    BY DEF TypeOK, CallRecord, Phases
  <2> QED
    BY <1>11, <1>lease, <2>1, CallType, LockAllType DEF CascadeToLeases, TypeOK
<1>12. ASSUME NEW c \in Call, CascadeToTickets(c) PROVE TypeOK'
  <2>1. Leases!TypeOK'
    BY <1>12, LeaseTypeStep DEF CascadeToTickets, TypeOK
  <2>2. ticket' \in [Ticket -> TicketRow]
    BY <1>12 DEF CascadeToTickets, TypeOK, TicketRow, Rows
  <2>3. call' \in [Call -> CallRecord]
    BY <1>12, ReplyType DEF CascadeToTickets, Outcomes
  <2> QED
    BY <1>12, <2>1, <2>2, <2>3, EndTransactionType DEF CascadeToTickets, TypeOK
<1>13. CASE BreakDeadlock
  <2>1. PICK v \in Call : EndTransaction(v) /\ Reply(v, "error")
    BY <1>13 DEF BreakDeadlock
  <2> QED
    BY <1>13, <1>lease, <2>1, ReplyType, EndTransactionType DEF BreakDeadlock, TypeOK, Outcomes
<1>14. CASE Crash
  BY <1>14, <1>lease, IdleType DEF Crash, TypeOK
<1>15. CASE UNCHANGED vars
  BY <1>15, <1>lease DEF vars, leaseVars, TypeOK
<1> QED
  BY <1>1, <1>2, <1>3, <1>4, <1>5, <1>6, <1>7, <1>8, <1>9, <1>10, <1>11, <1>12, <1>13, <1>14,
     <1>15 DEF Next, Serve

-----------------------------------------------------------------------------
(* The inductive invariant.                                                *)

LEMMA InitIInv == Init => IInv
<1> SUFFICES ASSUME Init PROVE IInv
  OBVIOUS
<1> USE TicketCallAssumption, TicketLeaseAssumption, TicketBoundAssumption DEF Init
<1>1. TypeOK
  BY IdleType DEF TypeOK, NoRow, TicketRow, Rows, Modes,
                  Leases!Init, Leases!TypeOK, Leases!Holding, Leases!Endings
<1>2. \A c \in Call : HoldsTicket(c) /\ HoldsLease(c)
  BY DEF HoldsTicket, HoldsLease, At, IdleCall
<1>3. ConsumedTellsUse /\ OneDeletion
  BY DEF ConsumedTellsUse, OneDeletion, Deleting, IdleCall, NoRow
<1> QED
  BY <1>1, <1>2, <1>3 DEF IInv

\* Whatever one call does, the others keep the rows they hold: a call frees its own
\* rows only, and writes no row that another has locked.
LEMMA Bystanders ==
  ASSUME IInv, NEW c \in Call,
         \A d \in Call \ {c} : call'[d] = call[d],
         \A t \in Ticket : ticketLock[t] \notin {c, NoCall} =>
            ticketLock'[t] = ticketLock[t] /\ ticket'[t] = ticket[t],
         \A l \in Lease : leaseLock[l] \notin {c, NoCall} => leaseLock'[l] = leaseLock[l],
         held' = held
  PROVE  \A d \in Call \ {c} : HoldsTicket(d)' /\ HoldsLease(d)'
<1> SUFFICES ASSUME NEW d \in Call, d # c PROVE HoldsTicket(d)' /\ HoldsLease(d)'
  OBVIOUS
<1> USE TicketCallAssumption
<1>1. HoldsTicket(d) /\ HoldsLease(d) /\ call'[d] = call[d]
  BY DEF IInv
<1>2. HoldsTicket(d)'
  BY <1>1 DEF HoldsTicket, Stored
<1>3. HoldsLease(d)'
  <2> SUFFICES ASSUME At(d, "verified"), ticket'[call[d].ticket].mode = "control"
               PROVE  HoldsLease(d)'
    BY <1>1 DEF HoldsLease, At
  <2>1. /\ ticketLock[call[d].ticket] = d
        /\ call[d].ticket \in Ticket
        /\ ticket'[call[d].ticket] = ticket[call[d].ticket]
    BY <1>1 DEF HoldsTicket, At
  <2>2. /\ HeldUnder(ticket[call[d].ticket].lease)
        /\ held.by = ticket[call[d].ticket].by
        /\ leaseLock[ticket[call[d].ticket].lease] = d
    BY <1>1, <2>1 DEF HoldsLease
  <2>3. ticket[call[d].ticket].lease \in Lease
    BY <2>2 DEF HeldUnder, IInv, TypeOK, Leases!TypeOK, Leases!Holding
  <2> QED
    BY <1>1, <2>1, <2>2, <2>3 DEF HoldsLease, HeldUnder
<1> QED
  BY <1>2, <1>3

\* The lease service passes over the rows that a transaction holds.
LEMMA LeaseServiceKeepsLocked ==
  ASSUME IInv, LeaseService, NEW c \in Call
  PROVE  HoldsLease(c)'
<1> SUFFICES ASSUME At(c, "verified"), ticket[call[c].ticket].mode = "control"
             PROVE  HoldsLease(c)'
  BY DEF LeaseService, HoldsLease, At
<1> DEFINE l == ticket[call[c].ticket].lease
<1>1. HeldUnder(l) /\ held.by = ticket[call[c].ticket].by /\ leaseLock[l] = c
  BY DEF IInv, HoldsLease
<1>2. l \in Lease
  BY <1>1 DEF HeldUnder, IInv, TypeOK, Leases!TypeOK, Leases!Holding
<1>3. LeaseState(l)' = LeaseState(l)
  <2>1. \A m \in Lease : leaseLock[m] # NoCall => LeaseState(m)' = LeaseState(m)
    BY DEF LeaseService
  <2>2. l' = l
    BY DEF LeaseService
  <2> QED
    BY <1>1, <1>2, <2>1, <2>2, TicketCallAssumption
<1>4. LeaseState(l) = <<held.by, held.until>>
  BY <1>1 DEF LeaseState
<1>5. HeldUnder(l)'
  <2> SUFFICES ASSUME ~HeldUnder(l)' PROVE FALSE
    OBVIOUS
  <2>1. LeaseState(l)' = <<ended'[l]>>
    BY DEF LeaseState, LeaseService
  <2>2. <<held.by, held.until>> # <<ended'[l]>>
    OBVIOUS
  <2> QED
    BY <1>3, <1>4, <2>1, <2>2
<1>6. held'.by = held.by
  BY <1>3, <1>4, <1>5 DEF LeaseState
<1> QED
  BY <1>1, <1>5, <1>6 DEF HoldsLease, LeaseService, HeldUnder

\* Nobody's hold of a row is disturbed, and who begins to hold one may.
LEMMA HoldStep ==
  ASSUME IInv, [Next]_vars, TypeOK'
  PROVE  \A d \in Call : HoldsTicket(d)' /\ HoldsLease(d)'
<1> USE TicketCallAssumption
<1>quiet. ASSUME NEW c \in Call, call'[c].pc \notin {"begun", "ticketLocked", "verified"}
          PROVE  HoldsTicket(c)' /\ HoldsLease(c)'
  BY <1>quiet DEF HoldsTicket, HoldsLease, At
<1>1. CASE LeaseService
  <2>1. \A d \in Call : HoldsTicket(d)'
    BY <1>1 DEF LeaseService, IInv, HoldsTicket, Stored
  <2> QED
    BY <1>1, <2>1, LeaseServiceKeepsLocked
<1>2. CASE Tick
  BY <1>2 DEF Tick, Leases!Tick, IInv, HoldsTicket, HoldsLease, Stored, At, HeldUnder
<1>3. ASSUME NEW c \in Call, RequestTicket(c) \/ Delete(c) \/ Close(c) \/ Forget(c)
      PROVE  \A d \in Call : HoldsTicket(d)' /\ HoldsLease(d)'
  <2>1. /\ \A d \in Call \ {c} : call'[d] = call[d]
        /\ call'[c].pc \notin {"begun", "ticketLocked", "verified"}
        /\ UNCHANGED <<held, ticket, leaseLock, ticketLock>>
    <3>1. CASE RequestTicket(c)
      BY <3>1, RequestType DEF RequestTicket, IInv, leaseVars, lockVars
    <3>2. CASE Delete(c)
      BY <3>2 DEF Delete, IdleCall, IInv, TypeOK, leaseVars, lockVars
    <3>3. CASE Close(c) \/ Forget(c)
      BY <3>3 DEF Close, Forget, IdleCall, IInv, TypeOK, leaseVars, lockVars
    <3> QED
      BY <1>3, <3>1, <3>2, <3>3
  <2> QED
    BY <2>1, <1>quiet, Bystanders
<1>4. ASSUME NEW c \in Call, Connect(c)
      PROVE  \A d \in Call : HoldsTicket(d)' /\ HoldsLease(d)'
  <2>1. /\ \A d \in Call \ {c} : call'[d] = call[d]
        /\ call'[c].pc = "begun"
        /\ call'[c].ticket \in Ticket
        /\ UNCHANGED <<held, ticket, leaseLock, ticketLock>>
    BY <1>4 DEF Connect, IdleCall, IInv, TypeOK, leaseVars, lockVars
  <2>2. HoldsTicket(c)' /\ HoldsLease(c)'
    BY <2>1 DEF HoldsTicket, HoldsLease, At
  <2> QED
    BY <2>1, <2>2, Bystanders
<1>5. ASSUME NEW c \in Call, StoreTicket(c)
      PROVE  \A d \in Call : HoldsTicket(d)' /\ HoldsLease(d)'
  \* The ticket that is stored is held by nobody, since only stored ones are.
  <2>1. /\ \A d \in Call \ {c} : call'[d] = call[d]
        /\ call'[c].pc = "replied"
    BY <1>5, ReplyType DEF StoreTicket, IInv, Outcomes
  <2>2. \A t \in Ticket : Stored(t) => ticket'[t] = ticket[t]
    BY <1>5 DEF StoreTicket, FreshTickets, Stored, IInv, TypeOK
  <2>3. \A d \in Call \ {c} : HoldsTicket(d)'
    BY <1>5, <2>1, <2>2 DEF StoreTicket, lockVars, IInv, HoldsTicket, Stored
  <2>4. \A d \in Call \ {c} : HoldsLease(d)'
    BY <1>5, <2>1, <2>2 DEF StoreTicket, lockVars, leaseVars, IInv, HoldsTicket, HoldsLease,
                            At, HeldUnder
  <2> QED
    BY <2>1, <2>3, <2>4, <1>quiet
<1>6. ASSUME NEW c \in Call, LockTicket(c)
      PROVE  \A d \in Call : HoldsTicket(d)' /\ HoldsLease(d)'
  <2> DEFINE t == call[c].ticket
  <2>1. t \in Ticket
    BY <1>6 DEF LockTicket, At, IInv, HoldsTicket
  <2>2. CASE TicketVerdict(t) = "valid"
    <3>1. /\ ticketLock[t] = NoCall
          /\ ticketLock' = [ticketLock EXCEPT ![t] = c]
          /\ call'[c].pc = IF ticket[t].mode = "control" THEN "ticketLocked" ELSE "verified"
          /\ call'[c].ticket = t
          /\ \A d \in Call \ {c} : call'[d] = call[d]
          /\ UNCHANGED <<held, ticket, leaseLock>>
      BY <1>6, <2>2 DEF LockTicket, IInv, TypeOK, CallRecord, leaseVars
    <3>2. Stored(t) /\ ~ticket[t].consumed
      BY <2>2 DEF TicketVerdict
    <3>3. HoldsTicket(c)'
      BY <2>1, <3>1, <3>2 DEF HoldsTicket, Stored, IInv, TypeOK
    <3>4. HoldsLease(c)'
      BY <3>1 DEF HoldsLease, At
    <3>5. \A u \in Ticket : ticketLock[u] \notin {c, NoCall} => ticketLock'[u] = ticketLock[u]
      BY <3>1 DEF IInv, TypeOK
    <3> QED
      BY <3>1, <3>3, <3>4, <3>5, Bystanders
  <2>3. CASE TicketVerdict(t) # "valid"
    <3>1. /\ Reply(c, TicketVerdict(t))
          /\ UNCHANGED <<held, ticket, leaseLock, ticketLock>>
      BY <1>6, <2>3 DEF LockTicket, leaseVars
    <3>2. call'[c].pc = "replied" /\ \A d \in Call \ {c} : call'[d] = call[d]
      BY <3>1 DEF Reply, Answer, IdleCall, IInv, TypeOK
    <3> QED
      BY <3>1, <3>2, <1>quiet, Bystanders
  <2> QED
    BY <2>2, <2>3
<1>7. ASSUME NEW c \in Call, LockLease(c)
      PROVE  \A d \in Call : HoldsTicket(d)' /\ HoldsLease(d)'
  <2> DEFINE t == call[c].ticket
             l == ticket[t].lease
  <2>1. /\ t \in Ticket /\ ticketLock[t] = c /\ Stored(t) /\ ~ticket[t].consumed
        /\ leaseLock[l] = NoCall
    BY <1>7 DEF LockLease, At, IInv, HoldsTicket
  <2>2. CASE LeaseGood(c)
    <3>1. /\ leaseLock' = [leaseLock EXCEPT ![l] = c]
          /\ call'[c].pc = "verified" /\ call'[c].ticket = t
          /\ \A d \in Call \ {c} : call'[d] = call[d]
          /\ UNCHANGED <<held, ticket, ticketLock>>
      BY <1>7, <2>2 DEF LockLease, IInv, TypeOK, CallRecord, leaseVars
    <3>2. HeldUnder(l) /\ held.by = ticket[t].by
      BY <2>2 DEF LeaseGood
    <3>3. l \in Lease
      BY <3>2 DEF HeldUnder, IInv, TypeOK, Leases!TypeOK, Leases!Holding
    <3>4. leaseLock'[l] = c
      BY <3>1, <3>3 DEF IInv, TypeOK
    <3>5. HoldsTicket(c)'
      BY <2>1, <3>1 DEF HoldsTicket, Stored
    <3>6. HoldsLease(c)'
      BY <3>1, <3>2, <3>4 DEF HoldsLease, HeldUnder
    <3>7. \A m \in Lease : leaseLock[m] \notin {c, NoCall} => leaseLock'[m] = leaseLock[m]
      BY <2>1, <3>1 DEF IInv, TypeOK
    <3> QED
      BY <3>1, <3>5, <3>6, <3>7, Bystanders
  <2>3. CASE ~LeaseGood(c)
    <3>1. /\ Reply(c, "lease_inactive") /\ EndTransaction(c)
          /\ UNCHANGED <<held, ticket>>
      BY <1>7, <2>3 DEF LockLease, leaseVars
    <3>2. call'[c].pc = "replied" /\ \A d \in Call \ {c} : call'[d] = call[d]
      BY <3>1, ReplyType DEF IInv, Outcomes
    <3> QED
      BY <3>1, <3>2, <1>quiet, EndTransactionType, Bystanders DEF IInv
  <2> QED
    BY <2>2, <2>3
<1>8. ASSUME NEW c \in Call, Consume(c)
      PROVE  \A d \in Call : HoldsTicket(d)' /\ HoldsLease(d)'
  <2>1. EndTransaction(c) /\ UNCHANGED held
    BY <1>8 DEF Consume, leaseVars
  <2>2. call'[c].pc = "open" /\ \A d \in Call \ {c} : call'[d] = call[d]
    BY <1>8, ConsumeOpens
  <2>3. /\ ticketLock[call[c].ticket] = c
        /\ \A t \in Ticket : t # call[c].ticket => ticket'[t] = ticket[t]
    BY <1>8, ConsumeOpens DEF ConsumeEffect
  <2> QED
    BY <2>1, <2>2, <2>3, <1>quiet, EndTransactionType, Bystanders DEF IInv
<1>9. ASSUME NEW c \in Call, CascadeToLeases(c)
      PROVE  \A d \in Call : HoldsTicket(d)' /\ HoldsLease(d)'
  <2>1. /\ leaseLock' = LockAll(leaseLock, LeaseRows, c)
        /\ Unlocked(leaseLock, LeaseRows)
        /\ call'[c].pc = "cascading"
        /\ \A d \in Call \ {c} : call'[d] = call[d]
        /\ UNCHANGED <<held, ticket, ticketLock>>
    BY <1>9 DEF CascadeToLeases, IInv, TypeOK, CallRecord, leaseVars
  <2>2. \A l \in Lease : leaseLock[l] \notin {c, NoCall} => leaseLock'[l] = leaseLock[l]
    BY <2>1, LockAllType DEF Unlocked, IInv, TypeOK
  <2> QED
    BY <2>1, <2>2, <1>quiet, Bystanders
<1>10. ASSUME NEW c \in Call, CascadeToTickets(c)
       PROVE  \A d \in Call : HoldsTicket(d)' /\ HoldsLease(d)'
  \* No stored ticket is locked, so nobody is consuming one.
  <2>1. \A d \in Call : call[d].pc \notin {"ticketLocked", "verified"}
    BY <1>10 DEF CascadeToTickets, Unlocked, IInv, HoldsTicket
  <2>2. call'[c].pc = "replied" /\ \A d \in Call \ {c} : call'[d] = call[d]
    BY <1>10, ReplyType DEF CascadeToTickets, IInv, Outcomes
  <2> QED
    BY <2>1, <2>2 DEF IInv, HoldsTicket, HoldsLease, At
<1>11. CASE BreakDeadlock
  <2>1. PICK v \in Call : EndTransaction(v) /\ Reply(v, "error")
    BY <1>11 DEF BreakDeadlock
  <2>2. call'[v].pc = "replied" /\ \A d \in Call \ {v} : call'[d] = call[d]
    BY <2>1, ReplyType DEF IInv, Outcomes
  <2>3. UNCHANGED <<held, ticket>>
    BY <1>11 DEF BreakDeadlock, leaseVars
  <2> QED
    BY <2>1, <2>2, <2>3, <1>quiet, EndTransactionType, Bystanders DEF IInv
<1>12. CASE Crash
  BY <1>12 DEF Crash, HoldsTicket, HoldsLease, At, IdleCall
<1>13. CASE UNCHANGED vars
  BY <1>13 DEF vars, IInv, HoldsTicket, HoldsLease, Stored, At, HeldUnder
<1> QED
  BY <1>1, <1>2, <1>3, <1>4, <1>5, <1>6, <1>7, <1>8, <1>9, <1>10, <1>11, <1>12, <1>13
     DEF Next, Serve

\* A ticket is used where its row is locked and unconsumed, and nowhere else.
LEMMA UseStep == ASSUME IInv, [Next]_vars, TypeOK' PROVE ConsumedTellsUse'
<1>1. ConsumedTellsUse
  BY DEF IInv
<1>2. ASSUME NEW c \in Call, StoreTicket(c) PROVE ConsumedTellsUse'
  BY <1>1, <1>2 DEF StoreTicket, ConsumedTellsUse, FreshTickets, IInv, TypeOK
<1>3. ASSUME NEW c \in Call, Consume(c) PROVE ConsumedTellsUse'
  <2> DEFINE t == call[c].ticket
  <2>1. t \in Ticket /\ Stored(t) /\ ~ticket[t].consumed
    BY <1>3, ConsumeOpens DEF ConsumeEffect
  <2>2. /\ ticket' = [ticket EXCEPT ![t] = [@ EXCEPT !.consumed = TRUE]]
        /\ admitted' = [admitted EXCEPT ![t] = @ + 1]
    BY <1>3, ConsumeOpens DEF ConsumeEffect
  <2>3. admitted[t] = 0
    <3>1. admitted[t] \in Nat /\ admitted[t] <= 1 /\ admitted[t] # 1
      BY <1>1, <2>1 DEF ConsumedTellsUse, IInv, TypeOK
    <3> QED
      BY <3>1
  <2>4. ticket'[t].consumed /\ ticket'[t].row = "stored"
    BY <2>1, <2>2 DEF IInv, TypeOK, TicketRow, Stored
  <2>5. admitted'[t] = 1
    BY <2>1, <2>2, <2>3 DEF IInv, TypeOK
  <2>6. \A u \in Ticket \ {t} : ticket'[u] = ticket[u] /\ admitted'[u] = admitted[u]
    BY <2>2 DEF IInv, TypeOK
  <2> QED
    BY <1>1, <2>4, <2>5, <2>6 DEF ConsumedTellsUse
<1>4. ASSUME NEW c \in Call, CascadeToTickets(c) PROVE ConsumedTellsUse'
  <2>1. \A t \in Ticket : /\ ticket'[t].consumed = ticket[t].consumed
                          /\ ticket'[t].row = "unused" => ticket[t].row = "unused"
    BY <1>4 DEF CascadeToTickets, IInv, TypeOK, TicketRow
  <2> QED
    BY <1>1, <1>4, <2>1 DEF CascadeToTickets, ConsumedTellsUse
<1>5. UNCHANGED <<ticket, admitted>> => ConsumedTellsUse'
  BY <1>1 DEF ConsumedTellsUse
<1>6. CASE ~\E c \in Call : StoreTicket(c) \/ Consume(c) \/ CascadeToTickets(c)
  BY <1>5, <1>6 DEF Next, Serve, vars, LeaseService, Tick, RequestTicket, Connect, Delete,
     LockTicket, LockLease, CascadeToLeases, Forget, Close, BreakDeadlock, Crash
<1> QED
  BY <1>2, <1>3, <1>4, <1>6

\* A deletion starts only when there is none, and ends with nothing left.
LEMMA DeletionStep == ASSUME IInv, [Next]_vars, TypeOK' PROVE OneDeletion'
<1>1. OneDeletion
  BY DEF IInv
<1>2. ASSUME NEW c \in Call, StoreTicket(c) PROVE OneDeletion'
  <2>1. call'[c].pc = "replied" /\ \A d \in Call \ {c} : call'[d] = call[d]
    BY <1>2, ReplyType DEF StoreTicket, IInv, Outcomes
  <2>2. exists' = exists /\ (~exists => ticket' = ticket)
    BY <1>2 DEF StoreTicket
  <2> QED
    BY <1>1, <2>1, <2>2 DEF OneDeletion, Deleting, Stored
<1>3. ASSUME NEW c \in Call, Consume(c) PROVE OneDeletion'
  <2>1. call'[c].pc = "open" /\ \A d \in Call \ {c} : call'[d] = call[d]
    BY <1>3, ConsumeOpens
  <2>2. exists' = exists /\ \A t \in Ticket : ticket'[t].row = ticket[t].row
    BY <1>3, ConsumeOpens DEF Consume
  <2> QED
    BY <1>1, <2>1, <2>2 DEF OneDeletion, Deleting, Stored
<1>4. ASSUME NEW c \in Call, CascadeToTickets(c) PROVE OneDeletion'
  <2>1. call'[c].pc = "replied" /\ \A d \in Call \ {c} : call'[d] = call[d]
    BY <1>4, ReplyType DEF CascadeToTickets, IInv, Outcomes
  <2>2. Deleting' = {}
    BY <1>1, <1>4, <2>1 DEF CascadeToTickets, OneDeletion, Deleting, At
  <2>3. \A t \in Ticket : ~Stored(t)'
    BY <1>4 DEF CascadeToTickets, Stored, IInv, TypeOK, TicketRow
  <2> QED
    BY <2>2, <2>3 DEF OneDeletion
<1>5. ASSUME NEW c \in Call, Delete(c) PROVE OneDeletion'
  <2>1. /\ Deleting = {} /\ exists /\ exists'
        /\ \A d \in Call \ {c} : call'[d] = call[d]
    BY <1>5 DEF Delete, IInv, TypeOK
  <2>2. Deleting' \subseteq {c}
    BY <2>1 DEF Deleting
  <2> QED
    BY <2>1, <2>2 DEF OneDeletion
<1>6. CASE ~\E c \in Call : StoreTicket(c) \/ Consume(c) \/ CascadeToTickets(c) \/ Delete(c)
  <2>1. UNCHANGED <<exists, ticket>>
    BY <1>6 DEF Next, Serve, vars, LeaseService, Tick, RequestTicket, Connect,
       LockTicket, LockLease, CascadeToLeases, Forget, Close, BreakDeadlock, Crash
  <2>2. \A d \in Call : call'[d].pc \in {"deleting", "cascading"} =>
                        call[d].pc \in {"deleting", "cascading"}
    <3>1. CASE LeaseService \/ Tick \/ UNCHANGED vars
      BY <3>1 DEF LeaseService, Tick, vars
    <3>2. ASSUME NEW c \in Call,
                 RequestTicket(c) \/ Connect(c) \/ LockTicket(c) \/ LockLease(c)
                 \/ CascadeToLeases(c) \/ Forget(c) \/ Close(c)
          PROVE  /\ \A d \in Call \ {c} : call'[d] = call[d]
                 /\ call'[c].pc \in {"deleting", "cascading"} => call[c].pc = "deleting"
      <4>1. CASE RequestTicket(c)
        BY <4>1, RequestType DEF IInv
      <4>2. CASE Connect(c)
        BY <4>2, IdleType DEF Connect, CallRecord, IInv, TypeOK
      <4>5. CASE Forget(c) \/ Close(c)
        BY <4>5 DEF Forget, Close, IdleCall, IInv, TypeOK
      <4>3. CASE LockTicket(c) \/ LockLease(c)
        BY <4>3, LockEffect DEF IInv
      <4>4. CASE CascadeToLeases(c)
        BY <4>4 DEF CascadeToLeases, At, IInv, TypeOK, CallRecord
      <4> QED
        BY <3>2, <4>1, <4>2, <4>3, <4>4, <4>5
    <3>3. CASE BreakDeadlock
      BY <3>3 DEF BreakDeadlock, Reply, Answer, IdleCall, IInv, TypeOK
    <3>4. CASE Crash
      BY <3>4 DEF Crash, IdleCall
    <3> QED
      BY <1>6, <3>1, <3>2, <3>3, <3>4 DEF Next, Serve
  <2> QED
    BY <1>1, <2>1, <2>2 DEF OneDeletion, Deleting, Stored
<1> QED
  BY <1>2, <1>3, <1>4, <1>5, <1>6

LEMMA IInvStep == IInv /\ [Next]_vars => IInv'
  BY TypeStep, HoldStep, UseStep, DeletionStep DEF IInv

LEMMA IInvHolds == Spec => []IInv
  BY InitIInv, IInvStep, PTL DEF Spec

-----------------------------------------------------------------------------
(* What the module promises.                                               *)

\* Every variable keeps its type.
THEOREM ViewerTypeCorrect == Spec => []TypeOK
<1>1. IInv => TypeOK
  BY DEF IInv
<1> QED
  BY <1>1, IInvHolds, PTL

\* A ticket opens one WebSocket at most, though several present it at once and
\* transactions are aborted or lost (consume_viewer_ticket).
THEOREM TicketOpensOnce == Spec => []SingleUse
<1>1. IInv => SingleUse
  BY DEF IInv, ConsumedTellsUse, SingleUse
<1> QED
  BY <1>1, IInvHolds, PTL

LEMMA AdmitsByConsume ==
  ASSUME IInv, [Next]_vars, NEW c \in Call, Admits(c)
  PROVE  Consume(c) /\ UNCHANGED held
<1>1. At(c, "verified") /\ call'[c].pc = "open"
  BY DEF Admits
<1>2. CASE LeaseService \/ Tick \/ UNCHANGED vars
  BY <1>1, <1>2 DEF LeaseService, Tick, vars, At
<1>3. ASSUME NEW d \in Call,
             RequestTicket(d) \/ Connect(d) \/ Delete(d) \/ StoreTicket(d) \/ Forget(d) \/ Close(d)
      PROVE  FALSE
  BY <1>1, <1>3 DEF RequestTicket, Connect, Delete, StoreTicket, Forget, Close, Reply, Answer,
                    IdleCall, At, IInv, TypeOK
<1>4. ASSUME NEW d \in Call, LockTicket(d) \/ LockLease(d) \/ CascadeToLeases(d)
      PROVE  FALSE
  BY <1>1, <1>4 DEF LockTicket, LockLease, CascadeToLeases, Reply, Answer,
                    IdleCall, At, IInv, TypeOK, CallRecord
<1>5. ASSUME NEW d \in Call, CascadeToTickets(d) PROVE FALSE
  BY <1>1, <1>5 DEF CascadeToTickets, Reply, Answer, IdleCall, At, IInv, TypeOK
<1>6. CASE BreakDeadlock
  BY <1>1, <1>6 DEF BreakDeadlock, Reply, Answer, IdleCall, At, IInv, TypeOK
<1>7. CASE Crash
  BY <1>1, <1>7 DEF Crash, IdleCall
<1>8. ASSUME NEW d \in Call, Consume(d) PROVE d = c /\ UNCHANGED held
  BY <1>1, <1>8 DEF Consume, Reply, Answer, IdleCall, At, IInv, TypeOK, leaseVars
<1> QED
  BY <1>2, <1>3, <1>4, <1>5, <1>6, <1>7, <1>8 DEF Next, Serve

\* Control is given only while the device is held, under the lease of the ticket, by
\* the operator of the ticket (the two FOR UPDATE of consume_viewer_ticket).
THEOREM ControlUnderLease == Spec => AdmittedUnderLease
<1>1. ASSUME IInv, [Next]_vars, NEW c \in Call, Admits(c), call'[c].mode = "control"
      PROVE  HeldUnder(call'[c].lease) /\ held.by = call'[c].by
  <2>1. Consume(c)
    BY <1>1, AdmitsByConsume
  <2>2. /\ call'[c].mode = ticket[call[c].ticket].mode
        /\ call'[c].by = ticket[call[c].ticket].by
        /\ call'[c].lease = ticket[call[c].ticket].lease
    BY <1>1, <2>1, ConsumeOpens
  <2> QED
    BY <1>1, <2>1, <2>2 DEF Consume, IInv, HoldsLease
<1>2. IInv /\ [Next]_vars =>
        [\A c \in Call : Admits(c) /\ call'[c].mode = "control" =>
           /\ HeldUnder(call'[c].lease)
           /\ held.by = call'[c].by]_vars
  BY <1>1
<1> QED
  BY <1>2, IInvHolds, PTL DEF Spec, AdmittedUnderLease

\* A deleted session's tickets open nothing, whichever of the deletion, the issue and
\* the consumption of a ticket comes first.
THEOREM NothingAfterDeletion == Spec => AdmittedWhileSessionExists
<1>1. ASSUME IInv, [Next]_vars, ~exists PROVE admitted' = admitted
  <2>1. \A c \in Call : ~Consume(c)
    BY <1>1 DEF Consume, At, IInv, HoldsTicket, OneDeletion
  <2> QED
    BY <1>1, <2>1 DEF Next, Serve, vars, LeaseService, Tick, RequestTicket, Connect, Delete,
       StoreTicket, LockTicket, LockLease, CascadeToLeases, CascadeToTickets, Forget, Close,
       BreakDeadlock, Crash
<1>2. IInv /\ [Next]_vars => [~exists => admitted' = admitted]_vars
  BY <1>1
<1> QED
  BY <1>2, IInvHolds, PTL DEF Spec, AdmittedWhileSessionExists

\* To an observer of the leases, this module is the lease service: viewers never
\* change a lease but by the deletion of its session.
THEOREM LeasesAsPromised == Spec => Leases!Spec
<1>1. Init => Leases!Init
  BY DEF Init
<1>2. ASSUME IInv, [Next]_vars PROVE [Leases!Next]_(Leases!vars)
  <2> USE TicketBoundAssumption DEF Leases!vars, Leases!Next, leaseVars
  <2>1. CASE LeaseService
    <3>1. clock + 1 .. clock + MaxTtl \subseteq Leases!Grantable
      <4>1. clock \in Nat /\ MaxTtl \in Nat
        BY <1>2 DEF IInv, TypeOK, Leases!TypeOK
      <4> QED
        BY <4>1 DEF Leases!Grantable
    <3> QED
      BY <2>1, <3>1 DEF LeaseService
  <2>2. CASE Tick
    BY <2>2 DEF Tick
  <2>3. ASSUME NEW c \in Call, CascadeToTickets(c) PROVE Leases!Next
    BY <2>3 DEF CascadeToTickets
  <2>4. CASE UNCHANGED leaseVars
    BY <2>4
  <2>5. CASE ~(LeaseService \/ Tick \/ \E c \in Call : CascadeToTickets(c))
    BY <1>2, <2>4, <2>5 DEF Next, Serve, vars, RequestTicket, Connect, Delete, StoreTicket,
       LockTicket, LockLease, Consume, CascadeToLeases, Forget, Close, BreakDeadlock, Crash
  <2> QED
    BY <2>1, <2>2, <2>3, <2>5
<1> QED
  BY <1>1, <1>2, IInvHolds, PTL DEF Spec, Leases!Spec
=============================================================================
