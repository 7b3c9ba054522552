---------------------------- MODULE NodeCommands ----------------------------
(***************************************************************************)
(* Commands to one Browser Lite node (backend/app/browser_lite.py and the  *)
(* node's end of it, services/browser-lite-app/src/node-agent.mjs).        *)
(*                                                                         *)
(* The node keeps one WebSocket to whichever backend process it reaches.   *)
(* A process that finds the connection among its own sends a command over  *)
(* it and waits; any other process stores the command as a row, polls the  *)
(* row, and the pump of the connection's process takes it from there.      *)
(* The processes share the database only.  A connection may be dead at     *)
(* the node's end long before its process notices.                         *)
(*                                                                         *)
(* Abstracted: what commands do, several nodes (they share no state),      *)
(* tokens and pairing but for revocation, durations: deadlines pass and    *)
(* timers fire at any moment.  The pump takes some pending row: with SKIP  *)
(* LOCKED and several pumps their order is not kept.  Ids of connections   *)
(* and commands that nothing refers to any more are used again.            *)
(***************************************************************************)
EXTENDS Naturals, FiniteSets

CONSTANTS
  Process,   \* backend processes
  Conn,      \* WebSockets at the same time, dead ones included
  Command,   \* commands at the same time
  None

ASSUME NoneAssumption == None \notin Process \cup Conn \cup Command

VARIABLES
  node,        \* the row of browser_lite_nodes
  registered,  \* _connections of each process
  conn,        \* both ends of each WebSocket
  pump,        \* the command pump of each connection
  cmd,         \* each command: its row, its future, its caller
  wire         \* messages between the node and the processes

vars == <<node, registered, conn, pump, cmd, wire>>
-----------------------------------------------------------------------------
\* The token is valid; status is online and last_seen_at is recent.
NodeRow == [paired : BOOLEAN, online : BOOLEAN]

\* accepted: authenticated, auth_ok sent.  popped: waits for the predecessor's
\* close.  closed: this process has sent a close.
ServerEnd == {"unused", "accepted", "popped", "serving", "closed"}
NodeEnd   == {"hello", "listening", "closed"}
Socket    == [server : ServerEnd, node : NodeEnd, at : Process \cup {None}]
NoSocket  == [server |-> "unused", node |-> "closed", at |-> None]

PumpState == {"off", "starting", "idle", "selecting", "taken", "sent", "completed",
              "failed", "dead"}
Pump    == [pc : PumpState, cmd : Command \cup {None}]
NoPump  == [pc |-> "off", cmd |-> None]

RowStates == {"none", "pending", "dispatched", "completed", "failed", "expired"}
Answers   == {"none", "ok", "error"}
Callers   == {"new", "waiting", "polling", "returned", "raised", "lost"}
CommandState ==
  [row : RowStates, elapsed : BOOLEAN,                 \* the row, expires_at has passed
   on : Conn \cup {None}, answer : Answers,            \* the future and its connection
   caller : Callers, at : Process \cup {None},         \* send_node_command
   executed : Nat, withdrawn : BOOLEAN]                \* history
NoCommand == [row |-> "none", elapsed |-> FALSE, on |-> None, answer |-> "none",
              caller |-> "new", at |-> None, executed |-> 0, withdrawn |-> FALSE]

Message == [kind : {"request", "running", "ok", "error"}, cmd : Command, on : Conn]

TypeOK ==
  /\ node \in NodeRow
  /\ registered \in [Process -> Conn \cup {None}]
  /\ conn \in [Conn -> Socket]
  /\ pump \in [Conn -> Pump]
  /\ cmd \in [Command -> CommandState]
  /\ wire \subseteq Message

Init ==
  /\ node = [paired |-> TRUE, online |-> FALSE]
  /\ registered = [p \in Process |-> None]
  /\ conn = [k \in Conn |-> NoSocket]
  /\ pump = [k \in Conn |-> NoPump]
  /\ cmd = [c \in Command |-> NoCommand]
  /\ wire = {}

NodeOn(k) == conn[k].node # "closed"
Mine(k) == registered[conn[k].at] = k
PumpAt(k, pc) == pump[k].pc = pc
SetPump(k, pc) == pump' = [pump EXCEPT ![k] = [@ EXCEPT !.pc = pc]]
SetRow(c, row) == cmd' = [cmd EXCEPT ![c] = [@ EXCEPT !.row = row]]

\* node_is_online: a dead connection counts until its close is noticed.
NodeIsOnline(p) == registered[p] # None /\ conn[registered[p]].server \in {"serving", "closed"}
-----------------------------------------------------------------------------
(* The node's end.                                                         *)

\* connectOnce: one socket at a time, to any process, with the current token.
Connect(k, p) ==
  /\ conn[k].server = "unused" /\ conn[k].node = "closed"
  /\ node.paired
  /\ \A j \in Conn : ~NodeOn(j)
  /\ \A m \in wire : m.on # k
  /\ conn' = [conn EXCEPT ![k] = [server |-> "accepted", node |-> "hello", at |-> p]]
  /\ UNCHANGED <<node, registered, pump, cmd, wire>>

\* A token that has been replaced is refused: closed with 1008.
RefuseConnect == ~node.paired /\ UNCHANGED vars

\* The hello is on its way, and requests are listened to from now on.
Listen(k) ==
  /\ conn[k].node = "hello"
  /\ conn' = [conn EXCEPT ![k].node = "listening"]
  /\ UNCHANGED <<node, registered, pump, cmd, wire>>

\* handleMessage executes a request at once; nobody hears one that comes earlier.
Receive(m) ==
  /\ m \in wire /\ m.kind = "request"
  /\ IF conn[m.on].node = "listening"
     THEN /\ cmd' = [cmd EXCEPT ![m.cmd].executed = @ + 1]
          /\ wire' = (wire \ {m}) \cup {[m EXCEPT !.kind = "running"]}
     ELSE wire' = wire \ {m} /\ UNCHANGED cmd
  /\ UNCHANGED <<node, registered, conn, pump>>

\* The response goes to the socket the request came from, if that is still open.
Respond(m) ==
  /\ m \in wire /\ m.kind = "running"
  /\ IF NodeOn(m.on)
     THEN \E kind \in {"ok", "error"} : wire' = (wire \ {m}) \cup {[m EXCEPT !.kind = kind]}
     ELSE wire' = wire \ {m}
  /\ UNCHANGED <<node, registered, conn, pump, cmd>>

\* The network fails, the process has closed the socket, or the app quits.
NodeCloses(k) ==
  /\ NodeOn(k)
  /\ conn' = [conn EXCEPT ![k].node = "closed"]
  /\ UNCHANGED <<node, registered, pump, cmd, wire>>
-----------------------------------------------------------------------------
(* connect_node, from auth_ok to the end of its receive loop.              *)

\* The predecessor on this process is popped and closed; a second close of the
\* same socket raises and ends the new connection.
PopPrevious(k) ==
  /\ conn[k].server = "accepted"
  /\ LET p == conn[k].at
         previous == registered[p]
     IN  \/ /\ previous = None
            /\ registered' = [registered EXCEPT ![p] = k]
            /\ conn' = [conn EXCEPT ![k].server = "serving"]
         \/ /\ previous # None
            /\ registered' = [registered EXCEPT ![p] = None]
            /\ conn' = IF conn[previous].server = "serving"
                       THEN [conn EXCEPT ![k].server = "popped", ![previous].server = "closed"]
                       ELSE [conn EXCEPT ![k] = NoSocket]
  /\ UNCHANGED <<node, pump, cmd, wire>>

\* The close has been awaited: the connection takes the place, whoever holds it now.
Register(k) ==
  /\ conn[k].server = "popped"
  /\ registered' = [registered EXCEPT ![conn[k].at] = k]
  /\ conn' = [conn EXCEPT ![k].server = "serving"]
  /\ UNCHANGED <<node, pump, cmd, wire>>

SetOnline == node' = [node EXCEPT !.online = TRUE]

StartPump(k) ==
  /\ conn[k].server \in {"serving", "closed"}
  /\ PumpAt(k, "off")
  /\ SetOnline
  /\ SetPump(k, "starting")
  /\ UNCHANGED <<registered, conn, cmd, wire>>

Heartbeat(k) ==
  /\ conn[k].server = "serving" /\ conn[k].node = "listening"
  /\ ~PumpAt(k, "off")
  /\ SetOnline
  /\ UNCHANGED <<registered, conn, pump, cmd, wire>>

\* 45 seconds without a heartbeat.
GoStale ==
  /\ node.online
  /\ ~\E k \in Conn : conn[k].server = "serving" /\ conn[k].node = "listening"
  /\ node' = [node EXCEPT !.online = FALSE]
  /\ UNCHANGED <<registered, conn, pump, cmd, wire>>

\* A response resolves the future of its request, if that still waits and the
\* connection still has a receive loop.
Answered(c, k, answer) ==
  IF conn[k].server # "unused" /\ cmd[c].on = k /\ cmd[c].answer = "none"
  THEN cmd' = [cmd EXCEPT ![c].answer = answer] ELSE UNCHANGED cmd

ResponseArrives(m) ==
  /\ m \in wire /\ m.kind \in {"ok", "error"}
  /\ conn[m.on].server \notin {"accepted", "popped"}
  /\ Answered(m.cmd, m.on, m.kind)
  /\ wire' = wire \ {m}
  /\ UNCHANGED <<node, registered, conn, pump>>

\* The futures that wait on a connection fail with it, but for its pump's own.
Abandon(k, table) ==
  [c \in Command |->
     CASE pump[k].cmd = c -> [table[c] EXCEPT !.on = None, !.answer = "none"]
       [] pump[k].cmd # c /\ table[c].on = k /\ table[c].answer = "none" ->
            [table[c] EXCEPT !.on = None, !.answer = "error"]
       [] OTHER -> table[c]]

\* ... or are left to their timers.
Leave(k, table) ==
  [c \in Command |-> IF table[c].on = k THEN [table[c] EXCEPT !.on = None] ELSE table[c]]

\* The receive loop ends: the pump is cancelled wherever it is, and its last UPDATE
\* may or may not have been done.  A pump that has died raises its error here, and
\* the rest of the clean-up is skipped; what stays of the connection counts for
\* nothing.  _set_node_offline wants last_seen_at no later than connected_at: it
\* never finds it so, and changes nothing.
NoticeClosed(k) ==
  /\ conn[k].server \in {"serving", "closed"}
  /\ conn[k].server = "closed" \/ ~NodeOn(k)
  /\ ~PumpAt(k, "off")
  /\ registered' = [p \in Process |-> IF registered[p] = k THEN None ELSE registered[p]]
  /\ conn' = [conn EXCEPT ![k] = [NoSocket EXCEPT !.node = conn[k].node]]
  /\ pump' = [pump EXCEPT ![k] = NoPump]
  /\ wire' = {m \in wire : m.on = k => m.kind \in {"request", "running"}}
  /\ \/ PumpAt(k, "dead") /\ cmd' = Leave(k, cmd)
     \/ ~PumpAt(k, "dead") /\ cmd' = Abandon(k, cmd)
     \/ /\ pump[k].pc \in {"completed", "failed"}
        /\ cmd' = Abandon(k, [cmd EXCEPT ![pump[k].cmd].row = pump[k].pc])
  /\ UNCHANGED node
-----------------------------------------------------------------------------
(* _command_pump.                                                          *)

\* Mutant of CleanUp: what was dispatched is tried again.
CleanUpRequeues(k) ==
  /\ PumpAt(k, "starting")
  /\ cmd' = [c \in Command |->
       IF cmd[c].row = "dispatched"
       THEN [cmd[c] EXCEPT !.row = IF cmd[c].elapsed THEN "expired" ELSE "pending"]
       ELSE cmd[c]]
  /\ SetPump(k, "idle")
  /\ UNCHANGED <<node, registered, conn, wire>>

\* What an earlier connection, of any process, had dispatched is given up.
CleanUp(k) ==
  /\ PumpAt(k, "starting")
  /\ cmd' = [c \in Command |->
       IF cmd[c].row = "dispatched"
       THEN [cmd[c] EXCEPT !.row = IF cmd[c].elapsed THEN "expired" ELSE "failed"]
       ELSE cmd[c]]
  /\ SetPump(k, "idle")
  /\ UNCHANGED <<node, registered, conn, wire>>

\* The loop condition; the transaction comes later.
Select(k) ==
  /\ PumpAt(k, "idle")
  /\ Mine(k)
  /\ SetPump(k, "selecting")
  /\ UNCHANGED <<node, registered, conn, cmd, wire>>

\* Mutant of Pending: the status is not asked for.
PendingAnyStatus == {c \in Command : cmd[c].row \in {"pending", "expired"}}

Pending == {c \in Command : cmd[c].row = "pending" /\ ~cmd[c].elapsed}

\* SELECT ... FOR UPDATE SKIP LOCKED and UPDATE, in one transaction.
Take(k) ==
  /\ PumpAt(k, "selecting")
  /\ \/ Pending = {} /\ SetPump(k, "idle") /\ UNCHANGED cmd
     \/ \E c \in Pending :
          /\ SetRow(c, "dispatched")
          /\ pump' = [pump EXCEPT ![k] = [pc |-> "taken", cmd |-> c]]
  /\ UNCHANGED <<node, registered, conn, wire>>

\* _send_local_command: over the connection that is registered by now.  A socket
\* that has been closed raises.
Sent(c, p) ==
  /\ conn[registered[p]].server = "serving"
  /\ wire' = wire \cup {[kind |-> "request", cmd |-> c, on |-> registered[p]]}

PumpSend(k) ==
  /\ PumpAt(k, "taken")
  /\ LET p == conn[k].at
         c == pump[k].cmd
     IN  \/ /\ NodeIsOnline(p)
            /\ Sent(c, p)
            /\ cmd' = [cmd EXCEPT ![c] = [@ EXCEPT !.on = registered[p]]]
            /\ SetPump(k, "sent")
         \/ /\ NodeIsOnline(p) => conn[registered[p]].server = "closed"
            /\ SetPump(k, "failed")
            /\ UNCHANGED <<cmd, wire>>
  /\ UNCHANGED <<node, registered, conn>>

\* The answer, or COMMAND_TIMEOUT_SECONDS.
PumpHears(k) ==
  /\ PumpAt(k, "sent")
  /\ LET c == pump[k].cmd
     IN  /\ cmd' = [cmd EXCEPT ![c] = [@ EXCEPT !.on = None, !.answer = "none"]]
         /\ \/ cmd[c].answer = "ok" /\ SetPump(k, "completed")
            \/ cmd[c].answer # "ok" /\ SetPump(k, "failed")
  /\ UNCHANGED <<node, registered, conn, wire>>

\* The UPDATE by id, whatever has become of the row.
Record(k) ==
  /\ pump[k].pc \in {"completed", "failed"}
  /\ SetRow(pump[k].cmd, pump[k].pc)
  /\ pump' = [pump EXCEPT ![k] = [pc |-> "idle", cmd |-> None]]
  /\ UNCHANGED <<node, registered, conn, wire>>

\* A database error outside the try ends the pump, and nobody looks.
PumpDies(k) ==
  /\ pump[k].pc \in {"starting", "selecting"}
  /\ SetPump(k, "dead")
  /\ UNCHANGED <<node, registered, conn, cmd, wire>>
-----------------------------------------------------------------------------
(* send_node_command, called in process p.                                 *)

Waiting(c, caller) == cmd[c].caller = caller

CallLocally(c, p) ==
  /\ Waiting(c, "new")
  /\ NodeIsOnline(p)
  /\ \/ /\ Sent(c, p)
        /\ cmd' = [cmd EXCEPT ![c] = [@ EXCEPT !.caller = "waiting", !.at = p,
                                               !.on = registered[p]]]
     \/ /\ conn[registered[p]].server = "closed"
        /\ cmd' = [cmd EXCEPT ![c] = [@ EXCEPT !.caller = "raised"]]
        /\ UNCHANGED wire
  /\ UNCHANGED <<node, registered, conn, pump>>

\* _queue_node_command, when node_online finds the node online.  Nothing but the
\* command's own fate depends on the check: it and the INSERT are one step.
Queue(c, p) ==
  /\ Waiting(c, "new")
  /\ ~NodeIsOnline(p)
  /\ cmd' = [cmd EXCEPT ![c] = IF node.online
       THEN [@ EXCEPT !.caller = "polling", !.at = p, !.row = "pending"]
       ELSE [@ EXCEPT !.caller = "raised"]]
  /\ UNCHANGED <<node, registered, conn, pump, wire>>

\* Mutant of LocalEnds: no timeout.
LocalEndsAnswered(c) ==
  /\ Waiting(c, "waiting")
  /\ cmd[c].answer # "none"
  /\ cmd' = [cmd EXCEPT ![c] =
       [@ EXCEPT !.caller = IF cmd[c].answer = "ok" THEN "returned" ELSE "raised",
                 !.on = None, !.answer = "none"]]
  /\ UNCHANGED <<node, registered, conn, pump, wire>>

\* The future is resolved, or the timeout fires and the answer will find no future.
LocalEnds(c) ==
  /\ Waiting(c, "waiting")
  /\ cmd' = [cmd EXCEPT ![c] =
       [@ EXCEPT !.caller = IF cmd[c].answer = "ok" THEN "returned" ELSE "raised",
                 !.on = None, !.answer = "none"]]
  /\ UNCHANGED <<node, registered, conn, pump, wire>>

Elapse(c) ==
  /\ cmd[c].row \in {"pending", "dispatched"}
  /\ ~cmd[c].elapsed
  /\ cmd' = [cmd EXCEPT ![c].elapsed = TRUE]
  /\ UNCHANGED <<node, registered, conn, pump, wire>>

\* Mutant of Poll: whatever has not failed is taken for an answer.
PollUnlessFailed(c) ==
  /\ Waiting(c, "polling")
  /\ cmd[c].row # "pending"
  /\ cmd' = [cmd EXCEPT ![c].caller = IF cmd[c].row # "failed" THEN "returned" ELSE "raised"]
  /\ UNCHANGED <<node, registered, conn, pump, wire>>

Poll(c) ==
  /\ Waiting(c, "polling")
  /\ cmd[c].row \in {"completed", "failed"}
  /\ cmd' = [cmd EXCEPT ![c].caller = IF cmd[c].row = "completed" THEN "returned" ELSE "raised"]
  /\ UNCHANGED <<node, registered, conn, pump, wire>>

\* Mutants of Withdraw: the UPDATE does not look at the status; it looks for
\* pending rows only.
WithdrawAny(c) ==
  /\ Waiting(c, "polling")
  /\ cmd[c].elapsed
  /\ cmd' = [cmd EXCEPT ![c] = [@ EXCEPT !.caller = "raised", !.row = "expired",
                                         !.withdrawn = cmd[c].row = "pending"]]
  /\ UNCHANGED <<node, registered, conn, pump, wire>>

WithdrawPendingOnly(c) ==
  /\ Waiting(c, "polling")
  /\ cmd[c].elapsed
  /\ cmd' = [cmd EXCEPT ![c] =
       [@ EXCEPT !.caller = "raised",
                 !.row = IF @ = "pending" THEN "expired" ELSE @,
                 !.withdrawn = cmd[c].row = "pending"]]
  /\ UNCHANGED <<node, registered, conn, pump, wire>>

\* The deadline of the loop: the row expires unless it has been answered.
Withdraw(c) ==
  /\ Waiting(c, "polling")
  /\ cmd[c].elapsed
  /\ cmd' = [cmd EXCEPT ![c] =
       [@ EXCEPT !.caller = "raised",
                 !.row = IF cmd[c].row \in {"pending", "dispatched"} THEN "expired" ELSE cmd[c].row,
                 !.withdrawn = cmd[c].row = "pending"]]
  /\ UNCHANGED <<node, registered, conn, pump, wire>>

\* The id is used again once nothing is left of the command.
Forget(c) ==
  /\ cmd[c].caller \in {"returned", "raised", "lost"}
  /\ cmd[c].row \notin {"pending", "dispatched"} \/ cmd[c].elapsed
  /\ \A k \in Conn : pump[k].cmd # c
  /\ \A m \in wire : m.cmd # c
  /\ cmd' = [cmd EXCEPT ![c] = NoCommand]
  /\ UNCHANGED <<node, registered, conn, pump, wire>>
-----------------------------------------------------------------------------
\* disconnect_node, in any process: the token is replaced, and a connection of
\* this process is closed.
Unpair(p) ==
  /\ node.paired
  /\ node' = [node EXCEPT !.paired = FALSE, !.online = FALSE]
  /\ conn' = IF NodeIsOnline(p)
             THEN [conn EXCEPT ![registered[p]].server = "closed"] ELSE conn
  /\ UNCHANGED <<registered, pump, cmd, wire>>

\* A process stops; its sockets and callers are gone.
Crash(p) ==
  /\ LET lost == {k \in Conn : conn[k].at = p}
     IN  /\ registered' = [registered EXCEPT ![p] = None]
         /\ conn' = [k \in Conn |-> IF k \in lost THEN NoSocket ELSE conn[k]]
         /\ pump' = [k \in Conn |-> IF k \in lost THEN NoPump ELSE pump[k]]
         /\ wire' = {m \in wire : m.on \in lost => m.kind = "running"}
         /\ cmd' = [c \in Command |->
              LET own == cmd[c].at = p /\ cmd[c].caller \in {"waiting", "polling"}
              IN  [cmd[c] EXCEPT !.caller = IF own THEN "lost" ELSE @,
                                 !.on = IF @ \in lost THEN None ELSE @,
                                 !.answer = IF cmd[c].on \in lost THEN "none" ELSE @]]
  /\ UNCHANGED node
-----------------------------------------------------------------------------
Pumping(k) ==
  \/ StartPump(k) \/ CleanUp(k) \/ Select(k) \/ Take(k) \/ PumpSend(k) \/ PumpHears(k) \/ Record(k)

Calling(c) == LocalEnds(c) \/ Poll(c) \/ Withdraw(c)

\* A step while the processes run.
Run ==
  \/ \E k \in Conn, p \in Process : Connect(k, p)
  \/ \E k \in Conn : \/ Listen(k) \/ NodeCloses(k)
                    \/ PopPrevious(k) \/ Register(k) \/ Heartbeat(k) \/ NoticeClosed(k)
                    \/ Pumping(k) \/ PumpDies(k)
  \/ \E m \in wire : Receive(m) \/ Respond(m) \/ ResponseArrives(m)
  \/ \E c \in Command, p \in Process : CallLocally(c, p) \/ Queue(c, p)
  \/ \E c \in Command : Calling(c) \/ Elapse(c) \/ Forget(c)
  \/ \E p \in Process : Unpair(p)
  \/ GoStale \/ RefuseConnect

Next == Run \/ \E p \in Process : Crash(p)

Spec == Init /\ [][Next]_vars

\* Timers fire, deadlines pass, and the event loops run what is ready.  Nothing is
\* assumed of the node and the network.
Fairness ==
  /\ \A k \in Conn : WF_vars(Pumping(k))
  /\ \A c \in Command : WF_vars(Calling(c)) /\ WF_vars(Elapse(c))

\* What the processes promise as long as none of them stops.
FairSpec == Init /\ [][Run]_vars /\ Fairness
-----------------------------------------------------------------------------
(* What must hold.                                                         *)

\* Whatever connections die, processes take over or pumps do at the same time, the
\* node executes a command once at most: a lost answer is not asked for again.
ExecutedAtMostOnce == \A c \in Command : cmd[c].executed <= 1

\* A caller that gets a result gets that of an execution.
ResultMeansExecuted == \A c \in Command : cmd[c].caller = "returned" => cmd[c].executed = 1

\* A command its caller withdrew before any pump had taken it is never executed.
WithdrawnIsNotExecuted == \A c \in Command : cmd[c].withdrawn => cmd[c].executed = 0

\* A recorded result is not lost: neither a caller that gives up nor the clean-up of
\* another connection, nor another pump, overwrites it.
CompletedIsFinal ==
  [][\A c \in Command : cmd[c].row = "completed" => cmd'[c].row \in {"completed", "none"}]_vars

\* While the processes run, no row stays pending or dispatched for ever, although
\* pumps are cancelled between dispatching a command and recording its outcome.
RowsSettle ==
  \A c \in Command : cmd[c].row \in {"pending", "dispatched"}
                       ~> cmd[c].row \notin {"pending", "dispatched"}

\* Every caller is answered, with a result or an error, whatever the node does.
EveryCallEnds ==
  \A c \in Command : cmd[c].caller \in {"waiting", "polling"}
                       ~> cmd[c].caller \notin {"waiting", "polling"}
-----------------------------------------------------------------------------
(* The inductive invariant.                                                *)

\* Nothing of the command has left the backend.
Unsent(c) == cmd[c].executed = 0 /\ \A m \in wire : m.cmd # c
Unowned(c) == \A k \in Conn : pump[k].cmd # c

\* A pump runs while its connection is served, and owns a command from taking it
\* until its outcome is recorded.
Pumps(k) ==
  /\ conn[k].server # "unused" => conn[k].at \in Process
  /\ pump[k].pc # "off" => conn[k].server \in {"serving", "closed"}
  /\ pump[k].cmd # None <=> pump[k].pc \in {"taken", "sent", "completed", "failed"}
  /\ pump[k].pc = "taken" => Unsent(pump[k].cmd)
  /\ pump[k].pc = "completed" => cmd[pump[k].cmd].executed = 1

\* Whose row has not been taken is no pump's, and has not been sent.
Rows(c) ==
  /\ cmd[c].caller = "new" =>
       /\ cmd[c].row = "none" /\ cmd[c].on = None /\ cmd[c].answer = "none" /\ ~cmd[c].withdrawn
       /\ Unsent(c)
  /\ cmd[c].caller = "waiting" => cmd[c].row = "none"
  /\ cmd[c].row \in {"none", "pending", "completed"} => Unowned(c)
  /\ cmd[c].row = "pending" => Unsent(c)
  /\ cmd[c].withdrawn =>
       cmd[c].row = "expired" /\ cmd[c].caller = "raised" /\ Unsent(c) /\ Unowned(c)

\* Of a command there is one message at most, a request until it is executed.
Messages(c) ==
  /\ cmd[c].executed \in {0, 1}
  /\ \A m \in wire : m.cmd = c => cmd[c].executed = IF m.kind = "request" THEN 0 ELSE 1
  /\ \A m, n \in wire : m.cmd = c /\ n.cmd = c => m = n

\* A result, wherever it has got to, is that of an execution.
Results(c) ==
  cmd[c].answer = "ok" \/ cmd[c].row = "completed" \/ cmd[c].caller = "returned" => cmd[c].executed = 1

Consistent ==
  /\ \A k \in Conn : Pumps(k)
  /\ \A j, k \in Conn : pump[j].cmd # None /\ pump[j].cmd = pump[k].cmd => j = k
  /\ \A c \in Command : Rows(c) /\ Messages(c) /\ Results(c)

IInv == TypeOK /\ Consistent
-----------------------------------------------------------------------------
(* What the repository says and the code does not do.                      *)

\* locales/en.ts:62: with a connected node its browser remains remotely available: the
\* process that serves the node finds the connection, once none is replacing it.
LiveNodeIsRegistered ==
  \A k \in Conn : conn[k].server = "serving" /\ conn[k].node = "listening" =>
    \/ Mine(k)
    \/ \E j \in Conn : conn[j].at = conn[k].at /\ conn[j].server = "popped"
=============================================================================
