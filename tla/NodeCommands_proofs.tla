------------------------- MODULE NodeCommands_proofs -------------------------
(***************************************************************************)
(* Proofs about NodeCommands.  A command leaves the backend once: from its *)
(* caller, or from the one pump that has taken its row.  So the messages   *)
(* of a command are one at most, and every result descends from one        *)
(* execution.  And proofs about the rest of Browser Lite on the user's      *)
(* machine: a marked instance holds what this launch was told to install   *)
(* (Installation), and the app has one connection and, after a restart,    *)
(* the node it had (NodeSignIn).                                           *)
(***************************************************************************)
EXTENDS MCBrowserLiteNode, Sequences, TLAPS

LEMMA NoCommandType == NoCommand \in CommandState
BY NoneAssumption DEF NoCommand, CommandState, RowStates, Answers, Callers

LEMMA NoSocketType == NoSocket \in Socket
BY DEF NoSocket, Socket, ServerEnd, NodeEnd

LEMMA NoPumpType == NoPump \in Pump
BY DEF NoPump, Pump, PumpState

LEMMA NoSocketFacts == NoSocket.server = "unused" /\ NoPump.pc = "off" /\ NoPump.cmd = None
BY DEF NoSocket, NoPump

-----------------------------------------------------------------------------
(* The type.                                                               *)

LEMMA PumpTypes ==
  ASSUME TypeOK, NEW k \in Conn, NEW pc \in PumpState
  PROVE  [pump EXCEPT ![k] = [@ EXCEPT !.pc = pc]] \in [Conn -> Pump]
<1>1. [pump[k] EXCEPT !.pc = pc] \in Pump
  BY DEF TypeOK, Pump
<1> QED
  BY <1>1 DEF TypeOK

LEMMA CommandRow ==
  ASSUME TypeOK, NEW c \in Command
  PROVE  /\ cmd[c].row \in RowStates /\ cmd[c].caller \in Callers /\ cmd[c].on \in Conn \cup {None}
         /\ cmd[c].answer \in Answers /\ cmd[c].executed \in Nat /\ cmd[c].withdrawn \in BOOLEAN
         /\ cmd[c].elapsed \in BOOLEAN /\ cmd[c].at \in Process \cup {None}
BY DEF TypeOK, CommandState

LEMMA CommandsType ==
  ASSUME TypeOK, NEW c \in Command, NEW r \in CommandState
  PROVE  [cmd EXCEPT ![c] = r] \in [Command -> CommandState]
BY DEF TypeOK

LEMMA TypeInit == Init => TypeOK
BY NoCommandType, NoSocketType, NoPumpType DEF Init, TypeOK, NodeRow

LEMMA TypeConnections ==
  ASSUME TypeOK, \A k \in Conn : Pumps(k), NEW k \in Conn,
         \/ \E p \in Process : Connect(k, p)
         \/ Listen(k) \/ NodeCloses(k) \/ PopPrevious(k) \/ Register(k) \/ Heartbeat(k)
         \/ StartPump(k) \/ CleanUp(k) \/ Select(k) \/ PumpDies(k) \/ PumpSend(k) \/ PumpHears(k)
         \/ Record(k) \/ Take(k)
  PROVE  TypeOK'
<1> USE DEF TypeOK
<1>1. CASE \/ \E p \in Process : Connect(k, p)
           \/ Listen(k) \/ NodeCloses(k)
  BY <1>1 DEF Connect, Listen, NodeCloses, Socket, ServerEnd, NodeEnd
<1>2. CASE PopPrevious(k) \/ Register(k)
  <2>1. conn[k].at \in Process
    BY <1>2 DEF Pumps, PopPrevious, Register
  <2>2. registered' \in [Process -> Conn \cup {None}]
    BY <1>2, <2>1 DEF PopPrevious, Register
  <2>3. CASE Register(k)
    BY <2>2, <2>3 DEF Register, Socket, ServerEnd, NodeEnd
  <2>4. CASE PopPrevious(k)
    <3>1. conn' \in [Conn -> Socket]
      <4> DEFINE previous == registered[conn[k].at]
      <4>1. CASE conn' = [conn EXCEPT ![k].server = "serving"]
        BY <4>1 DEF Socket, ServerEnd, NodeEnd
      <4>2. CASE /\ previous \in Conn
                 /\ conn' = [conn EXCEPT ![k].server = "popped", ![previous].server = "closed"]
        <5>1. previous \in Conn
          BY <4>2
        <5>2. /\ [conn[k] EXCEPT !.server = "popped"] \in Socket
              /\ \A j \in Conn : [conn[j] EXCEPT !.server = "closed"] \in Socket
          BY DEF Socket, ServerEnd
        <5>3. \A r \in Socket : [r EXCEPT !.server = "closed"] \in Socket
          BY DEF Socket, ServerEnd
        <5>4. [conn EXCEPT ![k].server = "popped"] \in [Conn -> Socket]
          BY <5>2
        <5> QED
          BY <4>2, <5>1, <5>3, <5>4
      <4>3. CASE conn' = [conn EXCEPT ![k] = NoSocket]
        BY <4>3, NoSocketType
      <4> QED
        BY <2>1, <2>4, <4>1, <4>2, <4>3 DEF PopPrevious
    <3> QED
      BY <2>2, <2>4, <3>1 DEF PopPrevious
  <2> QED
    BY <1>2, <2>3, <2>4
<1>3. CASE Heartbeat(k) \/ StartPump(k) \/ Select(k) \/ PumpDies(k)
  <2>1. node' \in NodeRow
    BY <1>3 DEF Heartbeat, StartPump, Select, PumpDies, SetOnline, NodeRow
  <2>2. pump' = pump \/ \E pc \in PumpState : SetPump(k, pc)
    BY <1>3 DEF Heartbeat, StartPump, Select, PumpDies, PumpState
  <2>3. pump' \in [Conn -> Pump]
    BY <2>2, PumpTypes DEF SetPump
  <2> QED
    BY <1>3, <2>1, <2>3 DEF Heartbeat, StartPump, Select, PumpDies
<1>4. CASE CleanUp(k)
  <2>1. pump' \in [Conn -> Pump]
    BY <1>4, PumpTypes DEF CleanUp, SetPump, PumpState
  <2>2. \A c \in Command : cmd'[c] \in CommandState
    <3> SUFFICES ASSUME NEW c \in Command PROVE cmd'[c] \in CommandState
      OBVIOUS
    <3>1. cmd[c] \in CommandState /\ "expired" \in RowStates /\ "failed" \in RowStates
      BY DEF RowStates
    <3>2. /\ [cmd[c] EXCEPT !.row = "expired"] \in CommandState
          /\ [cmd[c] EXCEPT !.row = "failed"] \in CommandState
      BY <3>1 DEF CommandState
    <3>3. cmd'[c] \in {cmd[c], [cmd[c] EXCEPT !.row = "expired"], [cmd[c] EXCEPT !.row = "failed"]}
      BY <1>4 DEF CleanUp
    <3> QED
      BY <3>1, <3>2, <3>3
  <2>3. cmd' \in [Command -> CommandState]
    BY <1>4, <2>2 DEF CleanUp
  <2> QED
    BY <1>4, <2>1, <2>3 DEF CleanUp
<1>5. CASE Take(k)
  <2>1. CASE SetPump(k, "idle") /\ UNCHANGED cmd
    BY <1>5, <2>1, PumpTypes DEF Take, SetPump, PumpState
  <2>2. ASSUME NEW c \in Pending, SetRow(c, "dispatched"),
               pump' = [pump EXCEPT ![k] = [pc |-> "taken", cmd |-> c]]
        PROVE  TypeOK'
    <3>1. c \in Command
      BY DEF Pending
    <3>2. cmd' \in [Command -> CommandState]
      BY <2>2, <3>1 DEF SetRow, CommandState, RowStates
    <3>3. pump' \in [Conn -> Pump]
      BY <2>2, <3>1 DEF Pump, PumpState
    <3> QED
      BY <1>5, <3>2, <3>3 DEF Take
  <2> QED
    BY <1>5, <2>1, <2>2 DEF Take
<1>6. CASE PumpSend(k)
  <2>1. conn[k].at \in Process
    BY <1>6 DEF Pumps, PumpSend, PumpAt
  <2>2. pump[k].cmd \in Command
    BY <1>6 DEF PumpSend, PumpAt, Pumps, Pump
  <2>3. pump' \in [Conn -> Pump]
    <3>1. \E pc \in PumpState : SetPump(k, pc)
      BY <1>6 DEF PumpSend, PumpState
    <3> QED
      BY <3>1, PumpTypes DEF SetPump
  <2>4. CASE UNCHANGED <<cmd, wire>>
    BY <1>6, <2>3, <2>4 DEF PumpSend
  <2>5. CASE /\ NodeIsOnline(conn[k].at) /\ Sent(pump[k].cmd, conn[k].at)
             /\ cmd' = [cmd EXCEPT ![pump[k].cmd] = [@ EXCEPT !.on = registered[conn[k].at]]]
    <3>1. registered[conn[k].at] \in Conn
      BY <2>1, <2>5 DEF NodeIsOnline
    <3>2. cmd' \in [Command -> CommandState]
      BY <2>2, <2>5, <3>1 DEF CommandState
    <3>3. wire' \subseteq Message
      BY <2>2, <2>5, <3>1 DEF Sent, Message
    <3> QED
      BY <1>6, <2>3, <3>2, <3>3 DEF PumpSend
  <2> QED
    BY <1>6, <2>4, <2>5 DEF PumpSend
<1>7. CASE PumpHears(k)
  <2>1. pump' \in [Conn -> Pump]
    <3>1. \E pc \in PumpState : SetPump(k, pc)
      BY <1>7 DEF PumpHears, PumpState
    <3> QED
      BY <3>1, PumpTypes DEF SetPump
  <2>2. cmd' = [cmd EXCEPT ![pump[k].cmd] = [@ EXCEPT !.on = None, !.answer = "none"]]
    BY <1>7 DEF PumpHears
  <2>3. cmd' \in [Command -> CommandState]
    <3>1. pump[k].cmd \in Command
      BY <1>7 DEF PumpHears, PumpAt, Pumps, Pump
    <3>2. [cmd[pump[k].cmd] EXCEPT !.on = None, !.answer = "none"] \in CommandState
      BY <3>1, ZenonT(60) DEF CommandState, Answers
    <3> QED
      BY <2>2, <3>1, <3>2
  <2> QED
    BY <1>7, <2>1, <2>3 DEF PumpHears
<1>8. CASE Record(k)
  <2>1. pump' \in [Conn -> Pump]
    BY <1>8 DEF Record, Pump, PumpState
  <2>2. cmd' \in [Command -> CommandState]
    <3>1. pump[k].cmd \in Command /\ pump[k].pc \in RowStates
      BY <1>8 DEF Record, Pumps, Pump, RowStates
    <3>2. [cmd[pump[k].cmd] EXCEPT !.row = pump[k].pc] \in CommandState
      BY <3>1 DEF CommandState
    <3> QED
      BY <1>8, <3>1, <3>2 DEF Record, SetRow
  <2> QED
    BY <1>8, <2>1, <2>2 DEF Record
<1> QED
  BY <1>1, <1>2, <1>3, <1>4, <1>5, <1>6, <1>7, <1>8

LEMMA TypeNoticed ==
  ASSUME TypeOK, NEW k \in Conn, Pumps(k), NoticeClosed(k)
  PROVE  TypeOK'
<1> USE DEF TypeOK
<1>1. /\ registered' \in [Process -> Conn \cup {None}]
      /\ wire' \subseteq Message
      /\ node' \in NodeRow
  BY DEF NoticeClosed
<1>2. conn' \in [Conn -> Socket]
  BY DEF NoticeClosed, NoSocket, Socket, ServerEnd, NodeEnd
<1>3. pump' \in [Conn -> Pump]
  BY NoPumpType DEF NoticeClosed
<1>4. Leave(k, cmd) \in [Command -> CommandState]
  BY DEF Leave, CommandState
<1>5. ASSUME NEW table \in [Command -> CommandState]
      PROVE  Abandon(k, table) \in [Command -> CommandState]
  <2>1. ASSUME NEW c \in Command
        PROVE  /\ [table[c] EXCEPT !.on = None, !.answer = "none"] \in CommandState
               /\ [table[c] EXCEPT !.on = None, !.answer = "error"] \in CommandState
               /\ table[c] \in CommandState
    <3>1. table[c] \in CommandState
      BY <1>5
    <3> QED
      BY <3>1 DEF CommandState, Answers
  <2> QED
    BY <2>1 DEF Abandon
<1>6. ASSUME pump[k].pc \in {"completed", "failed"}
      PROVE  [cmd EXCEPT ![pump[k].cmd].row = pump[k].pc] \in [Command -> CommandState]
  <2>1. pump[k].cmd \in Command /\ pump[k].pc \in RowStates
    BY <1>6 DEF Pumps, Pump, RowStates
  <2>2. [cmd[pump[k].cmd] EXCEPT !.row = pump[k].pc] \in CommandState
    BY <2>1 DEF CommandState
  <2> QED
    BY <2>1, <2>2
<1>7. cmd' \in [Command -> CommandState]
  BY <1>4, <1>5, <1>6 DEF NoticeClosed
<1> QED
  BY <1>1, <1>2, <1>3, <1>7

LEMMA TypeMessages ==
  ASSUME TypeOK, NEW m \in wire, Receive(m) \/ Respond(m) \/ ResponseArrives(m)
  PROVE  TypeOK'
<1> USE DEF TypeOK
<1>1. m \in Message /\ m.cmd \in Command
  BY DEF Message
<1>2. CASE Receive(m)
  BY <1>1, <1>2 DEF Receive, Message, CommandState
<1>3. CASE Respond(m)
  BY <1>1, <1>3 DEF Respond, Message
<1>4. CASE ResponseArrives(m)
  <2>1. m.kind \in Answers
    BY <1>4 DEF ResponseArrives, Answers
  <2> QED
    BY <1>1, <1>4, <2>1 DEF ResponseArrives, Answered, CommandState
<1> QED
  BY <1>2, <1>3, <1>4

LEMMA TypeCalls ==
  ASSUME TypeOK, NEW c \in Command,
         \/ \E p \in Process : CallLocally(c, p) \/ Queue(c, p)
         \/ Calling(c) \/ Elapse(c) \/ Forget(c)
  PROVE  TypeOK'
<1> USE DEF TypeOK
<1>1. ASSUME NEW p \in Process, CallLocally(c, p) PROVE TypeOK'
  <2> DEFINE k == registered[p]
  <2>1. k \in Conn
    BY <1>1 DEF CallLocally, NodeIsOnline
  <2>2. cmd[c] \in CommandState /\ p \in Process \cup {None} /\ "waiting" \in Callers /\ "raised" \in Callers
    BY DEF Callers
  <2>3. /\ [cmd[c] EXCEPT !.caller = "waiting", !.at = p, !.on = k] \in CommandState
        /\ [cmd[c] EXCEPT !.caller = "raised"] \in CommandState
    BY <2>1, <2>2 DEF CommandState
  <2>4. cmd' \in [Command -> CommandState]
    BY <1>1, <2>3 DEF CallLocally
  <2>5. wire' \subseteq Message
    <3>1. wire' = wire \/ Sent(c, p)
      BY <1>1 DEF CallLocally
    <3>2. [kind |-> "request", cmd |-> c, on |-> k] \in Message
      BY <2>1 DEF Message
    <3> QED
      BY <3>1, <3>2 DEF Sent
  <2> QED
    BY <1>1, <2>4, <2>5 DEF CallLocally
<1>2. ASSUME NEW p \in Process, Queue(c, p) PROVE TypeOK'
  <2>1. /\ [cmd[c] EXCEPT !.caller = "polling", !.at = p, !.row = "pending"] \in CommandState
        /\ [cmd[c] EXCEPT !.caller = "raised"] \in CommandState
    BY DEF CommandState, Callers, RowStates
  <2>2. cmd' \in [Command -> CommandState]
    BY <1>2, <2>1 DEF Queue
  <2> QED
    BY <1>2, <2>2 DEF Queue
<1>3. CASE Calling(c)
  <2>1. ASSUME LocalEnds(c) PROVE cmd' \in [Command -> CommandState]
    <3>1. \A caller \in Callers :
            [cmd[c] EXCEPT !.caller = caller, !.on = None, !.answer = "none"] \in CommandState
      BY DEF CommandState, Answers
    <3>2. (IF cmd[c].answer = "ok" THEN "returned" ELSE "raised") \in Callers
      BY DEF Callers
    <3> QED
      BY <2>1, <3>1, <3>2, CommandsType DEF LocalEnds
  <2>2. ASSUME Poll(c) PROVE cmd' \in [Command -> CommandState]
    BY <2>2 DEF Poll, CommandState, Callers
  <2>3. ASSUME Withdraw(c) PROVE cmd' \in [Command -> CommandState]
    <3>1. cmd[c].row \in RowStates /\ cmd[c] \in CommandState
      BY CommandRow
    <3>2. \A row \in RowStates, w \in BOOLEAN :
            [cmd[c] EXCEPT !.caller = "raised", !.row = row, !.withdrawn = w] \in CommandState
      BY <3>1 DEF CommandState, Callers
    <3>3. (IF cmd[c].row \in {"pending", "dispatched"} THEN "expired" ELSE cmd[c].row) \in RowStates
      BY <3>1 DEF RowStates
    <3> QED
      <4> DEFINE row == IF cmd[c].row \in {"pending", "dispatched"} THEN "expired" ELSE cmd[c].row
                 new == [cmd[c] EXCEPT !.caller = "raised", !.row = row,
                                       !.withdrawn = cmd[c].row = "pending"]
      <4>1. (cmd[c].row = "pending") \in BOOLEAN
        OBVIOUS
      <4>2. new \in CommandState
        BY <3>2, <3>3, <4>1
      <4>3. cmd' = [cmd EXCEPT ![c] = new]
        BY <2>3 DEF Withdraw
      <4> QED
        BY <4>2, <4>3
  <2> QED
    BY <1>3, <2>1, <2>2, <2>3 DEF Calling, LocalEnds, Poll, Withdraw
<1>4. CASE Elapse(c)
  BY <1>4 DEF Elapse, CommandState
<1>5. CASE Forget(c)
  BY <1>5, NoCommandType DEF Forget
<1> QED
  BY <1>1, <1>2, <1>3, <1>4, <1>5

LEMMA TypeCrash ==
  ASSUME TypeOK, NEW p \in Process, Crash(p)
  PROVE  TypeOK'
<1> USE DEF TypeOK
<1>1. /\ registered' \in [Process -> Conn \cup {None}]
      /\ wire' \subseteq Message
      /\ node' \in NodeRow
  BY DEF Crash
<1>2. conn' \in [Conn -> Socket] /\ pump' \in [Conn -> Pump]
  BY NoSocketType, NoPumpType DEF Crash
<1>3. cmd' \in [Command -> CommandState]
  <2>2. \A c \in Command : cmd'[c] \in CommandState
    <3> SUFFICES ASSUME NEW c \in Command PROVE cmd'[c] \in CommandState
      OBVIOUS
    <3> DEFINE lost == {k \in Conn : conn[k].at = p}
               caller == IF cmd[c].at = p /\ cmd[c].caller \in {"waiting", "polling"}
                         THEN "lost" ELSE cmd[c].caller
               on == IF cmd[c].on \in lost THEN None ELSE cmd[c].on
               answer == IF cmd[c].on \in lost THEN "none" ELSE cmd[c].answer
    <3>1. caller \in Callers /\ on \in Conn \cup {None} /\ answer \in Answers
      BY CommandRow DEF Callers, Answers
    <3>2. cmd'[c] = [cmd[c] EXCEPT !.caller = caller, !.on = on, !.answer = answer]
      BY DEF Crash, CommandState
    <3>3. cmd[c] \in CommandState
      OBVIOUS
    <3> HIDE DEF caller, on, answer
    <3>4. [cmd[c] EXCEPT !.caller = caller, !.on = on, !.answer = answer] \in CommandState
      BY <3>1, <3>3 DEF CommandState
    <3> QED
      BY <3>2, <3>4
  <2> QED
    BY <2>2 DEF Crash
<1> QED
  BY <1>1, <1>2, <1>3

LEMMA TypeStep ==
  ASSUME TypeOK, \A k \in Conn : Pumps(k), [Next]_vars
  PROVE  TypeOK'
<1>1. CASE UNCHANGED vars \/ GoStale \/ RefuseConnect
  BY <1>1 DEF TypeOK, vars, GoStale, RefuseConnect, NodeRow
<1>2. ASSUME NEW p \in Process, Unpair(p) PROVE TypeOK'
  BY <1>2, ZenonT(60) DEF TypeOK, Unpair, NodeIsOnline, NodeRow, Socket, ServerEnd
<1> QED
  BY <1>1, <1>2, TypeConnections, TypeNoticed, TypeMessages, TypeCalls, TypeCrash
     DEF Next, Run, Pumping

-----------------------------------------------------------------------------
(* Consistency.                                                            *)

\* Connections come and go without a word of any command.
LEMMA ConnectionStep ==
  ASSUME IInv,
         \/ \E k \in Conn, p \in Process : Connect(k, p)
         \/ \E k \in Conn : Listen(k) \/ NodeCloses(k) \/ PopPrevious(k) \/ Register(k) \/ Heartbeat(k)
         \/ \E p \in Process : Unpair(p)
         \/ GoStale \/ RefuseConnect \/ UNCHANGED vars
  PROVE  Consistent'
<1> USE DEF IInv, TypeOK
<1>1. pump' = pump /\ cmd' = cmd /\ wire' = wire
  BY DEF Connect, Listen, NodeCloses, PopPrevious, Register, Heartbeat, Unpair, GoStale, RefuseConnect, vars
<1>2. ASSUME NEW c \in Command PROVE Rows(c)' /\ Messages(c)' /\ Results(c)'
  BY <1>1 DEF Consistent, Rows, Messages, Results, Unsent, Unowned
<1> DEFINE Serves(k) == /\ conn'[k].server # "unused" => conn'[k].at \in Process
                        /\ pump[k].pc # "off" => conn'[k].server \in {"serving", "closed"}
<1>3. ASSUME NEW k \in Conn PROVE Serves(k)
  <2> /\ conn[k].server # "unused" => conn[k].at \in Process
      /\ pump[k].pc # "off" => conn[k].server \in {"serving", "closed"}
    BY DEF Consistent, Pumps
  <2>1. ASSUME NEW j \in Conn, NEW p \in Process, Connect(j, p) PROVE Serves(k)
    BY <2>1 DEF Connect
  <2>2. ASSUME NEW j \in Conn, Listen(j) \/ NodeCloses(j) \/ Register(j) \/ Heartbeat(j) PROVE Serves(k)
    BY <2>2 DEF Listen, NodeCloses, Register, Heartbeat, Socket
  <2>3. ASSUME NEW j \in Conn, PopPrevious(j) PROVE Serves(k)
    <3> DEFINE q == registered[conn[j].at]
    <3>1. conn[j].server = "accepted" /\ pump[j].pc = "off"
      BY <2>3 DEF PopPrevious, Consistent, Pumps
    <3>2. \/ conn' = [conn EXCEPT ![j].server = "serving"]
          \/ /\ conn[q].server = "serving"
             /\ conn' = [conn EXCEPT ![j].server = "popped", ![q].server = "closed"]
          \/ conn' = [conn EXCEPT ![j] = NoSocket]
      BY <2>3 DEF PopPrevious
    <3> HIDE DEF q
    <3>3. CASE conn' = [conn EXCEPT ![j].server = "serving"]
      BY <3>1, <3>3 DEF Socket
    <3>4. CASE /\ conn[q].server = "serving"
               /\ conn' = [conn EXCEPT ![j].server = "popped", ![q].server = "closed"]
      BY <3>1, <3>4 DEF Socket
    <3>5. CASE conn' = [conn EXCEPT ![j] = NoSocket]
      BY <3>1, <3>5, NoSocketFacts
    <3> QED
      BY <3>2, <3>3, <3>4, <3>5
  <2>4. ASSUME NEW p \in Process, Unpair(p) PROVE Serves(k)
    BY <2>4 DEF Unpair, NodeIsOnline, Socket
  <2>5. CASE GoStale \/ RefuseConnect \/ UNCHANGED vars
    BY <2>5 DEF GoStale, RefuseConnect, vars
  <2> QED
    BY <2>1, <2>2, <2>3, <2>4, <2>5
<1>4. ASSUME NEW k \in Conn PROVE Pumps(k)'
  BY <1>1, <1>3 DEF Consistent, Pumps, Unsent
<1> QED
  BY <1>1, <1>2, <1>4 DEF Consistent

\* Nor do pumps between two commands.
LEMMA IdlePumpStep ==
  ASSUME IInv, NEW k \in Conn,
         StartPump(k) \/ Select(k) \/ PumpDies(k) \/ CleanUp(k)
  PROVE  Consistent'
<1> USE DEF IInv, TypeOK
<1>1. /\ conn' = conn /\ wire' = wire
      /\ pump[k].pc \in {"off", "starting", "idle", "selecting"}
      /\ \E pc \in {"starting", "idle", "selecting", "dead"} : SetPump(k, pc)
      /\ conn[k].server \in {"serving", "closed"}
  BY DEF StartPump, Select, PumpDies, CleanUp, Consistent, Pumps, PumpAt
<1>2. /\ \A j \in Conn : pump'[j].cmd = pump[j].cmd
      /\ \A j \in Conn \ {k} : pump'[j] = pump[j]
      /\ pump'[k].pc \in {"starting", "idle", "selecting", "dead"}
  BY <1>1 DEF SetPump, Pump
<1>3. ASSUME NEW c \in Command
      PROVE  /\ cmd'[c].executed = cmd[c].executed /\ cmd'[c].caller = cmd[c].caller
             /\ cmd'[c].on = cmd[c].on /\ cmd'[c].answer = cmd[c].answer
             /\ cmd'[c].withdrawn = cmd[c].withdrawn
             /\ \/ cmd'[c].row = cmd[c].row
                \/ cmd[c].row = "dispatched" /\ cmd'[c].row \in {"expired", "failed"}
  BY DEF StartPump, Select, PumpDies, CleanUp, CommandState
<1>4. ASSUME NEW c \in Command PROVE (Unsent(c)' <=> Unsent(c)) /\ (Unowned(c)' <=> Unowned(c))
  BY <1>1, <1>2, <1>3 DEF Unsent, Unowned
<1>5. ASSUME NEW c \in Command PROVE Rows(c)' /\ Messages(c)' /\ Results(c)'
  <2>1. Rows(c) /\ Messages(c) /\ Results(c)
    BY DEF Consistent
  <2>2. Rows(c)'
    BY <1>3, <1>4, <2>1 DEF Rows
  <2> QED
    BY <1>1, <1>3, <2>1, <2>2 DEF Messages, Results
<1>6. ASSUME NEW j \in Conn PROVE Pumps(j)'
  <2>1. Pumps(j) /\ pump[j].cmd \in Command \cup {None} /\ Pumps(k)
    BY DEF Consistent, Pump
  <2> QED
    BY <1>1, <1>2, <1>3, <1>4, <2>1, NoneAssumption DEF Pumps
<1>7. \A i, j \in Conn : pump'[i].cmd # None /\ pump'[i].cmd = pump'[j].cmd => i = j
  BY <1>2 DEF Consistent
<1> QED
  BY <1>5, <1>6, <1>7 DEF Consistent

\* A pump takes a row that has not been sent.
LEMMA TakeStep ==
  ASSUME IInv, NEW k \in Conn, Take(k)
  PROVE  Consistent'
<1> USE DEF IInv, TypeOK
<1>1. conn' = conn /\ wire' = wire /\ pump[k].pc = "selecting" /\ Pumps(k) /\ pump[k].cmd = None
  BY DEF Take, PumpAt, Consistent, Pumps, Pump
<1>2. CASE SetPump(k, "idle") /\ UNCHANGED cmd
  <2>1. /\ pump'[k].pc = "idle"
        /\ \A j \in Conn : pump'[j].cmd = pump[j].cmd
        /\ \A j \in Conn \ {k} : pump'[j] = pump[j]
    BY <1>2 DEF SetPump, Pump
  <2>2. ASSUME NEW c \in Command PROVE Rows(c)' /\ Messages(c)' /\ Results(c)'
    BY <1>1, <1>2, <2>1 DEF Consistent, Rows, Messages, Results, Unsent, Unowned
  <2>3. ASSUME NEW j \in Conn PROVE Pumps(j)'
    BY <1>1, <1>2, <2>1 DEF Consistent, Pumps, Unsent
  <2> QED
    BY <2>1, <2>2, <2>3 DEF Consistent
<1>3. CASE \E c \in Pending : /\ SetRow(c, "dispatched")
                              /\ pump' = [pump EXCEPT ![k] = [pc |-> "taken", cmd |-> c]]
  <2>1. PICK c \in Command : /\ cmd[c].row = "pending"
                             /\ SetRow(c, "dispatched")
                             /\ pump' = [pump EXCEPT ![k] = [pc |-> "taken", cmd |-> c]]
    BY <1>3 DEF Pending
  <2>2. /\ pump'[k].pc = "taken" /\ pump'[k].cmd = c
        /\ \A j \in Conn \ {k} : pump'[j] = pump[j]
    BY <2>1
  <2>3. /\ cmd'[c].row = "dispatched"
        /\ \A d \in Command \ {c} : cmd'[d] = cmd[d]
        /\ \A d \in Command : /\ cmd'[d].executed = cmd[d].executed /\ cmd'[d].caller = cmd[d].caller
                               /\ cmd'[d].on = cmd[d].on /\ cmd'[d].answer = cmd[d].answer
                               /\ cmd'[d].withdrawn = cmd[d].withdrawn
    BY <2>1 DEF SetRow, CommandState
  <2>4. /\ Rows(c) /\ Unsent(c) /\ Unowned(c)
        /\ cmd[c].caller \notin {"new", "waiting"} /\ ~cmd[c].withdrawn
    BY <2>1 DEF Consistent, Rows
  <2>5. \A d \in Command : Unsent(d)' <=> Unsent(d)
    BY <1>1, <2>3 DEF Unsent
  <2>6. ASSUME NEW d \in Command PROVE Rows(d)' /\ Messages(d)' /\ Results(d)'
    <3>1. Rows(d) /\ Messages(d) /\ Results(d)
      BY DEF Consistent
    <3>2. Messages(d)' /\ Results(d)'
      BY <1>1, <2>1, <2>3, <3>1 DEF Messages, Results
    <3>3. CASE d = c
      BY <2>3, <2>4, <3>2, <3>3 DEF Rows
    <3>4. CASE d # c
      <4>1. Unowned(d) => Unowned(d)'
        BY <1>1, <2>2, <3>4 DEF Unowned
      <4> QED
        BY <2>3, <2>5, <3>1, <3>2, <3>4, <4>1 DEF Rows
    <3> QED
      BY <3>3, <3>4
  <2>7. ASSUME NEW j \in Conn PROVE Pumps(j)'
    <3>1. CASE j = k
      BY <1>1, <2>2, <2>4, <2>5, <3>1, NoneAssumption DEF Pumps
    <3>2. CASE j # k
      <4>1. Pumps(j) /\ pump'[j] = pump[j] /\ pump[j].cmd \in Command \cup {None}
        BY <2>2, <3>2 DEF Consistent, Pump
      <4> QED
        BY <1>1, <2>3, <2>5, <4>1 DEF Pumps
    <3> QED
      BY <3>1, <3>2
  <2>8. \A i, j \in Conn : pump'[i].cmd # None /\ pump'[i].cmd = pump'[j].cmd => i = j
    BY <2>2, <2>4 DEF Consistent, Unowned
  <2> QED
    BY <2>6, <2>7, <2>8 DEF Consistent
<1> QED
  BY <1>2, <1>3 DEF Take

\* A command is sent once: by its caller, or by the one pump that took its row.
LEMMA RequestSent ==
  ASSUME IInv, NEW c \in Command, NEW j \in Conn, Unsent(c),
         wire' = wire \cup {[kind |-> "request", cmd |-> c, on |-> j]},
         \A d \in Command : cmd'[d].executed = cmd[d].executed
  PROVE  \A d \in Command : /\ Messages(d)'
                            /\ d # c => (Unsent(d)' <=> Unsent(d))
<1> DEFINE request == [kind |-> "request", cmd |-> c, on |-> j]
<1>1. request.kind = "request" /\ request.cmd = c
  OBVIOUS
<1> HIDE DEF request
<1>2. wire' = wire \cup {request}
  BY DEF request
<1> SUFFICES ASSUME NEW d \in Command
             PROVE  Messages(d)' /\ (d # c => (Unsent(d)' <=> Unsent(d)))
  OBVIOUS
<1>3. Messages(d)
  BY DEF IInv, Consistent
<1>4. Messages(d)'
  BY <1>1, <1>2, <1>3 DEF Messages, Unsent
<1> QED
  BY <1>1, <1>2, <1>4 DEF Unsent

LEMMA SendStep ==
  ASSUME IInv, NEW k \in Conn, PumpSend(k)
  PROVE  Consistent'
<1> USE DEF IInv, TypeOK
<1> DEFINE c == pump[k].cmd
           j == registered[conn[k].at]
<1>1. /\ pump[k].pc = "taken" /\ Pumps(k) /\ c \in Command /\ conn' = conn
      /\ Unsent(c) /\ cmd[c].row \notin {"none", "pending", "completed"}
      /\ conn[k].at \in Process
  BY NoneAssumption DEF PumpSend, PumpAt, Consistent, Pumps, Pump, Rows, Unowned
<1>2. \/ /\ j \in Conn
         /\ wire' = wire \cup {[kind |-> "request", cmd |-> c, on |-> j]}
         /\ cmd' = [cmd EXCEPT ![c] = [@ EXCEPT !.on = j]]
         /\ SetPump(k, "sent")
      \/ wire' = wire /\ cmd' = cmd /\ SetPump(k, "failed")
  BY <1>1 DEF PumpSend, NodeIsOnline, Sent
<1>3. /\ pump'[k].pc \in {"sent", "failed"}
      /\ \A i \in Conn : pump'[i].cmd = pump[i].cmd
      /\ \A i \in Conn \ {k} : pump'[i] = pump[i]
  BY <1>2, SMTT(30) DEF SetPump, Pump
<1>4. /\ \A d \in Command : /\ cmd'[d].executed = cmd[d].executed /\ cmd'[d].caller = cmd[d].caller
                             /\ cmd'[d].row = cmd[d].row /\ cmd'[d].answer = cmd[d].answer
                             /\ cmd'[d].withdrawn = cmd[d].withdrawn
      /\ \A d \in Command \ {c} : cmd'[d].on = cmd[d].on
  BY <1>1, <1>2 DEF CommandState
<1>5. \A d \in Command : Messages(d)' /\ (d # c => (Unsent(d)' <=> Unsent(d)))
  <2>1. CASE wire' = wire
    BY <1>4, <2>1 DEF Consistent, Messages, Unsent
  <2>2. CASE j \in Conn /\ wire' = wire \cup {[kind |-> "request", cmd |-> c, on |-> j]}
    BY <1>1, <1>4, <2>2, RequestSent
  <2> QED
    BY <1>2, <2>1, <2>2
<1> HIDE DEF j
<1>6. ASSUME NEW d \in Command PROVE Rows(d)' /\ Results(d)'
  <2>1. Rows(d) /\ Results(d)
    BY DEF Consistent
  <2>2. Unowned(d)' <=> Unowned(d)
    BY <1>3 DEF Unowned
  <2>3. CASE d = c
    <3>1. ~Unowned(d)
      BY <2>3 DEF Unowned
    <3> QED
      BY <1>1, <1>4, <2>1, <2>2, <2>3, <3>1 DEF Rows, Results
  <2>4. CASE d # c
    BY <1>4, <1>5, <2>1, <2>2, <2>4 DEF Rows, Results
  <2> QED
    BY <2>3, <2>4
<1>7. ASSUME NEW i \in Conn PROVE Pumps(i)'
  <2>1. CASE i = k
    BY <1>1, <1>3, <2>1 DEF Pumps
  <2>2. CASE i # k
    <3>1. /\ Pumps(i) /\ pump'[i] = pump[i] /\ pump[i].cmd \in Command \cup {None}
          /\ pump[i].cmd # None => pump[i].cmd # c
      BY <1>3, <2>2 DEF Consistent, Pump
    <3> QED
      BY <1>1, <1>4, <1>5, <3>1 DEF Pumps
  <2> QED
    BY <2>1, <2>2
<1>8. \A i, l \in Conn : pump'[i].cmd # None /\ pump'[i].cmd = pump'[l].cmd => i = l
  BY <1>3 DEF Consistent
<1> QED
  BY <1>5, <1>6, <1>7, <1>8 DEF Consistent

\* A pump completes a command that has been executed.
LEMMA HearStep ==
  ASSUME IInv, NEW k \in Conn, PumpHears(k)
  PROVE  Consistent'
<1> USE DEF IInv, TypeOK
<1> DEFINE c == pump[k].cmd
<1>1. /\ pump[k].pc = "sent" /\ Pumps(k) /\ c \in Command /\ conn' = conn /\ wire' = wire
      /\ cmd[c].answer = "ok" => cmd[c].executed = 1
  BY NoneAssumption DEF PumpHears, PumpAt, Consistent, Pumps, Pump, Results
<1>2. /\ pump'[k].pc \in {"completed", "failed"}
      /\ pump'[k].pc = "completed" => cmd[c].answer = "ok"
      /\ \A i \in Conn : pump'[i].cmd = pump[i].cmd
      /\ \A i \in Conn \ {k} : pump'[i] = pump[i]
  BY DEF PumpHears, SetPump, Pump
<1>3. /\ \A d \in Command : /\ cmd'[d].executed = cmd[d].executed /\ cmd'[d].caller = cmd[d].caller
                             /\ cmd'[d].row = cmd[d].row /\ cmd'[d].withdrawn = cmd[d].withdrawn
      /\ \A d \in Command : cmd'[d].answer \in {cmd[d].answer, "none"} /\ cmd'[d].on \in {cmd[d].on, None}
  BY <1>1 DEF PumpHears, CommandState
<1>4. ASSUME NEW d \in Command
      PROVE  Rows(d)' /\ Messages(d)' /\ Results(d)' /\ (Unsent(d)' <=> Unsent(d))
  <2>1. Rows(d) /\ Messages(d) /\ Results(d)
    BY DEF Consistent
  <2>2. (Unsent(d)' <=> Unsent(d)) /\ (Unowned(d)' <=> Unowned(d))
    BY <1>1, <1>2, <1>3 DEF Unsent, Unowned
  <2>3. /\ cmd[d].answer = "none" => cmd'[d].answer = "none"
        /\ cmd'[d].answer = "ok" => cmd[d].answer = "ok"
        /\ cmd[d].on = None => cmd'[d].on = None
    BY <1>3
  <2> QED
    BY <1>1, <1>3, <2>1, <2>2, <2>3 DEF Rows, Messages, Results
<1>5. ASSUME NEW i \in Conn PROVE Pumps(i)'
  <2>1. CASE i = k
    BY <1>1, <1>2, <1>3, <2>1 DEF Pumps
  <2>2. CASE i # k
    <3>1. Pumps(i) /\ pump'[i] = pump[i] /\ pump[i].cmd \in Command \cup {None}
      BY <1>2, <2>2 DEF Consistent, Pump
    <3> QED
      BY <1>1, <1>3, <1>4, <3>1 DEF Pumps
  <2> QED
    BY <2>1, <2>2
<1>6. \A i, l \in Conn : pump'[i].cmd # None /\ pump'[i].cmd = pump'[l].cmd => i = l
  BY <1>2 DEF Consistent
<1> QED
  BY <1>4, <1>5, <1>6 DEF Consistent

\* What becomes of the others when a pump is done with its command, if it has one,
\* and records its outcome or is cancelled before.
LEMMA PumpDone ==
  ASSUME IInv, NEW k \in Conn,
         pump'[k].cmd = None, pump'[k].pc \in {"off", "idle"},
         \A i \in Conn \ {k} : pump'[i] = pump[i],
         wire' \subseteq wire,
         \A i \in Conn : conn'[i].server # "unused" => conn'[i].at \in Process,
         \A i \in Conn \ {k} : conn'[i].server = conn[i].server,
         pump'[k].pc = "idle" => conn'[k].server \in {"serving", "closed"},
         \A c \in Command :
           /\ cmd'[c].executed = cmd[c].executed /\ cmd'[c].withdrawn = cmd[c].withdrawn
           /\ cmd'[c].caller = cmd[c].caller
           /\ cmd'[c].answer \in {cmd[c].answer, "none", "error"}
           /\ cmd[c].on = None => cmd'[c].on = None /\ cmd'[c].answer \in {cmd[c].answer, "none"}
           /\ \/ cmd'[c].row = cmd[c].row
              \/ c = pump[k].cmd /\ pump[k].pc \in {"completed", "failed"} /\ cmd'[c].row = pump[k].pc
  PROVE  Consistent'
<1> USE DEF IInv, TypeOK
<1>1. Pumps(k) /\ pump[k].cmd \in Command \cup {None}
  BY DEF Consistent, Pump
<1>2. \A i, l \in Conn : pump[i].cmd # None /\ pump[i].cmd = pump[l].cmd => i = l
  BY DEF Consistent
<1>3. ASSUME NEW c \in Command
      PROVE  /\ Unsent(c) => Unsent(c)'
             /\ Unowned(c) => Unowned(c)'
             /\ c = pump[k].cmd => Unowned(c)'
  <2>1. Unowned(c) => Unowned(c)'
    BY NoneAssumption DEF Unowned
  <2>2. c = pump[k].cmd => Unowned(c)'
    BY <1>2, NoneAssumption DEF Unowned
  <2> QED
    BY <2>1, <2>2 DEF Unsent
<1>4. ASSUME NEW c \in Command PROVE Rows(c)' /\ Messages(c)' /\ Results(c)'
  <2>1. Rows(c) /\ Messages(c) /\ Results(c)
    BY DEF Consistent
  <2>2. CASE cmd'[c].row = cmd[c].row
    <3>1. Rows(c)'
      BY <1>3, <2>1, <2>2 DEF Rows
    <3>2. Results(c)'
      BY <2>1, <2>2 DEF Results
    <3> QED
      BY <2>1, <3>1, <3>2 DEF Messages
  <2>3. CASE c = pump[k].cmd /\ pump[k].pc \in {"completed", "failed"} /\ cmd'[c].row = pump[k].pc
    <3>1. ~Unowned(c) /\ Unowned(c)'
      BY <1>3, <2>3 DEF Unowned
    <3>2. cmd[c].caller \notin {"new", "waiting"} /\ ~cmd[c].withdrawn
      BY <2>1, <3>1 DEF Rows
    <3>3. Rows(c)'
      BY <2>3, <3>1, <3>2 DEF Rows
    <3>4. cmd'[c].row = "completed" => cmd[c].executed = 1
      BY <1>1, <2>3 DEF Pumps
    <3>5. Results(c)'
      BY <2>1, <3>4 DEF Results
    <3> QED
      BY <2>1, <3>3, <3>5 DEF Messages
  <2> QED
    BY <2>2, <2>3
<1>5. ASSUME NEW i \in Conn PROVE Pumps(i)'
  <2>1. CASE i = k
    BY <2>1 DEF Pumps
  <2>2. CASE i # k
    <3>1. /\ Pumps(i) /\ pump'[i] = pump[i] /\ conn'[i].server = conn[i].server
          /\ pump[i].cmd \in Command \cup {None}
      BY <2>2 DEF Consistent, Pump
    <3> QED
      BY <1>3, <3>1 DEF Pumps
  <2> QED
    BY <2>1, <2>2
<1>6. \A i, l \in Conn : pump'[i].cmd # None /\ pump'[i].cmd = pump'[l].cmd => i = l
  BY <1>2
<1> QED
  BY <1>4, <1>5, <1>6 DEF Consistent

LEMMA RecordStep ==
  ASSUME IInv, NEW k \in Conn, Record(k)
  PROVE  Consistent'
<1> USE DEF IInv, TypeOK
<1>1. Pumps(k) /\ pump[k].pc \in {"completed", "failed"} /\ pump[k].cmd \in Command
  BY NoneAssumption DEF Record, Consistent, Pumps, Pump
<1>2. /\ pump'[k].cmd = None /\ pump'[k].pc = "idle"
      /\ \A i \in Conn \ {k} : pump'[i] = pump[i]
      /\ wire' = wire /\ conn' = conn
  BY DEF Record
<1>3. \A c \in Command :
        /\ cmd'[c].executed = cmd[c].executed /\ cmd'[c].withdrawn = cmd[c].withdrawn
        /\ cmd'[c].caller = cmd[c].caller /\ cmd'[c].answer = cmd[c].answer /\ cmd'[c].on = cmd[c].on
        /\ IF c = pump[k].cmd THEN cmd'[c].row = pump[k].pc ELSE cmd'[c].row = cmd[c].row
  BY <1>1 DEF Record, SetRow, CommandState
<1>4. /\ \A i \in Conn : conn[i].server # "unused" => conn[i].at \in Process
      /\ conn[k].server \in {"serving", "closed"}
  BY <1>1 DEF Consistent, Pumps
<1> QED
  BY <1>1, <1>2, <1>3, <1>4, PumpDone

LEMMA NoticeStep ==
  ASSUME IInv, NEW k \in Conn, NoticeClosed(k)
  PROVE  Consistent'
<1> USE DEF IInv, TypeOK
<1>1. /\ pump'[k].cmd = None /\ pump'[k].pc = "off"
      /\ \A i \in Conn \ {k} : pump'[i] = pump[i]
      /\ wire' \subseteq wire
  BY NoPumpType, NoSocketFacts DEF NoticeClosed
<1>2. /\ \A i \in Conn \ {k} : conn'[i] = conn[i]
      /\ conn'[k].server = "unused"
  BY DEF NoticeClosed, NoSocket
<1>3. \A i \in Conn : conn'[i].server # "unused" => conn'[i].at \in Process
  BY <1>2 DEF Consistent, Pumps
<1> DEFINE Left(c, table) ==
             /\ table[c].executed = cmd[c].executed /\ table[c].withdrawn = cmd[c].withdrawn
             /\ table[c].caller = cmd[c].caller
             /\ table[c].answer \in {cmd[c].answer, "none", "error"}
             /\ cmd[c].on = None => table[c].on = None /\ table[c].answer \in {cmd[c].answer, "none"}
             /\ \/ table[c].row = cmd[c].row
                \/ c = pump[k].cmd /\ pump[k].pc \in {"completed", "failed"} /\ table[c].row = pump[k].pc
<1>4. ASSUME NEW c \in Command PROVE Left(c, cmd')
  <2>1. Left(c, Leave(k, cmd))
    BY NoneAssumption DEF Leave, CommandState
  <2>2. ASSUME NEW table \in [Command -> CommandState], Left(c, table), table[c].on = cmd[c].on
        PROVE  Left(c, Abandon(k, table))
    <3>1. table[c] \in CommandState
      BY <2>2
    <3>2. CASE pump[k].cmd = c
      <4>1. Abandon(k, table)[c] = [table[c] EXCEPT !.on = None, !.answer = "none"]
        BY <3>2 DEF Abandon
      <4> QED
        BY <2>2, <3>1, <4>1 DEF CommandState
    <3>3. CASE pump[k].cmd # c /\ table[c].on = k /\ table[c].answer = "none"
      <4>1. Abandon(k, table)[c] = [table[c] EXCEPT !.on = None, !.answer = "error"]
        BY <3>3 DEF Abandon
      <4> QED
        BY <2>2, <3>1, <3>3, <4>1, NoneAssumption DEF CommandState
    <3>4. CASE pump[k].cmd # c /\ ~(table[c].on = k /\ table[c].answer = "none")
      <4>1. Abandon(k, table)[c] = table[c]
        BY <3>4 DEF Abandon
      <4> QED
        BY <2>2, <4>1
    <3> QED
      BY <3>2, <3>3, <3>4
  <2>3. Left(c, cmd)
    OBVIOUS
  <2>4. ASSUME pump[k].pc \in {"completed", "failed"}
        PROVE  LET table == [cmd EXCEPT ![pump[k].cmd].row = pump[k].pc]
               IN  table \in [Command -> CommandState] /\ Left(c, table) /\ table[c].on = cmd[c].on
    <3>1. pump[k].cmd \in Command /\ pump[k].pc \in RowStates
      BY <2>4 DEF Consistent, Pumps, Pump, RowStates
    <3>2. [cmd[pump[k].cmd] EXCEPT !.row = pump[k].pc] \in CommandState
      BY <3>1 DEF CommandState
    <3> QED
      BY <2>4, <3>1, <3>2 DEF CommandState
  <2> HIDE DEF Left
  <2> QED
    BY <2>1, <2>2, <2>3, <2>4 DEF NoticeClosed
<1> QED
  BY <1>1, <1>2, <1>3, <1>4, PumpDone

\* A request is the only message of its command: executed, it is one no more.
LEMMA MessageStep ==
  ASSUME IInv, NEW m \in wire, Receive(m) \/ Respond(m) \/ ResponseArrives(m)
  PROVE  Consistent'
<1> USE DEF IInv, TypeOK
<1> DEFINE c == m.cmd
<1>1. c \in Command /\ m \in Message /\ conn' = conn /\ pump' = pump
  BY DEF Message, Receive, Respond, ResponseArrives
<1>2. /\ Rows(c) /\ Messages(c) /\ Results(c)
      /\ \A n \in wire : n.cmd = c => n = m
      /\ ~Unsent(c)
      /\ cmd[c].caller # "new" /\ cmd[c].row # "pending" /\ ~cmd[c].withdrawn
  BY <1>1 DEF Consistent, Messages, Rows, Unsent
<1>3. cmd[c].executed = IF m.kind = "request" THEN 0 ELSE 1
  BY <1>2 DEF Messages
<1>4. /\ \A d \in Command : /\ cmd'[d].row = cmd[d].row /\ cmd'[d].caller = cmd[d].caller
                             /\ cmd'[d].withdrawn = cmd[d].withdrawn
                             /\ cmd'[d].on = cmd[d].on
      /\ \A d \in Command \ {c} : cmd'[d] = cmd[d]
      /\ cmd'[c].answer = "ok" => cmd[c].answer = "ok" \/ m.kind = "ok"
      /\ cmd'[c].executed \in {cmd[c].executed, 1}
      /\ m.kind # "request" => cmd'[c].executed = cmd[c].executed
  <2>1. CASE Receive(m)
    BY <1>1, <1>3, <2>1 DEF Receive, CommandState
  <2>2. CASE Respond(m)
    BY <1>1, <2>2 DEF Respond
  <2>3. CASE ResponseArrives(m)
    BY <1>1, <2>3 DEF ResponseArrives, Answered, CommandState
  <2> QED
    BY <2>1, <2>2, <2>3
<1>5. \/ wire' = wire \ {m}
      \/ /\ cmd'[c].executed = 1
         /\ \E n \in Message : n.kind # "request" /\ n.cmd = c /\ wire' = (wire \ {m}) \cup {n}
  <2>1. \A kind \in {"running", "ok", "error"} :
          LET n == [m EXCEPT !.kind = kind] IN n \in Message /\ n.kind # "request" /\ n.cmd = c
    BY <1>1 DEF Message
  <2>2. CASE Receive(m)
    <3>1. \/ wire' = wire \ {m}
          \/ wire' = (wire \ {m}) \cup {[m EXCEPT !.kind = "running"]} /\ cmd'[c].executed = 1
      BY <1>1, <1>3, <2>2 DEF Receive, CommandState
    <3> QED
      BY <2>1, <3>1
  <2>3. CASE Respond(m)
    <3>1. \/ wire' = wire \ {m}
          \/ \E kind \in {"ok", "error"} : wire' = (wire \ {m}) \cup {[m EXCEPT !.kind = kind]}
      BY <2>3 DEF Respond
    <3>2. m.kind # "request" /\ cmd' = cmd
      BY <2>3 DEF Respond
    <3> QED
      BY <1>3, <2>1, <3>1, <3>2
  <2>4. CASE ResponseArrives(m)
    BY <2>4 DEF ResponseArrives
  <2> QED
    BY <2>2, <2>3, <2>4
<1>6. ASSUME NEW d \in Command PROVE Messages(d)'
  <2>1. Messages(d)
    BY DEF Consistent
  <2>2. CASE d = c
    <3>1. cmd'[c].executed \in {0, 1}
      BY <1>3, <1>4
    <3>2. \A n \in wire' : n.cmd = c => n \notin wire \ {m}
      BY <1>2, <1>5
    <3> QED
      BY <1>5, <2>2, <3>1, <3>2 DEF Messages
  <2>3. CASE d # c
    BY <1>4, <1>5, <2>1, <2>3 DEF Messages
  <2> QED
    BY <2>2, <2>3
<1>7. ASSUME NEW d \in Command PROVE Unsent(d) => Unsent(d)'
  BY <1>2, <1>4, <1>5, <1>7 DEF Unsent
<1>8. ASSUME NEW d \in Command PROVE Rows(d)' /\ Results(d)'
  <2>1. Rows(d) /\ Results(d) /\ (Unowned(d)' <=> Unowned(d))
    BY <1>1 DEF Consistent, Unowned
  <2>2. CASE d = c
    BY <1>2, <1>3, <1>4, <2>1, <2>2 DEF Rows, Results
  <2>3. CASE d # c
    BY <1>4, <1>7, <2>1, <2>3 DEF Rows, Results
  <2> QED
    BY <2>2, <2>3
<1>9. ASSUME NEW k \in Conn PROVE Pumps(k)'
  <2>1. Pumps(k) /\ pump[k].cmd \in Command \cup {None}
    BY DEF Consistent, Pump
  <2>2. \A d \in Command : cmd[d].executed = 1 => cmd'[d].executed = 1
    BY <1>4
  <2> QED
    BY <1>1, <1>7, <2>1, <2>2 DEF Pumps
<1> QED
  BY <1>1, <1>6, <1>8, <1>9 DEF Consistent

\* Steps of the caller of c, which touch the rest of its command only.
LEMMA CallerStep ==
  ASSUME IInv, NEW c \in Command,
         pump' = pump, conn' = conn,
         \A d \in Command \ {c} : cmd'[d] = cmd[d],
         Rows(c)', Messages(c)', Results(c)',
         \A d \in Command \ {c} : Messages(d)' /\ (Unsent(d)' <=> Unsent(d)),
         Unowned(c) \/ (cmd'[c].executed = cmd[c].executed /\ (Unsent(c) => Unsent(c)'))
  PROVE  Consistent'
<1> USE DEF IInv, TypeOK
<1>1. ASSUME NEW d \in Command PROVE Rows(d)' /\ Messages(d)' /\ Results(d)'
  <2>1. Rows(d) /\ Results(d) /\ (Unowned(d)' <=> Unowned(d))
    BY DEF Consistent, Unowned
  <2>2. CASE d # c
    BY <2>1, <2>2 DEF Rows, Results
  <2> QED
    BY <2>2
<1>2. ASSUME NEW k \in Conn PROVE Pumps(k)'
  <2>1. Pumps(k) /\ pump[k].cmd \in Command \cup {None}
    BY DEF Consistent, Pump
  <2>2. CASE pump[k].cmd = c
    <3>1. ~Unowned(c)
      BY <2>2 DEF Unowned
    <3> QED
      BY <2>1, <2>2, <3>1 DEF Pumps
  <2>3. CASE pump[k].cmd # c
    BY <2>1, <2>3 DEF Pumps
  <2> QED
    BY <2>2, <2>3
<1> QED
  BY <1>1, <1>2 DEF Consistent

LEMMA CallStep ==
  ASSUME IInv, NEW c \in Command,
         \/ \E p \in Process : CallLocally(c, p) \/ Queue(c, p)
         \/ Calling(c) \/ Elapse(c) \/ Forget(c)
  PROVE  Consistent'
<1> USE DEF IInv, TypeOK
<1>1. /\ pump' = pump /\ conn' = conn
      /\ \A d \in Command \ {c} : cmd'[d] = cmd[d]
      /\ Rows(c) /\ Messages(c) /\ Results(c) /\ (Unowned(c)' <=> Unowned(c))
  BY DEF CallLocally, Queue, Calling, LocalEnds, Poll, Withdraw, Elapse, Forget, Consistent, Unowned
<1>2. ASSUME wire' = wire, NEW d \in Command \ {c}
      PROVE  Messages(d)' /\ (Unsent(d)' <=> Unsent(d))
  BY <1>1, <1>2 DEF Consistent, Messages, Unsent
<1>3. ASSUME wire' = wire, cmd'[c].executed = cmd[c].executed
      PROVE  Messages(c)' /\ (Unsent(c)' <=> Unsent(c))
  BY <1>1, <1>3 DEF Messages, Unsent
<1>4. ASSUME NEW p \in Process, CallLocally(c, p) PROVE Consistent'
  <2> DEFINE k == registered[p]
  <2>1. k \in Conn /\ cmd[c].caller = "new" /\ Unsent(c) /\ Unowned(c) /\ Unowned(c)'
    BY <1>1, <1>4 DEF CallLocally, NodeIsOnline, Waiting, Rows
  <2>2. CASE wire' = wire /\ cmd' = [cmd EXCEPT ![c] = [@ EXCEPT !.caller = "raised"]]
    <3>1. /\ cmd'[c].executed = cmd[c].executed /\ cmd'[c].row = cmd[c].row
          /\ cmd'[c].answer = cmd[c].answer /\ cmd'[c].withdrawn = cmd[c].withdrawn
          /\ cmd'[c].caller = "raised"
      BY <2>2 DEF CommandState
    <3>2. Rows(c)' /\ Results(c)'
      BY <1>1, <2>1, <3>1 DEF Rows, Results
    <3> QED
      BY <1>1, <1>2, <1>3, <2>2, <2>1, <3>1, <3>2, CallerStep
  <2>3. CASE /\ wire' = wire \cup {[kind |-> "request", cmd |-> c, on |-> k]}
             /\ cmd' = [cmd EXCEPT ![c] = [@ EXCEPT !.caller = "waiting", !.at = p, !.on = k]]
    <3>1. /\ cmd'[c].executed = cmd[c].executed /\ cmd'[c].row = cmd[c].row
          /\ cmd'[c].answer = cmd[c].answer /\ cmd'[c].withdrawn = cmd[c].withdrawn
          /\ cmd'[c].caller = "waiting"
      BY <2>3 DEF CommandState
    <3>2. Rows(c)' /\ Results(c)'
      BY <1>1, <2>1, <3>1 DEF Rows, Results
    <3>3. \A d \in Command : Messages(d)' /\ (d # c => (Unsent(d)' <=> Unsent(d)))
      BY <1>1, <2>1, <2>3, <3>1, RequestSent
    <3> QED
      BY <1>1, <2>1, <3>1, <3>2, <3>3, CallerStep
  <2> QED
    BY <1>4, <2>2, <2>3 DEF CallLocally, Sent
<1>5. ASSUME NEW p \in Process, Queue(c, p) PROVE Consistent'
  <2>1. cmd[c].caller = "new" /\ Unsent(c) /\ Unowned(c) /\ Unowned(c)' /\ wire' = wire
    BY <1>1, <1>5 DEF Queue, Waiting, Rows
  <2>2. /\ cmd'[c].executed = cmd[c].executed /\ cmd'[c].answer = cmd[c].answer
        /\ cmd'[c].withdrawn = cmd[c].withdrawn
        /\ \/ cmd'[c].caller = "polling" /\ cmd'[c].row = "pending"
           \/ cmd'[c].caller = "raised" /\ cmd'[c].row = cmd[c].row
    BY <1>5 DEF Queue, CommandState
  <2>3. Messages(c)' /\ Unsent(c)'
    BY <1>3, <2>1, <2>2
  <2>4. Rows(c)' /\ Results(c)'
    BY <1>1, <2>1, <2>2, <2>3 DEF Rows, Results
  <2> QED
    BY <1>1, <1>2, <2>1, <2>3, <2>4, CallerStep
<1>6. CASE Calling(c) \/ Elapse(c)
  <2>1. /\ wire' = wire /\ cmd'[c].executed = cmd[c].executed
        /\ cmd'[c].answer \in {cmd[c].answer, "none"}
        /\ \/ /\ cmd[c].caller = "waiting" /\ cmd'[c].row = cmd[c].row
              /\ cmd'[c].caller = "raised" \/ (cmd'[c].caller = "returned" /\ cmd[c].answer = "ok")
              /\ cmd'[c].withdrawn = cmd[c].withdrawn
           \/ /\ cmd[c].caller = "polling" /\ cmd'[c].row = cmd[c].row
              /\ cmd'[c].caller = "raised" \/ (cmd'[c].caller = "returned" /\ cmd[c].row = "completed")
              /\ cmd'[c].withdrawn = cmd[c].withdrawn
           \/ /\ cmd[c].caller = "polling" /\ cmd'[c].caller = "raised"
              /\ cmd'[c].row = IF cmd[c].row \in {"pending", "dispatched"} THEN "expired" ELSE cmd[c].row
              /\ cmd'[c].withdrawn = (cmd[c].row = "pending")
           \/ /\ cmd'[c].caller = cmd[c].caller /\ cmd'[c].row = cmd[c].row
              /\ cmd'[c].withdrawn = cmd[c].withdrawn /\ cmd'[c].on = cmd[c].on
    <3>1. CASE LocalEnds(c)
      <4>1. cmd[c].caller = "waiting" /\ wire' = wire
        BY <3>1 DEF LocalEnds, Waiting
      <4>2. /\ cmd'[c].executed = cmd[c].executed /\ cmd'[c].answer = "none"
            /\ cmd'[c].row = cmd[c].row /\ cmd'[c].withdrawn = cmd[c].withdrawn
            /\ cmd'[c].caller = IF cmd[c].answer = "ok" THEN "returned" ELSE "raised"
        BY <3>1 DEF LocalEnds, CommandState
      <4> QED
        BY <4>1, <4>2
    <3>2. CASE Poll(c)
      <4>1. cmd[c].caller = "polling" /\ wire' = wire
        BY <3>2 DEF Poll, Waiting
      <4>2. /\ cmd'[c].executed = cmd[c].executed /\ cmd'[c].answer = cmd[c].answer
            /\ cmd'[c].row = cmd[c].row /\ cmd'[c].withdrawn = cmd[c].withdrawn
            /\ cmd'[c].caller = IF cmd[c].row = "completed" THEN "returned" ELSE "raised"
        BY <3>2 DEF Poll, CommandState
      <4> QED
        BY <4>1, <4>2
    <3>3. CASE Withdraw(c)
      BY <3>3 DEF Withdraw, Waiting, CommandState
    <3>4. CASE Elapse(c)
      BY <3>4 DEF Elapse, CommandState
    <3> QED
      BY <1>6, <3>1, <3>2, <3>3, <3>4 DEF Calling
  <2>2. Messages(c)' /\ (Unsent(c)' <=> Unsent(c))
    BY <1>3, <2>1
  <2>3. Rows(c)'
    BY <1>1, <2>1, <2>2 DEF Rows
  <2>4. Results(c)'
    BY <1>1, <2>1 DEF Results
  <2> QED
    BY <1>1, <1>2, <2>1, <2>2, <2>3, <2>4, CallerStep
<1>7. CASE Forget(c)
  <2>1. Unowned(c) /\ Unowned(c)' /\ wire' = wire /\ \A m \in wire : m.cmd # c
    BY <1>1, <1>7 DEF Forget, Unowned
  <2>2. /\ cmd'[c].executed = 0 /\ cmd'[c].row = "none" /\ cmd'[c].caller = "new"
        /\ cmd'[c].answer = "none" /\ cmd'[c].on = None /\ cmd'[c].withdrawn = FALSE
    BY <1>7 DEF Forget, NoCommand
  <2>3. Unsent(c)' /\ Messages(c)'
    BY <2>1, <2>2 DEF Unsent, Messages
  <2>4. Rows(c)' /\ Results(c)'
    BY <2>1, <2>2, <2>3 DEF Rows, Results
  <2> QED
    BY <1>1, <1>2, <2>1, <2>3, <2>4, CallerStep
<1> QED
  BY <1>4, <1>5, <1>6, <1>7

\* With a process go its connections, their pumps and messages, and its callers.
LEMMA CrashStep ==
  ASSUME IInv, NEW p \in Process, Crash(p)
  PROVE  Consistent'
<1> USE DEF IInv, TypeOK
<1>1. ASSUME NEW c \in Command
      PROVE  /\ cmd'[c].executed = cmd[c].executed /\ cmd'[c].withdrawn = cmd[c].withdrawn
             /\ cmd'[c].row = cmd[c].row
             /\ \/ cmd'[c].caller = cmd[c].caller
                \/ cmd[c].caller \in {"waiting", "polling"} /\ cmd'[c].caller = "lost"
             /\ cmd'[c].answer \in {cmd[c].answer, "none"}
             /\ cmd'[c].on \in {cmd[c].on, None}
  BY ZenonT(60) DEF Crash, CommandState
<1>2. ASSUME NEW k \in Conn
      PROVE  \/ pump'[k].cmd = None /\ pump'[k].pc = "off" /\ conn'[k].server = "unused"
             \/ pump'[k] = pump[k] /\ conn'[k] = conn[k]
  BY NoSocketFacts DEF Crash
<1>3. wire' \subseteq wire
  BY DEF Crash
<1>4. ASSUME NEW c \in Command
      PROVE  Rows(c)' /\ Messages(c)' /\ Results(c)' /\ (Unsent(c) => Unsent(c)')
  <2>1. Rows(c) /\ Messages(c) /\ Results(c)
    BY DEF Consistent
  <2>2. (Unsent(c) => Unsent(c)') /\ (Unowned(c) => Unowned(c)')
    BY <1>1, <1>2, <1>3, NoneAssumption DEF Unsent, Unowned
  <2>3. Rows(c)'
    BY <1>1, <2>1, <2>2 DEF Rows
  <2>4. Messages(c)' /\ Results(c)'
    BY <1>1, <1>3, <2>1 DEF Messages, Results
  <2> QED
    BY <2>2, <2>3, <2>4
<1>5. ASSUME NEW k \in Conn PROVE Pumps(k)'
  <2>1. Pumps(k) /\ pump[k].cmd \in Command \cup {None}
    BY DEF Consistent, Pump
  <2>2. CASE pump'[k].cmd = None /\ pump'[k].pc = "off" /\ conn'[k].server = "unused"
    BY <2>2 DEF Pumps
  <2>3. CASE pump'[k] = pump[k] /\ conn'[k] = conn[k]
    BY <1>1, <1>4, <2>1, <2>3 DEF Pumps
  <2> QED
    BY <1>2, <2>2, <2>3
<1>6. \A j, k \in Conn : pump'[j].cmd # None /\ pump'[j].cmd = pump'[k].cmd => j = k
  BY <1>2 DEF Consistent
<1> QED
  BY <1>4, <1>5, <1>6 DEF Consistent

-----------------------------------------------------------------------------
(* The inductive invariant holds.                                          *)

LEMMA InitIInv == Init => IInv
<1> SUFFICES ASSUME Init PROVE IInv
  OBVIOUS
<1>1. TypeOK
  BY TypeInit
<1>2. ASSUME NEW k \in Conn PROVE Pumps(k) /\ pump[k].cmd = None
  BY NoSocketFacts DEF Init, Pumps
<1>3. ASSUME NEW c \in Command PROVE Rows(c) /\ Messages(c) /\ Results(c)
  <2>1. /\ cmd[c].row = "none" /\ cmd[c].caller = "new" /\ cmd[c].on = None /\ cmd[c].answer = "none"
        /\ cmd[c].executed = 0 /\ cmd[c].withdrawn = FALSE /\ wire = {}
    BY DEF Init, NoCommand
  <2>2. Unsent(c) /\ Unowned(c)
    BY <1>2, <2>1, NoneAssumption DEF Unsent, Unowned
  <2> QED
    BY <2>1, <2>2 DEF Rows, Messages, Results
<1> QED
  BY <1>1, <1>2, <1>3 DEF IInv, Consistent

LEMMA IInvStep == IInv /\ [Next]_vars => IInv'
<1> SUFFICES ASSUME IInv, [Next]_vars PROVE IInv'
  OBVIOUS
<1>1. TypeOK'
  BY TypeStep DEF IInv, Consistent
<1>2. ASSUME NEW k \in Conn,
             Pumping(k) \/ PumpDies(k) \/ NoticeClosed(k)
      PROVE  Consistent'
  BY <1>2, IdlePumpStep, TakeStep, SendStep, HearStep, RecordStep, NoticeStep DEF Pumping
<1>3. ASSUME NEW m \in wire, Receive(m) \/ Respond(m) \/ ResponseArrives(m) PROVE Consistent'
  BY <1>3, MessageStep
<1>4. ASSUME NEW c \in Command,
             \/ \E p \in Process : CallLocally(c, p) \/ Queue(c, p)
             \/ Calling(c) \/ Elapse(c) \/ Forget(c)
      PROVE  Consistent'
  BY <1>4, CallStep
<1>5. ASSUME NEW p \in Process, Crash(p) PROVE Consistent'
  BY <1>5, CrashStep
<1>6. Consistent'
  BY <1>2, <1>3, <1>4, <1>5, ConnectionStep DEF Next, Run
<1> QED
  BY <1>1, <1>6 DEF IInv

LEMMA IInvHolds == Spec => []IInv
<1>1. Init => IInv
  BY InitIInv
<1>2. IInv /\ [Next]_vars => IInv'
  BY IInvStep
<1> QED
  BY <1>1, <1>2, PTL DEF Spec

-----------------------------------------------------------------------------
(* What the module promises.                                               *)

\* Connections, pumps, futures, rows and messages are what connect_node,
\* _command_pump and send_node_command make of them.
THEOREM CommandsTypeCorrect == Spec => []TypeOK
BY IInvHolds, PTL DEF IInv

\* However many connections die or overlap, whichever processes stop and whatever
\* pumps are cancelled at, the node executes a command once at most: nothing that
\* was sent is sent again (_command_pump, send_node_command).
THEOREM CommandsExecuteOnce == Spec => []ExecutedAtMostOnce
<1>1. IInv => ExecutedAtMostOnce
  BY DEF IInv, Consistent, Messages, ExecutedAtMostOnce
<1> QED
  BY <1>1, IInvHolds, PTL

\* Who gets a result, from a future or from a row, gets that of an execution.
THEOREM ResultsAreExecutions == Spec => []ResultMeansExecuted
<1>1. IInv => ResultMeansExecuted
  BY DEF IInv, Consistent, Results, ResultMeansExecuted
<1> QED
  BY <1>1, IInvHolds, PTL

\* The UPDATE of a caller that gives up and the SELECT of a pump exclude each other:
\* what was withdrawn while pending reaches no node.
THEOREM WithdrawnStaysUnexecuted == Spec => []WithdrawnIsNotExecuted
<1>1. IInv => WithdrawnIsNotExecuted
  BY DEF IInv, Consistent, Rows, Unsent, WithdrawnIsNotExecuted
<1> QED
  BY <1>1, IInvHolds, PTL

\* Of the UPDATEs of a row (by a pump, by a later pump's clean-up, by the caller)
\* none loses a result that is recorded.
THEOREM ResultsAreFinal == Spec => CompletedIsFinal
<1> DEFINE Final == \A c \in Command : cmd[c].row = "completed" => cmd'[c].row \in {"completed", "none"}
<1>1. IInv /\ [Next]_vars => [Final]_vars
  <2> SUFFICES ASSUME IInv, Next, NEW c \in Command, cmd[c].row = "completed"
               PROVE  cmd'[c].row \in {"completed", "none"}
    OBVIOUS
  <2> USE DEF IInv, TypeOK
  <2>1. /\ \A k \in Conn : pump[k].cmd # c
        /\ cmd[c].caller \notin {"new", "waiting"}
    BY DEF Consistent, Rows, Unowned
  <2>2. ASSUME cmd' = cmd PROVE cmd'[c].row = "completed"
    BY <2>2
  <2>3. ASSUME NEW k \in Conn,
               CleanUp(k) \/ Take(k) \/ PumpSend(k) \/ PumpHears(k) \/ Record(k)
        PROVE  cmd'[c].row = "completed"
    BY <2>1, <2>3 DEF CleanUp, Take, Pending, SetRow, PumpSend, PumpHears, Record
  <2>4. ASSUME NEW k \in Conn, NoticeClosed(k) PROVE cmd'[c].row = "completed"
    <3>1. \A table \in [Command -> CommandState] :
            Leave(k, table)[c].row = table[c].row /\ Abandon(k, table)[c].row = table[c].row
      BY <2>1 DEF Leave, Abandon, CommandState
    <3>2. ASSUME pump[k].pc \in {"completed", "failed"}
          PROVE  LET table == [cmd EXCEPT ![pump[k].cmd].row = pump[k].pc]
                 IN  table \in [Command -> CommandState] /\ table[c].row = "completed"
      <4>1. pump[k].cmd \in Command /\ pump[k].pc \in RowStates
        BY <3>2 DEF Consistent, Pumps, Pump, RowStates
      <4>2. [cmd[pump[k].cmd] EXCEPT !.row = pump[k].pc] \in CommandState
        BY <4>1 DEF CommandState
      <4> QED
        BY <2>1, <4>1, <4>2
    <3> QED
      BY <2>4, <3>1, <3>2 DEF NoticeClosed
  <2>5. ASSUME NEW m \in wire, Receive(m) \/ Respond(m) \/ ResponseArrives(m)
        PROVE  cmd'[c].row = "completed"
    BY <2>5 DEF Receive, Respond, ResponseArrives, Answered, Message, CommandState
  <2>6. ASSUME NEW d \in Command, NEW p \in Process, CallLocally(d, p) \/ Queue(d, p)
        PROVE  cmd'[c].row = "completed"
    BY <2>1, <2>6 DEF CallLocally, Queue, Waiting
  <2>7. ASSUME NEW d \in Command, Calling(d) \/ Elapse(d) \/ Forget(d)
        PROVE  cmd'[c].row \in {"completed", "none"}
    <3>1. CASE LocalEnds(d)
      BY <3>1 DEF LocalEnds, CommandState
    <3>2. CASE Poll(d) \/ Elapse(d)
      BY <3>2 DEF Poll, Elapse, CommandState
    <3>3. CASE Withdraw(d)
      BY <3>3 DEF Withdraw, CommandState
    <3>4. CASE Forget(d)
      BY <3>4 DEF Forget, NoCommand
    <3> QED
      BY <2>7, <3>1, <3>2, <3>3, <3>4 DEF Calling
  <2>8. ASSUME NEW p \in Process, Crash(p) PROVE cmd'[c].row = "completed"
    BY <2>8 DEF Crash, CommandState
  <2>9. ASSUME NEW k \in Conn,
               \/ \E p \in Process : Connect(k, p)
               \/ Listen(k) \/ NodeCloses(k) \/ PopPrevious(k) \/ Register(k) \/ Heartbeat(k)
               \/ StartPump(k) \/ Select(k) \/ PumpDies(k)
        PROVE  cmd' = cmd
    BY <2>9 DEF Connect, Listen, NodeCloses, PopPrevious, Register, Heartbeat, StartPump, Select, PumpDies
  <2>10. ASSUME \/ \E p \in Process : Unpair(p)
                \/ GoStale \/ RefuseConnect
         PROVE  cmd' = cmd
    BY <2>10 DEF Unpair, GoStale, RefuseConnect, vars
  <2> QED
    BY <2>2, <2>3, <2>4, <2>5, <2>6, <2>7, <2>8, <2>9, <2>10 DEF Next, Run, Pumping
<1> QED
  BY <1>1, IInvHolds, PTL DEF Spec, CompletedIsFinal

-----------------------------------------------------------------------------
(* The installation.  What a button or a call of ensure does between two   *)
(* of its steps disturbs neither what the window waits for nor what        *)
(* another call prepares: a call is alone with its directory, a capture    *)
(* alone altogether, and the seed changes only while no instance is        *)
(* prepared from it.                                                       *)

(* The type without the history; it rests on every call that is under way  *)
(* having an instance.                                                     *)
InstallType ==
  /\ mode \in Install!Mode /\ file \in Install!Mode
  /\ seed \in Install!Seeds /\ data \in [Instance -> Install!Datas]
  /\ user \in {"idle", "quitting", "copying", "cookies", "writing", "clearing",
               "writing fresh", "resetting"}
  /\ todo \subseteq Install!Entry
  /\ ensure \in [Process -> Install!Calls]
  /\ running \subseteq Instance
  /\ stops \in 0 .. MaxStop
  /\ user = "resetting" => stops < MaxStop
  /\ \A c \in Process : ensure[c].at # "idle" => ensure[c].of \in Instance

LEMMA InstallRecords ==
  /\ Install!NoSeed \in Install!Seeds /\ Install!NoData \in Install!Datas /\ Install!NoCall \in Install!Calls
  /\ {"none", "fresh", "imported"} = Install!Mode
BY DEF Install!NoSeed, Install!Seeds, Install!NoData, Install!Datas, Install!NoCall, Install!Calls,
   Install!Copy, Install!Mode

LEMMA InstallTrouble ==
  ASSUME trouble \in BOOLEAN, Install!Next
  PROVE  trouble' \in BOOLEAN
<1>1. CASE \/ Install!ImportStart \/ Install!ImportCopies \/ Install!ImportCopied
           \/ Install!ImportSaves \/ Install!ImportDone \/ Install!ImportFails
           \/ Install!FreshStart \/ Install!FreshClears \/ Install!FreshDone \/ Install!FreshFails
  BY <1>1, Zenon DEF Install!ImportStart, Install!ImportCopies, Install!ImportCopied,
     Install!ImportSaves,
     Install!ImportDone, Install!ImportFails, Install!FreshStart, Install!FreshClears,
     Install!FreshDone, Install!FreshFails
<1>2. CASE \E c \in Process : \/ \E i \in Instance : Install!Ask(c, i)
                              \/ Install!Captured(c) \/ Install!Copied(c) \/ Install!Marked(c)
                              \/ Install!Started(c) \/ Install!EnsureFails(c)
  BY <1>2, Zenon DEF Install!Ask, Install!Captured, Install!Copied, Install!Marked, Install!Started,
     Install!EnsureFails
<1>3. CASE \/ \E i \in Instance : Install!Remove(i)
           \/ Install!Reset \/ (\E e \in Install!Entry : Install!ResetRemoves(e))
           \/ Install!ResetDone \/ Install!ResetFails \/ Install!Stop
  BY <1>3, Zenon DEF Install!Remove, Install!Reset, Install!ResetRemoves, Install!ResetDone,
     Install!ResetFails,
     Install!Stop
<1> QED
  BY <1>1, <1>2, <1>3 DEF Install!Next

LEMMA InstallDatas ==
  ASSUME data \in [Instance -> Install!Datas], NEW i \in Instance
  PROVE  /\ \A p \in Install!Copy :
              /\ [data EXCEPT ![i] = [Install!NoData EXCEPT !.profile = p]] \in [Instance -> Install!Datas]
              /\ [data EXCEPT ![i].profile = p] \in [Instance -> Install!Datas]
         /\ [data EXCEPT ![i].marked = TRUE] \in [Instance -> Install!Datas]
         /\ \A k \in {"given", "missed"} :
              [data EXCEPT ![i].cookies = k] \in [Instance -> Install!Datas]
<1>1. data[i] \in Install!Datas
  OBVIOUS
<1>2. \A p \in Install!Copy : /\ [Install!NoData EXCEPT !.profile = p] \in Install!Datas
                              /\ [data[i] EXCEPT !.profile = p] \in Install!Datas
  BY <1>1 DEF Install!Datas, Install!NoData
<1>3. /\ [data[i] EXCEPT !.marked = TRUE] \in Install!Datas
      /\ \A k \in {"given", "missed"} : [data[i] EXCEPT !.cookies = k] \in Install!Datas
  BY <1>1 DEF Install!Datas
<1> QED
  BY <1>1, <1>2, <1>3

LEMMA InstallCalls ==
  ASSUME ensure \in [Process -> Install!Calls], NEW c \in Process,
         NEW at \in {"copying", "marking", "starting"}, NEW found \in Install!Copy,
         ensure' = [ensure EXCEPT ![c].at = at, ![c].found = found]
  PROVE  /\ ensure' \in [Process -> Install!Calls]
         /\ \A d \in Process : ensure'[d].of = ensure[d].of /\ (d # c => ensure'[d] = ensure[d])
<1>1. ensure[c] \in Install!Calls
  OBVIOUS
<1>2. [ensure[c] EXCEPT !.at = at, !.found = found] \in Install!Calls
  BY <1>1 DEF Install!Calls
<1>3. [ensure[c] EXCEPT !.at = at, !.found = found].of = ensure[c].of
  BY <1>1 DEF Install!Calls
<1> QED
  BY <1>1, <1>2, <1>3

LEMMA InstallTypeStep ==
  ASSUME InstallType, Install!Next
  PROVE  InstallType'
<1> USE InstallRecords DEF InstallType, Install!Presses
<1>1. CASE \/ Install!ImportStart \/ Install!ImportCopies \/ Install!ImportCopied
           \/ Install!ImportSaves \/ Install!ImportDone
  <2>0. /\ [seed EXCEPT !.profile = "whole"] \in Install!Seeds
        /\ [seed EXCEPT !.cookies = TRUE] \in Install!Seeds
        /\ [profile |-> "part", cookies |-> FALSE] \in Install!Seeds
    BY DEF Install!Seeds, Install!Copy
  <2>1. seed' \in Install!Seeds
    BY <1>1, <2>0 DEF Install!ImportStart, Install!ImportCopies, Install!ImportCopied,
       Install!ImportSaves,
       Install!ImportDone
  <2> QED
    BY <1>1, <2>1 DEF Install!ImportStart, Install!ImportCopies, Install!ImportCopied,
       Install!ImportSaves,
       Install!ImportDone
<1>2. CASE \/ Install!FreshStart \/ Install!FreshClears \/ Install!FreshDone
  BY <1>2 DEF Install!FreshStart, Install!FreshClears, Install!FreshDone
<1>3. CASE \/ Install!ImportFails \/ Install!FreshFails
  BY <1>3 DEF Install!ImportFails, Install!FreshFails
<1>4. ASSUME NEW c \in Process, NEW i \in Instance, Install!Ask(c, i)
      PROVE  InstallType'
  <2>1. ensure' \in [Process -> Install!Calls]
    BY <1>4 DEF Install!Ask, Install!Calls, Install!Seeds
  <2>2. seed' \in Install!Seeds
    BY <1>4 DEF Install!Ask, Install!Seeds, Install!Copy
  <2>3. \/ data' = data
        \/ \E p \in Install!Copy : data' = [data EXCEPT ![i] = [Install!NoData EXCEPT !.profile = p]]
    BY <1>4 DEF Install!Ask, Install!Clears, Install!Copy
  <2>4. data' \in [Instance -> Install!Datas]
    <3> HIDE DEF InstallType
    <3>1. data \in [Instance -> Install!Datas]
      BY DEF InstallType
    <3>2. ASSUME NEW p \in Install!Copy, data' = [data EXCEPT ![i] = [Install!NoData EXCEPT !.profile = p]]
          PROVE  data' \in [Instance -> Install!Datas]
      <4>1. [data EXCEPT ![i] = [Install!NoData EXCEPT !.profile = p]] \in [Instance -> Install!Datas]
        BY <3>1, InstallDatas
      <4> QED
        BY <4>1, <3>2
    <3> QED
      BY <2>3, <3>1, <3>2
  <2> QED
    BY <1>4, <2>1, <2>2, <2>4 DEF Install!Ask
<1>5. ASSUME NEW c \in Process, \/ Install!Captured(c) \/ Install!Copied(c) \/ Install!Marked(c)
      PROVE  InstallType'
  <2>1. ensure[c] \in Install!Calls /\ seed.profile \in Install!Copy
    BY DEF Install!Seeds
  <2>2. /\ ensure' \in [Process -> Install!Calls]
        /\ \A d \in Process : ensure'[d].at # "idle" => ensure[d].at # "idle" /\ ensure'[d].of = ensure[d].of
    <3>1. PICK at \in {"copying", "marking", "starting"}, found \in Install!Copy :
            ensure' = [ensure EXCEPT ![c].at = at, ![c].found = found]
      BY <1>5, Zenon DEF Install!Captured, Install!Copied, Install!Marked, Install!Sets, Install!Copy
    <3>2. ensure[c].at # "idle"
      BY <1>5 DEF Install!Captured, Install!Copied, Install!Marked
    <3> HIDE DEF InstallType
    <3>3. ensure \in [Process -> Install!Calls]
      BY DEF InstallType
    <3>4. /\ ensure' \in [Process -> Install!Calls]
          /\ \A d \in Process : ensure'[d].of = ensure[d].of /\ (d # c => ensure'[d] = ensure[d])
      BY <3>1, <3>3, InstallCalls
    <3> QED
      BY <3>2, <3>4
  <2>3. seed' \in Install!Seeds
    BY <1>5 DEF Install!Captured, Install!Copied, Install!Marked, Install!Seeds, Install!Copy
  <2>4. data' \in [Instance -> Install!Datas]
    <3>1. CASE Install!Captured(c)
      BY <3>1, InstallDatas DEF Install!Captured, Install!Clears, Install!Copy
    <3>2. CASE Install!Copied(c)
      BY <3>2, <2>1, InstallDatas DEF Install!Copied, Install!Copy
    <3>3. CASE Install!Marked(c)
      BY <3>3, InstallDatas DEF Install!Marked, Install!Copy
    <3> QED
      BY <1>5, <3>1, <3>2, <3>3
  <2> QED
    BY <1>5, <2>2, <2>3, <2>4 DEF Install!Captured, Install!Copied, Install!Marked
<1>6. ASSUME NEW c \in Process, \/ Install!Started(c) \/ Install!EnsureFails(c)
      PROVE  InstallType'
  <2>1. ensure' \in [Process -> Install!Calls]
    BY <1>6 DEF Install!Started, Install!EnsureFails, Install!Ends
  <2>2. data' \in [Instance -> Install!Datas]
    <3>1. \/ data' = data
          \/ /\ ensure[c].at = "starting"
             /\ \E k \in {"given", "missed"} : data' = [data EXCEPT ![ensure[c].of].cookies = k]
      BY <1>6 DEF Install!Started, Install!EnsureFails
    <3>2. ensure[c].at = "starting" => ensure[c].of \in Instance
      OBVIOUS
    <3> HIDE DEF InstallType
    <3>3. data \in [Instance -> Install!Datas]
      BY DEF InstallType
    <3>4. ASSUME NEW k \in {"given", "missed"}, ensure[c].of \in Instance,
                 data' = [data EXCEPT ![ensure[c].of].cookies = k]
          PROVE  data' \in [Instance -> Install!Datas]
      <4>1. [data EXCEPT ![ensure[c].of].cookies = k] \in [Instance -> Install!Datas]
        BY <3>3, <3>4, InstallDatas
      <4> QED
        BY <4>1, <3>4
    <3> QED
      BY <3>1, <3>2, <3>3, <3>4
  <2>3. running' \subseteq Instance
    BY <1>6 DEF Install!Started, Install!EnsureFails, Install!Calls
  <2>4. \A d \in Process : ensure'[d].at # "idle" => ensure[d].at # "idle" /\ ensure'[d].of = ensure[d].of
    BY <1>6 DEF Install!Started, Install!EnsureFails, Install!Ends, Install!NoCall, Install!Calls
  <2> QED
    BY <1>6, <2>1, <2>2, <2>3, <2>4 DEF Install!Started, Install!EnsureFails
<1>7. CASE \E i \in Instance : Install!Remove(i)
  BY <1>7 DEF Install!Remove
<1>8. CASE Install!Reset \/ (\E e \in Install!Entry : Install!ResetRemoves(e)) \/ Install!ResetFails
  BY <1>8, StopsBounded DEF Install!Reset, Install!ResetRemoves, Install!ResetFails
<1>9. CASE Install!ResetDone \/ Install!Stop
  <2>1. stops' \in 0 .. MaxStop
    <3>1. stops < MaxStop /\ stops' = stops + 1
      BY <1>9 DEF Install!ResetDone, Install!Stop, Install!Starts
    <3>2. stops \in 0 .. MaxStop
      OBVIOUS
    <3> HIDE InstallRecords DEF InstallType
    <3> QED
      BY <3>1, <3>2, StopsBounded
  <2>2. ensure' \in [Process -> Install!Calls] /\ \A c \in Process : ensure'[c].at = "idle"
    <3>1. ensure' = [c \in Process |-> Install!NoCall]
      BY <1>9, Zenon DEF Install!ResetDone, Install!Stop, Install!Starts
    <3>2. Install!NoCall.at = "idle"
      BY DEF Install!NoCall
    <3> QED
      BY <3>1, <3>2, InstallRecords
  <2> QED
    BY <1>9, <2>1, <2>2 DEF Install!ResetDone, Install!Stop, Install!Starts
<1> QED
  <2> HIDE DEF InstallType
  <2> QED
    BY <1>1, <1>2, <1>3, <1>4, <1>5, <1>6, <1>7, <1>8, <1>9 DEF Install!Next

LEMMA InstallerStep ==
  ASSUME InstallType, Install!Sound, ~trouble,
         \/ Install!ImportStart \/ Install!ImportCopies \/ Install!ImportCopied
         \/ Install!ImportSaves \/ Install!ImportDone \/ Install!ImportFails
         \/ Install!FreshStart \/ Install!FreshClears \/ Install!FreshDone \/ Install!FreshFails,
         ~trouble'
  PROVE  Install!Sound'
<1> DEFINE Old == <<user, mode, file, seed>>
<1>0. UNCHANGED <<data, ensure, running, todo>>
  BY DEF Install!ImportStart, Install!ImportCopies, Install!ImportCopied, Install!ImportSaves,
     Install!ImportDone, Install!ImportFails, Install!FreshStart, Install!FreshClears,
     Install!FreshDone, Install!FreshFails
<1>1. \/ user' = user /\ UNCHANGED <<mode, file, seed>>
      \/ /\ mode = "none" /\ file = "none" /\ user \in {"idle", "quitting", "copying",
                                                     "cookies", "clearing"}
         /\ \/ /\ user' \in {"idle", "quitting", "copying", "cookies", "clearing"}
               /\ UNCHANGED <<mode, file>> /\ (user' = "cookies" => seed'.profile = "whole")
            \/ /\ user' = "writing" /\ mode' = "imported" /\ file' = "none"
               /\ seed'.cookies = TRUE /\ seed'.profile = "whole"
            \/ /\ user' = "writing fresh" /\ mode' = "fresh" /\ file' = "none" /\ seed' = Install!NoSeed
      \/ /\ user \in {"writing", "writing fresh"} /\ user' = "idle" /\ file' = mode /\ UNCHANGED <<mode, seed>>
  <2> USE DEF InstallType, Install!Sound, Install!Window, Install!Presses, Install!Seeds, Install!NoSeed
  <2>1. CASE \/ Install!ImportStart \/ Install!ImportCopies \/ Install!ImportCopied
    BY <2>1 DEF Install!ImportStart, Install!ImportCopies, Install!ImportCopied
  <2>2. CASE \/ Install!ImportSaves \/ Install!ImportDone \/ Install!ImportFails
    BY <2>2 DEF Install!ImportSaves, Install!ImportDone, Install!ImportFails
  <2>3. CASE \/ Install!FreshStart \/ Install!FreshClears \/ Install!FreshDone \/ Install!FreshFails
    BY <2>3 DEF Install!FreshStart, Install!FreshClears, Install!FreshDone, Install!FreshFails
  <2> QED
    BY <2>1, <2>2, <2>3
<1>2. Install!Window'
  BY <1>0, <1>1 DEF Install!Sound, Install!Window, Install!Quiet
<1>3. Install!Passed'
  BY <1>0, <1>1 DEF Install!Sound, Install!Passed
<1>4. Install!Source'
  BY <1>0, <1>1 DEF Install!Sound, Install!Source, Install!Capturing, Install!Window
<1>5. Install!Marks'
  BY <1>0, <1>1 DEF Install!Sound, Install!Marks, Install!Fits, Install!Given
<1>6. ASSUME NEW c \in Process PROVE Install!Call(c)'
  <2>1. CASE mode = "none"
    BY <1>0, <2>1 DEF Install!Sound, Install!Window, Install!Quiet, Install!Call
  <2>2. CASE mode # "none"
    BY <1>0, <1>1, <2>2 DEF Install!Sound, Install!Call, Install!Given
  <2> QED
    BY <2>1, <2>2
<1> QED
  BY <1>2, <1>3, <1>4, <1>5, <1>6 DEF Install!Sound

LEMMA AskStep ==
  ASSUME InstallType, Install!Sound, ~trouble, NEW c \in Process, NEW i \in Instance,
         Install!Ask(c, i), ~trouble'
  PROVE  Install!Sound'
<1>1. /\ mode # "none" /\ i \notin running /\ ensure[c].at = "idle" /\ user # "resetting"
      /\ ~Install!Capturing /\ \A d \in Process : ensure[d].of # i
      /\ UNCHANGED <<mode, file, user, todo, running>>
  BY Zenon DEF Install!Ask
<1>2. \A d \in Process \ {c} : ensure'[d] = ensure[d]
  BY DEF Install!Ask, InstallType
<1>3. \/ /\ ensure'[c] = [at |-> "starting", of |-> i, found |-> seed.profile]
         /\ data[i].marked /\ UNCHANGED <<seed, data>>
      \/ /\ ensure'[c] = [at |-> "capturing", of |-> i, found |-> seed.profile]
         /\ mode = "imported" /\ Install!Quiet /\ seed'.profile = "part" /\ seed'.cookies = seed.cookies
         /\ UNCHANGED data
      \/ /\ ensure'[c] = [at |-> "copying", of |-> i, found |-> seed.profile]
         /\ seed.profile = Install!Given
         /\ UNCHANGED seed
         /\ ~data'[i].marked /\ data'[i].cookies = "unseeded"
         /\ \A j \in Instance \ {i} : data'[j] = data[j]
  <2>1. CASE data[i].marked
    BY <2>1 DEF Install!Ask, InstallType
  <2>2. CASE ~data[i].marked /\ seed.profile = "none" /\ mode = "imported"
    BY <2>2 DEF Install!Ask, InstallType, Install!Quiet, Install!Busy, Install!Seeds
  <2>3. CASE ~data[i].marked /\ ~(seed.profile = "none" /\ mode = "imported")
    <3>1. seed.profile = Install!Given
      <4>1. seed.profile \in {"none", "part", "whole"} /\ mode \in {"imported", "fresh"}
        BY <1>1 DEF InstallType, Install!Seeds, Install!Copy, Install!Mode
      <4>2. CASE mode = "imported"
        BY <1>1, <2>3, <4>1, <4>2 DEF Install!Sound, Install!Source, Install!Given
      <4>3. CASE mode = "fresh"
        BY <1>1, <4>3 DEF Install!Sound, Install!Source, Install!Given, Install!NoSeed
      <4> QED
        BY <4>1, <4>2, <4>3
    <3>2. /\ ensure'[c] = [at |-> "copying", of |-> i, found |-> seed.profile]
          /\ UNCHANGED seed /\ Install!Clears(i, seed.profile)
      BY <2>3 DEF Install!Ask, InstallType
    <3>3. /\ ~data'[i].marked /\ data'[i].cookies = "unseeded"
          /\ \A j \in Instance \ {i} : data'[j] = data[j]
      BY <3>2 DEF Install!Clears, InstallType, Install!NoData
    <3> QED
      BY <3>1, <3>2, <3>3
  <2> QED
    BY <2>1, <2>2, <2>3
<1>4. Install!Window'
  BY <1>1, <1>3 DEF Install!Sound, Install!Window, Install!Quiet
<1>5. Install!Passed'
  BY <1>1 DEF Install!Passed
<1>6. Install!Source'
  BY <1>1, <1>2, <1>3 DEF Install!Sound, Install!Source, Install!Capturing, Install!NoSeed
<1>7. Install!Marks'
  BY <1>1, <1>3 DEF Install!Sound, Install!Marks, Install!Fits, Install!Given
<1>8. ASSUME NEW d \in Process PROVE Install!Call(d)'
  <2>1. CASE d = c
    BY <2>1, <1>1, <1>2, <1>3 DEF Install!Sound, Install!Call, Install!Quiet, Install!Given
  <2>2. CASE d # c
    <3>1. ASSUME ensure[d].at # "idle"
          PROVE  /\ ensure[d].of \in Instance \ {i} /\ ensure[d].of \notin running
                 /\ data'[ensure[d].of] = data[ensure[d].of] /\ seed' = seed
                 /\ ensure'[c].of = i /\ ensure'[c].at # "capturing" /\ ensure[d].at # "capturing"
      <4>1. ensure[d].of \in Instance
        BY <3>1 DEF InstallType
      <4> QED
        BY <3>1, <4>1, <1>1, <1>3 DEF Install!Sound, Install!Call, Install!Quiet, Install!Capturing
    <3> QED
      BY <2>2, <3>1, <1>1, <1>2 DEF Install!Sound, Install!Call, Install!Given
  <2> QED
    BY <2>1, <2>2
<1> QED
  BY <1>4, <1>5, <1>6, <1>7, <1>8 DEF Install!Sound

LEMMA PrepareStep ==
  ASSUME InstallType, Install!Sound, ~trouble, NEW c \in Process,
         Install!Captured(c) \/ Install!Copied(c) \/ Install!Marked(c)
  PROVE  Install!Sound'
<1> DEFINE i == ensure[c].of
<1>1. /\ ensure[c].at \in {"capturing", "copying", "marking"}
      /\ UNCHANGED <<mode, file, user, todo, running, stops, trouble>>
  BY DEF Install!Captured, Install!Copied, Install!Marked
<1>2. i \in Instance /\ mode # "none" /\ user # "resetting"
  BY <1>1 DEF InstallType, Install!Sound, Install!Window, Install!Quiet
<1>3. \A d \in Process : ensure'[d].of = ensure[d].of /\ (d # c => ensure'[d] = ensure[d])
  <2>1. PICK at \in {"copying", "marking", "starting"}, found \in Install!Copy :
          ensure' = [ensure EXCEPT ![c].at = at, ![c].found = found]
    BY Zenon DEF Install!Captured, Install!Copied, Install!Marked, Install!Sets, Install!Copy
  <2> QED
    BY <2>1, InstallCalls DEF InstallType
<1>4. \/ /\ ensure[c].at = "capturing" /\ ensure'[c].at = "copying" /\ ensure'[c].found = "whole"
         /\ mode = "imported" /\ \A d \in Process \ {c} : ensure[d].at = "idle"
         /\ seed'.profile = "whole" /\ seed'.cookies = seed.cookies
         /\ ~data'[i].marked /\ data'[i].cookies = "unseeded"
      \/ /\ ensure[c].at = "copying" /\ ensure'[c].at = "marking" /\ seed' = seed
         /\ ~data'[i].marked /\ data'[i].cookies = "unseeded" /\ data'[i].profile = Install!Given
      \/ /\ ensure[c].at = "marking" /\ ensure'[c].at = "starting" /\ seed' = seed
         /\ data'[i].marked /\ data'[i].cookies = "unseeded" /\ data'[i].profile = Install!Given
  <2> USE DEF InstallType, Install!Calls, Install!Sets
  <2>1. CASE Install!Captured(c)
    <3>1. /\ mode = "imported" /\ \A d \in Process \ {c} : ensure[d].at = "idle"
      BY <2>1 DEF Install!Captured, Install!Sound, Install!Call
    <3>2. /\ ensure[c].at = "capturing" /\ ensure'[c].at = "copying" /\ ensure'[c].found = "whole"
      BY <2>1 DEF Install!Captured
    <3>3. seed'.profile = "whole" /\ seed'.cookies = seed.cookies
      BY <2>1 DEF Install!Captured, Install!Seeds
    <3>4. ~data'[i].marked /\ data'[i].cookies = "unseeded"
      BY <1>2, <2>1 DEF Install!Captured, Install!Clears, Install!NoData
    <3> QED
      BY <3>1, <3>2, <3>3, <3>4
  <2>2. CASE Install!Copied(c)
    <3>1. /\ ensure[c].at = "copying" /\ ensure'[c].at = "marking" /\ seed' = seed
      BY <2>2 DEF Install!Copied
    <3>2. /\ ensure[c].found = seed.profile /\ seed.profile = Install!Given
          /\ ~data[i].marked /\ data[i].cookies = "unseeded"
      BY <3>1 DEF Install!Sound, Install!Call
    <3>3. ~data'[i].marked /\ data'[i].cookies = "unseeded" /\ data'[i].profile = Install!Given
      BY <1>2, <2>2, <3>2, ZenonT(60) DEF Install!Copied, Install!Datas
    <3> QED
      BY <3>1, <3>3
  <2>3. CASE Install!Marked(c)
    <3>1. /\ ensure[c].at = "marking" /\ ensure'[c].at = "starting" /\ seed' = seed
      BY <2>3 DEF Install!Marked
    <3>2. data[i].profile = Install!Given /\ data[i].cookies = "unseeded"
      BY <3>1 DEF Install!Sound, Install!Call
    <3>3. data'[i].marked /\ data'[i].cookies = "unseeded" /\ data'[i].profile = Install!Given
      BY <1>2, <2>3, <3>2 DEF Install!Marked, Install!Datas
    <3> QED
      BY <3>1, <3>3
  <2> QED
    BY <2>1, <2>2, <2>3
<1>5. \A j \in Instance \ {i} : data'[j] = data[j]
  BY <1>2 DEF InstallType, Install!Captured, Install!Clears, Install!Copied, Install!Marked
<1>6. ensure[c].at = "capturing" => ensure'[c].at # "capturing"
  BY <1>4
<1>7. Install!Window'
  BY <1>1, <1>2, <1>4 DEF Install!Sound, Install!Window
<1>8. Install!Passed' /\ Install!Source'
  <2>1. mode = "imported" => seed'.cookies /\ (seed'.profile # "part" \/ Install!Capturing')
    BY <1>1, <1>2, <1>3, <1>4 DEF Install!Sound, Install!Source, Install!Capturing
  <2>2. mode = "fresh" => seed' = Install!NoSeed
    BY <1>2, <1>4 DEF Install!Sound, Install!Source
  <2> QED
    BY <1>1, <1>2, <2>1, <2>2 DEF Install!Passed, Install!Source, Install!NoSeed
<1>9. Install!Marks'
  BY <1>1, <1>2, <1>4, <1>5 DEF Install!Sound, Install!Marks, Install!Fits, Install!Given
<1>10. ASSUME NEW d \in Process PROVE Install!Call(d)'
  <2>1. CASE d = c
    BY <1>1, <1>2, <1>3, <1>4, <2>1 DEF Install!Sound, Install!Call, Install!Given
  <2>2. CASE d # c
    <3>1. ASSUME ensure[d].at # "idle"
          PROVE  /\ seed' = seed /\ ensure[d].of \in Instance \ {i} /\ data'[ensure[d].of] = data[ensure[d].of]
                 /\ ensure[d].at # "capturing"
      <4>1. ensure[d].of \in Instance
        BY <3>1 DEF InstallType
      <4> QED
        BY <3>1, <4>1, <1>1, <1>4, <1>5, <2>2 DEF Install!Sound, Install!Call
    <3> QED
      BY <1>1, <1>3, <1>4, <2>2, <3>1 DEF Install!Sound, Install!Call, Install!Given
  <2> QED
    BY <2>1, <2>2
<1> QED
  BY <1>7, <1>8, <1>9, <1>10 DEF Install!Sound

LEMMA CallEndsStep ==
  ASSUME InstallType, Install!Sound, ~trouble, NEW c \in Process,
         Install!Started(c) \/ Install!EnsureFails(c), ~trouble'
  PROVE  Install!Sound'
<1> DEFINE i == ensure[c].of
<1>1. /\ ensure[c].at # "idle" /\ ensure[c].at # "capturing"
      /\ UNCHANGED <<mode, file, user, todo, seed>>
  BY DEF Install!Started, Install!EnsureFails
<1>2. i \in Instance /\ mode # "none" /\ user # "resetting"
  BY <1>1 DEF InstallType, Install!Sound, Install!Window, Install!Quiet
<1>3. ensure'[c].at = "idle" /\ \A d \in Process \ {c} : ensure'[d] = ensure[d]
  <2>1. ensure' = [ensure EXCEPT ![c] = Install!NoCall]
    BY DEF Install!Started, Install!EnsureFails, Install!Ends
  <2> QED
    BY <2>1 DEF InstallType, Install!NoCall
<1>4. /\ running' \subseteq running \cup {i}
      /\ \A j \in Instance \ {i} : data'[j] = data[j]
      /\ \/ data' = data
         \/ /\ data[i].marked /\ data'[i].marked /\ data'[i].profile = data[i].profile
            /\ data'[i].cookies = IF seed.cookies THEN "given" ELSE "missed"
  <2>1. CASE Install!Started(c)
    <3>1. data[i].marked
      BY <2>1 DEF Install!Started, Install!Sound, Install!Call
    <3>2. data[i] \in Install!Datas
      BY <1>2 DEF InstallType
    <3>3. CASE data[i].cookies # "unseeded"
      BY <2>1, <3>3 DEF Install!Started
    <3>4. CASE data[i].cookies = "unseeded"
      <4>1. data' = [data EXCEPT ![i].cookies = IF seed.cookies THEN "given" ELSE "missed"]
        BY <2>1, <3>4 DEF Install!Started
      <4>2. running' = running \cup {i}
        BY <2>1 DEF Install!Started
      <4> QED
        BY <1>2, <3>1, <3>2, <4>1, <4>2 DEF InstallType, Install!Datas
    <3> QED
      BY <3>3, <3>4
  <2>2. CASE Install!EnsureFails(c)
    BY <2>2 DEF Install!EnsureFails
  <2> QED
    BY <2>1, <2>2
<1>5. Install!Window'
  BY <1>1, <1>2 DEF Install!Sound, Install!Window
<1>6. Install!Passed' /\ Install!Source'
  BY <1>1, <1>2, <1>3 DEF Install!Sound, Install!Passed, Install!Source, Install!Capturing,
     Install!NoSeed
<1>7. (mode = "imported" => seed.cookies) /\ (mode # "imported" => ~seed.cookies)
  <2>1. mode \in {"imported", "fresh"}
    BY <1>2 DEF InstallType, Install!Mode
  <2>2. mode = "fresh" => ~seed.cookies
    BY <1>2 DEF Install!Sound, Install!Source, Install!NoSeed
  <2> QED
    BY <1>2, <2>1, <2>2 DEF Install!Sound, Install!Source
<1>8. Install!Marks'
  BY <1>1, <1>2, <1>4, <1>7 DEF Install!Sound, Install!Marks, Install!Fits, Install!Given
<1>9. ASSUME NEW d \in Process PROVE Install!Call(d)'
  <2>1. CASE d = c
    BY <1>3, <2>1 DEF Install!Call
  <2>2. CASE d # c
    <3>1. ASSUME ensure[d].at # "idle"
          PROVE  /\ ensure[d].of \in Instance \ {i} /\ data'[ensure[d].of] = data[ensure[d].of]
                 /\ ensure[d].of \notin running'
      <4>1. ensure[d].of \in Instance
        BY <3>1 DEF InstallType
      <4> QED
        BY <3>1, <4>1, <1>1, <1>4, <2>2 DEF Install!Sound, Install!Call
    <3> QED
      BY <1>1, <1>3, <2>2, <3>1 DEF Install!Sound, Install!Call, Install!Given
  <2> QED
    BY <2>1, <2>2
<1> QED
  BY <1>5, <1>6, <1>8, <1>9 DEF Install!Sound

LEMMA RemoveStep ==
  ASSUME InstallType, Install!Sound, NEW i \in Instance, Install!Remove(i)
  PROVE  Install!Sound'
<1>1. /\ i \in running /\ user # "resetting" /\ running' = running \ {i}
      /\ UNCHANGED <<mode, file, seed, user, todo, ensure>>
      /\ ~data'[i].marked /\ \A j \in Instance \ {i} : data'[j] = data[j]
  BY DEF Install!Remove, InstallType, Install!NoData
<1>2. Install!Window' /\ Install!Passed' /\ Install!Source'
  BY <1>1 DEF Install!Sound, Install!Window, Install!Quiet, Install!Passed, Install!Source,
     Install!Capturing, Install!NoSeed
<1>3. Install!Marks'
  BY <1>1 DEF Install!Sound, Install!Marks, Install!Fits, Install!Given
<1>4. ASSUME NEW c \in Process PROVE Install!Call(c)'
  <2>1. ASSUME ensure[c].at # "idle"
        PROVE  ensure[c].of \in Instance \ {i}
    BY <1>1, <2>1 DEF InstallType, Install!Sound, Install!Call
  <2> QED
    BY <1>1, <2>1 DEF Install!Sound, Install!Call, Install!Given
<1> QED
  BY <1>2, <1>3, <1>4 DEF Install!Sound

LEMMA ResetStep ==
  ASSUME InstallType, Install!Sound, ~trouble,
         \/ Install!Reset \/ (\E e \in Install!Entry : Install!ResetRemoves(e))
         \/ Install!ResetDone \/ Install!ResetFails \/ Install!Stop,
         ~trouble'
  PROVE  Install!Sound'
<1>1. CASE Install!Reset
  <2>1. /\ Install!Quiet /\ user' = "resetting" /\ todo' = Install!Entry /\ running' = {}
        /\ UNCHANGED <<mode, file, seed, data, ensure>>
    BY <1>1 DEF Install!Reset, Install!Presses, Install!Busy, Install!Quiet
  <2> QED
    BY <2>1 DEF Install!Sound, Install!Window, Install!Quiet, Install!Passed, Install!Source,
       Install!Marks,
       Install!Call, Install!Entry
<1>2. ASSUME NEW e \in Install!Entry, Install!ResetRemoves(e)
      PROVE  Install!Sound'
  <2>1. /\ user = "resetting" /\ todo' = todo \ {e} /\ UNCHANGED <<mode, user, ensure>>
        /\ file' = IF e = "file" THEN "none" ELSE file
        /\ seed' = IF e = "seed" THEN Install!NoSeed ELSE seed
        /\ data' = IF e = "instances" THEN [i \in Instance |-> Install!NoData] ELSE data
    BY <1>2 DEF Install!ResetRemoves
  <2>2. Install!Passed'
    BY <2>1 DEF Install!Sound, Install!Passed, Install!Entry, Install!NoSeed, Install!NoData
  <2> QED
    BY <2>1, <2>2 DEF Install!Sound, Install!Window, Install!Quiet, Install!Source, Install!Marks,
       Install!Call
<1>3. CASE Install!ResetDone
  <2>1. /\ user = "resetting" /\ todo = {} /\ mode' = file /\ user' = "idle"
        /\ ensure' = [c \in Process |-> Install!NoCall] /\ UNCHANGED <<file, seed, data>>
    BY <1>3 DEF Install!ResetDone, Install!Starts
  <2>2. file = "none" /\ seed = Install!NoSeed /\ \A i \in Instance : data[i] = Install!NoData
    BY <2>1 DEF Install!Sound, Install!Passed
  <2> QED
    BY <2>1, <2>2 DEF Install!Sound, Install!Window, Install!Quiet, Install!Passed, Install!Source,
       Install!Marks,
       Install!Call, Install!NoCall, Install!NoData
<1>4. CASE Install!ResetFails
  BY <1>4 DEF Install!ResetFails
<1>5. CASE Install!Stop
  <2>1. /\ user \notin {"writing", "writing fresh", "resetting"} /\ ~Install!Capturing
        /\ mode' = file /\ user' = "idle"
        /\ ensure' = [c \in Process |-> Install!NoCall] /\ UNCHANGED <<file, seed, data>>
    BY <1>5 DEF Install!Stop, Install!Starts, Install!Troubled
  <2>2. mode = file
    BY <2>1 DEF InstallType, Install!Sound, Install!Window
  <2>3. Install!Window' /\ Install!Passed' /\ Install!Source'
    BY <2>1, <2>2 DEF Install!Sound, Install!Window, Install!Quiet, Install!Passed, Install!Source,
       Install!Capturing, Install!NoCall, Install!NoSeed
  <2>4. Install!Marks'
    BY <2>1, <2>2 DEF Install!Sound, Install!Marks, Install!Fits, Install!Given
  <2>5. \A c \in Process : Install!Call(c)'
    BY <2>1 DEF Install!Call, Install!NoCall
  <2> QED
    BY <2>3, <2>4, <2>5 DEF Install!Sound
<1> QED
  BY <1>1, <1>2, <1>3, <1>4, <1>5

LEMMA InstallStarts == Install!Init => Install!IInv
<1> SUFFICES ASSUME Install!Init PROVE Install!IInv
  OBVIOUS
<1> USE DEF Install!Init
<1>1. Install!NoCall.at = "idle" /\ Install!NoData.marked = FALSE
  BY DEF Install!NoCall, Install!NoData
<1>2. Install!TypeOK
  <2>1. [profile |-> "none", cookies |-> mode = "imported"] \in Install!Seeds
    BY DEF Install!Seeds, Install!Copy
  <2>2. seed \in Install!Seeds /\ data \in [Instance -> Install!Datas] /\ ensure \in [Process -> Install!Calls]
    BY <2>1, InstallRecords
  <2>3. mode \in Install!Mode /\ file \in Install!Mode /\ stops \in 0 .. MaxStop
    BY StopsBounded DEF Install!Mode
  <2> QED
    BY <2>2, <2>3 DEF Install!TypeOK
<1>3. Install!Sound
  BY <1>1 DEF Install!Sound, Install!Window, Install!Quiet, Install!Passed, Install!Source,
     Install!Marks,
     Install!Call
<1> QED
  BY <1>1, <1>2, <1>3 DEF Install!IInv

LEMMA InstallSteps == Install!IInv /\ [Install!Next]_(Install!vars) => Install!IInv'
<1> SUFFICES ASSUME Install!IInv, [Install!Next]_(Install!vars) PROVE Install!IInv'
  OBVIOUS
<1>1. InstallType /\ trouble \in BOOLEAN /\ (~trouble => Install!Sound)
  BY DEF Install!IInv, Install!TypeOK, InstallType
<1>2. CASE UNCHANGED Install!vars
  BY <1>2, ZenonT(60) DEF Install!vars, Install!IInv, Install!TypeOK, Install!Sound, Install!Window, Install!Quiet,
     Install!Passed, Install!Source, Install!Capturing, Install!Marks, Install!Fits, Install!Given,
     Install!Call
<1>3. CASE Install!Next
  <2>1. InstallType' /\ trouble' \in BOOLEAN
    BY <1>1, <1>3, InstallTypeStep, InstallTrouble
  <2>2. ASSUME ~trouble' PROVE Install!Sound'
    <3>1. ~trouble
      BY <1>3, <2>2, Zenon DEF Install!Next, Install!ImportStart, Install!ImportCopies,
         Install!ImportCopied, Install!ImportSaves,
         Install!ImportDone, Install!ImportFails, Install!FreshStart, Install!FreshClears,
         Install!FreshDone,
         Install!FreshFails, Install!Ask, Install!Captured, Install!Copied, Install!Marked,
         Install!Started,
         Install!EnsureFails, Install!Remove, Install!Reset, Install!ResetRemoves, Install!ResetDone,
         Install!ResetFails, Install!Stop
    <3> QED
      BY <1>1, <1>3, <2>2, <3>1, InstallerStep, AskStep, PrepareStep, CallEndsStep, RemoveStep,
         ResetStep
         DEF Install!Next
  <2> QED
    BY <2>1, <2>2 DEF Install!IInv, Install!TypeOK, InstallType
<1> QED
  BY <1>2, <1>3

LEMMA InstallInvariant == MCSpec => [](Only("installation") => Install!IInv)
<1>1. MCInit => (Only("installation") => Install!IInv)
  BY InstallStarts DEF MCInit, Only
<1>2. (Only("installation") => Install!IInv) /\ [MCNext]_<<which, vars, Others>>
      => (Only("installation") => Install!IInv)'
  <2> SUFFICES ASSUME Only("installation") => Install!IInv, [MCNext]_<<which, vars, Others>>,
                      Only("installation")'
               PROVE  Install!IInv'
    OBVIOUS
  <2>1. Only("installation")
    BY DEF MCNext, Only
  <2>2. [Install!Next]_(Install!vars)
    BY <2>1 DEF MCNext, Only, Others, Install!vars
  <2> QED
    BY <2>1, <2>2, InstallSteps
<1> QED
  BY <1>1, <1>2, PTL DEF MCSpec

(* Browser Lite starts from what its installation says: until a file could *)
(* not be written, two preparations met in one directory, or a capture or  *)
(* a reset was cut short, an installation file of an import comes with the *)
(* cookies and no half-copied profile but one being captured, and a marked *)
(* instance holds the whole profile and the cookies of the import of this  *)
(* launch, or nothing in a fresh start, however the steps of the window,   *)
(* of the calls, of failures and of restarts interleave.                   *)
THEOREM InstalledAsTold == MCSpec => []InstallHolds
<1>1. Install!IInv => Install!InstallHolds
  <2> SUFFICES ASSUME Install!IInv, ~trouble
               PROVE  Install!InstallHolds
    BY DEF Install!InstallHolds, Install!InstalledMeansSeeded, Install!MarkedIsOfThisInstall
  <2>1. Install!Window /\ Install!Source /\ Install!Marks
    BY DEF Install!IInv, Install!Sound
  <2>2. file = "imported" /\ user # "resetting" => mode = "imported"
    BY <2>1 DEF Install!IInv, Install!TypeOK, Install!Window
  <2>3. Install!InstalledMeansSeeded
    BY <2>1, <2>2 DEF Install!InstalledMeansSeeded, Install!Source
  <2>4. Install!MarkedIsOfThisInstall
    BY <2>1 DEF Install!MarkedIsOfThisInstall, Install!Window, Install!Marks, Install!Fits,
       Install!Given
  <2> QED
    BY <2>3, <2>4 DEF Install!InstallHolds
<1>2. (Only("installation") => Install!IInv) => InstallHolds
  BY <1>1 DEF InstallHolds
<1> QED
  BY <1>2, InstallInvariant, PTL
-----------------------------------------------------------------------------
(* Signing in.  An operation that is under way alone is all that can keep  *)
(* the saved node from the one the app has; a connect loop that is not of  *)
(* the present generation has no socket that is open.                      *)

LEMMA SignInNothings ==
  /\ SignIn!NoOp \in SignIn!OpRow /\ SignIn!NoOp.op = "none" /\ SignIn!NoOp.at = "idle"
  /\ SignIn!NoLoop \in SignIn!LoopRow /\ SignIn!NoLoop.current = FALSE /\ SignIn!NoLoop.open = FALSE
  /\ SignIn!NoLoop.at = "none"
  /\ SignIn!NoCode \in SignIn!CodeRow /\ SignIn!NoCode.state = "none"
BY DEF SignIn!NoOp, SignIn!OpRow, SignIn!NoLoop, SignIn!LoopRow, SignIn!NoCode, SignIn!CodeRow

LEMMA OpTo ==
  ASSUME SignIn!Fields, NEW o \in Process, NEW x \in SignIn!OpRow, ops' = [ops EXCEPT ![o] = x]
  PROVE  /\ ops' \in [Process -> SignIn!OpRow] /\ ops'[o] = x
         /\ \A p \in Process : p # o => ops'[p] = ops[p]
BY DEF SignIn!Fields

LEMMA OpGoto ==
  ASSUME SignIn!Fields, NEW o \in Process, NEW at, SignIn!Goto(o, at),
         at \in {"exchange", "unlink", "drop", "erase", "revoke"}
  PROVE  /\ ops' \in [Process -> SignIn!OpRow]
         /\ ops'[o].at = at /\ ops'[o].op = ops[o].op /\ ops'[o].code = ops[o].code
         /\ ops'[o].node = ops[o].node
         /\ \A p \in Process : p # o => ops'[p] = ops[p]
<1> DEFINE x == [ops[o] EXCEPT !.at = at]
<1>1. ops[o] \in SignIn!OpRow
  BY DEF SignIn!Fields
<1>2. /\ x \in SignIn!OpRow /\ x.at = at /\ x.op = ops[o].op /\ x.code = ops[o].code
      /\ x.node = ops[o].node
  BY <1>1 DEF SignIn!OpRow
<1>3. ops' = [ops EXCEPT ![o] = x]
  BY DEF SignIn!Goto
<1> HIDE DEF x
<1> QED
  BY <1>2, <1>3, OpTo

LEMMA OpDone ==
  ASSUME SignIn!Fields, NEW o \in Process, SignIn!Done(o)
  PROVE  /\ ops' \in [Process -> SignIn!OpRow] /\ ops'[o] = SignIn!NoOp
         /\ \A p \in Process : p # o => ops'[p] = ops[p]
BY SignInNothings, OpTo DEF SignIn!Done

\* An operation under way is of an app that runs.
LEMMA Runs ==
  ASSUME SignIn!IInv, NEW o \in Process, ops[o].op # "none" PROVE app # "off"
BY SignInNothings DEF SignIn!IInv, SignIn!OffRests

\* What the only operation under way can have done to the saved node.
LEMMA OnlyOne ==
  ASSUME SignIn!IInv, NEW o \in Process, ops[o].op # "none", ~overlap
  PROVE  /\ SignIn!Taking(o) => config = ops[o].node
         /\ SignIn!GivingUp(o) => config = 0
         /\ saved = config \/ SignIn!Taking(o) \/ SignIn!GivingUp(o)
<1>1. \A p \in Process : ops[p].op # "none" => p = o
  BY DEF SignIn!IInv, SignIn!SavedOrUnderWay, SignIn!Busy
<1>2. \A p \in Process : SignIn!Taking(p) \/ SignIn!GivingUp(p) => ops[p].op # "none"
  BY DEF SignIn!IInv, SignIn!OpRight, SignIn!Taking, SignIn!GivingUp
<1>3. app # "off"
  BY Runs
<1> QED
  BY <1>1, <1>2, <1>3 DEF SignIn!IInv, SignIn!SavedOrUnderWay

LEMMA SavedMoves ==
  ASSUME SignIn!IInv, NEW o \in Process, ops[o].op # "none" \/ SignIn!Busy = {},
         \A p \in Process : p # o => ops'[p] = ops[p],
         ~overlap' => /\ ~overlap
                      /\ ops'[o].at = "save" => config' = ops'[o].node
                      /\ ops'[o].op = "unpair" /\ ops'[o].at \in {"unlink", "erase"} => config' = 0
                      /\ \/ saved' = config'
                         \/ ops'[o].at = "save"
                         \/ ops'[o].op = "unpair" /\ ops'[o].at \in {"unlink", "erase"}
  PROVE  SignIn!SavedOrUnderWay'
<1> SUFFICES ASSUME ~overlap' PROVE SignIn!SavedOrUnderWay'
  BY DEF SignIn!SavedOrUnderWay
<1>1. \A p \in Process : p # o => ops[p].op = "none" /\ ops[p].at = "idle"
  <2>1. \A p \in Process : ops[p].op # "none" => p = o
    BY DEF SignIn!IInv, SignIn!SavedOrUnderWay, SignIn!Busy
  <2> QED
    BY <2>1 DEF SignIn!IInv, SignIn!OpRight
<1> QED
  BY <1>1 DEF SignIn!SavedOrUnderWay, SignIn!Busy, SignIn!Taking, SignIn!GivingUp

LEMMA CodesStand ==
  ASSUME SignIn!IInv, UNCHANGED nodes,
         \A c \in SignIn!Code : codes[c].state = "used" => codes'[c].state = "used"
  PROVE  SignIn!OneNodePerCode' /\ SignIn!UsedCodes'
<1>1. SignIn!OneNodePerCode'
  BY DEF SignIn!IInv, SignIn!OneNodePerCode
<1>2. \A i \in DOMAIN nodes : nodes[i] \in SignIn!Code
  BY DEF SignIn!IInv, SignIn!Fields
<1>3. SignIn!UsedCodes'
  BY <1>2 DEF SignIn!IInv, SignIn!UsedCodes
<1> QED
  BY <1>1, <1>3

LEMMA LoopsStand ==
  ASSUME SignIn!IInv, UNCHANGED <<loops, socket, flags, config>>
  PROVE  SignIn!OneCurrent'
BY DEF SignIn!IInv, SignIn!OneCurrent

\* A step of an operation that leaves codes, nodes and loops alone.
LEMMA OpMoves ==
  ASSUME SignIn!IInv, NEW o \in Process, ops' \in [Process -> SignIn!OpRow],
         \A p \in Process : p # o => ops'[p] = ops[p],
         UNCHANGED <<codes, nodes, loops, socket, flags, config>>,
         requests' \in Nat, callback' \in SignIn!Code \cup {0}, saved' \in Nat, overlap' \in BOOLEAN,
         SignIn!OpRight(o)', app' # "off", SignIn!SavedOrUnderWay'
  PROVE  SignIn!IInv'
<1>1. SignIn!Fields'
  BY DEF SignIn!IInv, SignIn!Fields
<1>2. \A p \in Process : SignIn!OpRight(p)'
  <2> SUFFICES ASSUME NEW p \in Process, p # o PROVE SignIn!OpRight(p)'
    OBVIOUS
  <2>1. SignIn!OpRight(p) /\ ops'[p] = ops[p]
    BY DEF SignIn!IInv
  <2> QED
    BY <2>1 DEF SignIn!OpRight
<1>3. SignIn!OneNodePerCode' /\ SignIn!UsedCodes'
  BY CodesStand
<1>4. SignIn!OffRests'
  BY DEF SignIn!OffRests
<1>5. SignIn!OneCurrent'
  BY LoopsStand
<1> QED
  BY <1>1, <1>2, <1>3, <1>4, <1>5 DEF SignIn!IInv

LEMMA OffStep ==
  ASSUME SignIn!IInv, SignIn!Off, UNCHANGED <<requests, codes, nodes, saved>>, overlap' \in BOOLEAN,
         overlap => overlap'
  PROVE  SignIn!IInv'
<1>1. /\ app' = "off" /\ callback' = 0 /\ config' = 0
      /\ loops' = [l \in SignIn!Loop |-> SignIn!NoLoop]
      /\ flags' = [connecting |-> FALSE, stopped |-> FALSE, connected |-> FALSE]
      /\ ops' = [o \in Process |-> SignIn!NoOp]
  BY DEF SignIn!Off
<1>2. flags' \in SignIn!Flags /\ flags'.connecting = FALSE
  BY <1>1 DEF SignIn!Flags
<1>3. SignIn!Fields'
  BY <1>1, <1>2, SignInNothings DEF SignIn!IInv, SignIn!Fields
<1>4. \A o \in Process : SignIn!OpRight(o)'
  BY <1>1, SignInNothings DEF SignIn!OpRight
<1>5. SignIn!OneNodePerCode' /\ SignIn!UsedCodes'
  BY CodesStand
<1>6. SignIn!OffRests' /\ SignIn!OneCurrent'
  BY <1>1, <1>2, SignInNothings DEF SignIn!OffRests, SignIn!OneCurrent
<1>7. SignIn!SavedOrUnderWay'
  BY <1>1, SignInNothings DEF SignIn!SavedOrUnderWay, SignIn!Busy, SignIn!Taking, SignIn!GivingUp
<1> QED
  BY <1>3, <1>4, <1>5, <1>6, <1>7 DEF SignIn!IInv

\* An operation that fails, before it has changed anything or half way.
LEMMA ThrowsStep ==
  ASSUME SignIn!IInv, NEW o \in Process, ops[o].op # "none", SignIn!Throws(o),
         UNCHANGED <<requests, codes, nodes, saved>>, overlap' \in BOOLEAN, overlap => overlap',
         overlap' \/ ops[o].at \notin {"save", "unlink", "erase"}
  PROVE  SignIn!IInv'
<1>1. CASE ops[o].boot
  BY <1>1, OffStep DEF SignIn!Throws
<1>2. CASE ~ops[o].boot
  <2>1. SignIn!Done(o) /\ UNCHANGED <<app, callback, config, loops, socket, flags>>
    BY <1>2 DEF SignIn!Throws, SignIn!wire
  <2>2. /\ ops' \in [Process -> SignIn!OpRow] /\ ops'[o] = SignIn!NoOp
        /\ \A p \in Process : p # o => ops'[p] = ops[p]
    BY <2>1, OpDone DEF SignIn!IInv
  <2>3. SignIn!OpRight(o)'
    BY <2>2, SignInNothings DEF SignIn!OpRight
  <2>4. SignIn!SavedOrUnderWay'
    BY <2>1, <2>2, SignInNothings, OnlyOne, SavedMoves DEF SignIn!Taking, SignIn!GivingUp
  <2>5. app' # "off"
    BY <2>1, Runs
  <2> QED
    BY <2>1, <2>2, <2>3, <2>4, <2>5, OpMoves DEF SignIn!IInv, SignIn!Fields
<1> QED
  BY <1>1, <1>2
-----------------------------------------------------------------------------
(* The operations. *)

LEMMA BeginStep ==
  ASSUME SignIn!IInv, app' # "off", NEW o \in Process, NEW op \in {"login", "complete", "pair", "unpair"},
         NEW at \in {"request", "match", "exchange", "drop", "revoke"},
         NEW code \in SignIn!Code \cup {0}, NEW n \in Nat, NEW boot \in BOOLEAN,
         SignIn!Begin(o, op, at, code, n, boot), 0 \in Nat, code \in Nat,
         at = "request" => op = "login",
         at \in {"match", "exchange"} => op \in {"complete", "pair"} /\ code # 0,
         at = "drop" => op = "unpair",
         UNCHANGED <<requests, codes, nodes, loops, socket, flags, config, saved>>, app # "off",
         callback' \in SignIn!Code \cup {0}
  PROVE  SignIn!IInv'
<1> DEFINE x == [SignIn!NoOp EXCEPT !.op = op, !.at = at, !.code = code, !.node = n, !.boot = boot]
<1>1. /\ ops[o].op = "none" /\ ops' = [ops EXCEPT ![o] = x]
      /\ overlap' = (overlap \/ SignIn!Busy # {})
  BY DEF SignIn!Begin
<1>2. /\ x \in SignIn!OpRow /\ x.op = op /\ x.at = at /\ x.code = code
  BY SignInNothings DEF SignIn!OpRow, SignIn!NoOp
<1> HIDE DEF x
<1>3. /\ ops' \in [Process -> SignIn!OpRow] /\ ops'[o] = x
      /\ \A p \in Process : p # o => ops'[p] = ops[p]
  BY <1>1, <1>2, OpTo DEF SignIn!IInv
<1>4. SignIn!OpRight(o)'
  BY <1>2, <1>3 DEF SignIn!OpRight, SignIn!Code
<1>5. overlap' \in BOOLEAN
  BY <1>1
<1>6. SignIn!SavedOrUnderWay'
  <2>1. CASE SignIn!Busy = {}
    <3>1. ~overlap => saved = config
      <4>1. \A p \in Process : ops[p].op = "none" /\ ops[p].at # "save"
        BY <2>1 DEF SignIn!Busy, SignIn!IInv, SignIn!OpRight
      <4> QED
        BY <4>1 DEF SignIn!IInv, SignIn!SavedOrUnderWay, SignIn!Taking, SignIn!GivingUp
    <3> QED
      BY <1>1, <1>2, <1>3, <2>1, <3>1, SavedMoves
  <2>2. CASE SignIn!Busy # {}
    BY <1>1, <2>2 DEF SignIn!SavedOrUnderWay
  <2> QED
    BY <2>1, <2>2
<1> QED
  BY <1>3, <1>4, <1>5, <1>6, OpMoves DEF SignIn!IInv, SignIn!Fields

LEMMA CodeIsNat == SignIn!Code \subseteq Nat /\ 0 \notin SignIn!Code
BY DEF SignIn!Code

LEMMA CheckCallbackStep ==
  ASSUME SignIn!IInv, NEW o \in Process, SignIn!CheckCallback(o)
  PROVE  SignIn!IInv'
<1>1. /\ app = "starting" /\ callback \in SignIn!Code \cup {0}
      /\ UNCHANGED <<requests, codes, nodes, config, saved, loops, socket, flags>>
  BY DEF SignIn!CheckCallback, SignIn!server, SignIn!agent, SignIn!wire, SignIn!IInv, SignIn!Fields
<1>2. CASE callback = 0
  <2>1. app' = "shown" /\ UNCHANGED <<callback, ops, overlap>>
    BY <1>2 DEF SignIn!CheckCallback, SignIn!history
  <2>2. SignIn!SavedOrUnderWay'
    BY <1>1, <2>1 DEF SignIn!IInv, SignIn!SavedOrUnderWay, SignIn!Busy, SignIn!Taking, SignIn!GivingUp
  <2> QED
    BY <1>1, <2>1, <2>2, OpMoves DEF SignIn!IInv, SignIn!Fields, SignIn!OpRight
<1>3. CASE callback # 0
  <2>1. /\ SignIn!Begin(o, "complete", "match", callback, 0, TRUE)
        /\ app' = "booting" /\ callback' = 0
    BY <1>3 DEF SignIn!CheckCallback
  <2> QED
    BY <1>1, <1>3, <2>1, CodeIsNat, BeginStep
<1> QED
  BY <1>2, <1>3

LEMMA BeginLoginStep ==
  ASSUME SignIn!IInv, NEW o \in Process, SignIn!BeginLogin(o)
  PROVE  SignIn!IInv'
<1>1. /\ app = "ready" /\ callback \in SignIn!Code \cup {0}
      /\ SignIn!Begin(o, "login", "request", 0, 0, FALSE)
      /\ UNCHANGED <<requests, codes, nodes, app, callback, config, saved, loops, socket, flags>>
  BY DEF SignIn!BeginLogin, SignIn!server, SignIn!agent, SignIn!wire, SignIn!IInv, SignIn!Fields
<1> QED
  BY <1>1, BeginStep

LEMMA CallbackArrivesStep ==
  ASSUME SignIn!IInv, NEW o \in Process, NEW c \in SignIn!Code, SignIn!CallbackArrives(o, c)
  PROVE  SignIn!IInv'
<1>1. /\ app # "off" /\ callback \in SignIn!Code \cup {0}
      /\ UNCHANGED <<requests, codes, nodes, app, config, saved, loops, socket, flags>>
  BY DEF SignIn!CallbackArrives, SignIn!server, SignIn!agent, SignIn!wire, SignIn!IInv, SignIn!Fields
<1>2. CASE app = "ready"
  <2>1. SignIn!Begin(o, "complete", "match", c, 0, FALSE) /\ UNCHANGED callback
    BY <1>2 DEF SignIn!CallbackArrives
  <2> QED
    BY <1>1, <2>1, CodeIsNat, BeginStep
<1>3. CASE app # "ready"
  <2>1. callback' = c /\ UNCHANGED <<ops, overlap>>
    BY <1>3 DEF SignIn!CallbackArrives, SignIn!history
  <2>2. SignIn!SavedOrUnderWay'
    BY <1>1, <2>1 DEF SignIn!IInv, SignIn!SavedOrUnderWay, SignIn!Busy, SignIn!Taking, SignIn!GivingUp
  <2> QED
    BY <1>1, <2>1, <2>2, OpMoves DEF SignIn!IInv, SignIn!Fields, SignIn!OpRight
<1> QED
  BY <1>2, <1>3

LEMMA BeginPairStep ==
  ASSUME SignIn!IInv, NEW o \in Process, NEW c \in SignIn!Code, SignIn!BeginPair(o, c)
  PROVE  SignIn!IInv'
<1>1. /\ app = "ready" /\ callback \in SignIn!Code \cup {0}
      /\ SignIn!Begin(o, "pair", "exchange", c, 0, FALSE)
      /\ UNCHANGED <<requests, codes, nodes, app, callback, config, saved, loops, socket, flags>>
  BY DEF SignIn!BeginPair, SignIn!server, SignIn!agent, SignIn!wire, SignIn!IInv, SignIn!Fields
<1> QED
  BY <1>1, CodeIsNat, BeginStep

LEMMA BeginUnpairStep ==
  ASSUME SignIn!IInv, NEW o \in Process, SignIn!BeginUnpair(o)
  PROVE  SignIn!IInv'
<1> DEFINE at == IF config = 0 THEN "drop" ELSE "revoke"
<1>1. /\ app = "ready" /\ callback \in SignIn!Code \cup {0} /\ config \in Nat
      /\ SignIn!Begin(o, "unpair", at, 0, config, FALSE)
      /\ UNCHANGED <<requests, codes, nodes, app, callback, config, saved, loops, socket, flags>>
  BY DEF SignIn!BeginUnpair, SignIn!server, SignIn!agent, SignIn!wire, SignIn!IInv, SignIn!Fields
<1>2. at \in {"drop", "revoke"}
  OBVIOUS
<1> HIDE DEF at
<1> QED
  BY <1>1, <1>2, BeginStep

LEMMA RequestSignedStep ==
  ASSUME SignIn!IInv, NEW o \in Process, SignIn!RequestSigned(o)
  PROVE  SignIn!IInv'
<1> DEFINE x == [ops[o] EXCEPT !.at = "keep", !.request = requests + 1]
<1>1. /\ ops[o].at = "request" /\ requests' = requests + 1 /\ ops' = [ops EXCEPT ![o] = x]
      /\ UNCHANGED <<codes, nodes, app, callback, config, saved, loops, socket, flags, overlap>>
      /\ SignIn!Fields
  BY DEF SignIn!RequestSigned, SignIn!wire, SignIn!history, SignIn!IInv
<1>2. ops[o].op = "login"
  BY <1>1 DEF SignIn!IInv, SignIn!OpRight
<1>3. x \in SignIn!OpRow /\ x.at = "keep" /\ x.op = "login"
  <2>1. ops[o] \in SignIn!OpRow /\ requests + 1 \in Nat
    BY <1>1 DEF SignIn!Fields
  <2> QED
    BY <1>2, <2>1 DEF SignIn!OpRow
<1> HIDE DEF x
<1>4. /\ ops' \in [Process -> SignIn!OpRow] /\ ops'[o] = x
      /\ \A p \in Process : p # o => ops'[p] = ops[p]
  BY <1>1, <1>3, OpTo
<1>5. SignIn!OpRight(o)'
  BY <1>3, <1>4 DEF SignIn!OpRight
<1>6. SignIn!SavedOrUnderWay'
  BY <1>1, <1>2, <1>3, <1>4, OnlyOne, SavedMoves DEF SignIn!Taking, SignIn!GivingUp
<1>7. app' # "off"
  BY <1>1, <1>2, Runs
<1>8. requests' \in Nat
  BY <1>1 DEF SignIn!Fields
<1> QED
  BY <1>1, <1>4, <1>5, <1>6, <1>7, <1>8, OpMoves DEF SignIn!Fields

\* An operation is done, having done nothing to nodes and loops.
LEMMA EndsStep ==
  ASSUME SignIn!IInv, NEW o \in Process, ops[o].op # "none", SignIn!Done(o),
         UNCHANGED <<requests, codes, nodes, callback, config, loops, socket, flags, overlap>>,
         saved' \in Nat, app' # "off",
         saved' = config \/ (saved' = saved /\ ops[o].at \notin {"save", "unlink", "erase"})
  PROVE  SignIn!IInv'
<1>1. /\ ops' \in [Process -> SignIn!OpRow] /\ ops'[o] = SignIn!NoOp
      /\ \A p \in Process : p # o => ops'[p] = ops[p]
  BY OpDone DEF SignIn!IInv
<1>2. SignIn!OpRight(o)'
  BY <1>1, SignInNothings DEF SignIn!OpRight
<1>3. ~overlap => saved' = config
  BY OnlyOne DEF SignIn!Taking, SignIn!GivingUp
<1>4. app # "off"
  BY Runs
<1>5. SignIn!SavedOrUnderWay'
  BY <1>1, <1>3, SignInNothings, SavedMoves
<1> QED
  BY <1>1, <1>2, <1>5, OpMoves DEF SignIn!IInv, SignIn!Fields

LEMMA KeepPendingStep ==
  ASSUME SignIn!IInv, NEW o \in Process, SignIn!KeepPending(o)
  PROVE  SignIn!IInv'
<1>1. /\ ops[o].at = "keep" /\ SignIn!Done(o)
      /\ UNCHANGED <<requests, codes, nodes, app, callback, config, saved, loops, socket, flags, overlap>>
  BY DEF SignIn!KeepPending, SignIn!server, SignIn!wire, SignIn!history
<1>2. ops[o].op # "none"
  BY <1>1 DEF SignIn!IInv, SignIn!OpRight
<1>3. app' # "off"
  BY <1>1, <1>2, Runs
<1> QED
  BY <1>1, <1>2, <1>3, EndsStep DEF SignIn!IInv, SignIn!Fields

LEMMA RefusedStep ==
  ASSUME SignIn!IInv, NEW o \in Process, ops[o].at \in {"request", "keep", "match", "exchange"},
         SignIn!Refused(o)
  PROVE  SignIn!IInv'
<1>1. ops[o].op # "none"
  BY DEF SignIn!IInv, SignIn!OpRight
<1>2. SignIn!Throws(o) /\ UNCHANGED <<requests, codes, nodes, saved, overlap>>
  BY DEF SignIn!Refused, SignIn!server, SignIn!history
<1>3. overlap \in BOOLEAN
  BY DEF SignIn!IInv, SignIn!Fields
<1> QED
  BY <1>1, <1>2, <1>3, ThrowsStep

LEMMA BreaksStep ==
  ASSUME SignIn!IInv, NEW o \in Process, ops[o].at \in {"adopt", "save"}, SignIn!Breaks(o)
  PROVE  SignIn!IInv'
<1>1. ops[o].op # "none"
  BY DEF SignIn!IInv, SignIn!OpRight
<1>2. SignIn!Throws(o) /\ UNCHANGED <<requests, codes, nodes, saved>> /\ overlap' = TRUE
  BY DEF SignIn!Breaks, SignIn!server
<1> QED
  BY <1>1, <1>2, ThrowsStep

LEMMA MatchesStep ==
  ASSUME SignIn!IInv, NEW o \in Process, SignIn!Matches(o)
  PROVE  SignIn!IInv'
<1>1. ops[o].at = "match"
  BY DEF SignIn!Matches
<1>2. CASE SignIn!Refused(o)
  BY <1>1, <1>2, RefusedStep
<1>3. CASE ~SignIn!Refused(o)
  <2>1. SignIn!Goto(o, "exchange") /\ UNCHANGED <<requests, codes, nodes, app, callback, config, saved,
                                                  loops, socket, flags, overlap>>
    BY <1>3 DEF SignIn!Matches, SignIn!server, SignIn!agent, SignIn!wire, SignIn!history
  <2>2. /\ ops' \in [Process -> SignIn!OpRow]
        /\ ops'[o].at = "exchange" /\ ops'[o].op = ops[o].op /\ ops'[o].code = ops[o].code
        /\ \A p \in Process : p # o => ops'[p] = ops[p]
    BY <2>1, OpGoto DEF SignIn!IInv
  <2>3. ops[o].op \in {"complete", "pair"} /\ ops[o].code \in SignIn!Code
    BY <1>1 DEF SignIn!IInv, SignIn!OpRight
  <2>4. SignIn!OpRight(o)'
    BY <2>2, <2>3 DEF SignIn!OpRight, SignIn!Code
  <2>5. SignIn!SavedOrUnderWay'
    BY <1>1, <2>1, <2>2, <2>3, OnlyOne, SavedMoves DEF SignIn!Taking, SignIn!GivingUp
  <2>6. app' # "off"
    BY <2>1, <2>3, Runs
  <2> QED
    BY <2>1, <2>2, <2>4, <2>5, <2>6, OpMoves DEF SignIn!IInv, SignIn!Fields
<1> QED
  BY <1>2, <1>3

\* A code that is fresh is nobody's, and is used from then on.
LEMMA ExchangeStep ==
  ASSUME SignIn!IInv, NEW o \in Process, SignIn!Exchange(o)
  PROVE  SignIn!IInv'
<1> DEFINE c == ops[o].code
<1>1. ops[o].at = "exchange"
  BY DEF SignIn!Exchange
<1>2. CASE codes[c].state # "fresh"
  BY <1>1, <1>2, RefusedStep DEF SignIn!Exchange
<1>3. CASE codes[c].state = "fresh"
  <2> DEFINE x == [ops[o] EXCEPT !.at = "adopt", !.node = Len(nodes) + 1]
             row == [codes[c] EXCEPT !.state = "used"]
  <2>1. /\ nodes' = Append(nodes, c) /\ ops' = [ops EXCEPT ![o] = x]
        /\ codes' = [codes EXCEPT ![c] = row]
        /\ UNCHANGED <<requests, app, callback, config, saved, loops, socket, flags, overlap>>
        /\ SignIn!Fields
    BY <1>3 DEF SignIn!Exchange, SignIn!Used, SignIn!agent, SignIn!wire, SignIn!history, SignIn!IInv
  <2>2. c \in SignIn!Code /\ ops[o].op \in {"complete", "pair"} /\ Len(nodes) \in Nat
    BY <1>1, <2>1 DEF SignIn!IInv, SignIn!OpRight, SignIn!Fields
  <2>3. x \in SignIn!OpRow /\ x.at = "adopt" /\ x.op = ops[o].op /\ x.code = c
    <3>1. ops[o] \in SignIn!OpRow /\ Len(nodes) + 1 \in Nat
      BY <2>1, <2>2 DEF SignIn!Fields
    <3> QED
      BY <3>1 DEF SignIn!OpRow
  <2>4. row \in SignIn!CodeRow /\ row.state = "used"
    BY <2>1, <2>2 DEF SignIn!Fields, SignIn!CodeRow
  <2> HIDE DEF x, row
  <2>5. /\ ops' \in [Process -> SignIn!OpRow] /\ ops'[o] = x
        /\ \A p \in Process : p # o => ops'[p] = ops[p]
    BY <2>1, <2>3, OpTo
  <2>6. /\ codes' \in [SignIn!Code -> SignIn!CodeRow] /\ codes'[c] = row
        /\ \A d \in SignIn!Code : d # c => codes'[d] = codes[d]
    BY <2>1, <2>2, <2>4 DEF SignIn!Fields
  <2>7. /\ nodes' \in Seq(SignIn!Code) /\ DOMAIN nodes' = DOMAIN nodes \cup {Len(nodes) + 1}
        /\ \A i \in DOMAIN nodes : nodes'[i] = nodes[i] /\ nodes[i] \in SignIn!Code
        /\ nodes'[Len(nodes) + 1] = c
    BY <2>1, <2>2 DEF SignIn!Fields
  <2>8. \A i \in DOMAIN nodes : nodes[i] # c
    BY <1>3 DEF SignIn!IInv, SignIn!UsedCodes
  <2>9. SignIn!OneNodePerCode'
    BY <2>7, <2>8 DEF SignIn!IInv, SignIn!OneNodePerCode
  <2>10. SignIn!UsedCodes'
    BY <2>4, <2>6, <2>7, <2>8 DEF SignIn!IInv, SignIn!UsedCodes
  <2>11. SignIn!Fields'
    BY <2>1, <2>5, <2>6, <2>7 DEF SignIn!Fields
  <2>12. ASSUME NEW p \in Process PROVE SignIn!OpRight(p)'
    <3>1. CASE p = o
      BY <2>2, <2>3, <2>5, <3>1 DEF SignIn!OpRight, SignIn!Code
    <3>2. CASE p # o
      <4>1. SignIn!OpRight(p) /\ ops'[p] = ops[p]
        BY <2>5, <3>2 DEF SignIn!IInv
      <4> QED
        BY <4>1 DEF SignIn!OpRight
    <3> QED
      BY <3>1, <3>2
  <2>13. SignIn!OffRests'
    BY <2>1, <2>2, Runs DEF SignIn!OffRests
  <2>14. SignIn!OneCurrent'
    BY <2>1, LoopsStand
  <2>15. SignIn!SavedOrUnderWay'
    BY <1>1, <2>1, <2>2, <2>3, <2>5, OnlyOne, SavedMoves DEF SignIn!Taking, SignIn!GivingUp
  <2> QED
    BY <2>9, <2>10, <2>11, <2>12, <2>13, <2>14, <2>15 DEF SignIn!IInv
<1> QED
  BY <1>2, <1>3

-----------------------------------------------------------------------------
(* Loops and sockets. *)

LoopsRight ==
  /\ loops \in [SignIn!Loop -> SignIn!LoopRow] /\ flags \in SignIn!Flags
  /\ SignIn!OneCurrent

\* After disconnect nothing is of the present generation.
LEMMA HangupStep ==
  ASSUME SignIn!Fields, SignIn!OneCurrent, SignIn!Hangup
  PROVE  LoopsRight'
<1>1. /\ loops \in [SignIn!Loop -> SignIn!LoopRow]
      /\ loops' = [l \in SignIn!Loop |-> [loops[l] EXCEPT !.current = FALSE,
                                                         !.open = loops[l].open /\ l # socket]]
      /\ flags' = [connecting |-> FALSE, stopped |-> TRUE, connected |-> FALSE]
  BY DEF SignIn!Hangup, SignIn!Fields
<1>2. flags' \in SignIn!Flags
  BY <1>1 DEF SignIn!Flags
<1>3. ASSUME NEW l \in SignIn!Loop
      PROVE  loops'[l] \in SignIn!LoopRow /\ loops'[l].current = FALSE /\ loops'[l].open = FALSE
  <2>1. loops[l] \in SignIn!LoopRow
    BY <1>1
  <2>2. (loops[l].open /\ l # socket) = FALSE
    BY DEF SignIn!OneCurrent
  <2>3. loops'[l] = [loops[l] EXCEPT !.current = FALSE, !.open = FALSE]
    BY <1>1, <2>2
  <2> QED
    BY <2>1, <2>3 DEF SignIn!LoopRow
<1>4. loops' \in [SignIn!Loop -> SignIn!LoopRow]
  BY <1>1, <1>3
<1>5. SignIn!OneCurrent'
  BY <1>3 DEF SignIn!OneCurrent
<1> QED
  BY <1>2, <1>4, <1>5 DEF LoopsRight

\* Nothing is of the present generation when connectLoop goes on.
LEMMA DialStep ==
  ASSUME SignIn!Fields, SignIn!OneCurrent, NEW n \in Nat, SignIn!Dial(n), config' = n,
         n = config \/ ~flags.connecting
  PROVE  LoopsRight'
<1>1. loops \in [SignIn!Loop -> SignIn!LoopRow] /\ flags \in SignIn!Flags
  BY DEF SignIn!Fields
<1>2. CASE flags.connecting \/ n = 0
  <2>1. loops' = loops /\ socket' = socket /\ flags' = [flags EXCEPT !.stopped = FALSE]
    BY <1>2 DEF SignIn!Dial
  <2>2. flags' \in SignIn!Flags /\ flags'.connecting = flags.connecting
    BY <1>1, <2>1 DEF SignIn!Flags
  <2>3. SignIn!OneCurrent'
    BY <2>1, <2>2 DEF SignIn!OneCurrent
  <2> QED
    BY <1>1, <2>1, <2>2, <2>3 DEF LoopsRight
<1>3. CASE ~flags.connecting /\ n # 0
  <2> DEFINE row == [at |-> "connect", current |-> TRUE, open |-> TRUE, node |-> n]
  <2>1. PICK l \in SignIn!Loop : loops' = [loops EXCEPT ![l] = row] /\ socket' = l
    BY <1>3 DEF SignIn!Dial
  <2>2. flags' = [flags EXCEPT !.connecting = TRUE, !.stopped = FALSE]
    BY <1>3 DEF SignIn!Dial
  <2>3. flags' \in SignIn!Flags /\ flags'.connecting = TRUE
    BY <1>1, <2>2 DEF SignIn!Flags
  <2>4. row \in SignIn!LoopRow /\ row.current /\ row.open
    BY DEF SignIn!LoopRow
  <2> HIDE DEF row
  <2>5. /\ loops' \in [SignIn!Loop -> SignIn!LoopRow] /\ loops'[l] = row
        /\ \A k \in SignIn!Loop : k # l => loops'[k] = loops[k]
    BY <1>1, <2>1, <2>4
  <2>6. \A k \in SignIn!Loop : ~loops[k].current /\ ~loops[k].open
    BY <1>3 DEF SignIn!OneCurrent
  <2>7. SignIn!OneCurrent'
    BY <1>3, <2>1, <2>3, <2>4, <2>5, <2>6 DEF SignIn!OneCurrent
  <2> QED
    BY <2>3, <2>5, <2>7 DEF LoopsRight
<1> QED
  BY <1>2, <1>3

\* A step of an operation that changes nodes and loops, but no code.
LEMMA NodeMoves ==
  ASSUME SignIn!IInv, NEW o \in Process, ops' \in [Process -> SignIn!OpRow],
         \A p \in Process : p # o => ops'[p] = ops[p],
         UNCHANGED <<requests, codes, nodes, callback, overlap>>, config' \in Nat, saved' \in Nat,
         LoopsRight', SignIn!OpRight(o)', app' # "off", SignIn!SavedOrUnderWay'
  PROVE  SignIn!IInv'
<1>1. SignIn!Fields'
  BY DEF SignIn!IInv, SignIn!Fields, LoopsRight
<1>2. \A p \in Process : SignIn!OpRight(p)'
  <2> SUFFICES ASSUME NEW p \in Process, p # o PROVE SignIn!OpRight(p)'
    OBVIOUS
  <2>1. SignIn!OpRight(p) /\ ops'[p] = ops[p]
    BY DEF SignIn!IInv
  <2> QED
    BY <2>1 DEF SignIn!OpRight
<1>3. SignIn!OneNodePerCode' /\ SignIn!UsedCodes'
  BY CodesStand
<1>4. SignIn!OffRests'
  BY DEF SignIn!OffRests
<1> QED
  BY <1>1, <1>2, <1>3, <1>4 DEF SignIn!IInv, LoopsRight

LEMMA LoopsStayRight ==
  ASSUME SignIn!IInv, UNCHANGED <<loops, socket, flags, config>> PROVE LoopsRight'
BY LoopsStand DEF SignIn!IInv, SignIn!Fields, LoopsRight

LEMMA AdoptStep ==
  ASSUME SignIn!IInv, NEW o \in Process, SignIn!Adopt(o)
  PROVE  SignIn!IInv'
<1> DEFINE prev == IF ops[o].op = "complete" THEN config ELSE 0
           x == [ops[o] EXCEPT !.at = "save", !.previous = prev]
<1>1. /\ ops[o].at = "adopt" /\ config' = ops[o].node /\ SignIn!Hangup /\ ops' = [ops EXCEPT ![o] = x]
      /\ UNCHANGED <<requests, codes, nodes, callback, overlap, app, saved>>
      /\ SignIn!Fields /\ SignIn!OneCurrent
  BY DEF SignIn!Adopt, SignIn!server, SignIn!history, SignIn!IInv
<1>2. ops[o] \in SignIn!OpRow /\ prev \in Nat /\ saved \in Nat
  BY <1>1 DEF SignIn!Fields
<1>3. ops[o].op \in {"complete", "pair"}
  BY <1>1 DEF SignIn!IInv, SignIn!OpRight
<1> HIDE DEF prev
<1>4. /\ x \in SignIn!OpRow /\ x.at = "save" /\ x.op = ops[o].op /\ x.node = ops[o].node
      /\ ops[o].node \in Nat
  BY <1>2 DEF SignIn!OpRow
<1> HIDE DEF x
<1>5. /\ ops' \in [Process -> SignIn!OpRow] /\ ops'[o] = x
      /\ \A p \in Process : p # o => ops'[p] = ops[p]
  BY <1>1, <1>4, OpTo
<1>6. SignIn!OpRight(o)'
  BY <1>3, <1>4, <1>5 DEF SignIn!OpRight
<1>7. SignIn!SavedOrUnderWay'
  BY <1>1, <1>3, <1>4, <1>5, SavedMoves
<1>8. LoopsRight'
  BY <1>1, HangupStep
<1>9. app' # "off"
  BY <1>1, <1>3, Runs
<1> QED
  BY <1>1, <1>2, <1>4, <1>5, <1>6, <1>7, <1>8, <1>9, NodeMoves

LEMMA SaveStep ==
  ASSUME SignIn!IInv, NEW o \in Process, SignIn!Save(o)
  PROVE  SignIn!IInv'
<1>1. /\ ops[o].at = "save" /\ saved' = ops[o].node /\ SignIn!Goto(o, "unlink")
      /\ UNCHANGED <<requests, codes, nodes, callback, overlap, app, config, loops, socket, flags>>
      /\ SignIn!Fields
  BY DEF SignIn!Save, SignIn!server, SignIn!wire, SignIn!history, SignIn!IInv
<1>2. ops[o].op \in {"complete", "pair"}
  BY <1>1 DEF SignIn!IInv, SignIn!OpRight
<1>3. /\ ops' \in [Process -> SignIn!OpRow] /\ ops'[o].at = "unlink" /\ ops'[o].op = ops[o].op
      /\ \A p \in Process : p # o => ops'[p] = ops[p]
  BY <1>1, OpGoto
<1>4. ops[o].node \in Nat /\ config \in Nat
  BY <1>1 DEF SignIn!Fields, SignIn!OpRow
<1>5. ~overlap => config = ops[o].node
  BY <1>1, <1>2, OnlyOne DEF SignIn!Taking
<1>6. SignIn!OpRight(o)'
  BY <1>2, <1>3 DEF SignIn!OpRight
<1>7. SignIn!SavedOrUnderWay'
  BY <1>1, <1>2, <1>3, <1>5, SavedMoves
<1>8. app' # "off"
  BY <1>1, <1>2, Runs
<1> QED
  BY <1>1, <1>3, <1>4, <1>6, <1>7, <1>8, LoopsStayRight, NodeMoves

LEMMA DropStep ==
  ASSUME SignIn!IInv, NEW o \in Process, SignIn!Drop(o)
  PROVE  SignIn!IInv'
<1>1. /\ ops[o].at = "drop" /\ SignIn!Hangup /\ config' = 0 /\ SignIn!Goto(o, "unlink")
      /\ UNCHANGED <<requests, codes, nodes, callback, overlap, app, saved>>
      /\ SignIn!Fields /\ SignIn!OneCurrent /\ saved \in Nat
  BY DEF SignIn!Drop, SignIn!server, SignIn!history, SignIn!IInv, SignIn!Fields
<1>2. ops[o].op = "unpair"
  BY <1>1 DEF SignIn!IInv, SignIn!OpRight
<1>3. /\ ops' \in [Process -> SignIn!OpRow] /\ ops'[o].at = "unlink" /\ ops'[o].op = "unpair"
      /\ \A p \in Process : p # o => ops'[p] = ops[p]
  BY <1>1, <1>2, OpGoto
<1>4. SignIn!OpRight(o)'
  BY <1>3 DEF SignIn!OpRight
<1>5. SignIn!SavedOrUnderWay'
  BY <1>1, <1>2, <1>3, SavedMoves
<1>6. LoopsRight'
  BY <1>1, HangupStep
<1>7. app' # "off"
  BY <1>1, <1>2, Runs
<1> QED
  BY <1>1, <1>3, <1>4, <1>5, <1>6, <1>7, NodeMoves

LEMMA UnlinkStep ==
  ASSUME SignIn!IInv, NEW o \in Process, SignIn!Unlink(o)
  PROVE  SignIn!IInv'
<1>1. /\ ops[o].at = "unlink" /\ ops[o].op = "unpair" /\ SignIn!Goto(o, "erase")
      /\ UNCHANGED <<requests, codes, nodes, callback, overlap, app, saved, config, loops, socket, flags>>
      /\ SignIn!Fields /\ saved \in Nat /\ config \in Nat
  BY DEF SignIn!Unlink, SignIn!server, SignIn!wire, SignIn!history, SignIn!IInv, SignIn!Fields
<1>2. /\ ops' \in [Process -> SignIn!OpRow] /\ ops'[o].at = "erase" /\ ops'[o].op = "unpair"
      /\ \A p \in Process : p # o => ops'[p] = ops[p]
  BY <1>1, OpGoto
<1>3. SignIn!OpRight(o)'
  BY <1>2 DEF SignIn!OpRight
<1>4. SignIn!SavedOrUnderWay'
  BY <1>1, <1>2, OnlyOne, SavedMoves DEF SignIn!GivingUp
<1>5. app' # "off"
  BY <1>1, Runs
<1> QED
  BY <1>1, <1>2, <1>3, <1>4, <1>5, LoopsStayRight, NodeMoves

LEMMA RevokeStep ==
  ASSUME SignIn!IInv, NEW o \in Process, NEW ok \in BOOLEAN, SignIn!Revoke(o, ok)
  PROVE  SignIn!IInv'
<1>1. /\ ops[o].at = "revoke" /\ ops[o].op = "unpair" /\ SignIn!Goto(o, "drop")
      /\ UNCHANGED <<requests, codes, nodes, callback, overlap, app, saved, config, loops, socket, flags>>
      /\ SignIn!Fields /\ saved \in Nat /\ config \in Nat
  BY DEF SignIn!Revoke, SignIn!agent, SignIn!wire, SignIn!history, SignIn!IInv, SignIn!Fields
<1>2. /\ ops' \in [Process -> SignIn!OpRow] /\ ops'[o].at = "drop" /\ ops'[o].op = "unpair"
      /\ \A p \in Process : p # o => ops'[p] = ops[p]
  BY <1>1, OpGoto
<1>3. SignIn!OpRight(o)'
  BY <1>2 DEF SignIn!OpRight
<1>4. SignIn!SavedOrUnderWay'
  BY <1>1, <1>2, OnlyOne, SavedMoves DEF SignIn!Taking, SignIn!GivingUp
<1>5. app' # "off"
  BY <1>1, Runs
<1> QED
  BY <1>1, <1>2, <1>3, <1>4, <1>5, LoopsStayRight, NodeMoves

LEMMA EraseStep ==
  ASSUME SignIn!IInv, NEW o \in Process, SignIn!Erase(o)
  PROVE  SignIn!IInv'
<1>1. /\ ops[o].at = "erase" /\ saved' = 0 /\ SignIn!Done(o)
      /\ UNCHANGED <<requests, codes, nodes, callback, overlap, app, config, loops, socket, flags>>
      /\ SignIn!Fields /\ config \in Nat
  BY DEF SignIn!Erase, SignIn!Erased, SignIn!server, SignIn!wire, SignIn!history, SignIn!IInv, SignIn!Fields
<1>2. ops[o].op = "unpair"
  BY <1>1 DEF SignIn!IInv, SignIn!OpRight
<1>3. /\ ops' \in [Process -> SignIn!OpRow] /\ ops'[o] = SignIn!NoOp
      /\ \A p \in Process : p # o => ops'[p] = ops[p]
  BY <1>1, OpDone
<1>4. SignIn!OpRight(o)'
  BY <1>3, SignInNothings DEF SignIn!OpRight
<1>5. SignIn!SavedOrUnderWay'
  BY <1>1, <1>2, <1>3, OnlyOne, SavedMoves, SignInNothings DEF SignIn!GivingUp
<1>6. app' # "off"
  BY <1>1, <1>2, Runs
<1> QED
  BY <1>1, <1>3, <1>4, <1>5, <1>6, LoopsStayRight, NodeMoves

\* An operation that took a node is done, or goes on to give up the predecessor's.
LEMMA SucceedsStep ==
  ASSUME SignIn!IInv, NEW o \in Process, ops[o].op \in {"complete", "pair"},
         ops[o].at \in {"unlink", "revoke"}, SignIn!Succeeds(o),
         UNCHANGED <<requests, codes, nodes, callback, overlap, config, saved>>, LoopsRight'
  PROVE  SignIn!IInv'
<1>1. /\ ops' \in [Process -> SignIn!OpRow] /\ ops'[o] = SignIn!NoOp
      /\ \A p \in Process : p # o => ops'[p] = ops[p]
  BY OpDone DEF SignIn!IInv, SignIn!Succeeds
<1>2. app' # "off"
  BY Runs DEF SignIn!Succeeds
<1>3. SignIn!OpRight(o)'
  BY <1>1, SignInNothings DEF SignIn!OpRight
<1>4. SignIn!SavedOrUnderWay'
  BY <1>1, OnlyOne, SavedMoves, SignInNothings DEF SignIn!Taking, SignIn!GivingUp
<1> QED
  BY <1>1, <1>2, <1>3, <1>4, NodeMoves DEF SignIn!IInv, SignIn!Fields

LEMMA AdoptedStep ==
  ASSUME SignIn!IInv, NEW o \in Process, SignIn!Adopted(o)
  PROVE  SignIn!IInv'
<1>1. /\ ops[o].op \in {"complete", "pair"} /\ ops[o].at = "unlink" /\ SignIn!Dial(config)
      /\ UNCHANGED <<requests, codes, nodes, callback, overlap, config, saved>>
      /\ SignIn!Fields /\ SignIn!OneCurrent /\ config \in Nat
  BY DEF SignIn!Adopted, SignIn!server, SignIn!history, SignIn!IInv, SignIn!Fields
<1>2. LoopsRight'
  BY <1>1, DialStep
<1>3. CASE ops[o].previous = 0
  BY <1>1, <1>2, <1>3, SucceedsStep DEF SignIn!Adopted
<1>4. CASE ops[o].previous # 0
  <2>1. SignIn!Goto(o, "revoke") /\ app' = app
    BY <1>4 DEF SignIn!Adopted, SignIn!Goto
  <2>2. /\ ops' \in [Process -> SignIn!OpRow] /\ ops'[o].at = "revoke" /\ ops'[o].op = ops[o].op
        /\ \A p \in Process : p # o => ops'[p] = ops[p]
    BY <1>1, <2>1, OpGoto
  <2>3. SignIn!OpRight(o)'
    BY <1>1, <2>2 DEF SignIn!OpRight
  <2>4. SignIn!SavedOrUnderWay'
    BY <1>1, <2>2, OnlyOne, SavedMoves DEF SignIn!Taking, SignIn!GivingUp
  <2>5. app' # "off"
    BY <1>1, <2>1, Runs
  <2> QED
    BY <1>1, <1>2, <2>2, <2>3, <2>4, <2>5, NodeMoves DEF SignIn!Fields
<1> QED
  BY <1>3, <1>4

LEMMA RevokePreviousStep ==
  ASSUME SignIn!IInv, NEW o \in Process, NEW ok \in BOOLEAN, SignIn!RevokePrevious(o, ok)
  PROVE  SignIn!IInv'
<1>1. /\ ops[o].op \in {"complete", "pair"} /\ ops[o].at = "revoke" /\ SignIn!Succeeds(o)
      /\ UNCHANGED <<requests, codes, nodes, callback, overlap, config, saved, loops, socket, flags>>
  BY DEF SignIn!RevokePrevious, SignIn!agent, SignIn!wire, SignIn!history
<1> QED
  BY <1>1, LoopsStayRight, SucceedsStep

-----------------------------------------------------------------------------
(* The steps that no operation takes. *)

LEMMA OutsideStep ==
  ASSUME SignIn!IInv, UNCHANGED <<requests, ops, overlap, saved, nodes, codes, callback>>,
         LoopsRight', app' # "off",
         \/ app # "off" /\ config' = config
         \/ app = "off" /\ config' = saved
  PROVE  SignIn!IInv'
<1>1. SignIn!Fields'
  BY DEF SignIn!IInv, SignIn!Fields, LoopsRight
<1>2. \A p \in Process : SignIn!OpRight(p)'
  BY DEF SignIn!IInv, SignIn!OpRight
<1>3. SignIn!OneNodePerCode' /\ SignIn!UsedCodes'
  BY CodesStand
<1>4. SignIn!OffRests'
  BY DEF SignIn!OffRests
<1>5. SignIn!SavedOrUnderWay'
  <2>1. CASE app = "off" /\ config' = saved
    <3>1. \A p \in Process : ops[p].at = "idle" /\ ops[p].op = "none"
      BY <2>1, SignInNothings DEF SignIn!IInv, SignIn!OffRests
    <3> QED
      BY <2>1, <3>1 DEF SignIn!SavedOrUnderWay, SignIn!Busy, SignIn!Taking, SignIn!GivingUp
  <2>2. CASE app # "off" /\ config' = config
    BY <2>2 DEF SignIn!IInv, SignIn!SavedOrUnderWay, SignIn!Busy, SignIn!Taking, SignIn!GivingUp
  <2> QED
    BY <2>1, <2>2
<1> QED
  BY <1>1, <1>2, <1>3, <1>4, <1>5 DEF SignIn!IInv, LoopsRight

LEMMA LaunchStep ==
  ASSUME SignIn!IInv, NEW expired \in BOOLEAN, SignIn!Launch(expired)
  PROVE  SignIn!IInv'
<1>1. /\ app = "off" /\ app' = "starting" /\ config' = saved /\ SignIn!Dial(saved)
      /\ UNCHANGED <<requests, ops, overlap, saved, nodes, codes, callback>>
      /\ SignIn!Fields /\ SignIn!OneCurrent /\ saved \in Nat
  BY DEF SignIn!Launch, SignIn!server, SignIn!history, SignIn!IInv, SignIn!Fields
<1>2. ~flags.connecting
  BY <1>1 DEF SignIn!IInv, SignIn!OffRests
<1>3. LoopsRight'
  BY <1>1, <1>2, DialStep
<1> QED
  BY <1>1, <1>3, OutsideStep

LEMMA ReadyStep ==
  ASSUME SignIn!IInv, SignIn!Ready
  PROVE  SignIn!IInv'
<1>1. /\ app = "shown" /\ app' = "ready"
      /\ UNCHANGED <<requests, ops, overlap, saved, nodes, codes, callback, config, loops, socket, flags>>
  BY DEF SignIn!Ready, SignIn!server, SignIn!history, SignIn!agent, SignIn!wire
<1> QED
  BY <1>1, LoopsStayRight, OutsideStep

LEMMA QuitStep ==
  ASSUME SignIn!IInv, SignIn!Quit
  PROVE  SignIn!IInv'
<1>1. /\ SignIn!Off /\ overlap' = (overlap \/ SignIn!Busy # {})
      /\ UNCHANGED <<requests, codes, nodes, saved>>
  BY DEF SignIn!Quit, SignIn!server
<1> QED
  BY <1>1, OffStep

LEMMA CodesStep ==
  ASSUME SignIn!IInv,
         UNCHANGED <<requests, ops, overlap, saved, nodes, app, callback, config, loops, socket, flags>>,
         NEW c \in SignIn!Code, NEW row \in SignIn!CodeRow, codes[c].state # "used",
         codes' = [codes EXCEPT ![c] = row]
  PROVE  SignIn!IInv'
<1>1. /\ codes' \in [SignIn!Code -> SignIn!CodeRow]
      /\ \A d \in SignIn!Code : codes[d].state = "used" => codes'[d].state = "used"
  BY DEF SignIn!IInv, SignIn!Fields
<1>2. SignIn!Fields'
  BY <1>1 DEF SignIn!IInv, SignIn!Fields
<1>3. SignIn!OneNodePerCode' /\ SignIn!UsedCodes'
  BY <1>1, CodesStand
<1>4. (\A p \in Process : SignIn!OpRight(p)') /\ SignIn!OffRests' /\ SignIn!OneCurrent'
  BY DEF SignIn!IInv, SignIn!OpRight, SignIn!OffRests, SignIn!OneCurrent
<1>5. SignIn!SavedOrUnderWay'
  BY DEF SignIn!IInv, SignIn!SavedOrUnderWay, SignIn!Busy, SignIn!Taking, SignIn!GivingUp
<1> QED
  BY <1>2, <1>3, <1>4, <1>5 DEF SignIn!IInv

LEMMA AuthorizeStep ==
  ASSUME SignIn!IInv, NEW r \in 0..requests, SignIn!Authorize(r)
  PROVE  SignIn!IInv'
<1> DEFINE row == [request |-> r, state |-> "fresh"]
<1>1. PICK c \in SignIn!Code : codes[c] = SignIn!NoCode /\ codes' = [codes EXCEPT ![c] = row]
  BY DEF SignIn!Authorize
<1>2. UNCHANGED <<requests, ops, overlap, saved, nodes, app, callback, config, loops, socket, flags>>
  BY DEF SignIn!Authorize, SignIn!agent, SignIn!wire, SignIn!history
<1>3. row \in SignIn!CodeRow
  BY DEF SignIn!CodeRow, SignIn!IInv, SignIn!Fields
<1> HIDE DEF row
<1> QED
  BY <1>1, <1>2, <1>3, SignInNothings, CodesStep

LEMMA ExpiresStep ==
  ASSUME SignIn!IInv, NEW c \in SignIn!Code, SignIn!Expires(c)
  PROVE  SignIn!IInv'
<1> DEFINE row == [codes[c] EXCEPT !.state = "expired"]
<1>1. /\ codes[c].state = "fresh" /\ codes' = [codes EXCEPT ![c] = row]
      /\ UNCHANGED <<requests, ops, overlap, saved, nodes, app, callback, config, loops, socket, flags>>
  BY DEF SignIn!Expires, SignIn!agent, SignIn!wire, SignIn!history
<1>2. row \in SignIn!CodeRow
  BY DEF SignIn!CodeRow, SignIn!IInv, SignIn!Fields
<1> HIDE DEF row
<1> QED
  BY <1>1, <1>2, CodesStep

\* A loop goes on as it is: of its generation or not, its socket open if it was.
LEMMA LoopMoves ==
  ASSUME SignIn!Fields, SignIn!OneCurrent, NEW l \in SignIn!Loop, NEW row \in SignIn!LoopRow,
         loops' = [loops EXCEPT ![l] = row], flags' \in SignIn!Flags,
         row.current => loops[l].current, flags'.connecting \/ \A k \in SignIn!Loop : ~loops'[k].current,
         row.open => row.current /\ socket' = l /\ config # 0,
         UNCHANGED config, \A k \in SignIn!Loop \ {l} : loops[k].open => socket' = k
  PROVE  LoopsRight'
<1>1. /\ loops' \in [SignIn!Loop -> SignIn!LoopRow] /\ loops'[l] = row
      /\ \A k \in SignIn!Loop : k # l => loops'[k] = loops[k]
  BY DEF SignIn!Fields
<1>2. \A k \in SignIn!Loop : loops'[k].open => loops'[k].current /\ socket' = k /\ config' # 0
  BY <1>1 DEF SignIn!OneCurrent
<1>3. \A k \in SignIn!Loop : loops'[k].current => loops[k].current
  BY <1>1
<1>4. SignIn!OneCurrent'
  BY <1>2, <1>3 DEF SignIn!OneCurrent
<1> QED
  BY <1>1, <1>4 DEF LoopsRight

\* A loop that is no longer is of no generation.
LEMMA LoopLeaves ==
  ASSUME SignIn!Fields, SignIn!OneCurrent, NEW l \in SignIn!Loop, SignIn!Leaves(l), UNCHANGED config,
         flags' \in SignIn!Flags, flags'.connecting = (flags.connecting /\ ~loops[l].current)
  PROVE  LoopsRight'
<1>1. /\ loops' = [loops EXCEPT ![l] = SignIn!NoLoop]
      /\ socket' = IF socket = l THEN 0 ELSE socket
      /\ loops \in [SignIn!Loop -> SignIn!LoopRow]
  BY DEF SignIn!Leaves, SignIn!Fields
<1>2. flags'.connecting \/ \A k \in SignIn!Loop : ~loops'[k].current
  <2> SUFFICES ASSUME ~flags'.connecting, NEW k \in SignIn!Loop PROVE ~loops'[k].current
    OBVIOUS
  <2>1. CASE k = l
    BY <1>1, <2>1, SignInNothings
  <2>2. CASE k # l
    BY <1>1, <2>2 DEF SignIn!OneCurrent
  <2> QED
    BY <2>1, <2>2
<1>3. \A k \in SignIn!Loop \ {l} : loops[k].open => socket' = k
  BY <1>1 DEF SignIn!OneCurrent
<1> QED
  BY <1>1, <1>2, <1>3, SignInNothings, LoopMoves

LEMMA LoopStep ==
  ASSUME SignIn!IInv, NEW l \in SignIn!Loop, loops[l].at # "none", LoopsRight',
         UNCHANGED <<requests, ops, overlap, saved, nodes, codes, callback, app, config>>
  PROVE  SignIn!IInv'
<1>1. app # "off"
  BY SignInNothings DEF SignIn!IInv, SignIn!OffRests
<1> QED
  BY <1>1, OutsideStep

LEMMA ConnectedStep ==
  ASSUME SignIn!IInv, NEW l \in SignIn!Loop, SignIn!Connected(l)
  PROVE  SignIn!IInv'
<1> DEFINE row == [loops[l] EXCEPT !.at = "hello"]
<1>1. /\ loops[l].at = "connect" /\ loops[l].open
      /\ loops' = [loops EXCEPT ![l] = row] /\ flags' = [flags EXCEPT !.connected = TRUE]
      /\ UNCHANGED <<requests, ops, overlap, saved, nodes, codes, callback, app, config, socket>>
      /\ SignIn!Fields /\ SignIn!OneCurrent
  BY DEF SignIn!Connected, SignIn!server, SignIn!agent, SignIn!history, SignIn!IInv
<1>2. /\ row \in SignIn!LoopRow /\ row.current = loops[l].current /\ row.open = loops[l].open
      /\ flags' \in SignIn!Flags /\ flags'.connecting = flags.connecting
  BY <1>1 DEF SignIn!Fields, SignIn!LoopRow, SignIn!Flags
<1>3. \A k \in SignIn!Loop : loops'[k].current => loops[k].current
  BY <1>1, <1>2 DEF SignIn!Fields
<1> HIDE DEF row
<1>4. LoopsRight'
  BY <1>1, <1>2, <1>3, LoopMoves DEF SignIn!OneCurrent
<1> QED
  BY <1>1, <1>4, LoopStep

LEMMA HelloStep ==
  ASSUME SignIn!IInv, NEW l \in SignIn!Loop, SignIn!Hello(l)
  PROVE  SignIn!IInv'
<1> DEFINE to == IF loops[l].open THEN "listen" ELSE "stuck"
           row == [loops[l] EXCEPT !.at = to]
<1>1. /\ loops[l].at = "hello" /\ loops' = [loops EXCEPT ![l] = row]
      /\ UNCHANGED <<requests, ops, overlap, saved, nodes, codes, callback, app, config, socket, flags>>
      /\ SignIn!Fields /\ SignIn!OneCurrent /\ flags \in SignIn!Flags
  BY DEF SignIn!Hello, SignIn!server, SignIn!agent, SignIn!history, SignIn!IInv, SignIn!Fields
<1>2. to \in {"listen", "stuck"}
  OBVIOUS
<1> HIDE DEF to
<1>3. row \in SignIn!LoopRow /\ row.current = loops[l].current /\ row.open = loops[l].open
  BY <1>1, <1>2 DEF SignIn!Fields, SignIn!LoopRow
<1>4. \A k \in SignIn!Loop : loops'[k].current => loops[k].current
  BY <1>1, <1>3 DEF SignIn!Fields
<1> HIDE DEF row
<1>5. LoopsRight'
  BY <1>1, <1>3, <1>4, LoopMoves DEF SignIn!OneCurrent
<1> QED
  BY <1>1, <1>5, LoopStep

LEMMA SocketClosesStep ==
  ASSUME SignIn!IInv, NEW l \in SignIn!Loop, SignIn!SocketCloses(l)
  PROVE  SignIn!IInv'
<1> DEFINE row == [loops[l] EXCEPT !.open = FALSE]
<1>1. /\ loops[l].at \in {"hello", "listen"} /\ loops' = [loops EXCEPT ![l] = row]
      /\ UNCHANGED <<requests, ops, overlap, saved, nodes, codes, callback, app, config, socket, flags>>
      /\ SignIn!Fields /\ SignIn!OneCurrent /\ flags \in SignIn!Flags
  BY DEF SignIn!SocketCloses, SignIn!server, SignIn!agent, SignIn!history, SignIn!IInv, SignIn!Fields
<1>2. row \in SignIn!LoopRow /\ row.current = loops[l].current /\ row.open = FALSE
  BY <1>1 DEF SignIn!Fields, SignIn!LoopRow
<1>3. \A k \in SignIn!Loop : loops'[k].current => loops[k].current
  BY <1>1, <1>2 DEF SignIn!Fields
<1> HIDE DEF row
<1>4. LoopsRight'
  BY <1>1, <1>2, <1>3, LoopMoves DEF SignIn!OneCurrent
<1> QED
  BY <1>1, <1>4, LoopStep

LEMMA IterateStep ==
  ASSUME SignIn!IInv, NEW l \in SignIn!Loop, SignIn!Iterate(l)
  PROVE  SignIn!IInv'
<1> DEFINE row == [loops[l] EXCEPT !.at = "delay", !.open = FALSE]
           going == flags.connecting /\ (SignIn!Goes(l) \/ ~loops[l].current)
<1>1. /\ loops[l].at \in {"connect", "listen"}
      /\ flags' = [flags EXCEPT !.connected = FALSE, !.connecting = going]
      /\ UNCHANGED <<requests, ops, overlap, saved, nodes, codes, callback, app, config>>
      /\ SignIn!Fields /\ SignIn!OneCurrent /\ flags \in SignIn!Flags
  BY DEF SignIn!Iterate, SignIn!server, SignIn!agent, SignIn!history, SignIn!IInv, SignIn!Fields
<1>2. going \in BOOLEAN
  OBVIOUS
<1>3. flags' \in SignIn!Flags /\ flags'.connecting = going
  <2> HIDE DEF going
  <2> QED
    BY <1>1, <1>2 DEF SignIn!Flags
<1>4. CASE SignIn!Goes(l)
  <2>1. loops' = [loops EXCEPT ![l] = row] /\ socket' = socket
    BY <1>4 DEF SignIn!Iterate
  <2>2. row \in SignIn!LoopRow /\ row.current = loops[l].current /\ row.open = FALSE
    BY <1>1 DEF SignIn!Fields, SignIn!LoopRow
  <2>3. \A k \in SignIn!Loop : loops'[k].current => loops[k].current
    BY <1>1, <2>1, <2>2 DEF SignIn!Fields
  <2>4. flags'.connecting = flags.connecting
    BY <1>1, <1>3, <1>4 DEF SignIn!Flags
  <2> HIDE DEF row
  <2>5. LoopsRight'
    BY <1>1, <1>3, <2>1, <2>2, <2>3, <2>4, LoopMoves DEF SignIn!OneCurrent
  <2> QED
    BY <1>1, <2>5, LoopStep
<1>5. CASE ~SignIn!Goes(l)
  <2>1. SignIn!Leaves(l)
    BY <1>5 DEF SignIn!Iterate
  <2>2. flags'.connecting = (flags.connecting /\ ~loops[l].current)
    BY <1>3, <1>5
  <2>3. LoopsRight'
    BY <1>1, <1>3, <2>1, <2>2, LoopLeaves
  <2> QED
    BY <1>1, <2>3, LoopStep
<1> QED
  BY <1>4, <1>5

LEMMA WakesStep ==
  ASSUME SignIn!IInv, NEW l \in SignIn!Loop, SignIn!Wakes(l)
  PROVE  SignIn!IInv'
<1>1. /\ loops[l].at = "delay"
      /\ UNCHANGED <<requests, ops, overlap, saved, nodes, codes, callback, app, config>>
      /\ SignIn!Fields /\ SignIn!OneCurrent /\ flags \in SignIn!Flags /\ config \in Nat
  BY DEF SignIn!Wakes, SignIn!server, SignIn!agent, SignIn!history, SignIn!IInv, SignIn!Fields
<1>2. CASE SignIn!Goes(l)
  <2> DEFINE row == [loops[l] EXCEPT !.at = "connect", !.open = TRUE, !.node = config]
  <2>1. loops' = [loops EXCEPT ![l] = row] /\ socket' = l /\ flags' = flags
    BY <1>2 DEF SignIn!Wakes
  <2>2. config # 0 /\ loops[l].current
    BY <1>2 DEF SignIn!Goes
  <2>3. row \in SignIn!LoopRow /\ row.current = loops[l].current
    BY <1>1 DEF SignIn!Fields, SignIn!LoopRow
  <2>4. \A k \in SignIn!Loop : loops'[k].current => loops[k].current
    BY <1>1, <2>1, <2>3 DEF SignIn!Fields
  <2>5. \A k \in SignIn!Loop \ {l} : ~loops[k].open
    BY <1>1, <2>2 DEF SignIn!OneCurrent
  <2>6. flags'.connecting \/ \A k \in SignIn!Loop : ~loops'[k].current
    BY <1>1, <2>1, <2>4 DEF SignIn!OneCurrent
  <2> HIDE DEF row
  <2>7. LoopsRight'
    BY <1>1, <2>1, <2>2, <2>3, <2>5, <2>6, LoopMoves
  <2> QED
    BY <1>1, <2>7, LoopStep
<1>3. CASE ~SignIn!Goes(l)
  <2> DEFINE going == flags.connecting /\ ~loops[l].current
  <2>1. SignIn!Leaves(l) /\ flags' = [flags EXCEPT !.connecting = going]
    BY <1>3 DEF SignIn!Wakes
  <2>2. going \in BOOLEAN
    OBVIOUS
  <2>3. flags' \in SignIn!Flags /\ flags'.connecting = going
    <3> HIDE DEF going
    <3> QED
      BY <1>1, <2>1, <2>2 DEF SignIn!Flags
  <2>4. LoopsRight'
    BY <1>1, <2>1, <2>3, LoopLeaves
  <2> QED
    BY <1>1, <2>4, LoopStep
<1> QED
  BY <1>2, <1>3
-----------------------------------------------------------------------------
LEMMA SignInStarts == SignIn!Init => SignIn!IInv
<1> SUFFICES ASSUME SignIn!Init PROVE SignIn!IInv
  OBVIOUS
<1>1. /\ requests = 0 /\ codes = [c \in SignIn!Code |-> SignIn!NoCode] /\ nodes = <<>>
      /\ app = "off" /\ callback = 0 /\ config = 0 /\ saved = 0
      /\ loops = [l \in SignIn!Loop |-> SignIn!NoLoop]
      /\ flags = [connecting |-> FALSE, stopped |-> FALSE, connected |-> FALSE]
      /\ ops = [o \in Process |-> SignIn!NoOp] /\ overlap = FALSE
  BY DEF SignIn!Init
<1>2. flags \in SignIn!Flags /\ flags.connecting = FALSE
  BY <1>1 DEF SignIn!Flags
<1>3. SignIn!Fields
  <2>1. nodes \in Seq(SignIn!Code)
    BY <1>1
  <2>2. /\ codes \in [SignIn!Code -> SignIn!CodeRow] /\ loops \in [SignIn!Loop -> SignIn!LoopRow]
        /\ ops \in [Process -> SignIn!OpRow]
    BY <1>1, SignInNothings
  <2> QED
    BY <1>1, <1>2, <2>1, <2>2 DEF SignIn!Fields
<1>4. \A o \in Process : SignIn!OpRight(o)
  BY <1>1, SignInNothings DEF SignIn!OpRight
<1>5. SignIn!OneNodePerCode /\ SignIn!UsedCodes
  BY <1>1 DEF SignIn!OneNodePerCode, SignIn!UsedCodes
<1>6. SignIn!OffRests /\ SignIn!OneCurrent
  BY <1>1, <1>2, SignInNothings DEF SignIn!OffRests, SignIn!OneCurrent
<1>7. SignIn!SavedOrUnderWay
  BY <1>1, SignInNothings DEF SignIn!SavedOrUnderWay, SignIn!Busy, SignIn!Taking, SignIn!GivingUp
<1> QED
  BY <1>3, <1>4, <1>5, <1>6, <1>7 DEF SignIn!IInv

LEMMA SignInSteps ==
  ASSUME SignIn!IInv, [SignIn!Next]_(SignIn!vars)
  PROVE  SignIn!IInv'
<1>1. CASE UNCHANGED SignIn!vars
  <2>1. UNCHANGED <<requests, codes, nodes, app, callback, config, saved, loops, socket, flags, ops, overlap>>
    BY <1>1 DEF SignIn!vars, SignIn!server, SignIn!agent, SignIn!wire, SignIn!history
  <2>2. SignIn!Fields' /\ SignIn!OneNodePerCode' /\ SignIn!UsedCodes'
    BY <2>1 DEF SignIn!IInv, SignIn!Fields, SignIn!OneNodePerCode, SignIn!UsedCodes
  <2>3. (\A p \in Process : SignIn!OpRight(p)') /\ SignIn!OffRests' /\ SignIn!OneCurrent'
    BY <2>1 DEF SignIn!IInv, SignIn!OpRight, SignIn!OffRests, SignIn!OneCurrent
  <2>4. SignIn!SavedOrUnderWay'
    BY <2>1 DEF SignIn!IInv, SignIn!SavedOrUnderWay, SignIn!Busy, SignIn!Taking, SignIn!GivingUp
  <2> QED
    BY <2>2, <2>3, <2>4 DEF SignIn!IInv
<1>2. CASE SignIn!Next
  <2>1. ASSUME NEW expired \in BOOLEAN, SignIn!Launch(expired) PROVE SignIn!IInv'
    BY <2>1, LaunchStep
  <2>2. ASSUME SignIn!Ready \/ SignIn!Quit PROVE SignIn!IInv'
    BY <2>2, ReadyStep, QuitStep
  <2>3. ASSUME NEW o \in Process,
               \/ SignIn!CheckCallback(o) \/ SignIn!BeginLogin(o) \/ SignIn!RequestSigned(o)
               \/ SignIn!KeepPending(o) \/ SignIn!Matches(o) \/ SignIn!Exchange(o) \/ SignIn!Adopt(o)
               \/ SignIn!Save(o) \/ SignIn!Adopted(o) \/ SignIn!BeginUnpair(o) \/ SignIn!Drop(o)
               \/ SignIn!Unlink(o) \/ SignIn!Erase(o)
        PROVE  SignIn!IInv'
    BY <2>3, CheckCallbackStep, BeginLoginStep, RequestSignedStep, KeepPendingStep, MatchesStep, ExchangeStep,
       AdoptStep, SaveStep, AdoptedStep, BeginUnpairStep, DropStep, UnlinkStep, EraseStep
  <2>4. ASSUME NEW o \in Process, SignIn!LoginFails(o) \/ SignIn!AnswerLost(o) \/ SignIn!SaveFails(o)
        PROVE  SignIn!IInv'
    BY <2>4, RefusedStep, BreaksStep DEF SignIn!LoginFails, SignIn!AnswerLost, SignIn!SaveFails
  <2>5. ASSUME NEW o \in Process, NEW c \in SignIn!Code,
               SignIn!CallbackArrives(o, c) \/ SignIn!BeginPair(o, c)
        PROVE  SignIn!IInv'
    BY <2>5, CallbackArrivesStep, BeginPairStep
  <2>6. ASSUME NEW o \in Process, NEW ok \in BOOLEAN, SignIn!RevokePrevious(o, ok) \/ SignIn!Revoke(o, ok)
        PROVE  SignIn!IInv'
    BY <2>6, RevokePreviousStep, RevokeStep
  <2>7. ASSUME NEW r \in 0..requests, SignIn!Authorize(r) PROVE SignIn!IInv'
    BY <2>7, AuthorizeStep
  <2>8. ASSUME NEW c \in SignIn!Code, SignIn!Expires(c) PROVE SignIn!IInv'
    BY <2>8, ExpiresStep
  <2>9. ASSUME NEW l \in SignIn!Loop,
               \/ SignIn!Connected(l) \/ SignIn!Hello(l) \/ SignIn!SocketCloses(l)
               \/ SignIn!Iterate(l) \/ SignIn!Wakes(l)
        PROVE  SignIn!IInv'
    BY <2>9, ConnectedStep, HelloStep, SocketClosesStep, IterateStep, WakesStep
  <2> QED
    BY <1>2, <2>1, <2>2, <2>3, <2>4, <2>5, <2>6, <2>7, <2>8, <2>9 DEF SignIn!Next
<1> QED
  BY <1>1, <1>2

LEMMA SignInInvariant == MCSpec => [](Only("sign in") => SignIn!IInv)
<1>1. MCInit => (Only("sign in") => SignIn!IInv)
  BY SignInStarts DEF MCInit, Only
<1>2. (Only("sign in") => SignIn!IInv) /\ [MCNext]_<<which, vars, Others>>
      => (Only("sign in") => SignIn!IInv)'
  <2> SUFFICES ASSUME Only("sign in") => SignIn!IInv, [MCNext]_<<which, vars, Others>>,
                      Only("sign in")'
               PROVE  SignIn!IInv'
    OBVIOUS
  <2>1. Only("sign in")
    BY DEF MCNext, Only
  <2>2. [SignIn!Next]_(SignIn!vars)
    BY <2>1 DEF MCNext, Only, Others, SignIn!vars, SignIn!server, SignIn!agent, SignIn!wire, SignIn!history
  <2> QED
    BY <2>1, <2>2, SignInSteps
<1> QED
  BY <1>1, <1>2, PTL DEF MCSpec

(* However logins, pairings, unpairings, reconnects and quits interleave,  *)
(* the node answers on one connection at most, and on none without a       *)
(* credential; a code makes one node, however often its callback comes;    *)
(* and as long as operations come one after the other and none fails half  *)
(* way, what the app goes on with after a restart is the node it has.      *)
THEOREM SignsInOnce == MCSpec => []SignInHolds
<1>1. SignIn!IInv => SignIn!SignInHolds
  <2> SUFFICES ASSUME SignIn!IInv PROVE SignIn!SignInHolds
    OBVIOUS
  <2>1. SignIn!OneConnection
    BY DEF SignIn!IInv, SignIn!OneConnection, SignIn!OneCurrent, SignIn!Answers
  <2>2. SignIn!RestartKeepsNode
    <3> SUFFICES ASSUME ~overlap, SignIn!Busy = {}, app # "off" PROVE saved = config
      BY DEF SignIn!RestartKeepsNode
    <3>1. \A o \in Process : ops[o].op = "none" /\ ops[o].at = "idle"
      BY DEF SignIn!IInv, SignIn!Busy, SignIn!OpRight
    <3> QED
      BY <3>1 DEF SignIn!IInv, SignIn!SavedOrUnderWay, SignIn!Taking, SignIn!GivingUp
  <2> QED
    BY <2>1, <2>2 DEF SignIn!SignInHolds, SignIn!IInv
<1>2. (Only("sign in") => SignIn!IInv) => SignInHolds
  BY <1>1 DEF SignInHolds
<1> QED
  BY <1>2, SignInInvariant, PTL
=============================================================================
