------------------------------ MODULE NodeSignIn ------------------------------
(***************************************************************************)
(* How a Mac becomes a node of Browser Pilot and stays connected: the codes *)
(* and credentials of backend/app/browser_lite.py, and the app's side of it *)
(* in node-agent.mjs and main.mjs (services/browser-lite-app/src).          *)
(*                                                                         *)
(* A login asks the backend for a request, the user authorizes it in a     *)
(* browser, and a callback with a one-time code comes back to the app,     *)
(* which exchanges it for a credential; a pairing code is typed in.  The   *)
(* app's operations and its connect loops are asynchronous functions that  *)
(* share the agent's fields: each piece between two awaits is a step.      *)
(*                                                                         *)
(* Abstracted: encryption, the texts of the status line, the rate limit,   *)
(* the expiry of a request while the app runs, and what the connection     *)
(* carries (NodeCommands).                                                 *)
(***************************************************************************)
EXTENDS Naturals, Sequences, FiniteSets

CONSTANTS
  Op,          \* operations of the app under way at once
  MaxRequest,  \* login requests there ever are
  MaxCode,     \* codes there ever are
  MaxLoop,     \* connect loops at once
  MaxRun       \* operations the app ever runs

Code == 1..MaxCode
Loop == 1..MaxLoop
Pairing == 0  \* in the place of a request: a pairing code

VARIABLES
  requests,  \* how many login requests the backend has signed
  codes,     \* browser_lite_pairing_codes: the request and state of each code
  nodes,     \* browser_lite_nodes: the code each node was made from
  valid,     \* nodes whose token_hash is still that of the credential given out
  app,       \* where the app's bootstrap is
  callback,  \* main.mjs: pendingAuthCallback
  config,    \* the agent's config (its node), 0 without one
  saved,     \* node-config.json
  pending,   \* the agent's pendingAuth (its request), 0 without one
  pendingSaved, \* browser-pilot-login.json
  loops,     \* connectLoop's calls
  socket,    \* the loop whose WebSocket is the agent's socket
  flags,     \* the agent's connecting, stopped and connected
  ops,       \* the app's operations
  runs,      \* history: how many operations there were
  overlap    \* history: two operations overlapped, or one failed half way

server  == <<requests, codes, nodes, valid>>
agent   == <<config, saved, pending, pendingSaved>>
wire    == <<loops, socket, flags>>
history == <<runs, overlap>>
vars    == <<server, app, callback, agent, wire, ops, history>>
-----------------------------------------------------------------------------
NoOp   == [op |-> "none", at |-> "idle", request |-> 0, code |-> 0, node |-> 0, previous |-> 0, boot |-> FALSE]
NoLoop == [at |-> "none", current |-> FALSE, open |-> FALSE, node |-> 0]
NoCode == [request |-> 0, state |-> "none"]

TypeOK ==
  /\ requests \in 0..MaxRequest
  /\ codes \in [Code -> [request : 0..MaxRequest, state : {"none", "fresh", "used", "expired"}]]
  /\ nodes \in Seq(Code) /\ valid \subseteq DOMAIN nodes
  /\ app \in {"off", "starting", "booting", "shown", "ready"}
  /\ callback \in 0..MaxCode
  /\ {config, saved} \subseteq 0..Len(nodes)
  /\ {pending, pendingSaved} \subseteq 0..requests
  /\ loops \in [Loop -> [at : {"none", "connect", "hello", "listen", "stuck", "delay"},
                         current : BOOLEAN, open : BOOLEAN, node : 0..Len(nodes)]]
  /\ socket \in 0..MaxLoop
  /\ flags \in [connecting : BOOLEAN, stopped : BOOLEAN, connected : BOOLEAN]
  /\ ops \in [Op -> [op : {"none", "login", "complete", "pair", "unpair"},
                     at : {"idle", "request", "keep", "match", "exchange", "adopt", "save", "unlink", "revoke",
                            "drop", "erase"},
                     request : 0..requests, code : 0..MaxCode, node : 0..Len(nodes), previous : 0..Len(nodes),
                     boot : BOOLEAN]]
  /\ runs \in 0..MaxRun /\ overlap \in BOOLEAN

Init ==
  /\ requests = 0 /\ codes = [c \in Code |-> NoCode] /\ nodes = <<>> /\ valid = {}
  /\ app = "off" /\ callback = 0
  /\ config = 0 /\ saved = 0 /\ pending = 0 /\ pendingSaved = 0
  /\ loops = [l \in Loop |-> NoLoop] /\ socket = 0
  /\ flags = [connecting |-> FALSE, stopped |-> FALSE, connected |-> FALSE]
  /\ ops = [o \in Op |-> NoOp]
  /\ runs = 0 /\ overlap = FALSE
-----------------------------------------------------------------------------
Busy == {o \in Op : ops[o].op # "none"}
Goto(o, at) == ops' = [ops EXCEPT ![o].at = at]
Done(o) == ops' = [ops EXCEPT ![o] = NoOp]

\* disconnect.
Hangup ==
  /\ loops' = [l \in Loop |-> [loops[l] EXCEPT !.current = FALSE, !.open = @ /\ l # socket]]
  /\ socket' = 0
  /\ flags' = [connecting |-> FALSE, stopped |-> TRUE, connected |-> FALSE]

\* connectLoop, up to its first await, for the node n.
Dial(n) ==
  LET l == CHOOSE k \in Loop : loops[k].at = "none" IN
  IF flags.connecting \/ n = 0
  THEN flags' = [flags EXCEPT !.stopped = FALSE] /\ UNCHANGED <<loops, socket>>
  ELSE /\ \E k \in Loop : loops[k].at = "none"
       /\ loops' = [loops EXCEPT ![l] = [at |-> "connect", current |-> TRUE, open |-> TRUE, node |-> n]]
       /\ socket' = l
       /\ flags' = [flags EXCEPT !.connecting = TRUE, !.stopped = FALSE]
-----------------------------------------------------------------------------
\* An operation begins; one of the bootstrap ends it when it fails.
Begin(o, op, at, code, node, boot) ==
  /\ runs < MaxRun /\ runs' = runs + 1
  /\ ops[o].op = "none"
  /\ ops' = [ops EXCEPT ![o] = [NoOp EXCEPT !.op = op, !.at = at, !.code = code, !.node = node,
                                           !.boot = boot]]
  /\ overlap' = (overlap \/ Busy # {})

Off ==
  /\ app' = "off" /\ callback' = 0 /\ config' = 0 /\ pending' = 0 /\ socket' = 0
  /\ loops' = [l \in Loop |-> NoLoop]
  /\ flags' = [connecting |-> FALSE, stopped |-> FALSE, connected |-> FALSE]
  /\ ops' = [o \in Op |-> NoOp]

\* An operation throws: the app's bootstrap ends the app with it.
Throws(o) ==
  IF ops[o].boot THEN Off
  ELSE Done(o) /\ UNCHANGED <<app, callback, config, pending, wire>>

Succeeds(o) ==
  /\ Done(o)
  /\ app' = IF ops[o].boot THEN "shown" ELSE app

\* Fails before it has changed anything.
Refused(o) == Throws(o) /\ UNCHANGED <<server, saved, pendingSaved, history>>

\* Fails half way.
Breaks(o) ==
  /\ Throws(o)
  /\ overlap' = TRUE
  /\ UNCHANGED <<server, saved, pendingSaved, runs>>
-----------------------------------------------------------------------------
\* load: the saved node, or without one the login that waits for its callback.
Launch(expired) ==
  /\ app = "off"
  /\ app' = "starting"
  /\ config' = saved
  /\ IF saved # 0 THEN UNCHANGED <<pending, pendingSaved>>
     ELSE IF expired THEN pending' = 0 /\ pendingSaved' = 0
     ELSE pending' = pendingSaved /\ UNCHANGED pendingSaved
  /\ Dial(saved)
  /\ UNCHANGED <<server, callback, saved, ops, history>>

\* bootstrap, after the agent was started.
CheckCallback(o) ==
  /\ app = "starting"
  /\ IF callback = 0 THEN app' = "shown" /\ UNCHANGED <<callback, ops, history>>
     ELSE /\ Begin(o, "complete", "match", callback, 0, TRUE)
          /\ app' = "booting" /\ callback' = 0
  /\ UNCHANGED <<server, agent, wire>>

Ready ==
  /\ app = "shown"
  /\ app' = "ready"
  /\ UNCHANGED <<server, callback, agent, wire, ops, history>>

\* before-quit, or the end of the process.
Quit ==
  /\ app # "off"
  /\ Off
  /\ overlap' = (overlap \/ Busy # {})
  /\ UNCHANGED <<server, saved, pendingSaved, runs>>
-----------------------------------------------------------------------------
BeginLogin(o) ==
  /\ app = "ready"
  /\ Begin(o, "login", "request", 0, 0, FALSE)
  /\ UNCHANGED <<server, app, callback, agent, wire>>

\* create_auth_request answers.
RequestSigned(o) ==
  /\ ops[o].at = "request"
  /\ requests < MaxRequest
  /\ requests' = requests + 1
  /\ pending' = requests + 1
  /\ ops' = [ops EXCEPT ![o].at = "keep", ![o].request = requests + 1]
  /\ UNCHANGED <<codes, nodes, valid, app, callback, config, saved, pendingSaved, wire, history>>

\* savePendingAuth.
KeepPending(o) ==
  /\ ops[o].at = "keep"
  /\ pendingSaved' = ops[o].request
  /\ Done(o)
  /\ UNCHANGED <<server, app, callback, config, saved, pending, wire, history>>

LoginFails(o) == ops[o].at \in {"request", "keep"} /\ Refused(o)

\* authorize_auth_request, as often as the user asks; create_pairing_code.
Authorize(r) ==
  /\ \E c \in Code :
       /\ codes[c] = NoCode /\ \A d \in 1..(c - 1) : codes[d] # NoCode
       /\ codes' = [codes EXCEPT ![c] = [request |-> r, state |-> "fresh"]]
  /\ UNCHANGED <<requests, nodes, valid, app, callback, agent, wire, ops, history>>

Expires(c) ==
  /\ codes[c].state = "fresh"
  /\ codes' = [codes EXCEPT ![c].state = "expired"]
  /\ UNCHANGED <<requests, nodes, valid, app, callback, agent, wire, ops, history>>

\* receiveAuthCallback: the system hands the app a callback, now or again.
CallbackArrives(o, c) ==
  /\ app # "off" /\ codes[c] # NoCode /\ codes[c].request # Pairing
  /\ IF app = "ready" THEN Begin(o, "complete", "match", c, 0, FALSE) /\ UNCHANGED callback
     ELSE callback' = c /\ UNCHANGED <<ops, history>>
  /\ UNCHANGED <<server, app, agent, wire>>

\* The login that waits for its callback, from the file after a restart.
Waiting == IF pending # 0 THEN pending ELSE pendingSaved

\* completeLogin takes its callback for the login that waits, or refuses it.
Matches(o) ==
  /\ ops[o].at = "match"
  /\ IF Waiting = codes[ops[o].code].request
     THEN Goto(o, "exchange") /\ UNCHANGED <<server, app, callback, agent, wire, history>>
     ELSE Refused(o)

BeginPair(o, c) ==
  /\ app = "ready" /\ codes[c] # NoCode /\ codes[c].request = Pairing
  /\ Begin(o, "pair", "exchange", c, 0, FALSE)
  /\ UNCHANGED <<server, app, callback, agent, wire>>

Used(c) == [codes EXCEPT ![c].state = "used"]

\* exchange_auth_code, pair_node: one transaction over the row of the code.
Exchange(o) ==
  LET c == ops[o].code IN
  /\ ops[o].at = "exchange"
  /\ IF codes[c].state # "fresh" THEN Refused(o)
     ELSE /\ codes' = Used(c)
          /\ nodes' = Append(nodes, c) /\ valid' = valid \cup {Len(nodes) + 1}
          /\ ops' = [ops EXCEPT ![o].at = "adopt", ![o].node = Len(nodes) + 1]
          /\ UNCHANGED <<requests, app, callback, agent, wire, history>>

\* The answer does not reach the app.
AnswerLost(o) ==
  /\ ops[o].at = "adopt"
  /\ Breaks(o)

Adopt(o) ==
  /\ ops[o].at = "adopt"
  /\ config' = ops[o].node
  /\ Hangup
  /\ ops' = [ops EXCEPT ![o].at = "save",
                        ![o].previous = IF ops[o].op = "complete" THEN config ELSE 0]
  /\ UNCHANGED <<server, app, callback, saved, pending, pendingSaved, history>>

\* saveConfig.
Save(o) ==
  /\ ops[o].at = "save"
  /\ saved' = ops[o].node
  /\ pending' = 0
  /\ Goto(o, "unlink")
  /\ UNCHANGED <<server, app, callback, config, pendingSaved, wire, history>>

SaveFails(o) == ops[o].at = "save" /\ Breaks(o)

\* clearPendingAuth has removed the file; connectLoop.
Adopted(o) ==
  /\ ops[o].op \in {"complete", "pair"} /\ ops[o].at = "unlink"
  /\ pendingSaved' = 0
  /\ Dial(config)
  /\ IF ops[o].previous = 0 THEN Succeeds(o)
     ELSE ops' = [ops EXCEPT ![o].at = "revoke"] /\ UNCHANGED app
  /\ UNCHANGED <<server, callback, config, saved, pending, history>>

\* The predecessor's credential is given up; nothing waits for that.
RevokePrevious(o, ok) ==
  /\ ops[o].op \in {"complete", "pair"} /\ ops[o].at = "revoke"
  /\ valid' = IF ok THEN valid \ {ops[o].previous} ELSE valid
  /\ Succeeds(o)
  /\ UNCHANGED <<requests, codes, nodes, callback, agent, wire, history>>
-----------------------------------------------------------------------------
BeginUnpair(o) ==
  /\ app = "ready"
  /\ Begin(o, "unpair", IF config = 0 THEN "drop" ELSE "revoke", 0, config, FALSE)
  /\ UNCHANGED <<server, app, callback, agent, wire>>

\* disconnect_node; a failure of it is ignored.
Revoke(o, ok) ==
  /\ ops[o].op = "unpair" /\ ops[o].at = "revoke"
  /\ valid' = IF ok THEN valid \ {ops[o].node} ELSE valid
  /\ Goto(o, "drop")
  /\ UNCHANGED <<requests, codes, nodes, app, callback, agent, wire, history>>

Drop(o) ==
  /\ ops[o].at = "drop"
  /\ Hangup
  /\ config' = 0 /\ pending' = 0
  /\ Goto(o, "unlink")
  /\ UNCHANGED <<server, app, callback, saved, pendingSaved, history>>

Unlink(o) ==
  /\ ops[o].op = "unpair" /\ ops[o].at = "unlink"
  /\ pendingSaved' = 0
  /\ Goto(o, "erase")
  /\ UNCHANGED <<server, app, callback, config, saved, pending, wire, history>>

Erased == 0

Erase(o) ==
  /\ ops[o].at = "erase"
  /\ saved' = Erased
  /\ Done(o)
  /\ UNCHANGED <<server, app, callback, config, pending, pendingSaved, wire, history>>
-----------------------------------------------------------------------------
\* connectOnce: the WebSocket opens and the backend accepts the credential.
Connected(l) ==
  /\ loops[l].at = "connect" /\ loops[l].open /\ loops[l].node \in valid
  /\ loops' = [loops EXCEPT ![l].at = "hello"]
  /\ flags' = [flags EXCEPT !.connected = TRUE]
  /\ UNCHANGED <<server, app, callback, agent, socket, ops, history>>

\* The hello is sent.  A socket that has closed meanwhile is waited for for ever.
Hello(l) ==
  /\ loops[l].at = "hello"
  /\ loops' = [loops EXCEPT ![l].at = IF loops[l].open THEN "listen" ELSE "stuck"]
  /\ UNCHANGED <<server, app, callback, agent, socket, flags, ops, history>>

SocketCloses(l) ==
  /\ loops[l].open /\ loops[l].at \in {"hello", "listen"}
  /\ loops' = [loops EXCEPT ![l].open = FALSE]
  /\ UNCHANGED <<server, app, callback, agent, socket, flags, ops, history>>

\* Mutant of Goes: a loop does not look at the generation.
GoesAnyGeneration(l) == ~flags.stopped /\ config # 0

\* The condition of connectLoop's loop.
Goes(l) == ~flags.stopped /\ config # 0 /\ loops[l].current

Leaves(l) ==
  /\ loops' = [loops EXCEPT ![l] = NoLoop]
  /\ socket' = IF socket = l THEN 0 ELSE socket

\* connectOnce has thrown or its socket has closed.
Iterate(l) ==
  /\ \/ loops[l].at = "connect"
     \/ loops[l].at = "listen" /\ ~loops[l].open
  /\ flags' = [flags EXCEPT !.connected = FALSE, !.connecting = @ /\ (Goes(l) \/ ~loops[l].current)]
  /\ IF Goes(l)
     THEN loops' = [loops EXCEPT ![l].at = "delay", ![l].open = FALSE] /\ UNCHANGED socket
     ELSE Leaves(l)
  /\ UNCHANGED <<server, app, callback, agent, ops, history>>

Wakes(l) ==
  /\ loops[l].at = "delay"
  /\ IF Goes(l)
     THEN /\ loops' = [loops EXCEPT ![l].at = "connect", ![l].open = TRUE, ![l].node = config]
          /\ socket' = l
          /\ UNCHANGED flags
     ELSE /\ Leaves(l)
          /\ flags' = [flags EXCEPT !.connecting = @ /\ ~loops[l].current]
  /\ UNCHANGED <<server, app, callback, agent, ops, history>>
-----------------------------------------------------------------------------
Next ==
  \/ \E expired \in BOOLEAN : Launch(expired)
  \/ Ready \/ Quit
  \/ \E o \in Op :
       \/ CheckCallback(o) \/ BeginLogin(o) \/ RequestSigned(o) \/ KeepPending(o) \/ LoginFails(o)
       \/ Matches(o) \/ Exchange(o) \/ AnswerLost(o) \/ Adopt(o) \/ Save(o) \/ SaveFails(o)
       \/ Adopted(o) \/ BeginUnpair(o) \/ Drop(o) \/ Unlink(o) \/ Erase(o)
       \/ \E c \in Code : CallbackArrives(o, c) \/ BeginPair(o, c)
       \/ \E ok \in BOOLEAN : RevokePrevious(o, ok) \/ Revoke(o, ok)
  \/ \E r \in 0..requests : Authorize(r)
  \/ \E c \in Code : Expires(c)
  \/ \E l \in Loop : Connected(l) \/ Hello(l) \/ SocketCloses(l) \/ Iterate(l) \/ Wakes(l)

Spec == Init /\ [][Next]_vars
-----------------------------------------------------------------------------
Answers(l) == loops[l].at \in {"hello", "listen"} /\ loops[l].open

(* However logins, pairings, unpairings and reconnects interleave, the     *)
(* node answers on one connection at most, and on none without a           *)
(* credential.                                                             *)
OneConnection ==
  /\ \A k, l \in Loop : Answers(k) /\ Answers(l) => k = l
  /\ config = 0 => \A l \in Loop : ~Answers(l)

(* A code makes one node, however often its callback comes and however     *)
(* many operations exchange it.                                            *)
OneNodePerCode == \A i, j \in DOMAIN nodes : nodes[i] = nodes[j] => i = j

(* Operations one after the other: what the app goes on with after a       *)
(* restart is the node it has, and after an unpairing none.                *)
RestartKeepsNode == ~overlap /\ Busy = {} /\ app # "off" => saved = config

(* What holds of a node's credential, its codes and its connections.       *)
SignInHolds == OneConnection /\ OneNodePerCode /\ RestartKeepsNode
-----------------------------------------------------------------------------
(* The inductive invariant: what of the types its steps need, where an      *)
(* operation of each kind can be, that one loop at most is of the present  *)
(* generation, which alone has a socket that is open, and what an operation *)
(* under way has done to the saved node, as long as it is the only one.    *)

CodeRow == [request : Nat, state : {"none", "fresh", "used", "expired"}]
LoopRow == [at : {"none", "connect", "hello", "listen", "stuck", "delay"},
            current : BOOLEAN, open : BOOLEAN, node : Nat]
Flags   == [connecting : BOOLEAN, stopped : BOOLEAN, connected : BOOLEAN]
OpRow   == [op : {"none", "login", "complete", "pair", "unpair"},
            at : {"idle", "request", "keep", "match", "exchange", "adopt", "save", "unlink", "revoke",
                  "drop", "erase"},
            request : Nat, code : Nat, node : Nat, previous : Nat, boot : BOOLEAN]

Fields ==
  /\ requests \in Nat /\ codes \in [Code -> CodeRow] /\ nodes \in Seq(Code)
  /\ callback \in Code \cup {0} /\ config \in Nat /\ saved \in Nat
  /\ loops \in [Loop -> LoopRow] /\ flags \in Flags /\ ops \in [Op -> OpRow]
  /\ overlap \in BOOLEAN

OpRight(o) ==
  LET x == ops[o] IN
  /\ x.op = "none" <=> x.at = "idle"
  /\ x.at \in {"request", "keep"} => x.op = "login"
  /\ x.at \in {"match", "exchange", "adopt", "save"} => x.op \in {"complete", "pair"}
  /\ x.at \in {"drop", "erase"} => x.op = "unpair"
  /\ x.at \in {"match", "exchange"} => x.code \in Code

UsedCodes == \A i \in DOMAIN nodes : codes[nodes[i]].state = "used"

OffRests ==
  app = "off" => /\ \A o \in Op : ops[o] = NoOp
                 /\ \A l \in Loop : loops[l] = NoLoop
                 /\ ~flags.connecting

OneCurrent ==
  /\ \A l \in Loop : loops[l].open => loops[l].current /\ socket = l /\ config # 0
  /\ \A l \in Loop : loops[l].current => flags.connecting
  /\ \A k, l \in Loop : loops[k].current /\ loops[l].current => k = l

Taking(o)   == ops[o].at = "save"
GivingUp(o) == ops[o].op = "unpair" /\ ops[o].at \in {"unlink", "erase"}

\* The node that is saved is the one the app has, unless the one operation under
\* way has just taken another or given it up.
SavedOrUnderWay ==
  ~overlap =>
    /\ \A o, p \in Busy : o = p
    /\ \A o \in Op : (Taking(o) => config = ops[o].node) /\ (GivingUp(o) => config = 0)
    /\ app = "off" \/ saved = config \/ \E o \in Op : Taking(o) \/ GivingUp(o)

IInv ==
  /\ Fields /\ \A o \in Op : OpRight(o)
  /\ OneNodePerCode /\ UsedCodes /\ OffRests /\ OneCurrent /\ SavedOrUnderWay
=============================================================================
