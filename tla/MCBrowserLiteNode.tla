------------------------- MODULE MCBrowserLiteNode --------------------------
(***************************************************************************)
(* Browser Lite on the user's machine: the commands a node executes        *)
(* (NodeCommands), the way it signs in (NodeSignIn) and the data of its    *)
(* instances (Installation). They are checked one at a time: "which" says  *)
(* which of them moves; the first rests in its initial state when it does  *)
(* not, the variables of the others are off.                               *)
(***************************************************************************)
EXTENDS NodeCommands, TLC

CONSTANTS p1, p2, k1, k2, c1, i1, i2, MaxRequest, MaxCode, MaxLoop, MaxRun,
          Instance, NoInstance, MaxStop

VARIABLES which, requests, codes, nodes, valid, app, callback, config, saved,
          pending, pendingSaved, loops, socket, flags, ops, runs, overlap,
          mode, file, seed, data, user, todo, ensure, running, stops, trouble

SignIn == INSTANCE NodeSignIn WITH Op <- Process
Install == INSTANCE Installation WITH Caller <- Process

ASSUME StopsBounded == MaxStop \in Nat

Only(tag) == which = tag
Off == "off"

NotSignIn == <<mode, file, seed, data, user, todo, ensure, running, stops,
               trouble>>
NotInstall == <<requests, codes, nodes, valid, app, callback, config, saved,
                pending, pendingSaved, loops, socket, flags, ops, runs,
                overlap>>
Others == <<requests, codes, nodes, valid, app, callback, config, saved,
            pending, pendingSaved, loops, socket, flags, ops, runs, overlap,
            mode, file, seed, data, user, todo, ensure, running, stops,
            trouble>>

MCInit ==
  \/ /\ Only("commands") /\ Init
     /\ requests = Off /\ codes = Off /\ nodes = Off /\ valid = Off /\
        app = Off /\ callback = Off /\ config = Off /\ saved = Off /\
        pending = Off /\ pendingSaved = Off /\ loops = Off /\ socket = Off /\
        flags = Off /\ ops = Off /\ runs = Off /\ overlap = Off /\
        mode = Off /\ file = Off /\ seed = Off /\ data = Off /\ user = Off /\
        todo = Off /\ ensure = Off /\ running = Off /\ stops = Off /\
        trouble = Off
  \/ /\ Only("sign in") /\ SignIn!Init /\ Init
     /\ mode = Off /\ file = Off /\ seed = Off /\ data = Off /\ user = Off /\
        todo = Off /\ ensure = Off /\ running = Off /\ stops = Off /\
        trouble = Off
  \/ /\ Only("installation") /\ Install!Init /\ Init
     /\ requests = Off /\ codes = Off /\ nodes = Off /\ valid = Off /\
        app = Off /\ callback = Off /\ config = Off /\ saved = Off /\
        pending = Off /\ pendingSaved = Off /\ loops = Off /\ socket = Off /\
        flags = Off /\ ops = Off /\ runs = Off /\ overlap = Off

MCNext ==
  \/ Only("commands") /\ Next /\ UNCHANGED <<which, Others>>
  \/ Only("sign in") /\ SignIn!Next /\ UNCHANGED <<which, vars, NotSignIn>>
  \/ Only("installation") /\ Install!Next /\ UNCHANGED <<which, vars, NotInstall>>

MCSpec == MCInit /\ [][MCNext]_<<which, vars, Others>>
-----------------------------------------------------------------------------
\* NodeSignIn: one connection, one node a code, the same node after a restart.
SignInHolds == Only("sign in") => SignIn!SignInHolds

\* Installation: what is on the disk belongs to the installation of this
\* launch.
InstallHolds == Only("installation") => Install!InstallHolds

\* Bound of the run: a pump dies while its connection is the only one.
Bounded ==
  Only("commands") /\ (\E k \in Conn : PumpAt(k, "dead")) =>
    Cardinality({k \in Conn : conn[k].server # "unused"}) < 2

Symmetry == Permutations(Process) \cup Permutations(Conn) \cup Permutations(Instance)
=============================================================================
