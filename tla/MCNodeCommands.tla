--------------------------- MODULE MCNodeCommands ---------------------------
(* Instances of NodeCommands for TLC.                                       *)
EXTENDS NodeCommands, TLC

CONSTANTS p1, p2, k1, k2, k3, c1, c2

\* Processes, connections and commands are interchangeable.
Symmetry == Permutations(Process) \cup Permutations(Conn) \cup Permutations(Command)
=============================================================================
