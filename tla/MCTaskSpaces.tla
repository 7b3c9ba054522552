---------------------------- MODULE MCTaskSpaces ----------------------------
(* Instances of TaskSpaces for TLC.                                         *)
EXTENDS TaskSpaces, TLC

CONSTANT a1

\* Bound of the run: two at a time of the operation on a space, the creation of
\* a space and the write of the file.
Bounded ==
  (IF op # NoOp THEN 1 ELSE 0) + (IF making.at # "none" THEN 1 ELSE 0) + Len(writes) <= 2
=============================================================================
