------------------------- MODULE TaskSpaces_proofs -------------------------
(***************************************************************************)
(* Proofs about TaskSpaces, for any number of agents, spaces and waiting   *)
(* snapshots: the flag and the ownership agree, an agent drives its own    *)
(* space only, numbers are new, the user keeps the control that the user   *)
(* has been told of, and the file is complete once everything is written.  *)
(***************************************************************************)
EXTENDS TaskSpaces, TLAPS

LEMMA NoneType == None \notin Id /\ Id \subseteq Nat
  BY DEF None, Id

LEMMA NoSpaceType == NoSpace \in Space
  BY DEF NoSpace, Space, Ownership, Status

LEMMA InitSInv == Init => SInv
<1> SUFFICES ASSUME Init PROVE SInv
  OBVIOUS
<1> USE SpaceBoundAssumption DEF Init
<1>1. space \in [Id -> Space] /\ selected \in Selections
  BY NoSpaceType DEF Selections
<1>2. file \in File
  BY <1>1 DEF File
<1>3. writes \in Seq(Snapshot) /\ making \in Making /\ next \in 1 .. MaxId + 1
  BY DEF NotMaking, Making
<1>4. TypeOK
  BY <1>1, <1>2, <1>3 DEF TypeOK
<1>5. FlagMatchesOwnership
  BY DEF FlagMatchesOwnership, Agrees, NoSpace
<1>6. NumbersBelowNext
  BY DEF NumbersBelowNext, Known, Calling, NoOp, NotMaking, NoSpace
<1>7. DrivesItsOwn /\ NewNumbers
  BY DEF DrivesItsOwn, NewNumbers, Known, Calling, NoOp, NotMaking
<1> QED
  BY <1>4, <1>5, <1>6, <1>7 DEF SInv
-----------------------------------------------------------------------------
(* Types.                                                                  *)

LEMMA AppendType ==
  ASSUME NEW S, NEW s \in Seq(S), NEW e \in S
  PROVE  Append(s, e) \in Seq(S)
  OBVIOUS

\* A snapshot that joins the queue.
LEMMA SaveType ==
  ASSUME TypeOK, NEW by \in {"op", "making", "preview"}, Save(by),
         next' \in 1 .. MaxId + 1, selected' \in Selections
  PROVE  writes' \in Seq(Snapshot) /\ unsaved' \in BOOLEAN
<1>1. {i \in Id : space'[i].known} \in SUBSET Id
  OBVIOUS
<1>3. [by |-> by, ids |-> {i \in Id : space'[i].known}, next |-> next',
       selected |-> selected'] \in Snapshot
  BY <1>1 DEF Snapshot
<1> DEFINE new == [by |-> by, ids |-> {i \in Id : space'[i].known}, next |-> next',
                   selected |-> selected']
<1>4. writes' = Append(writes, new) /\ unsaved' = FALSE
  BY DEF Save
<1>5. writes \in Seq(Snapshot)
  BY DEF TypeOK
<1> HIDE DEF new
<1>6. new \in Snapshot
  BY <1>3 DEF new
<1> QED
  BY <1>4, <1>5, <1>6, AppendType

LEMMA RunType ==
  ASSUME NEW kind \in Kinds, NEW c \in Agent \cup {Nobody}, NEW i \in Id \cup {None},
         NEW at \in {"calling", "saving"}, Run(at, kind, c, i)
  PROVE  op' \in Operation
  BY DEF Run, Operation

LEMMA SavingType ==
  ASSUME TypeOK, NEW kind, NEW c \in Agent \cup {Nobody}, NEW i \in Id \cup {None},
         Saving(kind, c, i), next' \in 1 .. MaxId + 1, selected' \in Selections
  PROVE  op' \in Operation /\ writes' \in Seq(Snapshot) /\ unsaved' \in BOOLEAN
<1>1. op' \in Operation
  BY RunType DEF Saving, Run, Operation, Kinds, Tells
<1> QED
  BY <1>1, SaveType DEF Saving

LEMMA SavesType ==
  ASSUME TypeOK, op.at = "calling", Saves, next' \in 1 .. MaxId + 1, selected' \in Selections
  PROVE  op' \in Operation /\ writes' \in Seq(Snapshot) /\ unsaved' \in BOOLEAN
<1>1. op \in Operation
  BY DEF TypeOK, NoOp
<1>2. op.context \in Agent \cup {Nobody} /\ op.id \in Id \cup {None}
  BY <1>1 DEF Operation
<1> QED
  BY <1>2, SavingType DEF Saves

LEMMA SetType ==
  ASSUME TypeOK, NEW i \in Id, NEW owner \in Ownership, NEW flag \in BOOLEAN,
         NEW status \in Status, Set(i, owner, flag, status)
  PROVE  space' \in [Id -> Space]
<1>1. [known |-> TRUE, owner |-> owner, delegatedToUser |-> flag, status |-> status] \in Space
  BY DEF Space
<1> QED
  BY <1>1 DEF Set, TypeOK

LEMMA SelectType ==
  ASSUME TypeOK, NEW i \in Id
  PROVE  Deselected(i) \in Selections /\ \A c : Select(c, i) \in Selections
  BY DEF TypeOK, Selections, Select, Deselected

\* The greatest number of the file is its counter.
LEMMA NextNumberIsFiles ==
  ASSUME TypeOK, NumbersBelowNext
  PROVE  NextNumber = file.next /\ file.next \in 1 .. MaxId + 1
<1> DEFINE numbers == {file.next} \cup {i + 1 : i \in {j \in Id : file.space[j].known}}
<1>1. file.next \in 1 .. MaxId + 1
  BY DEF TypeOK, File
<1>2. \A i \in Id : file.space[i].known => i < file.next /\ i \in Nat
  BY NoneType DEF NumbersBelowNext
<1>3. file.next \in numbers /\ \A m \in numbers : m \in Nat /\ m <= file.next
  BY <1>1, <1>2, SpaceBoundAssumption
<1>4. NextNumber = CHOOSE m \in numbers : \A k \in numbers : m >= k
  BY DEF NextNumber, Max
<1> HIDE DEF numbers
<1>5. \A m \in numbers : (\A k \in numbers : m >= k) => m = file.next
  BY <1>3
<1>6. \E m \in numbers : \A k \in numbers : m >= k
  BY <1>3
<1> QED
  BY <1>1, <1>4, <1>5, <1>6

LEMMA TypeStep == TypeOK /\ NumbersBelowNext /\ [Next]_vars => TypeOK'
<1> SUFFICES ASSUME TypeOK, NumbersBelowNext, [Next]_vars PROVE TypeOK'
  OBVIOUS
<1> USE DEF TypeOK
<1>1. ASSUME NEW c \in Agent, AgentOperation(c) PROVE TypeOK'
  <2>1. CASE BeginCreate(c)
    BY <2>1, NoneType, RunType, SpaceBoundAssumption DEF BeginCreate, Kinds, Id
  <2>2. CASE BeginDrive(c)
    BY <2>2, RunType DEF BeginDrive, SelectedAgentSpace, SelectedSpace, Known, Kinds, memory
  <2>3. CASE BeginEnsure(c)
    BY <2>3, RunType DEF BeginEnsure, SelectedSpace, Known, Kinds, memory
  <2>4. CASE BeginClose(c)
    BY <2>4, RunType DEF BeginClose, SelectedSpace, Known, Kinds, memory
  <2>5. CASE HandOff(c)
    <3>1. selected[c] \in Id
      BY <2>5 DEF HandOff, SelectedAgentSpace, SelectedSpace, Known
    <3>2. space' \in [Id -> Space]
      BY <2>5, <3>1, SetType DEF HandOff, Ownership, Status
    <3> QED
      BY <2>5, <3>1, <3>2, SavingType DEF HandOff
  <2>6. CASE Complete(c)
    <3>1. selected[c] \in Id
      BY <2>6 DEF Complete, SelectedAgentSpace, SelectedSpace, Known
    <3>2. space' \in [Id -> Space]
      BY <2>6, <3>1, SetType DEF Complete, Ownership, Status
    <3> QED
      BY <2>6, <3>1, <3>2, SavingType DEF Complete
  <2>7. CASE BeginTakeOver(c)
    BY <2>7, RunType DEF BeginTakeOver, SelectedSpace, Known, Kinds, memory
  <2>8. CASE BeginMarkError(c)
    <3>1. selected[c] \in Id
      BY <2>8 DEF BeginMarkError, SelectedAgentSpace, SelectedSpace, Known
    <3>2. space' \in [Id -> Space]
      BY <2>8, <3>1 DEF BeginMarkError, Space, Status
    <3> QED
      BY <2>8, <3>1, <3>2, RunType DEF BeginMarkError, Kinds
  <2>9. CASE RemoveUnknown(c)
    <3>1. selected' \in Selections
      BY <2>9 DEF RemoveUnknown, Selections
    <3> QED
      BY <2>9, <3>1, SavingType DEF RemoveUnknown
  <2>10. ASSUME NEW i \in Id, BeginClaim(c, i) PROVE TypeOK'
    <3>1. space' \in [Id -> Space]
      BY <2>10, SetType DEF BeginClaim, Ownership, Status
    <3>2. selected' \in Selections
      BY <2>10 DEF BeginClaim, Selections
    <3> QED
      BY <2>10, <3>1, <3>2, RunType DEF BeginClaim, Kinds
  <2>11. ASSUME NEW i \in Id, Use(c, i) PROVE TypeOK'
    <3>1. selected' \in Selections
      BY <2>11 DEF Use, Selections
    <3> QED
      BY <2>11, <3>1, SavingType DEF Use
  <2>12. ASSUME NEW i \in Id, BeginDelete(c, i) PROVE TypeOK'
    BY <2>12, RunType DEF BeginDelete, Kinds, memory
  <2> QED
    BY <1>1, <2>1, <2>2, <2>3, <2>4, <2>5, <2>6, <2>7, <2>8, <2>9, <2>10, <2>11, <2>12
       DEF AgentOperation
<1>2. ASSUME NEW i \in Id, UserOperation(i) PROVE TypeOK'
  <2>1. CASE BeginOpen(i)
    <3>1. space' \in [Id -> Space]
      <4> space[i] \in Space
        OBVIOUS
      <4> DEFINE owner == IF space[i].owner = "agent" THEN "agentDelegatedToUser"
                                                      ELSE space[i].owner
                 flag == space[i].delegatedToUser \/ space[i].owner = "agent"
                 status == IF space[i].status \in {"closed", "error"} THEN "active"
                                                                     ELSE space[i].status
      <4>1. owner \in Ownership /\ status \in Status
        BY DEF Space, Ownership, Status
      <4>2. flag \in BOOLEAN
        BY Zenon
      <4>3. Set(i, owner, flag, status)
        BY <2>1 DEF BeginOpen, Opened
      <4> QED
        BY <4>1, <4>2, <4>3, SetType
    <3> QED
      BY <2>1, <3>1, RunType DEF BeginOpen, Kinds
  <2>2. CASE BeginReturn(i)
    <3>1. space' \in [Id -> Space]
      BY <2>2 DEF BeginReturn, Space, Ownership
    <3> QED
      BY <2>2, <3>1, RunType DEF BeginReturn, Kinds
  <2>3. CASE BeginCloseForUser(i)
    BY <2>3, RunType DEF BeginCloseForUser, Kinds, memory
  <2>4. CASE BeginAct(i)
    BY <2>4, RunType DEF BeginAct, Kinds, memory
  <2> QED
    BY <1>2, <2>1, <2>2, <2>3, <2>4 DEF UserOperation
<1>3. CASE Continue
  <2> op.at = "calling" /\ op \in Operation
    BY <1>3 DEF Continue, EndCreate, EndUnsaved, EndClose, EndTakeOver, EndMarkError, EndDelete,
       EndCloseForUser, EndSaved, CallFails, Calling, NoOp
  <2> op.id \in Id \cup {None} /\ op.context \in Agent \cup {Nobody}
    BY DEF Operation
  <2>1. CASE EndCreate
    <3>1. space' \in [Id -> Space]
      BY <2>1 DEF EndCreate, NewSpace, Space, Ownership, Status
    <3>2. selected' \in Selections
      BY <2>1 DEF EndCreate, Select, Selections
    <3> QED
      BY <2>1, <3>1, <3>2, SavesType DEF EndCreate
  <2>2. CASE EndUnsaved
    BY <2>2 DEF EndUnsaved, memory
  <2>3. CASE EndClose
    <3>1. space' \in [Id -> Space]
      BY <2>3 DEF EndClose, Space, Status
    <3>2. selected' \in Selections
      BY <2>3 DEF EndClose, Selections
    <3> QED
      BY <2>3, <3>1, <3>2, SavesType DEF EndClose
  <2>4. CASE EndTakeOver
    <3>1. space' \in [Id -> Space]
      BY <2>4, ZenonT(60) DEF EndTakeOver, Space, Ownership
    <3> QED
      BY <2>4, <3>1, SavesType DEF EndTakeOver
  <2>5. CASE EndMarkError
    <3>1. selected' \in Selections
      BY <2>5 DEF EndMarkError, Selections
    <3> QED
      BY <2>5, <3>1, SavesType DEF EndMarkError
  <2>6. CASE EndDelete
    <3>1. space' \in [Id -> Space]
      BY <2>6 DEF EndDelete, Space
    <3>2. selected' \in Selections
      BY <2>6 DEF EndDelete, Deselected, Selections
    <3> QED
      BY <2>6, <3>1, <3>2, SavesType DEF EndDelete
  <2>7. CASE EndCloseForUser
    <3>1. space' \in [Id -> Space]
      BY <2>7 DEF EndCloseForUser, Space, Status
    <3>2. selected' \in Selections
      BY <2>7 DEF EndCloseForUser, Deselected, Selections
    <3> QED
      BY <2>7, <3>1, <3>2, SavesType DEF EndCloseForUser
  <2>8. CASE EndSaved
    BY <2>8, SavesType DEF EndSaved, memory
  <2>9. CASE CallFails
    BY <2>9 DEF CallFails, memory
  <2> QED
    BY <1>3, <2>1, <2>2, <2>3, <2>4, <2>5, <2>6, <2>7, <2>8, <2>9 DEF Continue
<1>4. CASE BeginCreateUser
  BY <1>4, SpaceBoundAssumption DEF BeginCreateUser, Making, NotMaking, Id
<1>5. CASE EndCreateUser
  <2>1. space' \in [Id -> Space]
    BY <1>5 DEF EndCreateUser, NewSpace, Space, Ownership, Status
  <2>2. selected' \in Selections
    BY <1>5 DEF EndCreateUser, Select, Selections, Making
  <2>3. making' \in Making
    BY <1>5 DEF EndCreateUser, Making
  <2> QED
    BY <1>5, <2>1, <2>2, <2>3, SaveType DEF EndCreateUser
<1>6. CASE CreateUserFails
  BY <1>6 DEF CreateUserFails, Making, NotMaking, memory
<1>7. CASE Preview
  BY <1>7, SaveType DEF Preview, memory
<1>8. ASSUME NEW ok \in BOOLEAN, Written(ok), writes # <<>>
      PROVE  /\ space' \in [Id -> Space] /\ writes' \in Seq(Snapshot)
             /\ op' \in Operation \cup {NoOp} /\ making' \in Making /\ granted' \subseteq Id
  <2>1. space' \in [Id -> Space]
    BY <1>8, NoSpaceType DEF Written
  <2>2. writes' \in Seq(Snapshot)
    BY <1>8 DEF Written
  <2>3. op' \in Operation \cup {NoOp} /\ making' \in Making
    BY <1>8 DEF Written, NotMaking, Making
  <2>4. granted' \subseteq Id
    BY <1>8 DEF Written, Known
  <2> QED
    BY <2>1, <2>2, <2>3, <2>4
<1>9. CASE Write
  <2>1. Head(writes) \in Snapshot
    BY <1>9 DEF Write
  <2>2. [i \in Id |-> IF i \in Head(writes).ids THEN [space[i] EXCEPT !.known = TRUE]
                                                 ELSE NoSpace] \in [Id -> Space]
    BY NoSpaceType DEF Space
  <2>3. file' \in File
    BY <1>9, <2>1, <2>2 DEF Write, Contents, File, Snapshot
  <2> QED
    BY <1>8, <1>9, <2>3 DEF Write
<1>10. CASE WriteFails
  BY <1>8, <1>10 DEF WriteFails
<1>11. CASE Restart
  <2>1. space' \in [Id -> Space]
    BY <1>11 DEF Restart, Loaded, File, Space
  <2>2. selected' \in Selections
    BY <1>11 DEF Restart, File, Selections
  <2>3. next' \in 1 .. MaxId + 1
    BY <1>11, NextNumberIsFiles DEF Restart, File
  <2>4. writes' \in Seq(Snapshot)
    BY <1>11 DEF Restart
  <2>5. making' \in Making /\ op' \in Operation \cup {NoOp}
    BY <1>11 DEF Restart, Making, NotMaking
  <2>6. unsaved' \in BOOLEAN /\ file' \in File /\ granted' \subseteq Id
    BY <1>11 DEF Restart
  <2> QED
    BY <2>1, <2>2, <2>3, <2>4, <2>5, <2>6
<1>12. CASE UNCHANGED vars
  BY <1>12 DEF vars
<1> QED
  BY <1>1, <1>2, <1>3, <1>4, <1>5, <1>6, <1>7, <1>9, <1>10, <1>11, <1>12 DEF Next
-----------------------------------------------------------------------------
(* The flag and the ownership.                                             *)

LEMMA SetAgrees ==
  ASSUME TypeOK, Agrees(space), NEW i \in Id, NEW owner, NEW flag, NEW status,
         flag <=> owner = "agentDelegatedToUser", Set(i, owner, flag, status)
  PROVE  Agrees(space')
<1> SUFFICES ASSUME NEW j \in Id
             PROVE  space'[j].delegatedToUser <=> space'[j].owner = "agentDelegatedToUser"
  BY DEF Agrees
<1>1. CASE j = i
  BY <1>1 DEF Set, TypeOK
<1>2. CASE j # i
  <2>1. space'[j] = space[j]
    BY <1>2 DEF Set, TypeOK
  <2> QED
    BY <2>1 DEF Agrees
<1> QED
  BY <1>1, <1>2

\* A change of the status, or of what is known, leaves both alone.
LEMMA SameControl ==
  ASSUME Agrees(space),
         \A j \in Id : /\ space'[j].owner = space[j].owner
                       /\ space'[j].delegatedToUser = space[j].delegatedToUser
  PROVE  Agrees(space')
  BY DEF Agrees

\* A space goes back to the agent.
LEMMA BackAgrees ==
  ASSUME TypeOK, Agrees(space), NEW i,
         space' = [space EXCEPT ![i].owner = "agent", ![i].delegatedToUser = FALSE]
  PROVE  Agrees(space')
<1> SUFFICES ASSUME NEW j \in Id
             PROVE  space'[j].delegatedToUser <=> space'[j].owner = "agentDelegatedToUser"
  BY DEF Agrees
<1>1. CASE j = i
  <2>1. space'[j].owner = "agent" /\ space'[j].delegatedToUser = FALSE
    BY <1>1 DEF TypeOK, Space
  <2> QED
    BY <2>1
<1>2. CASE j # i
  <2>1. space'[j] = space[j]
    BY <1>2 DEF TypeOK
  <2> QED
    BY <2>1 DEF Agrees
<1> QED
  BY <1>1, <1>2

LEMMA FlagStep == TypeOK /\ FlagMatchesOwnership /\ [Next]_vars => FlagMatchesOwnership'
<1> SUFFICES ASSUME TypeOK, Agrees(space), Agrees(file.space), [Next]_vars
             PROVE  Agrees(space') /\ Agrees(file'.space)
  BY DEF FlagMatchesOwnership
<1>a. space \in [Id -> Space]
  BY DEF TypeOK
<1>1. ASSUME NEW c \in Agent, AgentOperation(c) PROVE Agrees(space') /\ file' = file
  <2>1. CASE HandOff(c) \/ Complete(c)
    <3>1. selected[c] \in Id
      BY <2>1 DEF HandOff, Complete, SelectedAgentSpace, SelectedSpace, Known
    <3>2. \E status : Set(selected[c], "agentDelegatedToUser", TRUE, status)
      BY <2>1 DEF HandOff, Complete
    <3> QED
      BY <2>1, <3>1, <3>2, SetAgrees DEF HandOff, Complete
  <2>2. CASE BeginMarkError(c)
    BY <1>a, <2>2, SameControl DEF BeginMarkError, Space
  <2>3. ASSUME NEW i \in Id, BeginClaim(c, i) PROVE Agrees(space') /\ file' = file
    BY <2>3, SetAgrees DEF BeginClaim
  <2> QED
    BY <1>1, <2>1, <2>2, <2>3
       DEF AgentOperation, BeginCreate, BeginDrive, BeginEnsure, BeginClose, BeginTakeOver,
           RemoveUnknown, Use, BeginDelete, memory
<1>2. ASSUME NEW i \in Id, UserOperation(i) PROVE Agrees(space') /\ file' = file
  <2>1. CASE BeginOpen(i)
    <3> DEFINE owner == IF space[i].owner = "agent" THEN "agentDelegatedToUser"
                                                    ELSE space[i].owner
               flag == space[i].delegatedToUser \/ space[i].owner = "agent"
               status == IF space[i].status \in {"closed", "error"} THEN "active"
                                                                   ELSE space[i].status
    <3>1. Set(i, owner, flag, status)
      BY <2>1 DEF BeginOpen, Opened
    <3>2. space[i].delegatedToUser <=> space[i].owner = "agentDelegatedToUser"
      BY DEF Agrees
    <3>3. flag <=> owner = "agentDelegatedToUser"
      BY <3>2
    <3> HIDE DEF owner, flag, status
    <3> QED
      BY <2>1, <3>1, <3>3, SetAgrees DEF BeginOpen
  <2>2. CASE BeginReturn(i)
    BY <2>2, BackAgrees DEF BeginReturn
  <2> QED
    BY <1>2, <2>1, <2>2 DEF UserOperation, BeginCloseForUser, BeginAct, memory
<1>3. CASE Continue
  <2>1. CASE EndCreate
    <3>1. \A j \in Id : space'[j] = IF j = op.id THEN NewSpace("agent") ELSE space[j]
      BY <1>a, <2>1 DEF EndCreate
    <3> QED
      BY <2>1, <3>1 DEF EndCreate, Agrees, NewSpace
  <2>2. CASE EndTakeOver
    BY <2>2, BackAgrees DEF EndTakeOver
  <2>3. CASE EndClose \/ EndCloseForUser \/ EndDelete
    BY <1>a, <2>3, SameControl DEF EndClose, EndCloseForUser, EndDelete, Space
  <2> QED
    BY <1>3, <2>1, <2>2, <2>3 DEF Continue, EndUnsaved, EndMarkError, EndSaved, CallFails, memory
<1>4. CASE EndCreateUser
  <2>1. \A j \in Id : space'[j] = IF j = making.id THEN NewSpace("user") ELSE space[j]
    BY <1>a, <1>4 DEF EndCreateUser
  <2> QED
    BY <1>4, <2>1 DEF EndCreateUser, Agrees, NewSpace
<1>5. ASSUME NEW ok \in BOOLEAN, Written(ok) PROVE Agrees(space')
  <2>1. \A j \in Id : space'[j] \in {space[j], NoSpace}
    BY <1>5 DEF Written
  <2> QED
    BY <2>1 DEF Agrees, NoSpace
<1>6. CASE Write
  <2>1. \A j \in Id : file'.space[j] \in {[space[j] EXCEPT !.known = TRUE], NoSpace}
    BY <1>6 DEF Write, Contents
  <2>2. Agrees(file'.space)
    BY <1>a, <2>1 DEF Agrees, NoSpace, Space
  <2> QED
    BY <1>5, <1>6, <2>2 DEF Write
<1>7. CASE WriteFails
  BY <1>5, <1>7 DEF WriteFails
<1>8. CASE Restart
  <2>1. file.space \in [Id -> Space]
    BY DEF TypeOK, File
  <2>2. \A j \in Id : /\ space'[j].owner = file.space[j].owner
                      /\ space'[j].delegatedToUser <=>
                           \/ file.space[j].delegatedToUser
                           \/ file.space[j].owner = "agentDelegatedToUser"
    BY <1>8, <2>1 DEF Restart, Loaded, Space
  <2> QED
    BY <1>8, <2>2 DEF Restart, Agrees
<1> QED
  BY <1>1, <1>2, <1>3, <1>4, <1>6, <1>7, <1>8
     DEF Next, BeginCreateUser, CreateUserFails, Preview, vars, memory
-----------------------------------------------------------------------------
(* Numbers, and who drives.                                                *)

SnapshotsBelow(w) == \A n \in 1 .. Len(w) : \A i \in w[n].ids : i < w[n].next

LEMMA SaveBelow ==
  ASSUME TypeOK, SnapshotsBelow(writes), NEW by, Save(by), \A i \in Known' : i < next'
  PROVE  SnapshotsBelow(writes')
<1> DEFINE new == [by |-> by, ids |-> {i \in Id : space'[i].known}, next |-> next',
                   selected |-> selected']
<1>1. writes' = Append(writes, new)
  BY DEF Save
<1>2. \A i \in new.ids : i < new.next
  BY DEF Known
<1>3. writes \in Seq(Snapshot)
  BY DEF TypeOK
<1> HIDE DEF new
<1>4. /\ Len(writes') = Len(writes) + 1
      /\ \A n \in 1 .. Len(writes) : writes'[n] = writes[n]
      /\ writes'[Len(writes) + 1] = new
  BY <1>1, <1>3
<1> QED
  BY <1>2, <1>3, <1>4 DEF SnapshotsBelow

\* A step after which no space is being created by an operation and none driven.
LEMMA QuietStep ==
  ASSUME SInv, next' = next, Known' \subseteq Known, making' = making, file' = file,
         ~Calling("create")', ~Calling("drive")',
         writes' = writes \/ Save("op")
  PROVE  NumbersBelowNext' /\ DrivesItsOwn' /\ NewNumbers'
<1>1. \A i \in Known' : i < next'
  BY DEF SInv, NumbersBelowNext
<1>2. SnapshotsBelow(writes')
  BY <1>1, SaveBelow DEF SInv, NumbersBelowNext, SnapshotsBelow
<1>3. NumbersBelowNext'
  BY <1>1, <1>2 DEF SInv, NumbersBelowNext, SnapshotsBelow
<1>4. DrivesItsOwn' /\ NewNumbers'
  BY DEF SInv, NewNumbers, DrivesItsOwn
<1> QED
  BY <1>3, <1>4

LEMMA SavingQuiet ==
  ASSUME NEW kind, NEW c, NEW i, Saving(kind, c, i)
  PROVE  ~Calling("create")' /\ ~Calling("drive")' /\ Save("op")
<1>1. op'.at = "saving"
  BY DEF Saving, Run
<1> QED
  BY <1>1 DEF Calling, Saving

LEMMA KnownSame == space' = space => Known' = Known
  BY DEF Known

LEMMA KnownSet ==
  ASSUME space \in [Id -> Space], NEW i \in Known, NEW owner, NEW flag, NEW status,
         Set(i, owner, flag, status)
  PROVE  Known' = Known
<1>1. \A j \in Id : space'[j].known = space[j].known \/ j = i
  BY DEF Set
<1>2. i \in Id /\ space[i].known
  BY DEF Known
<1>3. space'[i].known
  BY <1>2 DEF Set
<1> QED
  BY <1>1, <1>2, <1>3 DEF Known

LEMMA NumbersStep ==
  SInv /\ TypeOK' /\ [Next]_vars => NumbersBelowNext' /\ DrivesItsOwn' /\ NewNumbers'
<1> SUFFICES ASSUME SInv, TypeOK', [Next]_vars
             PROVE  NumbersBelowNext' /\ DrivesItsOwn' /\ NewNumbers'
  OBVIOUS
<1>a. space \in [Id -> Space] /\ making \in Making /\ op \in Operation \cup {NoOp}
  BY DEF SInv, TypeOK
<1>b. SnapshotsBelow(writes)
  BY DEF SInv, NumbersBelowNext, SnapshotsBelow
<1>c. \A kind : Calling(kind) => op \in Operation
  BY <1>a DEF Calling, NoOp
<1>1. ASSUME NEW c \in Agent, AgentOperation(c)
      PROVE  NumbersBelowNext' /\ DrivesItsOwn' /\ NewNumbers'
  <2>1. CASE BeginCreate(c)
    <3>1. /\ Known' = Known /\ next' = next + 1 /\ next \in Nat
          /\ op' = [at |-> "calling", kind |-> "create", context |-> c, id |-> next]
          /\ making' = making /\ writes' = writes /\ file' = file
      BY <2>1, NoneType DEF BeginCreate, Run, Known
    <3>2. \A i \in Known : i < next' /\ i # next
      BY <3>1 DEF SInv, NumbersBelowNext, Known, Id
    <3>3. making.at = "calling" => making.id < next' /\ making.id # next
      BY <1>a, <3>1 DEF SInv, NumbersBelowNext, Making, None, Id
    <3>4. NumbersBelowNext'
      BY <1>b, <3>1, <3>2, <3>3 DEF SInv, NumbersBelowNext, Calling, SnapshotsBelow
    <3>5. DrivesItsOwn' /\ NewNumbers'
      BY <3>1, <3>2, <3>3 DEF SInv, DrivesItsOwn, NewNumbers, Calling
    <3> QED
      BY <3>4, <3>5
  <2>2. CASE BeginDrive(c)
    <3>1. /\ UNCHANGED <<space, next, making, writes, file>> /\ Known' = Known
          /\ op' = [at |-> "calling", kind |-> "drive", context |-> c, id |-> selected[c]]
          /\ selected[c] \in Known /\ AgentSpace(selected[c])
      BY <2>2 DEF BeginDrive, Run, Known, memory, SelectedAgentSpace, SelectedSpace
    <3>2. NumbersBelowNext' /\ NewNumbers'
      BY <1>b, <3>1 DEF SInv, NumbersBelowNext, NewNumbers, Calling, SnapshotsBelow
    <3>3. DrivesItsOwn'
      BY <3>1 DEF DrivesItsOwn, AgentSpace
    <3> QED
      BY <3>2, <3>3
  <2>3. CASE BeginEnsure(c) \/ BeginClose(c) \/ BeginTakeOver(c)
    BY <2>3, KnownSame, QuietStep DEF BeginEnsure, BeginClose, BeginTakeOver, Run, Calling, memory
  <2>4. CASE HandOff(c) \/ Complete(c)
    <3>1. Known' \subseteq Known
      BY <1>a, <2>4, KnownSet DEF HandOff, Complete, SelectedAgentSpace, SelectedSpace
    <3> QED
      BY <2>4, <3>1, QuietStep, SavingQuiet DEF HandOff, Complete
  <2>5. CASE BeginMarkError(c)
    <3>1. Known' \subseteq Known
      BY <1>a, <2>5 DEF BeginMarkError, Known, Space
    <3> QED
      BY <2>5, <3>1, QuietStep DEF BeginMarkError, Run, Calling
  <2>6. CASE RemoveUnknown(c)
    BY <2>6, KnownSame, QuietStep, SavingQuiet DEF RemoveUnknown
  <2>7. ASSUME NEW i \in Id, BeginClaim(c, i)
        PROVE  NumbersBelowNext' /\ DrivesItsOwn' /\ NewNumbers'
    <3>1. Known' = Known
      BY <1>a, <2>7, KnownSet DEF BeginClaim
    <3> QED
      BY <2>7, <3>1, QuietStep DEF BeginClaim, Run, Calling
  <2>8. ASSUME NEW i \in Id, Use(c, i)
        PROVE  NumbersBelowNext' /\ DrivesItsOwn' /\ NewNumbers'
    BY <2>8, KnownSame, QuietStep, SavingQuiet DEF Use
  <2>9. ASSUME NEW i \in Id, BeginDelete(c, i)
        PROVE  NumbersBelowNext' /\ DrivesItsOwn' /\ NewNumbers'
    BY <2>9, KnownSame, QuietStep DEF BeginDelete, Run, Calling, memory
  <2> QED
    BY <1>1, <2>1, <2>2, <2>3, <2>4, <2>5, <2>6, <2>7, <2>8, <2>9 DEF AgentOperation
<1>2. ASSUME NEW i \in Id, UserOperation(i)
      PROVE  NumbersBelowNext' /\ DrivesItsOwn' /\ NewNumbers'
  <2>1. CASE BeginOpen(i)
    <3>1. Known' \subseteq Known
      BY <1>a, <2>1, KnownSet DEF BeginOpen, Opened
    <3> QED
      BY <2>1, <3>1, QuietStep DEF BeginOpen, Run, Calling
  <2>2. CASE BeginReturn(i)
    <3>1. Known' \subseteq Known
      BY <1>a, <2>2 DEF BeginReturn, Known, Space
    <3> QED
      BY <2>2, <3>1, QuietStep DEF BeginReturn, Run, Calling
  <2>3. CASE BeginCloseForUser(i) \/ BeginAct(i)
    BY <2>3, KnownSame, QuietStep DEF BeginCloseForUser, BeginAct, Run, Calling, memory
  <2> QED
    BY <1>2, <2>1, <2>2, <2>3 DEF UserOperation
<1>3. CASE Continue
  <2>1. CASE EndCreate
    <3>1. Calling("create") /\ Saves
      BY <2>1 DEF EndCreate
    <3>2. op.id < next /\ op.id \notin Known /\ (making.at = "calling" => making.id # op.id)
      BY <3>1 DEF SInv, NumbersBelowNext, NewNumbers
    <3>3. /\ Known' \subseteq Known \cup {op.id}
          /\ next' = next /\ making' = making /\ file' = file
      BY <1>a, <2>1 DEF EndCreate, Known
    <3>4. \A i \in Known' : i < next'
      BY <3>2, <3>3 DEF SInv, NumbersBelowNext
    <3>5. ~Calling("create")' /\ ~Calling("drive")' /\ SnapshotsBelow(writes')
      BY <1>b, <3>1, <3>4, SaveBelow, SavingQuiet DEF Saves, SInv
    <3>6. NumbersBelowNext'
      BY <3>3, <3>4, <3>5 DEF SInv, NumbersBelowNext, SnapshotsBelow
    <3> QED
      BY <3>2, <3>3, <3>5, <3>6 DEF SInv, DrivesItsOwn, NewNumbers
  <2>2. CASE EndTakeOver \/ EndClose \/ EndCloseForUser \/ EndDelete
    <3>1. Known' \subseteq Known
      BY <1>a, <2>2 DEF EndTakeOver, EndClose, EndCloseForUser, EndDelete, Known, Space
    <3> QED
      BY <2>2, <3>1, QuietStep, SavingQuiet
         DEF EndTakeOver, EndClose, EndCloseForUser, EndDelete, Saves
  <2>3. CASE EndMarkError \/ EndSaved
    BY <2>3, KnownSame, QuietStep, SavingQuiet DEF EndMarkError, EndSaved, Saves, memory
  <2>4. CASE EndUnsaved \/ CallFails
    BY <2>4, KnownSame, QuietStep DEF EndUnsaved, CallFails, Calling, NoOp, memory
  <2> QED
    BY <1>3, <2>1, <2>2, <2>3, <2>4 DEF Continue
<1>4. CASE BeginCreateUser
  <2>1. /\ Known' = Known /\ space' = space /\ next' = next + 1 /\ next \in Nat
        /\ making' = [at |-> "calling", id |-> next]
        /\ op' = op /\ writes' = writes /\ file' = file
    BY <1>4, NoneType DEF BeginCreateUser, Known
  <2>2. \A i \in Known : i < next' /\ i # next
    BY <2>1 DEF SInv, NumbersBelowNext, Known, Id
  <2>3. Calling("create") => op.id < next' /\ op.id # next
    BY <1>c, <2>1 DEF SInv, NumbersBelowNext, Operation, None, Id
  <2>4. NumbersBelowNext'
    BY <1>b, <2>1, <2>2, <2>3 DEF SInv, NumbersBelowNext, Calling, SnapshotsBelow
  <2>5. DrivesItsOwn'
    BY <2>1 DEF SInv, DrivesItsOwn, Calling, AgentSpace
  <2>6. NewNumbers'
    BY <2>1, <2>2, <2>3 DEF SInv, NewNumbers, Calling
  <2> QED
    BY <2>4, <2>5, <2>6
<1>5. CASE EndCreateUser
  <2>1. making.id < next /\ making.id \notin Known
    BY <1>5 DEF EndCreateUser, SInv, NumbersBelowNext, NewNumbers
  <2>2. Calling("create") => op.id # making.id
    BY <1>5 DEF EndCreateUser, SInv, NewNumbers
  <2>3. /\ \A j \in Id : j # making.id => space'[j] = space[j]
        /\ Known' \subseteq Known \cup {making.id} /\ Known \subseteq Known'
        /\ making'.at = "saving" /\ next' = next /\ op' = op /\ file' = file
    BY <1>a, <1>5, <2>1 DEF EndCreateUser, Known, Making
  <2>4. \A i \in Known' : i < next'
    BY <2>1, <2>3 DEF SInv, NumbersBelowNext
  <2>5. SnapshotsBelow(writes')
    BY <1>b, <1>5, <2>4, SaveBelow DEF EndCreateUser, SInv
  <2>6. NumbersBelowNext'
    BY <2>3, <2>4, <2>5 DEF SInv, NumbersBelowNext, SnapshotsBelow, Calling
  <2>7. DrivesItsOwn'
    <3>1. ASSUME Calling("drive") PROVE op.id \in Known' /\ AgentSpace(op.id)'
      <4>1. op.id \in Known /\ op.id \in Id /\ AgentSpace(op.id)
        BY <3>1 DEF SInv, DrivesItsOwn, Known
      <4>2. space'[op.id] = space[op.id]
        BY <2>1, <2>3, <4>1
      <4> QED
        BY <2>3, <4>1, <4>2 DEF AgentSpace
    <3> QED
      BY <2>3, <3>1 DEF DrivesItsOwn, Calling
  <2>8. NewNumbers'
    BY <2>2, <2>3 DEF SInv, NewNumbers, Calling
  <2> QED
    BY <2>6, <2>7, <2>8
<1>6. CASE CreateUserFails
  <2>1. Known' = Known /\ UNCHANGED <<space, next, op, writes, file>> /\ making'.at = "none"
    BY <1>6, KnownSame DEF CreateUserFails, NotMaking, memory
  <2> QED
    BY <2>1 DEF SInv, NumbersBelowNext, DrivesItsOwn, NewNumbers, Calling, AgentSpace
<1>7. CASE Preview
  <2>1. Known' = Known /\ UNCHANGED <<space, next, op, making, file>> /\ Save("preview")
    BY <1>7, KnownSame DEF Preview, memory
  <2>2. SnapshotsBelow(writes')
    BY <1>b, <2>1, SaveBelow DEF SInv, NumbersBelowNext
  <2> QED
    BY <2>1, <2>2 DEF SInv, NumbersBelowNext, DrivesItsOwn, NewNumbers, Calling, AgentSpace,
                      SnapshotsBelow
<1>8. ASSUME NEW ok \in BOOLEAN, Written(ok), writes # <<>>
      PROVE  /\ SnapshotsBelow(writes')
             /\ Known' = Known /\ \A i \in Known : space'[i] = space[i]
             /\ making' \in {making, NotMaking} /\ op' \in {op, NoOp}
  <2>1. writes' = Tail(writes) /\ writes \in Seq(Snapshot)
    BY <1>8 DEF Written, SInv, TypeOK
  <2>2. Len(writes) \in Nat /\ Len(writes') = Len(writes) - 1
        /\ \A n \in 1 .. Len(writes') : writes'[n] = writes[n + 1]
    BY <1>8, <2>1
  <2>3. SnapshotsBelow(writes')
    BY <1>b, <2>2 DEF SnapshotsBelow
  <2>4. /\ \A i \in Id : space'[i] \in {space[i], NoSpace}
        /\ \A i \in Known : space'[i] = space[i]
    BY <1>8 DEF Written, Known
  <2>5. Known' = Known
    BY <2>4 DEF Known, NoSpace
  <2> QED
    BY <1>8, <2>3, <2>4, <2>5 DEF Written
<1>9. CASE Write \/ WriteFails
  <2>1. PICK ok \in BOOLEAN : Written(ok) /\ writes # <<>> /\ next' = next
    BY <1>9 DEF Write, WriteFails
  <2>2. /\ SnapshotsBelow(writes') /\ next' = next
        /\ Known' = Known /\ \A i \in Known : space'[i] = space[i]
        /\ making' \in {making, NotMaking} /\ op' \in {op, NoOp}
    BY <1>8, <2>1
  <2>3. \A i \in Id : file'.space[i].known => i < file'.next
    <3>1. CASE WriteFails
      BY <3>1 DEF WriteFails, SInv, NumbersBelowNext
    <3>2. CASE Write
      <4>1. writes \in Seq(Snapshot) /\ writes # <<>>
        BY <3>2 DEF Write, SInv, TypeOK
      <4>2. Head(writes) = writes[1] /\ 1 \in 1 .. Len(writes)
        BY <4>1
      <4>3. \A i \in Head(writes).ids : i < Head(writes).next
        BY <1>b, <4>2 DEF SnapshotsBelow
      <4>4. /\ file'.next = Head(writes).next
            /\ \A i \in Id : file'.space[i].known => i \in Head(writes).ids
        BY <3>2 DEF Write, Contents, NoSpace
      <4> QED
        BY <4>3, <4>4
    <3> QED
      BY <1>9, <3>1, <3>2
  <2>4. Calling("create")' => Calling("create") /\ op' = op
    BY <2>2 DEF Calling, NoOp
  <2>5. Calling("drive")' => Calling("drive") /\ op' = op
    BY <2>2 DEF Calling, NoOp
  <2>6. making'.at = "calling" => making.at = "calling" /\ making' = making
    BY <2>2 DEF NotMaking
  <2>7. NumbersBelowNext'
    BY <2>2, <2>3, <2>4, <2>6 DEF SInv, NumbersBelowNext, SnapshotsBelow
  <2>8. DrivesItsOwn'
    BY <2>2, <2>5 DEF SInv, DrivesItsOwn, AgentSpace
  <2>9. NewNumbers'
    BY <2>2, <2>4, <2>6 DEF SInv, NewNumbers
  <2> QED
    BY <2>7, <2>8, <2>9
<1>10. CASE Restart
  <2>1. file.space \in [Id -> Space]
    BY DEF SInv, TypeOK, File
  <2>2. \A i \in Id : space'[i].known <=> file.space[i].known
    BY <1>10, <2>1 DEF Restart, Loaded, Space
  <2>3. \A i \in Known' : i < next'
    BY <1>10, <2>2, NextNumberIsFiles DEF Restart, Known, SInv, NumbersBelowNext
  <2>4. ~Calling("create")' /\ ~Calling("drive")' /\ making'.at = "none"
        /\ file' = file /\ writes' = <<>>
    BY <1>10 DEF Restart, Calling, NoOp, NotMaking
  <2>5. NumbersBelowNext'
    BY <2>3, <2>4 DEF SInv, NumbersBelowNext
  <2> QED
    BY <2>4, <2>5 DEF DrivesItsOwn, NewNumbers
<1>11. CASE UNCHANGED vars
  BY <1>11 DEF vars, SInv, NumbersBelowNext, DrivesItsOwn, NewNumbers, Known, Calling, AgentSpace
<1> QED
  BY <1>1, <1>2, <1>3, <1>4, <1>5, <1>6, <1>7, <1>9, <1>10, <1>11 DEF Next
-----------------------------------------------------------------------------
(* The file.                                                               *)

\* Where a snapshot goes, and what it says.
LEMMA SaveQueue ==
  ASSUME TypeOK, NEW by, Save(by)
  PROVE  /\ Len(writes) \in Nat /\ Len(writes') = Len(writes) + 1 /\ writes' # <<>>
         /\ \A n \in 1 .. Len(writes) : writes'[n] = writes[n]
         /\ writes'[Len(writes')].by = by
         /\ writes'[Len(writes')].ids = Known'
         /\ writes'[Len(writes')].next = next'
         /\ unsaved' = FALSE
<1> DEFINE new == [by |-> by, ids |-> {i \in Id : space'[i].known}, next |-> next',
                   selected |-> selected']
<1>1. writes' = Append(writes, new) /\ unsaved' = FALSE
  BY DEF Save
<1>2. new.by = by /\ new.ids = Known' /\ new.next = next'
  BY DEF Known
<1>3. writes \in Seq(Snapshot)
  BY DEF TypeOK
<1> HIDE DEF new
<1>4. /\ Len(writes) \in Nat /\ Len(writes') = Len(writes) + 1 /\ writes' # <<>>
      /\ \A n \in 1 .. Len(writes) : writes'[n] = writes[n]
      /\ writes'[Len(writes')] = new
  BY <1>1, <1>3
<1> QED
  BY <1>1, <1>2, <1>4

\* The first snapshot is written, or is not: the others move up.
LEMMA WrittenQueue ==
  ASSUME TypeOK, NEW ok \in BOOLEAN, Written(ok), writes # <<>>
  PROVE  /\ Len(writes) \in Nat \ {0} /\ Len(writes') = Len(writes) - 1
         /\ writes' = Tail(writes) /\ Head(writes) = writes[1]
         /\ writes' = <<>> <=> Len(writes) = 1
         /\ \A n \in 1 .. Len(writes') : writes'[n] = writes[n + 1]
         /\ Known' = Known /\ \A i \in Known : space'[i] = space[i]
<1>1. writes' = Tail(writes) /\ writes \in Seq(Snapshot)
  BY DEF Written, TypeOK
<1>2. /\ \A i \in Id : space'[i] \in {space[i], NoSpace}
      /\ \A i \in Known : space'[i] = space[i]
  BY DEF Written, Known
<1>3. Known' = Known
  BY <1>2 DEF Known, NoSpace
<1>4. /\ Len(writes) \in Nat \ {0} /\ Len(writes') = Len(writes) - 1
      /\ Head(writes) = writes[1]
      /\ \A n \in 1 .. Len(writes') : writes'[n] = writes[n + 1]
  BY <1>1
<1>5. writes' = <<>> <=> Len(writes) = 1
  <2>1. ASSUME NEW s \in Seq(Snapshot), Len(s) = 0 PROVE s = <<>>
    BY <2>1
  <2>2. writes' \in Seq(Snapshot)
    BY <1>1
  <2> QED
    BY <1>4, <2>1, <2>2
<1> QED
  BY <1>1, <1>2, <1>3, <1>4, <1>5

LEMMA SavedComplete ==
  ASSUME TypeOK, NewestIsComplete, NEW by, Save(by), file' = file
  PROVE  NewestIsComplete'
  BY SaveQueue DEF NewestIsComplete

LEMMA UnsettledComplete ==
  ASSUME NewestIsComplete, file' = file, Unsettled'
  PROVE  NewestIsComplete'
  BY DEF NewestIsComplete

LEMMA SameComplete ==
  ASSUME NewestIsComplete, UNCHANGED <<space, next, writes, file>>, Unsettled => Unsettled'
  PROVE  NewestIsComplete'
<1>1. Known' = Known
  BY KnownSame
<1> QED
  BY <1>1 DEF NewestIsComplete, Holds

LEMMA NewestStep == SInv /\ OneSnapshotEach /\ NewestIsComplete /\ [Next]_vars => NewestIsComplete'
<1> SUFFICES ASSUME SInv, OneSnapshotEach, NewestIsComplete, [Next]_vars PROVE NewestIsComplete'
  OBVIOUS
<1>a. TypeOK
  BY DEF SInv
<1>b. ASSUME NEW kind, NEW c, NEW i, Saving(kind, c, i), file' = file PROVE NewestIsComplete'
  BY <1>a, <1>b, SavedComplete DEF Saving
<1>c. ASSUME NEW ok \in BOOLEAN, Written(ok), writes # <<>>, unsaved => unsaved', Unsettled
      PROVE  Unsettled'
  <2>1. Head(writes).by = writes[1].by /\ 1 \in 1 .. Len(writes)
    BY <1>a, <1>c, WrittenQueue
  <2>2. /\ Head(writes).by = "op" => op.at = "saving"
        /\ Head(writes).by = "making" => making.at = "saving"
    BY <2>1 DEF OneSnapshotEach, Awaited
  <2> QED
    BY <1>c, <2>2 DEF Unsettled, Written
<1>1. ASSUME NEW c \in Agent, AgentOperation(c) PROVE NewestIsComplete'
  <2>1. CASE BeginCreate(c) \/ BeginMarkError(c) \/ \E i \in Id : BeginClaim(c, i)
    <3>1. file' = file /\ \E kind \in Early : \E context, id : Run("calling", kind, context, id)
      BY <2>1 DEF BeginCreate, BeginMarkError, BeginClaim, Early
    <3> QED
      BY <3>1, UnsettledComplete DEF Unsettled, Run
  <2>2. CASE \/ BeginDrive(c) \/ BeginEnsure(c) \/ BeginClose(c) \/ BeginTakeOver(c)
             \/ \E i \in Id : BeginDelete(c, i)
    <3>1. UNCHANGED <<space, next, writes, file, making, unsaved>> /\ op = NoOp
      BY <2>2 DEF BeginDrive, BeginEnsure, BeginClose, BeginTakeOver, BeginDelete, memory, Free
    <3> QED
      BY <3>1, SameComplete DEF Unsettled, NoOp
  <2>3. CASE HandOff(c) \/ Complete(c) \/ RemoveUnknown(c) \/ \E i \in Id : Use(c, i)
    BY <1>b, <2>3 DEF HandOff, Complete, RemoveUnknown, Use
  <2> QED
    BY <1>1, <2>1, <2>2, <2>3 DEF AgentOperation
<1>2. ASSUME NEW i \in Id, UserOperation(i) PROVE NewestIsComplete'
  <2>1. CASE BeginOpen(i) \/ BeginReturn(i)
    <3>1. file' = file /\ op'.at = "calling" /\ op'.kind \in Early
      BY <2>1 DEF BeginOpen, BeginReturn, Run, Early
    <3> QED
      BY <3>1, UnsettledComplete DEF Unsettled
  <2>2. CASE BeginCloseForUser(i) \/ BeginAct(i)
    <3>1. UNCHANGED <<space, next, writes, file, making, unsaved>> /\ op = NoOp
      BY <2>2 DEF BeginCloseForUser, BeginAct, memory, Free
    <3> QED
      BY <3>1, SameComplete DEF Unsettled, NoOp
  <2> QED
    BY <1>2, <2>1, <2>2 DEF UserOperation
<1>3. CASE Continue
  <2>1. CASE EndUnsaved
    BY <2>1, SameComplete DEF EndUnsaved, Unsettled, Early, Calling, memory
  <2>2. CASE CallFails
    BY <2>2, SameComplete DEF CallFails, Unsettled, memory
  <2> QED
    BY <1>3, <1>b, <2>1, <2>2 DEF Continue, EndCreate, EndClose, EndTakeOver, EndMarkError, EndDelete,
       EndCloseForUser, EndSaved, Saves
<1>4. CASE BeginCreateUser \/ CreateUserFails
  <2>1. Unsettled' /\ file' = file
    BY <1>4 DEF BeginCreateUser, CreateUserFails, Unsettled
  <2> QED
    BY <2>1, UnsettledComplete
<1>5. CASE EndCreateUser \/ Preview
  BY <1>5, <1>a, SavedComplete DEF EndCreateUser, Preview
<1>6. CASE Write
  <2>1. Written(TRUE) /\ writes # <<>> /\ next' = next /\ unsaved' = unsaved
    BY <1>6 DEF Write
  <2>2. /\ Len(writes) \in Nat \ {0} /\ Len(writes') = Len(writes) - 1
        /\ Head(writes) = writes[1]
        /\ writes' = <<>> <=> Len(writes) = 1
        /\ \A n \in 1 .. Len(writes') : writes'[n] = writes[n + 1]
        /\ Known' = Known /\ \A i \in Known : space'[i] = space[i]
    BY <1>a, <2>1, WrittenQueue
  <2>3. /\ file'.next = writes[1].next
        /\ \A i \in Id : file'.space[i] = IF i \in writes[1].ids THEN [space[i] EXCEPT !.known = TRUE]
                                                                ELSE NoSpace
    BY <1>6, <2>2 DEF Write, Contents
  <2>4. \A i \in Id : ~file'.space[i].known => file'.space[i] = NoSpace
    BY <1>a, <2>3 DEF TypeOK, Space
  <2>5. Unsettled => Unsettled'
    BY <1>c, <2>1
  <2>6. CASE Unsettled'
    BY <2>4, <2>6 DEF NewestIsComplete
  <2>7. CASE ~Unsettled' /\ writes' = <<>>
    <3>1. writes[1].ids = Known /\ writes[1].next = next
      BY <2>1, <2>2, <2>5, <2>7 DEF NewestIsComplete
    <3>2. \A i \in Known : [space[i] EXCEPT !.known = TRUE] = space[i]
      BY <1>a DEF TypeOK, Known, Space
    <3>3. Holds(file.space, file.next)'
      BY <2>1, <2>2, <2>3, <3>1, <3>2 DEF Holds, Known
    <3> QED
      BY <2>4, <2>7, <3>3 DEF NewestIsComplete
  <2>8. CASE ~Unsettled' /\ writes' # <<>>
    <3>1. writes'[Len(writes')] = writes[Len(writes)]
      BY <2>2, <2>8
    <3> QED
      BY <2>1, <2>2, <2>4, <2>5, <2>8, <3>1 DEF NewestIsComplete
  <2> QED
    BY <2>6, <2>7, <2>8
<1>7. CASE WriteFails
  <2>1. /\ Written(FALSE) /\ writes # <<>> /\ next' = next /\ file' = file
        /\ unsaved' = (unsaved \/ Tail(writes) = <<>>)
    BY <1>7 DEF WriteFails
  <2>2. /\ Len(writes) \in Nat \ {0} /\ Len(writes') = Len(writes) - 1 /\ writes' = Tail(writes)
        /\ \A n \in 1 .. Len(writes') : writes'[n] = writes[n + 1]
        /\ Known' = Known
    BY <1>a, <2>1, WrittenQueue
  <2>3. Unsettled => Unsettled'
    BY <1>c, <2>1
  <2>4. CASE Unsettled'
    BY <2>1, <2>4, UnsettledComplete
  <2>5. CASE ~Unsettled'
    <3>1. writes' # <<>>
      BY <2>1, <2>2, <2>5 DEF Unsettled
    <3>2. writes'[Len(writes')] = writes[Len(writes)]
      BY <2>2, <3>1
    <3> QED
      BY <2>1, <2>2, <2>3, <2>5, <3>1, <3>2 DEF NewestIsComplete
  <2> QED
    BY <2>4, <2>5
<1>8. CASE Restart
  <2>1. file.space \in [Id -> Space]
    BY <1>a DEF TypeOK, File
  <2>2. \A i \in Id : space'[i] = file.space[i]
    <3> SUFFICES ASSUME NEW i \in Id PROVE space'[i] = file.space[i]
      OBVIOUS
    <3>1. file.space[i] \in Space
      BY <2>1
    <3>2. file.space[i].delegatedToUser <=> file.space[i].owner = "agentDelegatedToUser"
      BY DEF SInv, FlagMatchesOwnership, Agrees
    <3> DEFINE flag == file.space[i].delegatedToUser \/ file.space[i].owner = "agentDelegatedToUser"
    <3>3. flag = file.space[i].delegatedToUser
      BY <3>1, <3>2 DEF Space
    <3>4. space'[i] = [file.space[i] EXCEPT !.delegatedToUser = flag]
      BY <1>8 DEF Restart, Loaded
    <3> QED
      BY <3>1, <3>3, <3>4 DEF Space
  <2>3. next' = file.next /\ writes' = <<>> /\ file' = file
    BY <1>8, <1>a, NextNumberIsFiles DEF Restart, SInv
  <2> QED
    BY <2>2, <2>3 DEF NewestIsComplete, Holds, Known
<1>9. CASE UNCHANGED vars
  BY <1>9, SameComplete DEF vars, Unsettled
<1> QED
  BY <1>1, <1>2, <1>3, <1>4, <1>5, <1>6, <1>7, <1>8, <1>9 DEF Next
-----------------------------------------------------------------------------
(* Who waits for a snapshot.                                               *)

LEMMA AwaitedSaved ==
  ASSUME TypeOK, NEW by, Save(by), NEW who
  PROVE  Awaited(who)' = Awaited(who) \cup IF who = by THEN {Len(writes')} ELSE {}
<1>0. Len(writes) \in Nat /\ Len(writes') = Len(writes) + 1
  BY SaveQueue
<1>1. \A n : n \in 1 .. Len(writes') <=> n \in 1 .. Len(writes) \/ n = Len(writes')
  BY <1>0
<1>2. Len(writes') \notin 1 .. Len(writes)
  BY <1>0
<1> QED
  BY <1>1, <1>2, SaveQueue DEF Awaited

LEMMA AwaitedWritten ==
  ASSUME TypeOK, NEW ok \in BOOLEAN, Written(ok), writes # <<>>, NEW who
  PROVE  \A n : n \in Awaited(who)' <=> n \in Nat /\ n # 0 /\ n + 1 \in Awaited(who)
<1> SUFFICES ASSUME NEW n
             PROVE  n \in Awaited(who)' <=> n \in Nat /\ n # 0 /\ n + 1 \in Awaited(who)
  OBVIOUS
<1>1. n \in 1 .. Len(writes') <=> n \in Nat /\ n # 0 /\ n + 1 \in 1 .. Len(writes)
  BY WrittenQueue
<1> QED
  BY <1>1, WrittenQueue DEF Awaited

LEMMA AgentsWaitTheirTurn == \A c \in Agent : AgentOperation(c) => op.at # "saving"
<1> SUFFICES ASSUME NEW c \in Agent, AgentOperation(c) PROVE Free
  BY DEF Free, NoOp
<1>1. ASSUME NEW i \in Id, BeginClaim(c, i) \/ Use(c, i) \/ BeginDelete(c, i) PROVE Free
  BY <1>1 DEF BeginClaim, Use, BeginDelete
<1>2. CASE \/ BeginCreate(c) \/ BeginDrive(c) \/ BeginEnsure(c) \/ BeginClose(c)
           \/ HandOff(c) \/ Complete(c) \/ BeginTakeOver(c) \/ BeginMarkError(c) \/ RemoveUnknown(c)
  BY <1>2 DEF BeginCreate, BeginDrive, BeginEnsure, BeginClose, HandOff, Complete,
     BeginTakeOver, BeginMarkError, RemoveUnknown
<1> QED
  BY <1>1, <1>2 DEF AgentOperation

\* A step after which nobody new waits.
LEMMA NobodyWaits ==
  ASSUME OneSnapshotEach, writes' = writes,
         op.at = "saving" => op'.at = "saving", making.at = "saving" => making'.at = "saving"
  PROVE  OneSnapshotEach'
  BY DEF OneSnapshotEach, Awaited

\* An operation saves, and waits.
LEMMA OperationWaits ==
  ASSUME TypeOK, OneSnapshotEach, op.at # "saving", Save("op"), op'.at = "saving", making' = making
  PROVE  OneSnapshotEach'
<1>1. Awaited("op") = {}
  BY DEF OneSnapshotEach
<1> QED
  BY <1>1, AwaitedSaved DEF OneSnapshotEach

LEMMA WaitersStep == SInv /\ OneSnapshotEach /\ [Next]_vars => OneSnapshotEach'
<1> SUFFICES ASSUME SInv, OneSnapshotEach, [Next]_vars PROVE OneSnapshotEach'
  OBVIOUS
<1>a. TypeOK
  BY DEF SInv
<1>b. ASSUME op.at # "saving", NEW kind, NEW c, NEW i, Saving(kind, c, i), making' = making
      PROVE  OneSnapshotEach'
  BY <1>a, <1>b, OperationWaits DEF Saving, Run
<1>1. ASSUME NEW c \in Agent, AgentOperation(c) PROVE OneSnapshotEach'
  <2>1. op.at # "saving"
    BY <1>1, AgentsWaitTheirTurn
  <2>2. CASE HandOff(c) \/ Complete(c) \/ RemoveUnknown(c) \/ \E i \in Id : Use(c, i)
    BY <1>b, <2>1, <2>2 DEF HandOff, Complete, RemoveUnknown, Use
  <2> QED
    BY <1>1, <2>1, <2>2, NobodyWaits DEF AgentOperation, BeginCreate, BeginDrive, BeginEnsure,
       BeginClose, BeginTakeOver, BeginMarkError, BeginClaim, BeginDelete
<1>2. ASSUME NEW i \in Id, UserOperation(i) PROVE OneSnapshotEach'
  BY <1>2, NobodyWaits DEF UserOperation, BeginOpen, BeginReturn, BeginCloseForUser, BeginAct, Free, NoOp
<1>3. CASE Continue
  <2>1. op.at # "saving"
    BY <1>3 DEF Continue, EndCreate, EndUnsaved, EndClose, EndTakeOver, EndMarkError, EndDelete,
       EndCloseForUser, EndSaved, CallFails, Calling
  <2>2. CASE EndUnsaved \/ CallFails
    BY <2>1, <2>2, NobodyWaits DEF EndUnsaved, CallFails
  <2> QED
    BY <1>3, <1>b, <2>1, <2>2 DEF Continue, EndCreate, EndClose, EndTakeOver, EndMarkError, EndDelete,
       EndCloseForUser, EndSaved, Saves
<1>4. CASE BeginCreateUser \/ CreateUserFails
  BY <1>4, NobodyWaits DEF BeginCreateUser, CreateUserFails, NotMaking
<1>5. CASE EndCreateUser
  <2>1. Awaited("making") = {} /\ making'.at = "saving" /\ op' = op /\ Save("making")
    BY <1>5, <1>a DEF EndCreateUser, OneSnapshotEach, TypeOK, Making
  <2> QED
    BY <1>a, <2>1, AwaitedSaved DEF OneSnapshotEach
<1>6. CASE Preview
  BY <1>6, <1>a, AwaitedSaved DEF Preview, OneSnapshotEach
<1>7. ASSUME NEW ok \in BOOLEAN, Written(ok), writes # <<>> PROVE OneSnapshotEach'
  <2>1. \A who : \A n : n \in Awaited(who)' <=> n \in Nat /\ n # 0 /\ n + 1 \in Awaited(who)
    BY <1>a, <1>7, AwaitedWritten
  <2>2. \A who : Head(writes).by = who => 1 \in Awaited(who)
    BY <1>a, <1>7, WrittenQueue DEF Awaited
  <2>3. \A by \in {"op", "making"} : \A n, m \in Awaited(by)' : n = m
    BY <2>1 DEF OneSnapshotEach
  <2>4. \A by \in {"op", "making"} : Head(writes).by = by => Awaited(by)' = {}
    BY <2>1, <2>2 DEF OneSnapshotEach
  <2>5. \A by \in {"op", "making"} : Awaited(by)' # {} => Awaited(by) # {} /\ Head(writes).by # by
    BY <2>1, <2>4
  <2> QED
    BY <1>7, <2>3, <2>5 DEF OneSnapshotEach, Written
<1>8. CASE Write \/ WriteFails
  BY <1>7, <1>8 DEF Write, WriteFails
<1>9. CASE Restart
  BY <1>9 DEF Restart, OneSnapshotEach, Awaited
<1>10. CASE UNCHANGED vars
  BY <1>10, NobodyWaits DEF vars
<1> QED
  BY <1>1, <1>2, <1>3, <1>4, <1>5, <1>6, <1>8, <1>9, <1>10 DEF Next
-----------------------------------------------------------------------------
(* The user in control.                                                    *)

\* The operation goes on as it is.
LEMMA TellSame ==
  ASSUME TypeOK, TellsSaved, op' = op, Known \subseteq Known',
         \/ writes' = writes
         \/ \E by \in {"making", "preview"} : Save(by)
  PROVE  TellsSaved'
<1>1. CASE writes' = writes
  BY <1>1 DEF TellsSaved, Telling, Calling, Awaited
<1>2. ASSUME NEW by \in {"making", "preview"}, Save(by) PROVE TellsSaved'
  <2>1. Awaited("op")' = Awaited("op")
    <3>1. Awaited("op")' = Awaited("op") \cup IF "op" = by THEN {Len(writes')} ELSE {}
      BY <1>2, AwaitedSaved
    <3> QED
      BY <3>1
  <2>2. ASSUME Telling, NEW n \in Awaited("op"), NEW m \in n .. Len(writes') PROVE op.id \in writes'[m].ids
    <3>1. n \in 1 .. Len(writes) /\ op.id \in Known'
      BY <2>2 DEF Awaited, TellsSaved
    <3>2. CASE m = Len(writes')
      BY <1>2, <3>1, <3>2, SaveQueue
    <3>3. CASE m # Len(writes')
      <4>0. Len(writes) \in Nat /\ Len(writes') = Len(writes) + 1
        BY <1>2, SaveQueue
      <4>1. m \in n .. Len(writes) /\ m \in 1 .. Len(writes)
        BY <2>2, <3>1, <3>3, <4>0
      <4> QED
        BY <1>2, <2>2, <4>1, SaveQueue DEF TellsSaved
    <3> QED
      BY <3>2, <3>3
  <2> QED
    BY <2>1, <2>2 DEF TellsSaved, Telling, Calling
<1> QED
  BY <1>1, <1>2

\* An operation begins, or ends without a snapshot.
LEMMA TellBegins ==
  ASSUME op'.at # "saving", Calling("open")' => op'.id \in Known'
  PROVE  TellsSaved'
  BY DEF TellsSaved, Telling

\* An operation saves: its snapshot is the last.
LEMMA TellWaits ==
  ASSUME TypeOK, OneSnapshotEach, op.at # "saving", NEW kind, NEW c, NEW i, Saving(kind, c, i),
         kind \in Tells => i \in Known'
  PROVE  TellsSaved'
<1>1. op'.at = "saving" /\ Save("op") /\ (op'.kind = "tell" => op'.id \in Known')
  BY DEF Saving, Run
<1>2. Awaited("op") = {}
  BY DEF OneSnapshotEach
<1>3. Awaited("op")' = {Len(writes')}
  BY <1>1, <1>2, AwaitedSaved
<1>4. Len(writes) \in Nat /\ Len(writes') = Len(writes) + 1 /\ writes'[Len(writes')].ids = Known'
  BY <1>1, SaveQueue
<1>5. \A m \in Len(writes') .. Len(writes') : m = Len(writes')
  BY <1>4
<1> QED
  BY <1>1, <1>3, <1>4, <1>5 DEF TellsSaved, Telling, Calling

LEMMA TellStep == SInv /\ OneSnapshotEach /\ TellsSaved /\ [Next]_vars => TellsSaved'
<1> SUFFICES ASSUME SInv, OneSnapshotEach, TellsSaved, [Next]_vars PROVE TellsSaved'
  OBVIOUS
<1>a. TypeOK /\ space \in [Id -> Space]
  BY DEF SInv, TypeOK
<1>1. ASSUME NEW c \in Agent, AgentOperation(c) PROVE TellsSaved'
  <2>1. op.at # "saving"
    BY <1>1, AgentsWaitTheirTurn
  <2>2. CASE HandOff(c) \/ Complete(c)
    <3>1. selected[c] \in Known'
      BY <1>a, <2>2, KnownSet DEF HandOff, Complete, SelectedAgentSpace, SelectedSpace
    <3> QED
      BY <1>a, <2>1, <2>2, <3>1, TellWaits DEF HandOff, Complete
  <2>3. CASE RemoveUnknown(c) \/ \E i \in Id : Use(c, i)
    BY <1>a, <2>1, <2>3, TellWaits DEF RemoveUnknown, Use, Tells
  <2>4. CASE \/ BeginCreate(c) \/ BeginDrive(c) \/ BeginEnsure(c) \/ BeginClose(c)
             \/ BeginTakeOver(c) \/ BeginMarkError(c)
    BY <2>4, TellBegins DEF BeginCreate, BeginDrive, BeginEnsure, BeginClose, BeginTakeOver,
       BeginMarkError, Run, Calling
  <2>5. ASSUME NEW i \in Id, BeginClaim(c, i) \/ BeginDelete(c, i) PROVE TellsSaved'
    <3>1. \E kind \in {"claim", "delete", "remove"} : Run("calling", kind, c, i)
      BY <2>5 DEF BeginClaim, BeginDelete
    <3> QED
      BY <3>1, TellBegins DEF Run, Calling
  <2> QED
    BY <1>1, <2>2, <2>3, <2>4, <2>5 DEF AgentOperation
<1>2. ASSUME NEW i \in Id, UserOperation(i) PROVE TellsSaved'
  <2>1. CASE BeginOpen(i)
    <3>1. Known' = Known /\ i \in Known
      BY <1>a, <2>1, KnownSet DEF BeginOpen, Opened
    <3> QED
      BY <2>1, <3>1, TellBegins DEF BeginOpen, Run
  <2>2. CASE BeginReturn(i) \/ BeginCloseForUser(i) \/ BeginAct(i)
    BY <2>2, TellBegins DEF BeginReturn, BeginCloseForUser, BeginAct, Run, Calling
  <2> QED
    BY <1>2, <2>1, <2>2 DEF UserOperation
<1>3. CASE Continue
  <2>1. op.at # "saving"
    BY <1>3 DEF Continue, EndCreate, EndUnsaved, EndClose, EndTakeOver, EndMarkError, EndDelete,
       EndCloseForUser, EndSaved, CallFails, Calling
  <2>2. CASE EndUnsaved \/ CallFails
    BY <2>2, TellBegins DEF EndUnsaved, CallFails, NoOp, Calling
  <2>3. CASE EndSaved
    <3>1. Saves /\ Known' = Known /\ op.kind \in {"claim", "open", "return", "act"} /\ op.at = "calling"
      BY <2>3, KnownSame DEF EndSaved, memory, Calling
    <3>2. op.kind \in Tells => op.id \in Known'
      BY <3>1 DEF TellsSaved, Tells, Calling
    <3> QED
      BY <1>a, <2>1, <3>1, <3>2, TellWaits DEF Saves
  <2>4. CASE EndCreate \/ EndClose \/ EndTakeOver \/ EndMarkError \/ EndDelete \/ EndCloseForUser
    <3>1. Saves /\ op.kind \notin Tells
      BY <2>4 DEF EndCreate, EndClose, EndTakeOver, EndMarkError, EndDelete, EndCloseForUser, Calling, Tells
    <3> QED
      BY <1>a, <2>1, <3>1, TellWaits DEF Saves
  <2> QED
    BY <1>3, <2>2, <2>3, <2>4 DEF Continue
<1>4. CASE BeginCreateUser \/ CreateUserFails
  BY <1>a, <1>4, KnownSame, TellSame DEF BeginCreateUser, CreateUserFails, memory
<1>5. CASE EndCreateUser
  <2>1. Known \subseteq Known'
    BY <1>a, <1>5 DEF EndCreateUser, Known, NewSpace
  <2> QED
    BY <1>a, <1>5, <2>1, TellSame DEF EndCreateUser
<1>6. CASE Preview
  BY <1>a, <1>6, KnownSame, TellSame DEF Preview, memory
<1>7. ASSUME NEW ok \in BOOLEAN, Written(ok), writes # <<>> PROVE TellsSaved'
  <2>1. /\ Len(writes) \in Nat \ {0} /\ Len(writes') = Len(writes) - 1
        /\ \A n \in 1 .. Len(writes') : writes'[n] = writes[n + 1]
        /\ Known' = Known
    BY <1>a, <1>7, WrittenQueue
  <2>2. CASE op' = NoOp
    BY <2>2 DEF TellsSaved, Telling, Calling, NoOp
  <2>3. CASE op' = op
    <3>1. ASSUME Telling, NEW n \in Awaited("op")', NEW m \in n .. Len(writes')
          PROVE  op.id \in writes'[m].ids
      <4>1. n \in Nat /\ n # 0 /\ n + 1 \in Awaited("op")
        BY <1>a, <1>7, <3>1, AwaitedWritten
      <4>2. m \in 1 .. Len(writes') /\ m + 1 \in n + 1 .. Len(writes)
        BY <2>1, <3>1, <4>1
      <4> QED
        BY <2>1, <3>1, <4>1, <4>2 DEF TellsSaved
    <3> QED
      BY <2>1, <2>3, <3>1 DEF TellsSaved, Telling, Calling
  <2> QED
    BY <1>7, <2>2, <2>3 DEF Written
<1>8. CASE Write \/ WriteFails
  BY <1>7, <1>8 DEF Write, WriteFails
<1>9. CASE Restart
  BY <1>9, TellBegins DEF Restart, NoOp, Calling
<1>10. CASE UNCHANGED vars
  BY <1>a, <1>10, KnownSame, TellSame DEF vars
<1> QED
  BY <1>1, <1>2, <1>3, <1>4, <1>5, <1>6, <1>8, <1>9, <1>10 DEF Next

\* A step that grants nothing and leaves alone what has been granted.
LEMMA KeepsGrants ==
  ASSUME TypeOK, GrantsKept, granted' \subseteq granted, file' = file,
         \A i \in granted' : space'[i].known /\ space'[i].owner # "agent",
         writes' = writes \/ \E by : Save(by)
  PROVE  GrantsKept'
<1> SUFFICES ASSUME NEW i \in granted', NEW n \in 1 .. Len(writes') PROVE i \in writes'[n].ids
  BY DEF GrantsKept
<1>1. CASE writes' = writes
  BY <1>1 DEF GrantsKept
<1>2. ASSUME NEW by, Save(by) PROVE i \in writes'[n].ids
  <2>1. CASE n = Len(writes')
    <3>1. i \in Known'
      BY DEF Known, TypeOK
    <3> QED
      BY <1>2, <2>1, <3>1, SaveQueue
  <2>2. CASE n # Len(writes')
    <3>0. Len(writes) \in Nat /\ Len(writes') = Len(writes) + 1
      BY <1>2, SaveQueue
    <3>1. n \in 1 .. Len(writes)
      BY <2>2, <3>0
    <3> QED
      BY <1>2, <3>1, SaveQueue DEF GrantsKept
  <2> QED
    BY <2>1, <2>2
<1> QED
  BY <1>1, <1>2

LEMMA GrantsStep ==
  SInv /\ OneSnapshotEach /\ TellsSaved /\ GrantsKept /\ [Next]_vars => GrantsKept'
<1> SUFFICES ASSUME SInv, OneSnapshotEach, TellsSaved, GrantsKept, [Next]_vars PROVE GrantsKept'
  OBVIOUS
<1>a. TypeOK /\ space \in [Id -> Space] /\ granted \subseteq Id
  BY DEF SInv, TypeOK
<1>b. \A i \in granted : i \in Known /\ space[i].owner # "agent"
  BY <1>a DEF GrantsKept, Known
<1>c. ASSUME UNCHANGED <<space, granted, file>>, writes' = writes \/ \E by : Save(by)
      PROVE  GrantsKept'
  BY <1>a, <1>b, <1>c, KeepsGrants DEF Known
<1>d. ASSUME NEW i \in Id, NEW owner, NEW flag, NEW status, Set(i, owner, flag, status),
             owner # "agent" \/ i \notin granted', granted' \subseteq granted, file' = file,
             writes' = writes \/ \E by : Save(by)
      PROVE  GrantsKept'
  <2>1. \A j \in granted' : space'[j].known /\ space'[j].owner # "agent"
    BY <1>a, <1>b, <1>d DEF Set, Known
  <2> QED
    BY <1>a, <1>d, <2>1, KeepsGrants
<1>1. ASSUME NEW c \in Agent, AgentOperation(c) PROVE GrantsKept'
  <2>1. CASE HandOff(c) \/ Complete(c)
    <3>1. selected[c] \in Id
      BY <2>1 DEF HandOff, Complete, SelectedAgentSpace, SelectedSpace, Known
    <3> QED
      BY <1>d, <2>1, <3>1 DEF HandOff, Complete, Saving
  <2>2. CASE BeginMarkError(c)
    <3>1. \A j \in Id : space'[j].known = space[j].known /\ space'[j].owner = space[j].owner
      BY <1>a, <2>2 DEF BeginMarkError, Space
    <3> QED
      BY <1>a, <1>b, <2>2, <3>1, KeepsGrants DEF BeginMarkError, Known
  <2>3. ASSUME NEW i \in Id, BeginClaim(c, i) PROVE GrantsKept'
    BY <1>d, <2>3 DEF BeginClaim
  <2>4. CASE RemoveUnknown(c) \/ \E i \in Id : Use(c, i)
    BY <1>c, <2>4 DEF RemoveUnknown, Use, Saving
  <2> QED
    BY <1>1, <1>c, <2>1, <2>2, <2>3, <2>4 DEF AgentOperation, BeginCreate, BeginDrive, BeginEnsure,
       BeginClose, BeginTakeOver, BeginDelete, memory
<1>2. ASSUME NEW i \in Id, UserOperation(i) PROVE GrantsKept'
  <2>1. CASE BeginOpen(i)
    <3> DEFINE owner == IF space[i].owner = "agent" THEN "agentDelegatedToUser" ELSE space[i].owner
    <3>1. \E flag, status : Set(i, owner, flag, status)
      BY <2>1 DEF BeginOpen, Opened
    <3>2. owner # "agent"
      OBVIOUS
    <3> HIDE DEF owner
    <3> QED
      BY <1>d, <2>1, <3>1, <3>2 DEF BeginOpen
  <2>2. CASE BeginReturn(i)
    <3>1. \A j \in granted' : j # i /\ j \in granted /\ space'[j] = space[j]
      BY <1>a, <2>2 DEF BeginReturn
    <3> QED
      BY <1>a, <1>b, <2>2, <3>1, KeepsGrants DEF BeginReturn, Known
  <2>3. CASE BeginCloseForUser(i) \/ BeginAct(i)
    BY <1>c, <2>3 DEF BeginCloseForUser, BeginAct, memory
  <2> QED
    BY <1>2, <2>1, <2>2, <2>3 DEF UserOperation
<1>3. CASE Continue
  <2>1. CASE EndCreate
    <3>1. op.id \notin granted
      BY <1>b, <2>1 DEF EndCreate, SInv, NewNumbers
    <3>2. \A j \in granted' : j \in granted /\ space'[j] = space[j]
      BY <1>a, <2>1, <3>1 DEF EndCreate
    <3> QED
      BY <1>a, <1>b, <2>1, <3>2, KeepsGrants DEF EndCreate, Saves, Saving, Known
  <2>2. CASE EndTakeOver \/ EndDelete
    <3>1. \A j \in granted' : j \in granted /\ space'[j] = space[j]
      BY <1>a, <2>2 DEF EndTakeOver, EndDelete
    <3> QED
      BY <1>a, <1>b, <2>2, <3>1, KeepsGrants DEF EndTakeOver, EndDelete, Saves, Saving, Known
  <2>3. CASE EndClose \/ EndCloseForUser
    <3>1. \A j \in Id : space'[j].known = space[j].known /\ space'[j].owner = space[j].owner
      BY <1>a, <2>3 DEF EndClose, EndCloseForUser, Space
    <3> QED
      BY <1>a, <1>b, <2>3, <3>1, KeepsGrants DEF EndClose, EndCloseForUser, Saves, Saving, Known
  <2>4. CASE EndMarkError \/ EndSaved \/ EndUnsaved \/ CallFails
    BY <1>c, <2>4 DEF EndMarkError, EndSaved, EndUnsaved, CallFails, Saves, Saving, memory
  <2> QED
    BY <1>3, <2>1, <2>2, <2>3, <2>4 DEF Continue
<1>4. CASE EndCreateUser
  <2>1. \A j \in Id : space'[j] = IF j = making.id THEN NewSpace("user") ELSE space[j]
    BY <1>a, <1>4 DEF EndCreateUser
  <2>2. NewSpace("user").known /\ NewSpace("user").owner # "agent"
    BY DEF NewSpace
  <2> QED
    BY <1>a, <1>b, <1>4, <2>1, <2>2, KeepsGrants DEF EndCreateUser, Known
<1>5. CASE BeginCreateUser \/ CreateUserFails \/ Preview
  BY <1>c, <1>5 DEF BeginCreateUser, CreateUserFails, Preview, memory
<1>6. ASSUME NEW ok \in BOOLEAN, Written(ok), writes # <<>>
      PROVE  /\ \A i \in granted' : /\ i \in Known /\ i \in Head(writes).ids
                                    /\ space'[i].known /\ space'[i].owner # "agent"
                                    /\ \A n \in 1 .. Len(writes') : i \in writes'[n].ids
             /\ ~ok => granted' = granted
  <2>1. /\ Len(writes) \in Nat \ {0} /\ Len(writes') = Len(writes) - 1 /\ Head(writes) = writes[1]
        /\ \A n \in 1 .. Len(writes') : writes'[n] = writes[n + 1]
        /\ \A i \in Known : space'[i] = space[i]
    BY <1>a, <1>6, WrittenQueue
  <2>2. ASSUME NEW i \in granted'
        PROVE  /\ i \in Known /\ space[i].owner # "agent"
               /\ \A n \in 1 .. Len(writes) : i \in writes[n].ids
    <3>1. CASE i \in granted
      BY <1>b, <3>1 DEF GrantsKept
    <3>2. CASE i \notin granted
      <4>1. /\ Head(writes).by = "op" /\ op.kind = "tell" /\ i = op.id /\ i \in Known
            /\ space[i].owner # "agent"
        BY <1>6, <2>2, <3>2 DEF Written
      <4>2. 1 \in Awaited("op")
        BY <2>1, <4>1 DEF Awaited
      <4>3. Telling
        BY <4>1, <4>2 DEF OneSnapshotEach, Telling
      <4> QED
        BY <4>1, <4>2, <4>3 DEF TellsSaved
    <3> QED
      BY <3>1, <3>2
  <2>3. \A i \in granted' : /\ i \in Known /\ i \in Head(writes).ids
                            /\ space'[i].known /\ space'[i].owner # "agent"
                            /\ \A n \in 1 .. Len(writes') : i \in writes'[n].ids
    BY <2>1, <2>2 DEF Known
  <2>4. ~ok => granted' = granted
    BY <1>6 DEF Written
  <2> QED
    BY <2>3, <2>4
<1>7. CASE Write
  <2>1. \A i \in granted' : /\ i \in Known /\ i \in Head(writes).ids
                            /\ space'[i].known /\ space'[i].owner # "agent"
                            /\ \A n \in 1 .. Len(writes') : i \in writes'[n].ids
    BY <1>6, <1>7 DEF Write
  <2>2. \A i \in Id : i \in Head(writes).ids => file'.space[i] = [space[i] EXCEPT !.known = TRUE]
    BY <1>7 DEF Write, Contents
  <2>3. \A i \in Known : i \in Id /\ (i \in granted' => space'[i] = space[i])
    BY <1>a, <1>7, WrittenQueue DEF Write, Known
  <2>4. \A i \in granted' : file'.space[i].known /\ file'.space[i].owner # "agent"
    BY <1>a, <2>1, <2>2, <2>3 DEF Space
  <2> QED
    BY <2>1, <2>4 DEF GrantsKept
<1>8. CASE WriteFails
  <2>1. /\ \A i \in granted' : /\ space'[i].known /\ space'[i].owner # "agent"
                               /\ \A n \in 1 .. Len(writes') : i \in writes'[n].ids
        /\ granted' = granted /\ file' = file
    BY <1>6, <1>8 DEF WriteFails
  <2> QED
    BY <2>1 DEF GrantsKept
<1>9. CASE Restart
  <2>1. file.space \in [Id -> Space]
    BY <1>a DEF TypeOK, File
  <2>2. \A i \in Id : space'[i].known = file.space[i].known /\ space'[i].owner = file.space[i].owner
    BY <1>9, <2>1 DEF Restart, Loaded, Space
  <2> QED
    BY <1>a, <1>9, <2>2 DEF Restart, GrantsKept
<1>10. CASE UNCHANGED vars
  BY <1>c, <1>10 DEF vars
<1> QED
  BY <1>1, <1>2, <1>3, <1>4, <1>5, <1>7, <1>8, <1>9, <1>10 DEF Next
-----------------------------------------------------------------------------
(* The theorems.                                                           *)

LEMMA SInvStep == SInv /\ [Next]_vars => SInv'
<1> SUFFICES ASSUME SInv, [Next]_vars PROVE SInv'
  OBVIOUS
<1>1. TypeOK'
  BY TypeStep DEF SInv
<1>2. FlagMatchesOwnership'
  BY FlagStep DEF SInv
<1> QED
  BY <1>1, <1>2, NumbersStep DEF SInv

LEMMA SInvHolds == Spec => []SInv
  BY InitSInv, SInvStep, PTL DEF Spec

\* Every variable keeps its type: no operation, failed or not, writes a status
\* or an ownership that the others do not know.
THEOREM SpacesTypeCorrect == Spec => []TypeOK
<1>1. SInv => TypeOK
  BY DEF SInv
<1> QED
  BY <1>1, SInvHolds, PTL

\* The flag and the ownership agree in the memory and in the file, however
\* operations, failures, writes and restarts interleave.
THEOREM FlagAndOwnership == Spec => []FlagMatchesOwnership
<1>1. SInv => FlagMatchesOwnership
  BY DEF SInv
<1> QED
  BY <1>1, SInvHolds, PTL

\* A browser that an agent drives is the agent's until it has answered.
THEOREM DrivesOwnSpace == Spec => []DrivesItsOwn
<1>1. SInv => DrivesItsOwn
  BY DEF SInv
<1> QED
  BY <1>1, SInvHolds, PTL

\* No number is given to two spaces, though the user's are made outside the queue.
THEOREM NumbersAreNew == Spec => []NewNumbers
<1>1. SInv => NewNumbers
  BY DEF SInv
<1> QED
  BY <1>1, SInvHolds, PTL

\* Numbers stay below their counter, in the memory, the snapshots and the file.
THEOREM CounterIsAhead == Spec => []NumbersBelowNext
<1>1. SInv => NumbersBelowNext
  BY DEF SInv
<1> QED
  BY <1>1, SInvHolds, PTL

\* A space whose user has been told to be in control stays the user's through
\* crashes, failed operations and failed writes, until it is handed back.
THEOREM UserKeepsControl == Spec => []ControlSurvives
<1> DEFINE I == SInv /\ OneSnapshotEach /\ TellsSaved /\ GrantsKept
<1>1. Init => I
  BY InitSInv DEF Init, OneSnapshotEach, Awaited, TellsSaved, Telling, Calling, NoOp, GrantsKept
<1>2. I /\ [Next]_vars => I'
  BY SInvStep, WaitersStep, TellStep, GrantsStep
<1>3. I => ControlSurvives
  BY DEF GrantsKept, ControlSurvives
<1> QED
  BY <1>1, <1>2, <1>3, PTL DEF Spec

\* Once nothing runs and nothing has failed the file holds every space as it is.
THEOREM FileIsComplete == Spec => []NothingIsForgotten
<1> DEFINE I == SInv /\ OneSnapshotEach /\ NewestIsComplete
<1>1. Init => I
  <2>1. Init => NewestIsComplete
    BY DEF Init, NewestIsComplete, Holds, Known, NoSpace
  <2> QED
    BY <2>1, InitSInv DEF Init, OneSnapshotEach, Awaited
<1>2. I /\ [Next]_vars => I'
  BY SInvStep, WaitersStep, NewestStep
<1>3. I => NothingIsForgotten
  BY DEF NewestIsComplete, NothingIsForgotten, Unsettled, NotMaking, Free, NoOp
<1> QED
  BY <1>1, <1>2, <1>3, PTL DEF Spec
=============================================================================
