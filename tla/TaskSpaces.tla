------------------------------ MODULE TaskSpaces ------------------------------
(***************************************************************************)
(* Task spaces of the Browser Lite app                                     *)
(* (services/browser-lite-app/src/task-space-manager.mjs): browsers that a *)
(* user and agents share and pass to each other.                           *)
(*                                                                         *)
(* Operations of agents (each in a context, its session) and of the window *)
(* are serialized by a queue, and each awaits calls of the browser that    *)
(* may throw, after changing some of its state already.  Three things run  *)
(* outside the queue: the creation of a user's space, previews that save   *)
(* the state, and the writing of the state file, one snapshot at a time.   *)
(* The app may quit at any moment and loads the file when it starts.       *)
(*                                                                         *)
(* Abstracted: names, profiles, tabs, previews and what is shown, with the *)
(* window's own selection; the runtimes of spaces, which ensure starts     *)
(* when they are needed.  Any operation may be the next of the queue.      *)
(***************************************************************************)
EXTENDS Naturals, Sequences, FiniteSetsExt

CONSTANTS
  Agent,      \* contexts of agents
  Nobody,     \* the context of the window, and that of no operation
  MaxId,      \* bound: spaces ever created
  MaxWrites   \* bound: snapshots that wait to be written

Id == 1 .. MaxId
None == 0  \* no space: selectedSpaceId is null

ASSUME ContextAssumption == Nobody \notin Agent
ASSUME SpaceBoundAssumption == MaxId \in Nat \ {0} /\ MaxWrites \in Nat \ {0}

VARIABLES
  space,     \* spaces: what each object holds; known: it is in the map
  next,      \* nextSpaceId
  selected,  \* selectedSpaceIds of the agents
  op,        \* the operation at the head of dispatchQueue
  making,    \* createUserTaskSpace, outside the queue
  writes,    \* persistQueue: snapshots that wait to be written
  file,      \* the state file
  unsaved,   \* history: an operation has failed and nothing was saved since
  granted    \* history: spaces whose user has been told to be in control

memory == <<space, next, selected>>
vars == <<space, next, selected, op, making, writes, file, unsaved, granted>>
-----------------------------------------------------------------------------
Ownership == {"agent", "agentDelegatedToUser", "user"}
Status    == {"active", "closed", "completed", "error"}
Space     == [known : BOOLEAN, owner : Ownership, delegatedToUser : BOOLEAN, status : Status]
NoSpace   == [known |-> FALSE, owner |-> "agent", delegatedToUser |-> FALSE, status |-> "closed"]

Kinds == {"drive", "ensure", "create", "claim", "use", "close", "delete", "handOff",
          "takeOver", "complete", "markError", "remove",
          "open", "return", "closeForUser", "act",
          "tell", "save"}
\* Operations that change the state before they await the browser.
Early == {"create", "claim", "markError", "open", "return", "delete"}
\* Operations whose success tells the user to be in control.
Tells == {"open", "handOff", "complete"}

Operation == [at : {"calling", "saving"}, kind : Kinds, context : Agent \cup {Nobody}, id : Id \cup {None}]
NoOp == [at |-> "none"]

Making == [at : {"none", "calling", "saving"}, id : Id \cup {None}]
NotMaking == [at |-> "none", id |-> None]

Selections == [Agent -> Id \cup {None}]
Snapshot == [by : {"op", "making", "preview"}, ids : SUBSET Id, next : 1 .. MaxId + 1, selected : Selections]
File == [space : [Id -> Space], next : 1 .. MaxId + 1, selected : Selections]

Known == {i \in Id : space[i].known}
Free == op = NoOp
\* dispatchContext
CurrentContext == IF Free THEN Nobody ELSE op.context
Run(at, kind, context, id) == op' = [at |-> at, kind |-> kind, context |-> context, id |-> id]
Calling(kind) == op.at = "calling" /\ op.kind = kind

\* persist(): the snapshot is taken now, the spaces in it are written as they will
\* be by then.
Save(by) ==
  /\ writes' = Append(writes, [by |-> by, ids |-> {i \in Id : space'[i].known},
                               next |-> next', selected |-> selected'])
  /\ unsaved' = FALSE
\* An operation that awaits its snapshot has only to tell the user, or not.
Saving(kind, context, id) ==
  /\ IF kind \in Tells THEN Run("saving", "tell", context, id)
                       ELSE Run("saving", "save", context, None)
  /\ Save("op")
Saves == Saving(op.kind, op.context, op.id)

Init ==
  /\ space = [i \in Id |-> NoSpace]
  /\ next = 1
  /\ selected = [c \in Agent |-> None]
  /\ op = NoOp
  /\ making = NotMaking
  /\ writes = <<>>
  /\ file = [space |-> space, next |-> 1, selected |-> selected]
  /\ unsaved = FALSE
  /\ granted = {}
-----------------------------------------------------------------------------
(* What operations require.                                                *)

SelectedSpace(c) == selected[c] # None /\ selected[c] \in Known
AgentSpace(i) ==
  /\ space[i].status = "active"
  /\ ~space[i].delegatedToUser
  /\ space[i].owner = "agent"
SelectedAgentSpace(c) == SelectedSpace(c) /\ AgentSpace(selected[c])

Set(i, owner, flag, status) ==
  space' = [space EXCEPT ![i] =
    [known |-> TRUE, owner |-> owner, delegatedToUser |-> flag, status |-> status]]

Select(c, i) == [a \in Agent |-> IF a = c THEN i ELSE selected[a]]
Deselected(i) == [c \in Agent |-> IF selected[c] = i THEN None ELSE selected[c]]
-----------------------------------------------------------------------------
(* Spaces are created.                                                     *)

NewSpace(owner) == [known |-> TRUE, owner |-> owner, delegatedToUser |-> FALSE, status |-> "active"]

\* Mutant of BeginCreate: the number is the first one above those in the map.
BeginCreateFromMap(c) ==
  /\ Free
  /\ next \in Id
  /\ LET new == CHOOSE i \in Id : i \notin Known /\ \A j \in Id : j < i => j \in Known
     IN  next' = new + 1 /\ Run("calling", "create", c, new)
  /\ UNCHANGED <<space, selected, making, writes, file, unsaved, granted>>

\* createTaskSpace, and ensureContextTaskSpace of a context without an active space.
BeginCreate(c) ==
  /\ Free
  /\ next \in Id
  /\ next' = next + 1
  /\ Run("calling", "create", c, next)
  /\ UNCHANGED <<space, selected, making, writes, file, unsaved, granted>>

EndCreate ==
  /\ Calling("create")
  /\ space' = [space EXCEPT ![op.id] = NewSpace("agent")]
  /\ selected' = Select(op.context, op.id)
  /\ UNCHANGED <<next, making, file, granted>>
  /\ Saves

\* createUserTaskSpace is not serialized: the space it creates is selected in the
\* context of whatever operation runs by then.
BeginCreateUser ==
  /\ making = NotMaking
  /\ next \in Id
  /\ next' = next + 1
  /\ making' = [at |-> "calling", id |-> next]
  /\ UNCHANGED <<space, selected, op, writes, file, unsaved, granted>>

EndCreateUser ==
  /\ making.at = "calling"
  /\ space' = [space EXCEPT ![making.id] = NewSpace("user")]
  /\ selected' = Select(CurrentContext, making.id)
  /\ making' = [making EXCEPT !.at = "saving"]
  /\ UNCHANGED <<next, op, file, granted>>
  /\ Save("making")

CreateUserFails ==
  /\ making.at = "calling"
  /\ making' = NotMaking
  /\ unsaved' = TRUE
  /\ UNCHANGED <<memory, op, writes, file, granted>>
-----------------------------------------------------------------------------
(* Agents.                                                                 *)

\* agentWebDriverRequest, createTab, snapshot, sendCDPMessage and the like: the
\* browser is driven while the operation runs.
BeginDrive(c) ==
  /\ Free
  /\ SelectedAgentSpace(c)
  /\ Run("calling", "drive", c, selected[c])
  /\ UNCHANGED <<memory, making, writes, file, unsaved, granted>>

\* ensureContextTaskSpace of a context with an active space, whoever controls it.
BeginEnsure(c) ==
  /\ Free
  /\ SelectedSpace(c) /\ space[selected[c]].status = "active"
  /\ Run("calling", "ensure", c, selected[c])
  /\ UNCHANGED <<memory, making, writes, file, unsaved, granted>>

EndUnsaved ==
  /\ Calling("drive") \/ Calling("ensure")
  /\ op' = NoOp
  /\ UNCHANGED <<memory, making, writes, file, unsaved, granted>>

BeginClaim(c, i) ==
  /\ Free
  /\ i \in Known
  /\ ~space[i].delegatedToUser
  /\ ~(space[i].owner = "agent" /\ space[i].status = "active")
  /\ Set(i, "agent", FALSE, "active")
  /\ selected' = [selected EXCEPT ![c] = i]
  /\ Run("calling", "claim", c, i)
  /\ granted' = granted \ {i}
  /\ UNCHANGED <<next, making, writes, file, unsaved>>

\* useTaskSpace takes any number.
Use(c, i) ==
  /\ Free
  /\ selected' = [selected EXCEPT ![c] = i]
  /\ UNCHANGED <<space, next, making, file, granted>>
  /\ Saving("use", c, i)

BeginClose(c) ==
  /\ Free
  /\ SelectedSpace(c)
  /\ space[selected[c]].owner # "user"
  /\ Run("calling", "close", c, selected[c])
  /\ UNCHANGED <<memory, making, writes, file, unsaved, granted>>

EndClose ==
  /\ Calling("close")
  /\ space' = [space EXCEPT ![op.id].status = "closed"]
  /\ selected' = [selected EXCEPT ![op.context] = None]
  /\ UNCHANGED <<next, making, file, granted>>
  /\ Saves

\* Mutant of HandOff: the state is not saved.
HandOffUnsaved(c) ==
  /\ Free
  /\ SelectedAgentSpace(c)
  /\ Set(selected[c], "agentDelegatedToUser", TRUE, "active")
  /\ granted' = granted \cup {selected[c]}
  /\ UNCHANGED <<next, selected, op, making, writes, file, unsaved>>

HandOff(c) ==
  /\ Free
  /\ SelectedAgentSpace(c)
  /\ Set(selected[c], "agentDelegatedToUser", TRUE, "active")
  /\ UNCHANGED <<next, selected, making, file, granted>>
  /\ Saving("handOff", c, selected[c])

Complete(c) ==
  /\ Free
  /\ SelectedAgentSpace(c)
  /\ Set(selected[c], "agentDelegatedToUser", TRUE, "completed")
  /\ UNCHANGED <<next, selected, making, file, granted>>
  /\ Saving("complete", c, selected[c])

BeginTakeOver(c) ==
  /\ Free
  /\ SelectedSpace(c)
  /\ space[selected[c]].delegatedToUser
  /\ space[selected[c]].owner = "agentDelegatedToUser"
  /\ Run("calling", "takeOver", c, selected[c])
  /\ UNCHANGED <<memory, making, writes, file, unsaved, granted>>

EndTakeOver ==
  /\ Calling("takeOver")
  /\ space' = [space EXCEPT ![op.id].owner = "agent", ![op.id].delegatedToUser = FALSE]
  /\ granted' = granted \ {op.id}
  /\ UNCHANGED <<next, selected, making, file>>
  /\ Saves

BeginMarkError(c) ==
  /\ Free
  /\ SelectedAgentSpace(c)
  /\ space' = [space EXCEPT ![selected[c]].status = "error"]
  /\ Run("calling", "markError", c, selected[c])
  /\ UNCHANGED <<next, selected, making, writes, file, unsaved, granted>>

EndMarkError ==
  /\ Calling("markError")
  /\ selected' = [selected EXCEPT ![op.context] = None]
  /\ UNCHANGED <<space, next, making, file, granted>>
  /\ Saves

\* deleteSpaces of one space, and removeContextTaskSpace of the selected one.
BeginDelete(c, i) ==
  /\ Free
  /\ i \in Known
  /\ \/ space[i].status # "active" /\ Run("calling", "delete", c, i)
     \/ selected[c] = i /\ Run("calling", "remove", c, i)
  /\ UNCHANGED <<memory, making, writes, file, unsaved, granted>>

EndDelete ==
  /\ Calling("delete") \/ Calling("remove")
  /\ space' = [space EXCEPT ![op.id].known = FALSE]
  /\ selected' = Deselected(op.id)
  /\ granted' = granted \ {op.id}
  /\ UNCHANGED <<next, making, file>>
  /\ Saves

\* removeContextTaskSpace of a number that is no space.
RemoveUnknown(c) ==
  /\ Free
  /\ selected[c] # None /\ ~SelectedSpace(c)
  /\ selected' = [selected EXCEPT ![c] = None]
  /\ UNCHANGED <<space, next, making, file, granted>>
  /\ Saving("remove", c, None)
-----------------------------------------------------------------------------
(* The user, in the window.                                                *)

\* The user gets what was the agent's; what was closed is active again.
Opened(i) ==
  LET was == space[i]
  IN  Set(i, IF was.owner = "agent" THEN "agentDelegatedToUser" ELSE was.owner,
             was.delegatedToUser \/ was.owner = "agent",
             IF was.status \in {"closed", "error"} THEN "active" ELSE was.status)

\* Mutant of BeginOpen: it does not wait for its turn in the queue.
BeginOpenAtOnce(i) ==
  /\ Free \/ Calling("drive")
  /\ i \in Known
  /\ Opened(i)
  /\ IF Free THEN Run("calling", "open", Nobody, i) ELSE UNCHANGED op
  /\ UNCHANGED <<next, selected, making, writes, file, unsaved, granted>>

BeginOpen(i) ==
  /\ Free
  /\ i \in Known
  /\ Opened(i)
  /\ Run("calling", "open", Nobody, i)
  /\ UNCHANGED <<next, selected, making, writes, file, unsaved, granted>>

BeginReturn(i) ==
  /\ Free
  /\ i \in Known
  /\ space[i].owner = "agentDelegatedToUser"
  /\ space' = [space EXCEPT ![i].owner = "agent", ![i].delegatedToUser = FALSE]
  /\ Run("calling", "return", Nobody, i)
  /\ granted' = granted \ {i}
  /\ UNCHANGED <<next, selected, making, writes, file, unsaved>>

BeginCloseForUser(i) ==
  /\ Free
  /\ i \in Known
  /\ Run("calling", "closeForUser", Nobody, i)
  /\ UNCHANGED <<memory, making, writes, file, unsaved, granted>>

EndCloseForUser ==
  /\ Calling("closeForUser")
  /\ space' = [space EXCEPT ![op.id].status = "closed"]
  /\ selected' = Deselected(op.id)
  /\ UNCHANGED <<next, making, file, granted>>
  /\ Saves

BeginAct(i) ==
  /\ Free
  /\ i \in Known
  /\ space[i].status = "active"
  /\ space[i].owner # "agent"
  /\ Run("calling", "act", Nobody, i)
  /\ UNCHANGED <<memory, making, writes, file, unsaved, granted>>

\* Operations that have nothing left to do but save.
EndSaved ==
  /\ \E kind \in {"claim", "open", "return", "act"} : Calling(kind)
  /\ UNCHANGED <<memory, making, file, granted>>
  /\ Saves
-----------------------------------------------------------------------------
\* The browser throws; what has been changed stays, and is not saved.
CallFails ==
  /\ op.at = "calling"
  /\ op' = NoOp
  /\ unsaved' = (unsaved \/ op.kind \in Early)
  /\ UNCHANGED <<memory, making, writes, file, granted>>

\* A preview has been taken.
Preview ==
  /\ Len(writes) < MaxWrites
  /\ Known # {}
  /\ UNCHANGED <<memory, op, making, file, granted>>
  /\ Save("preview")

\* Whoever waits for the first snapshot goes on; a space that neither the map nor
\* a snapshot refers to is gone.
Written(ok) ==
  LET by == Head(writes).by
      refers(i) == i \in Known \/ \E n \in 2 .. Len(writes) : i \in writes[n].ids
  IN  /\ space' = [i \in Id |-> IF refers(i) THEN space[i] ELSE NoSpace]
      /\ writes' = Tail(writes)
      /\ op' = IF by = "op" THEN NoOp ELSE op
      /\ making' = IF by = "making" THEN NotMaking ELSE making
      /\ granted' = IF ok /\ by = "op" /\ op.kind = "tell" /\ op.id \in Known
                       /\ space[op.id].owner # "agent"
                    THEN granted \cup {op.id} ELSE granted

Contents(snapshot) ==
  [space |-> [i \in Id |-> IF i \in snapshot.ids THEN [space[i] EXCEPT !.known = TRUE]
                                                 ELSE NoSpace],
   next |-> snapshot.next, selected |-> snapshot.selected]

\* Written beside the file and renamed.
Write ==
  /\ writes # <<>>
  /\ file' = Contents(Head(writes))
  /\ Written(TRUE)
  /\ UNCHANGED <<next, selected, unsaved>>

WriteFails ==
  /\ writes # <<>>
  /\ Written(FALSE)
  /\ unsaved' = (unsaved \/ Tail(writes) = <<>>)
  /\ UNCHANGED <<next, selected, file>>

\* Mutant of Loaded: spaces are the agent's again.
LoadedForAgent ==
  [i \in Id |-> IF file.space[i].known
                THEN [file.space[i] EXCEPT !.owner = IF @ = "user" THEN @ ELSE "agent",
                                           !.delegatedToUser = FALSE]
                ELSE NoSpace]

Loaded ==
  [i \in Id |-> [file.space[i] EXCEPT !.delegatedToUser =
                   @ \/ file.space[i].owner = "agentDelegatedToUser"]]

NextNumber == Max({file.next} \cup {i + 1 : i \in {j \in Id : file.space[j].known}})

\* The app quits and starts again: load() keeps selections of active spaces only.
Restart ==
  /\ space' = Loaded
  /\ next' = NextNumber
  /\ selected' = [c \in Agent |->
       IF file.selected[c] # None /\ Loaded[file.selected[c]].known
          /\ Loaded[file.selected[c]].status = "active"
       THEN file.selected[c] ELSE None]
  /\ op' = NoOp
  /\ making' = NotMaking
  /\ writes' = <<>>
  /\ unsaved' = FALSE
  /\ UNCHANGED <<file, granted>>
-----------------------------------------------------------------------------
AgentOperation(c) ==
  \/ BeginCreate(c) \/ BeginDrive(c) \/ BeginEnsure(c) \/ BeginClose(c)
  \/ HandOff(c) \/ Complete(c) \/ BeginTakeOver(c) \/ BeginMarkError(c) \/ RemoveUnknown(c)
  \/ \E i \in Id : BeginClaim(c, i) \/ Use(c, i) \/ BeginDelete(c, i)

UserOperation(i) == BeginOpen(i) \/ BeginReturn(i) \/ BeginCloseForUser(i) \/ BeginAct(i)

Continue ==
  \/ EndCreate \/ EndUnsaved \/ EndClose \/ EndTakeOver \/ EndMarkError \/ EndDelete
  \/ EndCloseForUser \/ EndSaved \/ CallFails

Next ==
  \/ \E c \in Agent : AgentOperation(c)
  \/ \E i \in Id : UserOperation(i)
  \/ Continue
  \/ BeginCreateUser \/ EndCreateUser \/ CreateUserFails
  \/ Preview \/ Write \/ WriteFails \/ Restart

Spec == Init /\ [][Next]_vars
-----------------------------------------------------------------------------
(* What must hold.                                                         *)

TypeOK ==
  /\ space \in [Id -> Space]
  /\ next \in 1 .. MaxId + 1
  /\ selected \in Selections
  /\ op \in Operation \cup {NoOp}
  /\ making \in Making
  /\ writes \in Seq(Snapshot)
  /\ file \in File
  /\ unsaved \in BOOLEAN
  /\ granted \subseteq Id

\* The flag and the ownership, which different operations read, never disagree, in
\* the memory or in the file.
Agrees(table) == \A i \in Id : table[i].delegatedToUser <=> table[i].owner = "agentDelegatedToUser"
FlagMatchesOwnership == Agrees(space) /\ Agrees(file.space)

\* While an agent drives a browser, its space is the agent's: the user does not get
\* it before the browser has answered.
DrivesItsOwn ==
  Calling("drive") => op.id \in Known /\ AgentSpace(op.id)

\* A space whose user has been told to be in control is not the agent's again until
\* somebody returns, takes over or claims it: not after a crash, whatever of the
\* state had been saved, nor after operations that failed half way.
ControlSurvives == \A i \in granted : space[i].known /\ space[i].owner # "agent"

\* Two spaces that are being created, and those that exist, never share a number,
\* and with it a browser profile.
NewNumbers ==
  LET creating == IF Calling("create") THEN {op.id} ELSE {}
      user     == IF making.at = "calling" THEN {making.id} ELSE {}
  IN  creating \cap user = {} /\ (creating \cup user) \cap Known = {}

\* A number that is in use, is being given to a space, or would be in use after a
\* restart from a snapshot or the file is below the counter that goes with it, so it
\* is not given out again.
NumbersBelowNext ==
  /\ \A i \in Known : i < next
  /\ Calling("create") => op.id < next
  /\ making.at = "calling" => making.id < next
  /\ \A n \in 1 .. Len(writes) : \A i \in writes[n].ids : i < writes[n].next
  /\ \A i \in Id : file.space[i].known => i < file.next

\* The inductive invariant of the proofs.
SInv ==
  /\ TypeOK
  /\ FlagMatchesOwnership
  /\ NumbersBelowNext
  /\ DrivesItsOwn
  /\ NewNumbers

\* Whoever waits for a snapshot waits for one only, and for nothing else.
Awaited(by) == {n \in 1 .. Len(writes) : writes[n].by = by}
OneSnapshotEach ==
  /\ Awaited("op") # {} => op.at = "saving"
  /\ Awaited("making") # {} => making.at = "saving"
  /\ \A by \in {"op", "making"} : \A n, m \in Awaited(by) : n = m

\* Why control survives (inductive with SInv): the space is the user's in the file
\* too, every snapshot that waits has it, and so have those from the one on that the
\* operation waits for that will tell the user.
GrantsKept ==
  \A i \in granted :
    /\ space[i].known /\ space[i].owner # "agent"
    /\ file.space[i].known /\ file.space[i].owner # "agent"
    /\ \A n \in 1 .. Len(writes) : i \in writes[n].ids

Telling == op.at = "saving" /\ op.kind = "tell"
TellsSaved ==
  /\ Telling \/ Calling("open") => op.id \in Known
  /\ Telling => \A n \in Awaited("op") : \A m \in n .. Len(writes) : op.id \in writes[m].ids

\* When nothing runs and nothing has failed, the file holds every space as it is,
\* although snapshots are taken at one time and written at another.
Holds(table, number) ==
  number = next /\ \A i \in Id : table[i] = (IF i \in Known THEN space[i] ELSE NoSpace)
NothingIsForgotten ==
  Free /\ making = NotMaking /\ writes = <<>> /\ ~unsaved => Holds(file.space, file.next)

\* Why (inductive with SInv): until somebody changes something the newest snapshot
\* is complete, and so is the file when no snapshot waits.
Unsettled == unsaved \/ making.at = "calling" \/ (op.at = "calling" /\ op.kind \in Early)
NewestIsComplete ==
  /\ \A i \in Id : ~file.space[i].known => file.space[i] = NoSpace
  /\ ~Unsettled =>
       IF writes = <<>> THEN Holds(file.space, file.next)
       ELSE LET newest == writes[Len(writes)]
            IN  newest.ids = Known /\ newest.next = next
=============================================================================
