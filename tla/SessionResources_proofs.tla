----------------------- MODULE SessionResources_proofs -----------------------
(***************************************************************************)
(* Proofs about what sessions have and share: the files captured in them   *)
(* (SessionFiles) and their network profiles (NetworkEgress, for any       *)
(* number of requests, sessions and configurations).                       *)
(***************************************************************************)
EXTENDS MCSessionResources, FiniteSetTheorems, TLAPS
-----------------------------------------------------------------------------
(* SessionFiles. Nothing of a file is removed before its removal was asked *)
(* for, and the content is stored before the row is inserted: so a row     *)
(* without content, or a file that was reported and is not there, is one   *)
(* that was given up. A number that a save has drawn is unknown to the     *)
(* rows and to the session's deletion until the insertion, and nothing is  *)
(* inserted once the session has gone: so what the deletion lists is       *)
(* archived, whatever is captured meanwhile.                               *)

LEMMA FreeFacts ==
  Free \in Save /\ Free.at = "free" /\ Free.caller = "nobody" /\ Free.of = NoDownload
BY DEF Free, Save, Caller

LEMMA EndedFacts ==
  /\ Cancelled \in Watcher /\ Cancelled.at = "off"
  /\ Stopped \in Agent /\ Stopped.at = "stopped"
BY DEF Cancelled, Stopped, Watcher, Agent

LEMMA IdleFacts ==
  /\ NoPurge \in Purge /\ NoPurge.at = "idle" /\ NoPurge.erase = {} /\ NoPurge.keep = {}
  /\ NoDeletion \in Deletion /\ NoDeletion.at = "idle"
BY DEF NoPurge, Purge, NoDeletion, Deletion

LEMMA SaveRow ==
  ASSUME TypeOK, NEW s \in Slot
  PROVE  /\ save[s] \in Save /\ save[s].of \in Download \cup {NoDownload}
         /\ save[s].id \in Id \cup {None} /\ save[s].caller \in Caller
         /\ save[s].at \in {"free", "looking", "storing", "inserting", "reading", "again"}
BY DEF TypeOK, Save

LEMMA SaveSet ==
  ASSUME TypeOK, NEW s \in Slot, NEW r \in Save, save' = [save EXCEPT ![s] = r]
  PROVE  save' \in [Slot -> Save] /\ save'[s] = r /\ \A t \in Slot : t # s => save'[t] = save[t]
BY DEF TypeOK

LEMMA BootstrappedFacts == TypeOK => Bootstrapped \in Agent /\ Bootstrapped.at = "running"
BY DEF TypeOK, Bootstrapped, Agent

LEMMA CallFacts ==
  ASSUME TypeOK, NEW s \in Slot, NEW d \in Download \cup {NoDownload}, NEW caller \in Caller,
         Calls(s, d, caller)
  PROVE  /\ save' \in [Slot -> Save] /\ \A t \in Slot : t # s => save'[t] = save[t]
         /\ save'[s].at = "looking" /\ save'[s].caller = caller /\ save'[s].of = d
<1> DEFINE r == [at |-> "looking", of |-> d, id |-> None, caller |-> caller]
<1>1. r \in Save /\ r.at = "looking" /\ r.caller = caller /\ r.of = d
  BY DEF Save
<1>2. save' = [save EXCEPT ![s] = r]
  BY DEF Calls
<1> HIDE DEF r
<1> QED
  BY <1>1, <1>2, SaveSet

\* A call whose caller has gone is cancelled, or goes on for nobody.
LEMMA UnattendedFacts ==
  ASSUME TypeOK, save' = [s \in Slot |-> Unattended(s)]
  PROVE  /\ save' \in [Slot -> Save]
         /\ \A s \in Slot : /\ save'[s].caller \notin {"agent", "watcher"}
                            /\ save'[s].at = "free" \/ (save'[s].at = save[s].at /\ save'[s].id = save[s].id)
<1>1. ASSUME NEW s \in Slot
      PROVE  /\ Unattended(s) \in Save /\ Unattended(s).caller \notin {"agent", "watcher"}
             /\ \/ Unattended(s).at = "free"
                \/ Unattended(s).at = save[s].at /\ Unattended(s).id = save[s].id
  <2>1. CASE save[s].caller = "watcher"
    BY <2>1, FreeFacts DEF Unattended
  <2>2. CASE save[s].caller = "agent"
    <3>1. Unattended(s) = [save[s] EXCEPT !.caller = "nobody"]
      BY <2>2 DEF Unattended
    <3> QED
      BY <3>1, SaveRow DEF Save, Caller
  <2>3. CASE save[s].caller \notin {"agent", "watcher"}
    <3>1. Unattended(s) = save[s]
      BY <2>3 DEF Unattended
    <3> QED
      BY <2>3, <3>1, SaveRow
  <2> QED
    BY <2>1, <2>2, <2>3
<1> QED
  BY <1>1

-----------------------------------------------------------------------------
(* Captures that change neither the rows nor the objects.                  *)

ToldKept == \A id \in told : (id \in DOMAIN rows /\ id \in objects) \/ id \in asked

LEMMA Captured == OneRowEach /\ ToldKept => CapturedIsKept
<1> SUFFICES ASSUME OneRowEach, ToldKept PROVE CapturedIsKept
  OBVIOUS
<1>1. ASSUME NEW d \in Download
      PROVE  Cardinality({id \in DOMAIN rows : rows[id] = [of |-> d, place |-> "session"]}) <= 1
  <2> DEFINE S == {id \in DOMAIN rows : rows[id] = [of |-> d, place |-> "session"]}
  <2>1. \A i, j \in S : i = j
    BY DEF OneRowEach
  <2>2. CASE S = {}
    BY <2>2, FS_EmptySet
  <2>3. CASE S # {}
    <3>1. PICK i : i \in S
      BY <2>3
    <3>2. S = {i}
      BY <2>1, <3>1
    <3>3. Cardinality(S) = 1
      BY <3>2, FS_Singleton
    <3> QED
      BY <3>3
  <2> QED
    BY <2>2, <2>3
<1> QED
  BY <1>1 DEF CapturedIsKept, ToldKept

LEMMA CapturedToldKept == CapturedIsKept => ToldKept
BY DEF CapturedIsKept, ToldKept

\* The step leaves the calls that have drawn a number where they are, or ends them.
Onward(s) == Pending(s)' => Pending(s) /\ save'[s].at = save[s].at /\ save'[s].id = save[s].id

LEMMA StepCapture ==
  ASSUME IInv, TypeOK', OneCallEach', \A s \in Slot : Onward(s),
         UNCHANGED <<session, next, rows, objects, deletion, purge, asked>>,
         \A id \in told' : id \in told \/ id \in DOMAIN rows
  PROVE  IInv'
<1> USE DEF IInv
<1>1. Numbered' /\ AskedFirst' /\ OneRowEach' /\ PurgeInOrder' /\ ContentlessWasAskedFor' /\ ListedIsArchived'
  BY DEF Numbered, AskedFirst, OneRowEach, PurgeInOrder, ContentlessWasAskedFor, ListedIsArchived
<1>2. Fresh' /\ Apart'
  BY DEF Fresh, Apart, Onward
<1>3. StoredFirst'
  BY DEF StoredFirst, Onward, Pending
<1>4. ToldKept'
  BY CapturedToldKept DEF ToldKept, ContentlessWasAskedFor
<1>5. CapturedIsKept'
  BY <1>1, <1>4, Captured, PTL
<1> QED
  BY <1>1, <1>2, <1>3, <1>5

LEMMA StepBrowser ==
  ASSUME IInv, \/ \E d \in Download : Downloaded(d) \/ WatcherCannotCopy(d)
               \/ Reconnect \/ StartWatcher
  PROVE  IInv'
<1> USE DEF IInv
<1>1. /\ UNCHANGED <<session, save, next, rows, objects, deletion, purge, told, asked>>
      /\ complete' \subseteq Download
  BY DEF Downloaded, WatcherCannotCopy, Reconnect, StartWatcher, TypeOK
<1>2. /\ agent' \in Agent /\ watcher' \in Watcher
      /\ agent' = agent \/ agent.at = "running"
      /\ watcher' = watcher \/ watcher.at \in {"off", "watching"}
  <2>1. CASE \E d \in Download : Downloaded(d)
    BY <2>1 DEF Downloaded, TypeOK
  <2>2. CASE \E d \in Download : WatcherCannotCopy(d)
    <3>1. PICK d \in Download : WatcherCannotCopy(d)
      BY <2>2
    <3> QED
      BY <3>1 DEF WatcherCannotCopy, TypeOK, Watcher
  <2>3. CASE Reconnect
    BY <2>3, BootstrappedFacts DEF Reconnect, TypeOK
  <2>4. CASE StartWatcher
    BY <2>4 DEF StartWatcher, TypeOK, Watcher
  <2> QED
    BY <2>1, <2>2, <2>3, <2>4
<1>3. TypeOK'
  BY <1>1, <1>2 DEF TypeOK
<1>4. OneCallEach'
  BY <1>1, <1>2 DEF OneCallEach, Waits
<1> QED
  BY <1>1, <1>3, <1>4, StepCapture DEF Onward, Pending

LEMMA StepCalls ==
  ASSUME IInv, NEW s \in Slot, \/ \E d \in Download : AgentUploads(s, d) \/ WatcherSaves(s, d)
                              \/ UserUploads(s)
  PROVE  IInv'
<1> USE DEF IInv
<1>1. UNCHANGED <<session, complete, next, rows, objects, deletion, purge, told, asked>>
  BY DEF AgentUploads, WatcherSaves, UserUploads
<1>2. ASSUME NEW d \in Download \cup {NoDownload}, NEW caller \in Caller \ {"nobody"}, Calls(s, d, caller),
             agent' \in Agent, watcher' \in Watcher,
             caller = "agent" => agent.at = "running" /\ agent'.at = "uploading" /\ agent'.of \in Download,
             caller # "agent" => agent' = agent,
             caller = "watcher" => watcher.at = "watching" /\ watcher'.at = "saving" /\ watcher'.of \in Download,
             caller # "watcher" => watcher' = watcher
      PROVE  IInv'
  <2>1. /\ save' \in [Slot -> Save] /\ \A t \in Slot : t # s => save'[t] = save[t]
        /\ save'[s].at = "looking" /\ save'[s].caller = caller
    BY <1>2, CallFacts
  <2>2. TypeOK'
    BY <1>1, <1>2, <2>1 DEF TypeOK
  <2>3. Waits(agent, "uploading", "agent")'
    BY <1>2, <2>1 DEF OneCallEach, Waits
  <2>4. Waits(watcher, "saving", "watcher")'
    BY <1>2, <2>1 DEF OneCallEach, Waits
  <2>5. \A t \in Slot : Onward(t)
    BY <2>1 DEF Onward, Pending
  <2> QED
    BY <1>1, <2>2, <2>3, <2>4, <2>5, StepCapture DEF OneCallEach
<1>3. ASSUME NEW d \in Download, AgentUploads(s, d) PROVE IInv'
  <2>1. agent' \in Agent /\ agent'.at = "uploading" /\ agent'.of = d
    BY <1>3 DEF AgentUploads, TypeOK, Agent
  <2> QED
    BY <1>2, <1>3, <2>1 DEF AgentUploads, TypeOK, Caller
<1>4. ASSUME NEW d \in Download, WatcherSaves(s, d) PROVE IInv'
  <2>1. watcher' \in Watcher /\ watcher'.at = "saving" /\ watcher'.of = d
    BY <1>4 DEF WatcherSaves, TypeOK, Watcher
  <2> QED
    BY <1>2, <1>4, <2>1 DEF WatcherSaves, TypeOK, Caller
<1>5. CASE UserUploads(s)
  BY <1>2, <1>5 DEF UserUploads, TypeOK, Caller
<1> QED
  BY <1>3, <1>4, <1>5

LEMMA StepGivesUp == ASSUME IInv, NEW s \in Slot, AgentGivesUp(s) PROVE IInv'
<1> USE DEF IInv
<1>1. /\ UNCHANGED <<session, complete, watcher, next, rows, objects, deletion, purge, told, asked>>
      /\ agent' \in Agent /\ agent'.at = "running"
  BY BootstrappedFacts DEF AgentGivesUp
<1>2. /\ save' \in [Slot -> Save] /\ \A t \in Slot : t # s => save'[t] = save[t]
      /\ save'[s].caller = "nobody"
      /\ save'[s].at = "free" \/ (save'[s].at = save[s].at /\ save'[s].id = save[s].id)
  <2>1. CASE save' = [save EXCEPT ![s].caller = "nobody"]
    <3>1. [save[s] EXCEPT !.caller = "nobody"] \in Save
      BY SaveRow DEF Save, Caller
    <3> QED
      BY <2>1, <3>1 DEF TypeOK, Save
  <2>2. CASE save' = [save EXCEPT ![s] = Free]
    BY <2>2, SaveSet, FreeFacts
  <2> QED
    BY <2>1, <2>2 DEF AgentGivesUp
<1>3. TypeOK'
  BY <1>1, <1>2 DEF TypeOK
<1>4. OneCallEach'
  <2>1. save[s].caller = "agent"
    BY DEF AgentGivesUp
  <2>2. \A t \in Slot : save'[t].caller # "agent"
    BY <1>2, <2>1 DEF OneCallEach, Waits
  <2>3. Waits(watcher, "saving", "watcher")'
    BY <1>1, <1>2 DEF OneCallEach, Waits
  <2> QED
    BY <2>2, <2>3 DEF OneCallEach, Waits
<1>5. \A t \in Slot : Onward(t)
  BY <1>2 DEF Onward, Pending
<1> QED
  BY <1>1, <1>3, <1>4, <1>5, StepCapture

LEMMA StepRestart == ASSUME IInv, Restart PROVE IInv'
<1> USE DEF IInv
<1>1. /\ UNCHANGED <<session, next, rows, objects, deletion, purge, told, asked>>
      /\ complete' \subseteq Download /\ watcher' \in Watcher /\ agent' \in Agent
  BY EndedFacts DEF Restart, TypeOK, Agent
<1>2. /\ save' \in [Slot -> Save]
      /\ \A s \in Slot : /\ save'[s].caller \notin {"agent", "watcher"}
                         /\ save'[s].at = "free" \/ (save'[s].at = save[s].at /\ save'[s].id = save[s].id)
  BY UnattendedFacts DEF Restart
<1>3. TypeOK' /\ OneCallEach'
  BY <1>1, <1>2 DEF TypeOK, OneCallEach, Waits
<1>4. \A t \in Slot : Onward(t)
  BY <1>2 DEF Onward, Pending
<1> QED
  BY <1>1, <1>3, <1>4, StepCapture
-----------------------------------------------------------------------------
(* save_file, call by call.                                                *)

\* The answer ends the call, and whoever has waited for it waits for no other.
LEMMA AnswerFacts ==
  ASSUME IInv, NEW s \in Slot, NEW ok \in BOOLEAN, Answers(s, ok)
  PROVE  /\ save' \in [Slot -> Save] /\ save'[s] = Free /\ \A t \in Slot : t # s => save'[t] = save[t]
         /\ agent' \in Agent /\ watcher' \in Watcher /\ OneCallEach'
<1> USE DEF IInv
<1>1. /\ save' \in [Slot -> Save] /\ save'[s] = Free /\ save'[s].caller = "nobody"
      /\ \A t \in Slot : t # s => save'[t] = save[t]
  BY SaveSet, FreeFacts DEF Answers
<1>2. /\ save[s].caller = "agent" => agent' \in Agent
      /\ save[s].caller # "agent" => agent' = agent
  <2>1. CASE save[s].caller = "agent"
    <3>1. agent.of \in Download /\ agent' = (IF ok THEN Uploaded ELSE Bootstrapped)
      BY <2>1 DEF Answers, OneCallEach, Waits
    <3>2. Uploaded \in Agent
      BY <3>1 DEF Uploaded, Agent, TypeOK
    <3> QED
      BY <2>1, <3>1, <3>2, BootstrappedFacts
  <2>2. CASE save[s].caller # "agent"
    BY <2>2 DEF Answers
  <2> QED
    BY <2>1, <2>2
<1>3. /\ save[s].caller = "watcher" => watcher' \in Watcher
      /\ save[s].caller # "watcher" => watcher' = watcher
  <2>1. CASE save[s].caller = "watcher"
    <3> DEFINE seen == [at |-> "watching", of |-> NoDownload, processed |-> watcher.processed \cup {watcher.of}]
    <3>1. watcher.of \in Download /\ watcher' = (IF ok THEN seen ELSE Cancelled)
      BY <2>1 DEF Answers, OneCallEach, Waits
    <3>2. seen \in Watcher
      BY <3>1 DEF Watcher, TypeOK
    <3> QED
      BY <2>1, <3>1, <3>2, EndedFacts
  <2>2. CASE save[s].caller # "watcher"
    BY <2>2 DEF Answers
  <2> QED
    BY <2>1, <2>2
<1>4. Waits(agent, "uploading", "agent")'
  BY <1>1, <1>2 DEF OneCallEach, Waits
<1>5. Waits(watcher, "saving", "watcher")'
  BY <1>1, <1>3 DEF OneCallEach, Waits
<1> QED
  BY <1>1, <1>2, <1>3, <1>4, <1>5 DEF TypeOK, OneCallEach

\* A call that ends with the file of a row, or with a failure, and changes nothing else.
LEMMA StepAnswers ==
  ASSUME IInv, NEW s \in Slot, UNCHANGED <<session, complete, next, rows, objects, deletion, purge, asked>>,
         Raises(s) \/ \E id \in DOMAIN rows : Returns(s, id)
  PROVE  IInv'
<1> USE DEF IInv
<1>1. /\ \E ok \in BOOLEAN : Answers(s, ok)
      /\ \A id \in told' : id \in told \/ id \in DOMAIN rows
  <2>1. CASE Raises(s)
    BY <2>1 DEF Raises
  <2>2. CASE \E id \in DOMAIN rows : Returns(s, id)
    BY <2>2 DEF Returns
  <2> QED
    BY <2>1, <2>2
<1>2. /\ save' \in [Slot -> Save] /\ save'[s] = Free /\ \A t \in Slot : t # s => save'[t] = save[t]
      /\ agent' \in Agent /\ watcher' \in Watcher /\ OneCallEach'
  BY <1>1, AnswerFacts
<1>3. TypeOK'
  BY <1>1, <1>2 DEF TypeOK
<1>4. \A t \in Slot : Onward(t)
  BY <1>2, FreeFacts DEF Onward, Pending
<1> QED
  BY <1>1, <1>2, <1>3, <1>4, StepCapture

LEMMA GoFacts ==
  ASSUME IInv, NEW s \in Slot, NEW at \in {"inserting", "reading", "again"}, Goes(s, at)
  PROVE  /\ save' \in [Slot -> Save] /\ \A t \in Slot : t # s => save'[t] = save[t]
         /\ save'[s].at = at /\ save'[s].id = save[s].id /\ save'[s].caller = save[s].caller
         /\ UNCHANGED <<agent, watcher, told>> /\ OneCallEach'
<1> USE DEF IInv
<1>1. [save[s] EXCEPT !.at = at] \in Save
  BY SaveRow DEF Save
<1>2. /\ save' \in [Slot -> Save] /\ \A t \in Slot : t # s => save'[t] = save[t]
      /\ save'[s].at = at /\ save'[s].id = save[s].id /\ save'[s].caller = save[s].caller
  BY <1>1 DEF Goes, TypeOK, Save
<1>3. UNCHANGED <<agent, watcher, told>>
  BY DEF Goes
<1>4. OneCallEach'
  BY <1>2, <1>3 DEF OneCallEach, Waits
<1> QED
  BY <1>2, <1>3, <1>4

\* A number is drawn that nobody knows.
LEMMA StepLook == ASSUME IInv, NEW s \in Slot, Look(s) PROVE IInv'
<1> USE DEF IInv
<1>1. UNCHANGED <<session, complete, rows, objects, deletion, purge, asked>>
  BY DEF Look
<1>2. CASE next' = next /\ (Raises(s) \/ \E id \in DOMAIN rows : Returns(s, id))
  BY <1>1, <1>2, StepAnswers
<1>3. CASE /\ next < MaxId /\ next' = next + 1
           /\ save' = [save EXCEPT ![s].at = "storing", ![s].id = next + 1]
           /\ UNCHANGED <<agent, watcher, told>>
  <2>1. next \in Nat /\ next + 1 \in Id /\ next' \in 0 .. MaxId
    BY <1>3, FileAssumption DEF TypeOK, Id
  <2>2. [save[s] EXCEPT !.at = "storing", !.id = next + 1] \in Save
    BY <2>1, SaveRow DEF Save
  <2>3. /\ save' \in [Slot -> Save] /\ \A t \in Slot : t # s => save'[t] = save[t]
        /\ save'[s].at = "storing" /\ save'[s].id = next + 1 /\ save'[s].caller = save[s].caller
    BY <1>3, <2>2 DEF TypeOK, Save
  <2>4. TypeOK'
    BY <1>1, <1>3, <2>1, <2>3 DEF TypeOK
  <2>5. Numbered'
    BY <1>1, <1>3, <2>1 DEF Numbered
  <2>6. Fresh'
    BY <1>1, <1>3, <2>1, <2>3 DEF Fresh, Pending, Numbered
  <2>7. Apart'
    BY <2>1, <2>3 DEF Apart, Fresh, Pending
  <2>8. StoredFirst' /\ AskedFirst' /\ OneRowEach' /\ PurgeInOrder'
    BY <1>1, <2>3 DEF StoredFirst, AskedFirst, OneRowEach, PurgeInOrder
  <2>9. OneCallEach'
    BY <1>3, <2>3 DEF OneCallEach, Waits
  <2>10. CapturedIsKept' /\ ContentlessWasAskedFor' /\ ListedIsArchived'
    BY <1>1, <1>3 DEF CapturedIsKept, ContentlessWasAskedFor, ListedIsArchived
  <2> QED
    BY <2>4, <2>5, <2>6, <2>7, <2>8, <2>9, <2>10
<1> QED
  BY <1>2, <1>3 DEF Look, Existing

LEMMA StepStore == ASSUME IInv, NEW s \in Slot, Store(s) PROVE IInv'
<1> USE DEF IInv
<1>1. UNCHANGED <<session, complete, next, rows, deletion, purge, asked>> /\ Pending(s)
  BY DEF Store, Pending
<1>2. CASE UNCHANGED objects /\ Raises(s)
  BY <1>1, <1>2, StepAnswers
<1>3. CASE objects' = objects \cup {save[s].id} /\ Goes(s, "inserting")
  <2>1. /\ save' \in [Slot -> Save] /\ \A t \in Slot : t # s => save'[t] = save[t]
        /\ save'[s].at = "inserting" /\ save'[s].id = save[s].id
        /\ UNCHANGED <<agent, watcher, told>> /\ OneCallEach'
    BY <1>3, GoFacts
  <2>2. save[s].id \in Id
    BY <1>1, SaveRow, FileAssumption DEF Fresh, None, TypeOK
  <2>3. TypeOK'
    BY <1>1, <1>3, <2>1, <2>2 DEF TypeOK
  <2>4. Numbered' /\ AskedFirst' /\ OneRowEach' /\ PurgeInOrder'
    BY <1>1, <2>1 DEF Numbered, AskedFirst, OneRowEach, PurgeInOrder
  <2>5. Fresh' /\ Apart'
    BY <1>1, <2>1 DEF Fresh, Apart, Pending
  <2>6. StoredFirst'
    BY <1>1, <1>3, <2>1 DEF StoredFirst
  <2>7. CapturedIsKept' /\ ContentlessWasAskedFor' /\ ListedIsArchived'
    BY <1>1, <1>3, <2>1 DEF CapturedIsKept, ContentlessWasAskedFor, ListedIsArchived
  <2> QED
    BY <2>1, <2>3, <2>4, <2>5, <2>6, <2>7
<1> QED
  BY <1>2, <1>3 DEF Store

\* The row is new: its number is in nobody's list, and no row is there of its download.
LEMMA StepInsert == ASSUME IInv, NEW s \in Slot, Insert(s) PROVE IInv'
<1> USE DEF IInv
<1>1. UNCHANGED <<session, complete, next, objects, deletion, purge, asked>> /\ save[s].at = "inserting" /\ Pending(s)
  BY DEF Insert, Pending
<1>2. CASE UNCHANGED rows /\ Raises(s)
  BY <1>1, <1>2, StepAnswers
<1>3. CASE /\ session = "there" /\ Goes(s, "reading")
           /\ rows' = IF Existing(save[s].of) # {} THEN rows ELSE WithRow(save[s].id, save[s].of)
  <2>1. /\ save' \in [Slot -> Save] /\ \A t \in Slot : t # s => save'[t] = save[t]
        /\ save'[s].at = "reading" /\ UNCHANGED <<agent, watcher, told>> /\ OneCallEach'
    BY <1>3, GoFacts
  <2>2. \A t \in Slot : Onward(t)
    BY <2>1 DEF Onward, Pending
  <2>3. CASE rows' = rows
    <3>1. TypeOK'
      BY <1>1, <2>1, <2>3 DEF TypeOK
    <3> QED
      BY <1>1, <2>1, <2>2, <2>3, <3>1, StepCapture
  <2>4. CASE Existing(save[s].of) = {} /\ rows' = WithRow(save[s].id, save[s].of)
    <3> DEFINE n == save[s].id
               d == save[s].of
               new == [of |-> d, place |-> "session"]
    <3>1. /\ n \in 1 .. next /\ n \notin DOMAIN rows /\ n \notin purge.keep
          /\ n \in objects \/ n \in asked
      BY <1>1 DEF Fresh, StoredFirst
    <3>2. n \in Id
      BY <3>1, SaveRow, FileAssumption DEF None, TypeOK
    <3>3. new \in Row /\ new.of = d /\ new.place = "session"
      BY SaveRow DEF Row, Place
    <3>4. /\ DOMAIN rows' = DOMAIN rows \cup {n} /\ rows'[n] = new
          /\ \A id \in DOMAIN rows : rows'[id] = rows[id]
      BY <2>4, <3>1 DEF WithRow
    <3> HIDE DEF new
    <3>5. TypeOK'
      BY <1>1, <2>1, <3>2, <3>3, <3>4 DEF TypeOK
    <3>6. Numbered'
      BY <1>1, <3>1, <3>4 DEF Numbered
    <3>7. Fresh'
      BY <1>1, <2>1, <3>4 DEF Fresh, Apart, Pending
    <3>8. Apart' /\ StoredFirst' /\ AskedFirst'
      BY <1>1, <2>1 DEF Apart, Pending, StoredFirst, AskedFirst
    <3>9. OneRowEach'
      <4>1. ASSUME NEW i \in DOMAIN rows, rows[i] = new, d \in Download PROVE FALSE
        <5>1. i \in Existing(d)
          BY <4>1, FileAssumption DEF Existing, new
        <5> QED
          BY <2>4, <5>1
      <4> QED
        BY <3>3, <3>4, <4>1 DEF OneRowEach
    <3>10. PurgeInOrder' /\ ListedIsArchived'
      BY <1>1, <1>3, <3>1, <3>3, <3>4 DEF PurgeInOrder, ListedIsArchived
    <3>11. ContentlessWasAskedFor'
      BY <1>1, <3>1, <3>4 DEF ContentlessWasAskedFor
    <3>12. ToldKept'
      BY <1>1, <2>1, <3>4, CapturedToldKept DEF ToldKept
    <3>13. CapturedIsKept'
      BY <3>9, <3>12, Captured, PTL
    <3> QED
      BY <2>1, <3>5, <3>6, <3>7, <3>8, <3>9, <3>10, <3>11, <3>13
  <2> QED
    BY <1>3, <2>3, <2>4
<1> QED
  BY <1>2, <1>3 DEF Insert

LEMMA StepReads == ASSUME IInv, NEW s \in Slot, ReadBack(s) \/ LookAgain(s) PROVE IInv'
<1> USE DEF IInv
<1>1. UNCHANGED <<session, complete, next, rows, objects, deletion, purge, asked>>
  BY DEF ReadBack, LookAgain
<1>2. CASE Raises(s) \/ \E id \in DOMAIN rows : Returns(s, id)
  BY <1>1, <1>2, StepAnswers
<1>3. CASE Goes(s, "again")
  <2>1. /\ save' \in [Slot -> Save] /\ \A t \in Slot : t # s => save'[t] = save[t]
        /\ save'[s].at = "again" /\ UNCHANGED <<agent, watcher, told>> /\ OneCallEach'
    BY <1>3, GoFacts
  <2>2. TypeOK' /\ \A t \in Slot : Onward(t)
    BY <1>1, <2>1 DEF TypeOK, Onward, Pending
  <2> QED
    BY <1>1, <2>1, <2>2, StepCapture
<1> QED
  BY <1>2, <1>3 DEF ReadBack, LookAgain, Existing
-----------------------------------------------------------------------------
(* Deletions: rows and objects go only when that was asked for.            *)

\* A step that captures nothing: rows go or change place, objects of files that
\* were given up go.
LEMMA StepRemoves ==
  ASSUME IInv, UNCHANGED capture, session' = session, TypeOK',
         asked \subseteq asked', objects' \subseteq objects, objects \ objects' \subseteq asked',
         DOMAIN rows' \subseteq DOMAIN rows, DOMAIN rows \ DOMAIN rows' \subseteq asked',
         \A id \in DOMAIN rows' : rows'[id].of = rows[id].of
                                /\ rows'[id].place \in {rows[id].place, "archived"},
         purge'.keep \subseteq purge.keep \cup DOMAIN rows,
         AskedFirst', PurgeInOrder', ListedIsArchived'
  PROVE  IInv'
<1> USE DEF IInv
<1>1. UNCHANGED <<complete, agent, watcher, save, next, told>>
  BY DEF capture
<1>2. Numbered' /\ Fresh' /\ Apart' /\ StoredFirst'
  BY <1>1 DEF Numbered, Fresh, Apart, StoredFirst, Pending
<1>3. OneCallEach'
  BY <1>1 DEF OneCallEach, Waits
<1>4. OneRowEach'
  <2>1. \A id \in DOMAIN rows' : rows'[id].place = "session" => rows[id].place = "session"
    OBVIOUS
  <2>2. \A id \in DOMAIN rows : rows[id] \in Row
    BY DEF TypeOK
  <2>3. \A i, j \in DOMAIN rows : rows[i].of = rows[j].of /\ rows[i].place = rows[j].place => rows[i] = rows[j]
    BY <2>2 DEF Row
  <2> QED
    BY <2>1, <2>3 DEF OneRowEach
<1>5. ContentlessWasAskedFor'
  BY DEF ContentlessWasAskedFor
<1>6. ToldKept'
  BY <1>1, CapturedToldKept DEF ToldKept
<1>7. CapturedIsKept'
  BY <1>4, <1>6, Captured, PTL
<1> QED
  BY <1>2, <1>3, <1>4, <1>5, <1>7

LEMMA WithoutFacts ==
  ASSUME TypeOK, NEW id \in Id, NEW scoped \in BOOLEAN
  PROVE  LET left == Without(id, scoped) IN
         /\ DOMAIN left \subseteq DOMAIN rows /\ DOMAIN rows \ DOMAIN left \subseteq {id}
         /\ \A i \in DOMAIN left : left[i] = rows[i]
BY DEF Without, Restrict

LEMMA StepDeletion ==
  ASSUME IInv, \/ \E id \in Id, scoped \in BOOLEAN : BeginDeletion(id, scoped)
               \/ DeleteObject \/ DeleteRow
  PROVE  IInv'
<1> USE DEF IInv
<1>1. CASE \E id \in Id, scoped \in BOOLEAN : BeginDeletion(id, scoped)
  <2>1. PICK id \in Id, scoped \in BOOLEAN : BeginDeletion(id, scoped)
    BY <1>1
  <2>2. /\ UNCHANGED <<session, capture, rows, objects, purge>>
        /\ asked' = asked \cup {id}
        /\ deletion' \in Deletion /\ deletion'.id = id
    BY <2>1 DEF BeginDeletion, Deletion
  <2>3. TypeOK'
    BY <2>2 DEF TypeOK, capture
  <2>4. AskedFirst' /\ PurgeInOrder' /\ ListedIsArchived'
    BY <2>2 DEF AskedFirst, PurgeInOrder, ListedIsArchived
  <2> QED
    BY <2>2, <2>3, <2>4, StepRemoves
<1>2. CASE DeleteObject
  <2>1. /\ UNCHANGED <<session, capture, rows, purge, asked>>
        /\ objects' \in {objects \ {deletion.id}, objects} /\ deletion.at = "object"
        /\ deletion' \in Deletion /\ deletion'.id = deletion.id
    BY <1>2 DEF DeleteObject, ObjectGone, TypeOK, Deletion
  <2>2. deletion.id \in asked
    BY <2>1 DEF AskedFirst
  <2>3. TypeOK'
    BY <2>1 DEF TypeOK, capture
  <2>4. AskedFirst' /\ PurgeInOrder' /\ ListedIsArchived'
    BY <2>1, <2>2 DEF AskedFirst, PurgeInOrder, ListedIsArchived
  <2> QED
    BY <2>1, <2>2, <2>3, <2>4, StepRemoves
<1>3. CASE DeleteRow
  <2>1. /\ UNCHANGED <<session, capture, objects, purge, asked>>
        /\ rows' \in {Without(deletion.id, deletion.scoped), rows} /\ deletion.at = "row"
        /\ deletion' = NoDeletion
    BY <1>3 DEF DeleteRow
  <2>2. deletion.id \in asked /\ deletion.id \in Id /\ deletion.scoped \in BOOLEAN
    BY <2>1 DEF AskedFirst, TypeOK, Deletion
  <2>3. /\ DOMAIN rows' \subseteq DOMAIN rows /\ DOMAIN rows \ DOMAIN rows' \subseteq {deletion.id}
        /\ \A i \in DOMAIN rows' : rows'[i] = rows[i]
    BY <2>1, <2>2, WithoutFacts
  <2>4. TypeOK'
    BY <2>1, <2>3, IdleFacts DEF TypeOK, capture
  <2>5. AskedFirst' /\ PurgeInOrder' /\ ListedIsArchived'
    BY <2>1, <2>3, IdleFacts DEF AskedFirst, PurgeInOrder, ListedIsArchived
  <2> QED
    BY <2>1, <2>2, <2>3, <2>4, <2>5, StepRemoves
<1> QED
  BY <1>1, <1>2, <1>3

LEMMA StepErases ==
  ASSUME IInv, \/ \E erase \in SUBSET Id : BeginPurge(erase)
               \/ \E id \in Id : EraseObject(id)
               \/ EraseRow
  PROVE  IInv'
<1> USE DEF IInv
<1>1. CASE \E erase \in SUBSET Id : BeginPurge(erase)
  <2>1. PICK erase \in SUBSET Id : BeginPurge(erase)
    BY <1>1
  <2> DEFINE listed == {id \in DOMAIN rows : rows[id].place = "session"}
             begun == [at |-> "erasing", erase |-> erase, keep |-> listed \ erase, id |-> None]
  <2>2. /\ UNCHANGED <<session, capture, rows, objects, deletion>> /\ session = "there"
        /\ asked' = asked \cup erase /\ erase \subseteq listed /\ purge' = begun
    BY <2>1 DEF BeginPurge
  <2>3. listed \subseteq DOMAIN rows /\ listed \subseteq Id
    BY DEF TypeOK
  <2>4. begun \in Purge /\ begun.at = "erasing" /\ begun.erase = erase /\ begun.keep \subseteq DOMAIN rows
    BY <2>2, <2>3 DEF Purge
  <2> HIDE DEF listed, begun
  <2>5. TypeOK'
    BY <2>2, <2>3, <2>4 DEF TypeOK, capture
  <2>6. AskedFirst' /\ PurgeInOrder' /\ ListedIsArchived'
    BY <2>2, <2>4 DEF AskedFirst, PurgeInOrder, ListedIsArchived
  <2> QED
    BY <2>2, <2>4, <2>5, <2>6, StepRemoves
<1>2. CASE \E id \in Id : EraseObject(id)
  <2>1. PICK id \in Id : EraseObject(id)
    BY <1>2
  <2>2. /\ UNCHANGED <<session, capture, rows, deletion, asked>>
        /\ objects' \in {objects \ {id}, objects} /\ purge.at = "erasing" /\ id \in purge.erase
        /\ purge' \in Purge /\ purge'.at = "row" /\ purge'.id = id
        /\ purge'.erase \subseteq purge.erase /\ purge'.keep = purge.keep
    BY <2>1 DEF EraseObject, ObjectGone, TypeOK, Purge
  <2>3. id \in asked
    BY <2>2 DEF AskedFirst
  <2>4. TypeOK'
    BY <2>2 DEF TypeOK, capture
  <2>5. AskedFirst' /\ PurgeInOrder' /\ ListedIsArchived'
    BY <2>2, <2>3 DEF AskedFirst, PurgeInOrder, ListedIsArchived
  <2> QED
    BY <2>2, <2>3, <2>4, <2>5, StepRemoves
<1>3. CASE EraseRow
  <2>1. /\ UNCHANGED <<session, capture, objects, deletion, asked>> /\ purge.at = "row"
        /\ rows' \in {Without(purge.id, FALSE), rows}
        /\ purge' = IF rows' = rows THEN NoPurge ELSE [purge EXCEPT !.at = "erasing", !.id = None]
    BY <1>3 DEF EraseRow
  <2>2. purge.id \in asked /\ purge.id \in Id
    BY <2>1 DEF AskedFirst, TypeOK
  <2>3. /\ DOMAIN rows' \subseteq DOMAIN rows /\ DOMAIN rows \ DOMAIN rows' \subseteq {purge.id}
        /\ \A i \in DOMAIN rows' : rows'[i] = rows[i]
    <3> DEFINE no == FALSE
    <3>1. no \in BOOLEAN /\ rows' \in {Without(purge.id, no), rows}
      BY <2>1
    <3> HIDE DEF no
    <3> QED
      BY <2>2, <3>1, WithoutFacts
  <2>4. /\ purge' \in Purge /\ purge'.at \in {"idle", "erasing"} /\ purge'.erase \subseteq purge.erase
        /\ purge'.keep \subseteq purge.keep /\ (purge'.at = "erasing" => purge'.keep = purge.keep)
    <3>1. CASE rows' = rows
      BY <2>1, <3>1, IdleFacts
    <3>2. CASE rows' # rows
      BY <2>1, <3>2 DEF TypeOK, Purge
    <3> QED
      BY <3>1, <3>2
  <2>5. TypeOK'
    BY <2>1, <2>3, <2>4 DEF TypeOK, capture
  <2>6. AskedFirst' /\ PurgeInOrder' /\ ListedIsArchived'
    BY <2>1, <2>3, <2>4 DEF AskedFirst, PurgeInOrder, ListedIsArchived
  <2> QED
    BY <2>1, <2>2, <2>3, <2>4, <2>5, <2>6, StepRemoves
<1> QED
  BY <1>1, <1>2, <1>3

LEMMA StepArchive == ASSUME IInv, Archive PROVE IInv'
<1> USE DEF IInv
<1> DEFINE row(id) == IF id \in purge.keep /\ rows[id].place = "session"
                      THEN [rows[id] EXCEPT !.place = "archived"] ELSE rows[id]
<1>1. /\ UNCHANGED <<session, capture, objects, deletion, asked>>
      /\ purge.at = "erasing" /\ purge.erase = {} /\ rows' = [id \in DOMAIN rows |-> row(id)]
      /\ purge' \in Purge /\ purge'.at = "container" /\ purge'.erase = purge.erase
      /\ purge'.keep = purge.keep /\ purge'.id = purge.id
  BY DEF Archive, TypeOK, Purge
<1>2. ASSUME NEW id \in DOMAIN rows
      PROVE  /\ row(id) \in Row /\ row(id).of = rows[id].of
             /\ row(id).place \in {rows[id].place, "archived"}
             /\ id \in purge.keep => row(id).place # "session"
  <2>1. rows[id] \in Row
    BY DEF TypeOK
  <2>2. CASE id \in purge.keep /\ rows[id].place = "session"
    <3>1. row(id) = [rows[id] EXCEPT !.place = "archived"]
      BY <2>2
    <3> HIDE DEF row
    <3> QED
      BY <2>1, <3>1 DEF Row, Place
  <2>3. CASE ~(id \in purge.keep /\ rows[id].place = "session")
    <3>1. row(id) = rows[id]
      BY <2>3
    <3> HIDE DEF row
    <3> QED
      BY <2>1, <2>3, <3>1
  <2> QED
    BY <2>2, <2>3
<1> HIDE DEF row
<1>3. DOMAIN rows' = DOMAIN rows /\ \A id \in DOMAIN rows : rows'[id] = row(id)
  BY <1>1
<1>4. TypeOK'
  BY <1>1, <1>2, <1>3 DEF TypeOK, capture
<1>5. session = "there" /\ \A id \in DOMAIN rows : row(id).place # "loose" /\ row(id).place \in Place
  BY <1>1, <1>2 DEF PurgeInOrder, Row
<1>6. \A id \in purge.keep \cap DOMAIN rows : row(id).place = "archived"
  BY <1>2, <1>5 DEF Place
<1>7. AskedFirst' /\ PurgeInOrder' /\ ListedIsArchived'
  BY <1>1, <1>3, <1>5, <1>6 DEF AskedFirst, PurgeInOrder, ListedIsArchived
<1> QED
  BY <1>1, <1>2, <1>3, <1>4, <1>7, StepRemoves

\* The container goes, and whoever captures in it.
LEMMA StepContainer == ASSUME IInv, RemoveContainer PROVE IInv'
<1> USE DEF IInv
<1>1. /\ UNCHANGED <<session, next, rows, objects, deletion, told, asked>>
      /\ complete' = {} /\ watcher' \in Watcher /\ agent' \in Agent
      /\ purge.at = "container" /\ purge' \in Purge /\ purge'.at = "session"
      /\ purge'.erase = purge.erase /\ purge'.keep = purge.keep
  BY EndedFacts DEF RemoveContainer, TypeOK, Purge
<1>2. /\ save' \in [Slot -> Save]
      /\ \A s \in Slot : /\ save'[s].caller \notin {"agent", "watcher"}
                         /\ save'[s].at = "free" \/ (save'[s].at = save[s].at /\ save'[s].id = save[s].id)
  BY UnattendedFacts DEF RemoveContainer
<1>3. TypeOK' /\ OneCallEach'
  BY <1>1, <1>2 DEF TypeOK, OneCallEach, Waits
<1>4. Numbered' /\ Fresh' /\ Apart' /\ StoredFirst'
  BY <1>1, <1>2 DEF Numbered, Fresh, Apart, StoredFirst, Pending
<1>5. AskedFirst' /\ OneRowEach' /\ PurgeInOrder'
  BY <1>1 DEF AskedFirst, OneRowEach, PurgeInOrder
<1>6. CapturedIsKept' /\ ContentlessWasAskedFor' /\ ListedIsArchived'
  BY <1>1 DEF CapturedIsKept, ContentlessWasAskedFor, ListedIsArchived
<1> QED
  BY <1>3, <1>4, <1>5, <1>6

\* What is of the session still belongs to nobody; what was listed is archived.
LEMMA StepSession == ASSUME IInv, DeleteSession PROVE IInv'
<1> USE DEF IInv
<1> DEFINE row(id) == IF rows[id].place = "session" THEN [rows[id] EXCEPT !.place = "loose"] ELSE rows[id]
<1>1. /\ UNCHANGED <<capture, objects, deletion, asked>> /\ session' = "gone" /\ purge.at = "session"
      /\ rows' = [id \in DOMAIN rows |-> row(id)]
      /\ purge' \in Purge /\ purge'.at = "idle" /\ purge'.erase = purge.erase /\ purge'.keep = purge.keep
  BY DEF DeleteSession, Orphaned, TypeOK, Purge
<1>2. UNCHANGED <<complete, agent, watcher, save, next, told>>
  BY <1>1 DEF capture
<1>3. ASSUME NEW id \in DOMAIN rows
      PROVE  /\ row(id) \in Row /\ row(id).place # "session"
             /\ rows[id].place = "archived" => row(id) = rows[id]
  <2>1. rows[id] \in Row
    BY DEF TypeOK
  <2>2. CASE rows[id].place = "session"
    <3>1. row(id) = [rows[id] EXCEPT !.place = "loose"]
      BY <2>2
    <3> HIDE DEF row
    <3> QED
      BY <2>1, <2>2, <3>1 DEF Row, Place
  <2>3. CASE rows[id].place # "session"
    <3>1. row(id) = rows[id]
      BY <2>3
    <3> HIDE DEF row
    <3> QED
      BY <2>1, <2>3, <3>1
  <2> QED
    BY <2>2, <2>3
<1> HIDE DEF row
<1>4. DOMAIN rows' = DOMAIN rows /\ \A id \in DOMAIN rows : rows'[id] = row(id)
  BY <1>1
<1>5. TypeOK'
  BY <1>1, <1>2, <1>3, <1>4 DEF TypeOK
<1>6. Numbered' /\ Fresh' /\ Apart' /\ StoredFirst' /\ AskedFirst'
  BY <1>1, <1>2, <1>4 DEF Numbered, Fresh, Apart, StoredFirst, AskedFirst, Pending
<1>7. OneCallEach'
  BY <1>2 DEF OneCallEach, Waits
<1>8. OneRowEach' /\ PurgeInOrder'
  BY <1>1, <1>3, <1>4 DEF OneRowEach, PurgeInOrder
<1>9. ListedIsArchived'
  BY <1>1, <1>3, <1>4 DEF ListedIsArchived, PurgeInOrder
<1>10. ContentlessWasAskedFor'
  BY <1>1, <1>4 DEF ContentlessWasAskedFor
<1>11. ToldKept'
  BY <1>1, <1>2, <1>4, CapturedToldKept DEF ToldKept
<1>12. CapturedIsKept'
  BY <1>8, <1>11, Captured, PTL
<1> QED
  BY <1>5, <1>6, <1>7, <1>8, <1>9, <1>10, <1>12

LEMMA StepFails == ASSUME IInv, PurgeFails PROVE IInv'
<1> USE DEF IInv
<1>1. /\ UNCHANGED <<session, capture, rows, objects, deletion, asked>>
      /\ purge.at # "idle" /\ purge' = NoPurge
  BY DEF PurgeFails
<1>2. TypeOK'
  BY <1>1, IdleFacts DEF TypeOK, capture
<1>3. AskedFirst' /\ PurgeInOrder' /\ ListedIsArchived'
  BY <1>1, IdleFacts DEF AskedFirst, PurgeInOrder, ListedIsArchived
<1> QED
  BY <1>1, <1>2, <1>3, IdleFacts, StepRemoves
-----------------------------------------------------------------------------
LEMMA InvInit == Init => IInv
<1> SUFFICES ASSUME Init PROVE IInv
  OBVIOUS
<1> USE FreeFacts, IdleFacts DEF Init
<1>1. DOMAIN rows = {}
  OBVIOUS
<1>2. TypeOK
  BY <1>1, FileAssumption DEF TypeOK, Agent, Watcher
<1>3. Numbered /\ Fresh /\ Apart /\ StoredFirst /\ AskedFirst
  BY <1>1 DEF Numbered, Fresh, Apart, StoredFirst, AskedFirst, Pending
<1>4. OneCallEach
  BY DEF OneCallEach, Waits
<1>5. OneRowEach /\ PurgeInOrder /\ ContentlessWasAskedFor /\ ListedIsArchived
  BY <1>1 DEF OneRowEach, PurgeInOrder, ContentlessWasAskedFor, ListedIsArchived
<1>6. CapturedIsKept
  BY <1>5, Captured DEF ToldKept
<1> QED
  BY <1>2, <1>3, <1>4, <1>5, <1>6 DEF IInv

LEMMA InvNext == IInv /\ [Next]_vars => IInv'
<1> SUFFICES ASSUME IInv, [Next]_vars PROVE IInv'
  OBVIOUS
<1>1. CASE \/ \E d \in Download : Downloaded(d) \/ WatcherCannotCopy(d)
           \/ Reconnect \/ Restart \/ StartWatcher
  BY <1>1, StepBrowser, StepRestart
<1>2. ASSUME NEW s \in Slot,
             \/ \E d \in Download : AgentUploads(s, d) \/ WatcherSaves(s, d)
             \/ UserUploads(s) \/ AgentGivesUp(s) \/ Saving(s)
      PROVE  IInv'
  BY <1>2, StepCalls, StepGivesUp, StepLook, StepStore, StepInsert, StepReads DEF Saving
<1>3. CASE \/ \E id \in Id, scoped \in BOOLEAN : BeginDeletion(id, scoped)
           \/ DeleteObject \/ DeleteRow
  BY <1>3, StepDeletion
<1>4. CASE Purging
  BY <1>4, StepErases, StepArchive, StepContainer, StepSession, StepFails DEF Purging
<1>5. CASE UNCHANGED vars
  <2>1. /\ UNCHANGED <<session, complete, agent, watcher, save, next, rows, objects>>
        /\ UNCHANGED <<deletion, purge, told, asked>>
    BY <1>5 DEF vars
  <2>2. TypeOK' /\ OneCallEach' /\ \A s \in Slot : Onward(s)
    BY <2>1 DEF IInv, TypeOK, OneCallEach, Waits, Onward, Pending
  <2> QED
    BY <2>1, <2>2, StepCapture
<1> QED
  BY <1>1, <1>2, <1>3, <1>4, <1>5 DEF Next
-----------------------------------------------------------------------------
\* The inductive invariant: numbers that are drawn once, removals that were asked
\* for first, one call under way for each that waits, and a deletion of the
\* session in its order.
THEOREM InvHolds == Spec => []IInv
BY InvInit, InvNext, PTL DEF Spec

\* The files, the saves, the deletions and those who capture keep their types.
THEOREM TypeHolds == Spec => []TypeOK
BY InvHolds, PTL DEF IInv

\* A file whose save has returned stays with its content until somebody gives it
\* up, and a download is shown once, however many captures there are at once.
THEOREM CapturesAreKept == Spec => []CapturedIsKept
BY InvHolds, PTL DEF IInv

\* A row whose content is missing is one whose deletion had begun.
THEOREM ContentIsKept == Spec => []ContentlessWasAskedFor
BY InvHolds, PTL DEF IInv

\* When the session has gone the files its deletion listed are archived, unless
\* they were deleted one by one.
THEOREM ListedAreArchived == Spec => []ListedIsArchived
BY InvHolds, PTL DEF IInv

-----------------------------------------------------------------------------
(* NetworkEgress. The container of a profile runs what its row says, and a *)
(* disabled profile runs nothing and stays disabled. A clean request is    *)
(* alone, so it leaves behind a profile that nobody has read before.       *)
(* Egress is the component as the run session_resources takes it: its      *)
(* requests are Slot.                                                      *)

LEMMA EgressIdleFacts ==
  /\ Egress!Idle \in Egress!Request
  /\ Egress!Idle.op = "none" /\ Egress!Idle.at = "idle" /\ Egress!Idle.verdict = "unchecked"
BY DEF Egress!Idle, Egress!Request, Egress!Op, Egress!Place, Egress!NoBody, Egress!Body, Egress!Blank,
  Egress!Row, Egress!Status, Egress!Keep, Egress!Unread

LEMMA RequestRow ==
  ASSUME Egress!TypeOK, NEW p \in Slot
  PROVE  /\ request[p] \in Egress!Request
         /\ request[p] = [op |-> request[p].op, at |-> request[p].at, body |-> request[p].body,
                          seen |-> request[p].seen, verdict |-> request[p].verdict,
                          clean |-> request[p].clean]
BY DEF Egress!TypeOK, Egress!Request

\* What the invariant asks of a request r in the place of p's, the rest unchanged.
Fits(p, r) ==
  /\ r \in Egress!Request /\ r.verdict # "disabled"
  /\ r.op # "none" =>
       /\ r.op = request[p].op /\ (r.clean => request[p].clean)
       /\ r.at # "read" =>
            /\ edited /\ profile.there => r.seen.config = profile.config
            /\ barred /\ profile.there /\ profile.status = "disabled" => r.op # "check"
            /\ r.op \in {"check", "gateway"} => r.seen.status # "disabled"
            /\ r.clean /\ r.op = "edit" =>
                 /\ r.seen.status = profile.status
                 /\ r.at = "write" /\ (r.body.config # Egress!Keep \/ r.body.disabled = "yes") =>
                      container.at = "none"

\* A step that only changes p's request.
LEMMA QuietStep ==
  ASSUME Egress!IInv, NEW p \in Slot, NEW r, Fits(p, r), request' = [request EXCEPT ![p] = r],
         attached' \subseteq Session, UNCHANGED <<profile, container, edited, barred>>
  PROVE  Egress!IInv'
<1> USE DEF Egress!IInv, Fits
<1>1. \A q \in Slot : request'[q] = IF q = p THEN r ELSE request[q]
  BY DEF Egress!TypeOK
<1>2. Egress!TypeOK'
  BY <1>1 DEF Egress!TypeOK
<1>3. Egress!ProfileGoverns'
  BY DEF Egress!ProfileGoverns, Egress!RunsItsConfig, Egress!DisabledRunsNothing
<1>4. Egress!CleanIsAlone'
  BY <1>1 DEF Egress!CleanIsAlone, Egress!Clean
<1>5. Egress!CleanRemoves'
  BY <1>1 DEF Egress!CleanRemoves, Egress!Clean, Egress!At, Egress!Changes, Egress!Disables
<1>6. Egress!CleanReads'
  BY <1>1 DEF Egress!CleanReads, Egress!Clean, Egress!Began
<1>7. Egress!ConfigCurrent'
  BY <1>1 DEF Egress!ConfigCurrent, Egress!Began
<1>8. Egress!NothingChecked'
  BY <1>1 DEF Egress!NothingChecked, Egress!Began
<1>9. Egress!ReadEnabled'
  BY <1>1 DEF Egress!ReadEnabled, Egress!Began
<1> QED
  BY <1>2, <1>3, <1>4, <1>5, <1>6, <1>7, <1>8, <1>9

LEMMA EndsFits == ASSUME NEW p \in Slot PROVE Fits(p, Egress!Idle)
BY EgressIdleFacts DEF Fits

LEMMA GoesFits ==
  ASSUME Egress!IInv, NEW p \in Slot, NEW at \in Egress!Place, request[p].at # "read",
         Egress!Clean(p) /\ request[p].op = "edit" /\ at = "write"
           /\ (Egress!Changes(p) \/ Egress!Disables(p)) => container.at = "none"
  PROVE  Fits(p, [request[p] EXCEPT !.at = at])
<1>1. Egress!TypeOK
  BY DEF Egress!IInv
<1>2. request[p] \in Egress!Request
  BY <1>1, RequestRow
<1>3. /\ [request[p] EXCEPT !.at = at] \in Egress!Request
      /\ request[p].verdict # "disabled"
  BY <1>2 DEF Egress!Request, Egress!IInv, Egress!ReadEnabled
<1> QED
  BY <1>2, <1>3
    DEF Fits, Egress!IInv, Egress!Request, Egress!ConfigCurrent, Egress!NothingChecked, Egress!ReadEnabled,
        Egress!CleanReads, Egress!Began, Egress!Clean, Egress!Changes, Egress!Disables

LEMMA StepEnds ==
  ASSUME Egress!IInv, NEW p \in Slot, Egress!Ends(p), attached' \subseteq Session,
         UNCHANGED <<profile, container, edited, barred>>
  PROVE  Egress!IInv'
BY EndsFits, QuietStep DEF Egress!Ends

LEMMA StepGoes ==
  ASSUME Egress!IInv, NEW p \in Slot, NEW at \in Egress!Place \ {"write"}, Egress!Goes(p, at),
         request[p].at # "read", UNCHANGED <<profile, container, attached, edited, barred>>
  PROVE  Egress!IInv'
<1>1. request' = [request EXCEPT ![p] = [request[p] EXCEPT !.at = at]] /\ attached \subseteq Session
  BY DEF Egress!Goes, Egress!IInv, Egress!TypeOK
<1>2. Fits(p, [request[p] EXCEPT !.at = at])
  BY GoesFits
<1> QED
  BY <1>1, <1>2, QuietStep

LEMMA StepRead == ASSUME Egress!IInv, NEW p \in Slot, Egress!Read(p) PROVE Egress!IInv'
<1>1. CASE ~profile.there \/ Egress!After(p) = "idle"
  BY <1>1, StepEnds DEF Egress!Read, Egress!IInv, Egress!TypeOK
<1>2. CASE profile.there /\ Egress!After(p) # "idle"
  <2> DEFINE r == [request[p] EXCEPT !.at = Egress!After(p), !.seen = profile]
  <2>1. /\ request' = [request EXCEPT ![p] = r] /\ attached' \subseteq Session
        /\ UNCHANGED <<profile, container, edited, barred>>
    BY <1>2 DEF Egress!Read, Egress!IInv, Egress!TypeOK
  <2>2. /\ request[p] \in Egress!Request /\ profile \in Egress!Row
        /\ request[p].verdict # "disabled" /\ Egress!After(p) \in Egress!Place
    BY RequestRow DEF Egress!IInv, Egress!TypeOK, Egress!ReadEnabled, Egress!After, Egress!Place
  <2>3. /\ r \in Egress!Request /\ r.op = request[p].op /\ r.clean = request[p].clean
        /\ r.verdict = request[p].verdict /\ r.body = request[p].body
        /\ r.seen = profile /\ r.at = Egress!After(p)
    BY <2>2 DEF Egress!Request
  <2> HIDE DEF r
  <2>4. /\ Egress!After(p) = "write" => ~(Egress!Changes(p) \/ Egress!Disables(p))
        /\ request[p].op \in {"check", "gateway"} => profile.status # "disabled"
    BY <1>2 DEF Egress!After
  <2>5. Fits(p, r)
    BY <2>2, <2>3, <2>4 DEF Fits, Egress!Changes, Egress!Disables
  <2> QED
    BY <2>1, <2>5, QuietStep
<1> QED
  BY <1>1, <1>2

\* The container is removed, or stays and the request is not clean any more.
LEMMA StepRemove ==
  ASSUME Egress!IInv, NEW p \in Slot, NEW place \in Egress!Place, Egress!Remove(p, place)
  PROVE  Egress!IInv'
<1>1. request[p] \in Egress!Request /\ request[p].at = "remove" /\ attached' \subseteq Session
  BY RequestRow DEF Egress!IInv, Egress!TypeOK, Egress!Remove
<1>2. CASE container' = Egress!NoContainer /\ Egress!Goes(p, place)
  <2> DEFINE r == [request[p] EXCEPT !.at = place]
  <2>1. UNCHANGED <<profile, attached, edited, barred>> /\ container'.at = "none"
    BY <1>2 DEF Egress!Remove, Egress!NoContainer
  <2>2. \A q \in Slot : request'[q] = IF q = p THEN r ELSE request[q]
    BY <1>2 DEF Egress!Goes, Egress!IInv, Egress!TypeOK
  <2>3. /\ r \in Egress!Request /\ r.op = request[p].op /\ r.clean = request[p].clean
        /\ r.verdict = request[p].verdict /\ r.seen = request[p].seen
    BY <1>1 DEF Egress!Request
  <2> HIDE DEF r
  <2>4. Egress!TypeOK'
    BY <1>2, <2>1, <2>2, <2>3 DEF Egress!TypeOK, Egress!IInv, Egress!Goes, Egress!NoContainer, Egress!Managed
  <2>5. Egress!ProfileGoverns' /\ Egress!CleanRemoves'
    BY <2>1 DEF Egress!ProfileGoverns, Egress!RunsItsConfig, Egress!DisabledRunsNothing, Egress!CleanRemoves
  <2>6. Egress!CleanIsAlone' /\ Egress!CleanReads'
    BY <1>1, <2>1, <2>2, <2>3 DEF Egress!IInv, Egress!CleanIsAlone, Egress!CleanReads, Egress!Clean, Egress!Began
  <2>7. Egress!ConfigCurrent' /\ Egress!NothingChecked' /\ Egress!ReadEnabled'
    BY <1>1, <2>1, <2>2, <2>3
      DEF Egress!IInv, Egress!ConfigCurrent, Egress!NothingChecked, Egress!ReadEnabled, Egress!Began
  <2> QED
    BY <2>4, <2>5, <2>6, <2>7 DEF Egress!IInv
<1>3. CASE /\ UNCHANGED container
           /\ request' = [request EXCEPT ![p].at = place, ![p].clean = FALSE]
  <2> DEFINE r == [request[p] EXCEPT !.at = place, !.clean = FALSE]
  <2>1. request' = [request EXCEPT ![p] = r]
    BY <1>3 DEF Egress!IInv, Egress!TypeOK
  <2>2. /\ r \in Egress!Request /\ r.op = request[p].op /\ ~r.clean
        /\ r.verdict = request[p].verdict /\ r.seen = request[p].seen
    BY <1>1 DEF Egress!Request
  <2>3. Fits(p, r)
    BY <1>1, <2>2
      DEF Fits, Egress!IInv, Egress!ConfigCurrent, Egress!NothingChecked, Egress!ReadEnabled, Egress!Began
  <2> QED
    BY <1>1, <1>3, <2>1, <2>3, QuietStep DEF Egress!Remove
<1> QED
  BY <1>2, <1>3 DEF Egress!Remove

-----------------------------------------------------------------------------
\* A request that begins takes the cleanness of those under way.
LEMMA StepBegin ==
  ASSUME Egress!IInv, NEW p \in Slot, NEW op \in Egress!Op \ {"none"}, NEW body \in Egress!Body,
         Egress!Begin(p, op, body)
  PROVE  Egress!IInv'
<1> DEFINE r == [Egress!Idle EXCEPT !.op = op, !.at = "read", !.body = body,
                   !.clean = (Egress!Busy = {})]
           s(q) == [request[q] EXCEPT !.clean = @ /\ request[q].op = "none"]
<1>1. /\ Egress!TypeOK /\ attached \subseteq Session
      /\ UNCHANGED <<profile, container, attached, edited, barred>>
  BY DEF Egress!IInv, Egress!TypeOK, Egress!Begin
<1>2. \A q \in Slot : request'[q] = IF q = p THEN r ELSE s(q)
  BY DEF Egress!Begin
<1>3. /\ r \in Egress!Request /\ r.op = op /\ r.at = "read" /\ r.verdict = "unchecked"
      /\ r.clean => Egress!Busy = {}
  BY EgressIdleFacts DEF Egress!Idle, Egress!Request, Egress!Place, Egress!Op
<1>4. \A q \in Slot : /\ s(q) \in Egress!Request /\ s(q).op = request[q].op /\ s(q).at = request[q].at
                      /\ s(q).seen = request[q].seen /\ s(q).verdict = request[q].verdict
                      /\ s(q).clean => request[q].op = "none"
  <2> SUFFICES ASSUME NEW q \in Slot
               PROVE  /\ s(q) \in Egress!Request /\ s(q).op = request[q].op /\ s(q).at = request[q].at
                      /\ s(q).seen = request[q].seen /\ s(q).verdict = request[q].verdict
                      /\ s(q).clean => request[q].op = "none"
    OBVIOUS
  <2>1. request[q] \in Egress!Request
    BY <1>1, RequestRow
  <2> QED
    BY <2>1 DEF Egress!Request
<1>5. \A q \in Slot : request[q].op # "none" => q \in Egress!Busy
  BY DEF Egress!Busy
<1> HIDE DEF r, s
<1>6. Egress!TypeOK'
  <2>1. request' \in [Slot -> Egress!Request]
    <3>1. request' = [q \in Slot |-> IF q = p THEN r ELSE s(q)]
      BY DEF Egress!Begin, r, s
    <3> QED
      BY <3>1, <1>3, <1>4
  <2> QED
    BY <1>1, <2>1 DEF Egress!TypeOK
<1>7. Egress!ProfileGoverns'
  BY <1>1 DEF Egress!IInv, Egress!ProfileGoverns, Egress!RunsItsConfig, Egress!DisabledRunsNothing
<1>8. \A q \in Slot : Egress!Clean(q)' => q = p /\ Egress!Busy = {}
  BY <1>2, <1>3, <1>4 DEF Egress!Clean
<1>9. \A q \in Slot : Egress!Began(q)' =>
        Egress!Began(q) /\ request'[q].op = request[q].op /\ request'[q].seen = request[q].seen
  BY <1>2, <1>3, <1>4 DEF Egress!Began
<1>10. Egress!CleanIsAlone'
  BY <1>2, <1>4, <1>5, <1>8 DEF Egress!CleanIsAlone
<1>11. Egress!CleanRemoves' /\ Egress!CleanReads'
  BY <1>2, <1>3, <1>8 DEF Egress!CleanRemoves, Egress!CleanReads, Egress!At, Egress!Began
<1>12. Egress!ConfigCurrent'
  BY <1>1, <1>9 DEF Egress!IInv, Egress!ConfigCurrent
<1>13. Egress!NothingChecked'
  BY <1>1, <1>9 DEF Egress!IInv, Egress!NothingChecked
<1>14. Egress!ReadEnabled'
  BY <1>2, <1>3, <1>4, <1>9 DEF Egress!IInv, Egress!ReadEnabled
<1> QED
  BY <1>6, <1>7, <1>10, <1>11, <1>12, <1>13, <1>14 DEF Egress!IInv

\* An edit writes the row it has read: when it was clean that is still the row.
LEMMA StepWrite == ASSUME Egress!IInv, NEW p \in Slot, Egress!Write(p) PROVE Egress!IInv'
<1> DEFINE config == IF Egress!Changes(p) THEN request[p].body.config ELSE request[p].seen.config
           status == Egress!StatusOfEdit(p)
<1>1. /\ Egress!TypeOK /\ request[p] \in Egress!Request /\ profile \in Egress!Row
      /\ request[p].op = "edit" /\ request[p].at = "write" /\ Egress!Began(p)
  BY RequestRow DEF Egress!IInv, Egress!TypeOK, Egress!Write, Egress!At, Egress!Began
<1>2. \A q \in Slot : request'[q] = IF q = p THEN Egress!Idle ELSE request[q]
  BY <1>1 DEF Egress!Write, Egress!Ends, Egress!TypeOK
<1>3. /\ request[p].body \in Egress!Body /\ request[p].seen \in Egress!Row
      /\ request[p].clean \in BOOLEAN
  BY <1>1 DEF Egress!Request
<1>4. config \in Config \cup {Egress!Unread} /\ status \in Egress!Status
  BY <1>3 DEF Egress!Body, Egress!Row, Egress!Status, Egress!Changes, Egress!StatusOfEdit
<1>5. /\ profile' = IF profile.there THEN [profile EXCEPT !.config = config, !.status = status] ELSE profile
      /\ edited' = IF Egress!Changes(p) THEN request[p].clean ELSE edited
      /\ barred' = IF Egress!Disables(p) THEN request[p].clean
                   ELSE barred /\ (status = "disabled" => request[p].clean)
      /\ UNCHANGED <<container, attached>>
  BY DEF Egress!Write
<1>6. /\ profile' \in Egress!Row /\ profile'.there = profile.there
      /\ profile.there => profile'.config = config /\ profile'.status = status
  BY <1>1, <1>4, <1>5 DEF Egress!Row
<1>7. Egress!Disables(p) => status = "disabled"
  BY DEF Egress!StatusOfEdit, Egress!Disables
<1>8. status = "disabled" /\ ~Egress!Disables(p) => ~Egress!Changes(p) /\ request[p].seen.status = "disabled"
  BY <1>3 DEF Egress!StatusOfEdit, Egress!Disables, Egress!Body
<1> HIDE DEF config, status
<1>9. Egress!TypeOK'
  <2>1. request' \in [Slot -> Egress!Request]
    BY <1>1, EgressIdleFacts DEF Egress!Write, Egress!Ends, Egress!TypeOK
  <2> QED
    BY <1>1, <1>3, <1>5, <1>6, <2>1 DEF Egress!TypeOK
<1>10. request[p].clean => \A q \in Slot : request[q].op # "none" => q = p
  BY <1>1 DEF Egress!IInv, Egress!CleanIsAlone, Egress!Clean
<1>11. request[p].clean =>
         /\ request[p].seen.status = profile.status
         /\ (Egress!Changes(p) \/ Egress!Disables(p)) => container.at = "none"
  BY <1>1 DEF Egress!IInv, Egress!CleanReads, Egress!CleanRemoves, Egress!Clean, Egress!At
<1>12. edited /\ profile.there /\ ~Egress!Changes(p) => profile'.config = profile.config
  BY <1>1, <1>6 DEF Egress!IInv, Egress!ConfigCurrent, config
<1>13. barred' /\ profile.there /\ status = "disabled" => request[p].clean
  BY <1>5
<1>14. Egress!RunsItsConfig'
  <2>1. Egress!RunsItsConfig /\ container' = container /\ profile'.there = profile.there
    BY <1>5, <1>6 DEF Egress!IInv, Egress!ProfileGoverns
  <2>2. CASE Egress!Changes(p)
    <3>1. edited' => container.at = "none"
      BY <1>3, <1>5, <1>11, <2>2
    <3> QED
      BY <2>1, <3>1 DEF Egress!RunsItsConfig
  <2>3. CASE ~Egress!Changes(p)
    <3>1. edited' = edited
      BY <1>5, <2>3
    <3> QED
      BY <1>12, <2>1, <2>3, <3>1 DEF Egress!RunsItsConfig
  <2> QED
    BY <2>2, <2>3
<1>15. Egress!DisabledRunsNothing'
  <2> SUFFICES ASSUME barred', profile'.there, profile'.status = "disabled"
               PROVE  container'.at # "running"
    BY DEF Egress!DisabledRunsNothing
  <2>1. request[p].clean /\ status = "disabled" /\ profile.there /\ container' = container
    BY <1>5, <1>6, <1>13
  <2>2. CASE Egress!Disables(p)
    BY <1>11, <2>1, <2>2
  <2>3. CASE ~Egress!Disables(p)
    <3>1. barred
      BY <1>5, <2>3, Zenon
    <3>2. profile.status = "disabled"
      BY <1>8, <1>11, <2>1, <2>3
    <3> QED
      BY <2>1, <3>1, <3>2 DEF Egress!IInv, Egress!ProfileGoverns, Egress!DisabledRunsNothing
  <2> QED
    BY <2>2, <2>3
<1>16. \A q \in Slot : Egress!Clean(q)' => q # p /\ request[q] = request'[q] /\ Egress!Clean(q)
  BY <1>2, EgressIdleFacts DEF Egress!Clean
<1>17. \A q \in Slot : Egress!Clean(q)' => FALSE
  BY <1>1, <1>16 DEF Egress!IInv, Egress!CleanIsAlone
<1>18. Egress!CleanIsAlone' /\ Egress!CleanRemoves' /\ Egress!CleanReads'
  BY <1>17 DEF Egress!CleanIsAlone, Egress!CleanRemoves, Egress!CleanReads
<1>19. \A q \in Slot : Egress!Began(q)' => q # p /\ request'[q] = request[q] /\ Egress!Began(q)
  BY <1>2, EgressIdleFacts DEF Egress!Began
<1>20. Egress!ConfigCurrent'
  BY <1>5, <1>6, <1>10, <1>12, <1>19 DEF Egress!IInv, Egress!ConfigCurrent, Egress!Began
<1>21. Egress!NothingChecked'
  BY <1>6, <1>10, <1>13, <1>19 DEF Egress!NothingChecked, Egress!Began
<1>22. Egress!ReadEnabled'
  BY <1>2, <1>19, EgressIdleFacts DEF Egress!IInv, Egress!ReadEnabled
<1> QED
  BY <1>9, <1>14, <1>15, <1>18, <1>20, <1>21, <1>22 DEF Egress!IInv, Egress!ProfileGoverns
-----------------------------------------------------------------------------
\* A check or a gateway notes a status, which is never "disabled".
LEMMA StatusStep ==
  ASSUME Egress!IInv, NEW p \in Slot, request[p].op \in {"check", "gateway"},
         NEW status \in Egress!Status \ {"disabled"}, Egress!SetStatus(status),
         NEW r, Fits(p, r), request' = [request EXCEPT ![p] = r]
  PROVE  Egress!IInv'
<1>1. /\ Egress!TypeOK /\ profile \in Egress!Row /\ request[p].op # "none"
      /\ UNCHANGED <<container, attached, edited, barred>>
  BY DEF Egress!IInv, Egress!TypeOK, Egress!SetStatus
<1>2. \A q \in Slot : request'[q] = IF q = p THEN r ELSE request[q]
  BY <1>1 DEF Egress!TypeOK
<1>3. /\ profile' \in Egress!Row /\ profile'.there = profile.there /\ profile'.config = profile.config
      /\ profile.there => profile'.status # "disabled"
  BY <1>1 DEF Egress!SetStatus, Egress!Row
<1>4. Egress!TypeOK'
  BY <1>1, <1>2, <1>3 DEF Egress!TypeOK, Fits
<1>5. Egress!ProfileGoverns'
  BY <1>1, <1>3 DEF Egress!IInv, Egress!ProfileGoverns, Egress!RunsItsConfig, Egress!DisabledRunsNothing
<1>6. \A q \in Slot : Egress!Clean(q)' => q = p /\ Egress!Clean(p) /\ request'[q].op # "edit"
  BY <1>1, <1>2 DEF Egress!IInv, Egress!CleanIsAlone, Egress!Clean, Fits
<1>7. Egress!CleanIsAlone'
  BY <1>2, <1>6 DEF Egress!IInv, Egress!CleanIsAlone, Egress!Clean
<1>8. Egress!CleanRemoves' /\ Egress!CleanReads'
  BY <1>6 DEF Egress!CleanRemoves, Egress!CleanReads, Egress!At
<1>9. Egress!ConfigCurrent'
  BY <1>1, <1>2, <1>3 DEF Egress!IInv, Egress!ConfigCurrent, Egress!Began, Fits
<1>10. Egress!NothingChecked'
  BY <1>3 DEF Egress!NothingChecked
<1>11. Egress!ReadEnabled'
  BY <1>2 DEF Egress!IInv, Egress!ReadEnabled, Egress!Began, Fits
<1> QED
  BY <1>4, <1>5, <1>7, <1>8, <1>9, <1>10, <1>11 DEF Egress!IInv

LEMMA StepStatus ==
  ASSUME Egress!IInv, NEW p \in Slot,
         Egress!Note(p) \/ Egress!Conclude(p) \/ Egress!NoteGateway(p)
  PROVE  Egress!IInv'
<1>1. request[p] \in Egress!Request /\ request[p].verdict \in Egress!Status \ {"disabled"}
  BY RequestRow DEF Egress!IInv, Egress!ReadEnabled, Egress!Request
<1>2. CASE Egress!Note(p)
  <2> DEFINE at == IF request[p].verdict = "healthy" THEN "look" ELSE "conclude"
  <2>1. at \in Egress!Place /\ at # "write"
    BY DEF Egress!Place
  <2>2. /\ request' = [request EXCEPT ![p] = [request[p] EXCEPT !.at = at]]
        /\ request[p].op = "check" /\ request[p].at # "read" /\ Egress!SetStatus(request[p].verdict)
    BY <1>2 DEF Egress!Note, Egress!Goes, Egress!At
  <2> HIDE DEF at
  <2>3. Fits(p, [request[p] EXCEPT !.at = at])
    BY <2>1, <2>2, GoesFits
  <2> QED
    BY <1>1, <2>2, <2>3, StatusStep
<1>3. CASE Egress!Conclude(p)
  BY <1>1, <1>3, EndsFits, StatusStep DEF Egress!Conclude, Egress!At, Egress!Ends
<1>4. CASE Egress!NoteGateway(p)
  <2>1. PICK status \in {"healthy", "unhealthy"} : Egress!SetStatus(status)
    BY <1>4 DEF Egress!NoteGateway
  <2>2. status \in Egress!Status \ {"disabled"}
    BY DEF Egress!Status
  <2> QED
    BY <1>4, <2>1, <2>2, EndsFits, StatusStep DEF Egress!NoteGateway, Egress!At, Egress!Ends
<1> QED
  BY <1>2, <1>3, <1>4

LEMMA StepInspectCount ==
  ASSUME Egress!IInv, NEW p \in Slot, Egress!Inspect(p) \/ Egress!Count(p)
  PROVE  Egress!IInv'
<1>1. attached \subseteq Session
  BY DEF Egress!IInv, Egress!TypeOK
<1>2. {"look", "remove"} \subseteq Egress!Place \ {"write"}
  BY DEF Egress!Place
<1>3. CASE Egress!Inspect(p)
  <2>1. CASE container.at = "running"
    BY <1>2, <1>3, <2>1, StepGoes DEF Egress!Inspect, Egress!At
  <2>2. CASE container.at # "running"
    BY <1>2, <1>3, <2>2, StepGoes DEF Egress!Inspect, Egress!At
  <2> QED
    BY <2>1, <2>2
<1>4. CASE Egress!Count(p)
  <2>1. CASE attached # {}
    BY <1>1, <1>4, <2>1, StepEnds DEF Egress!Count
  <2>2. CASE attached = {}
    BY <1>2, <1>4, <2>2, StepGoes DEF Egress!Count, Egress!At
  <2> QED
    BY <2>1, <2>2
<1> QED
  BY <1>3, <1>4

LEMMA EgressStepLook == ASSUME Egress!IInv, NEW p \in Slot, Egress!Look(p) PROVE Egress!IInv'
<1> DEFINE verdict == IF container.at = "running" THEN "healthy" ELSE "unhealthy"
           r == [request[p] EXCEPT !.at = "conclude", !.verdict = verdict]
<1>1. /\ request[p] \in Egress!Request /\ request[p].op = "check" /\ request[p].at = "look"
      /\ attached' \subseteq Session /\ UNCHANGED <<profile, container, edited, barred>>
  BY RequestRow DEF Egress!IInv, Egress!TypeOK, Egress!Look, Egress!At
<1>2. request' = [request EXCEPT ![p] = r]
  BY DEF Egress!Look
<1>3. /\ r \in Egress!Request /\ r.verdict # "disabled" /\ r.op = "check" /\ r.clean = request[p].clean
      /\ r.seen = request[p].seen
  BY <1>1 DEF Egress!Request, Egress!Status, Egress!Place
<1> HIDE DEF r
<1>4. Fits(p, r)
  BY <1>1, <1>3
    DEF Fits, Egress!IInv, Egress!ConfigCurrent, Egress!NothingChecked, Egress!ReadEnabled, Egress!Began
<1> QED
  BY <1>1, <1>2, <1>4, QuietStep

\* docker run with what was read: that is still the row's configuration.
LEMMA StepRun == ASSUME Egress!IInv, NEW p \in Slot, Egress!Run(p) PROVE Egress!IInv'
<1>1. /\ Egress!TypeOK /\ request[p] \in Egress!Request /\ request[p].op = "check"
      /\ request[p].at = "run" /\ Egress!Began(p) /\ attached' \subseteq Session
      /\ UNCHANGED <<profile, attached, edited, barred>>
  BY RequestRow DEF Egress!IInv, Egress!TypeOK, Egress!Run, Egress!At, Egress!Began
<1> DEFINE r(verdict) == [request[p] EXCEPT !.at = "note", !.verdict = verdict]
<1>2. \A v \in {"healthy", "unhealthy"} :
        /\ r(v) \in Egress!Request /\ r(v).verdict # "disabled" /\ r(v).op = "check"
        /\ r(v).clean = request[p].clean /\ r(v).seen = request[p].seen
  BY <1>1 DEF Egress!Request, Egress!Status, Egress!Place
<1>3. CASE UNCHANGED container /\ request' = [request EXCEPT ![p].at = "note", ![p].verdict = "unhealthy"]
  <2>1. request' = [request EXCEPT ![p] = r("unhealthy")]
    BY <1>3
  <2> HIDE DEF r
  <2>2. Fits(p, r("unhealthy"))
    BY <1>1, <1>2
      DEF Fits, Egress!IInv, Egress!ConfigCurrent, Egress!NothingChecked, Egress!ReadEnabled, Egress!Began
  <2> QED
    BY <1>1, <1>3, <2>1, <2>2, QuietStep
<1>4. CASE /\ container' = [at |-> "running", config |-> request[p].seen.config]
           /\ request' = [request EXCEPT ![p].at = "note", ![p].verdict = "healthy"]
  <2>1. \A q \in Slot : request'[q] = IF q = p THEN r("healthy") ELSE request[q]
    BY <1>1, <1>4 DEF Egress!TypeOK
  <2>2. /\ request[p].seen.config \in Config \cup {Egress!Unread}
        /\ container'.config = request[p].seen.config
    BY <1>1, <1>4 DEF Egress!Request, Egress!Row
  <2> HIDE DEF r
  <2>3. Egress!TypeOK'
    <3>1. request' = [request EXCEPT ![p] = r("healthy")]
      BY <1>4 DEF r
    <3> QED
      BY <1>1, <1>2, <1>4, <2>2, <3>1 DEF Egress!TypeOK, Egress!Managed
  <2>4. Egress!ProfileGoverns'
    BY <1>1, <2>2
      DEF Egress!IInv, Egress!ProfileGoverns, Egress!RunsItsConfig, Egress!DisabledRunsNothing,
          Egress!ConfigCurrent, Egress!NothingChecked
  <2>5. \A q \in Slot : Egress!Clean(q)' => q = p /\ request'[q].op # "edit"
    BY <1>1, <1>2, <2>1 DEF Egress!IInv, Egress!CleanIsAlone, Egress!Clean
  <2>6. Egress!CleanRemoves' /\ Egress!CleanReads'
    BY <2>5 DEF Egress!CleanRemoves, Egress!CleanReads, Egress!At
  <2>7. Egress!CleanIsAlone'
    BY <1>1, <1>2, <2>1 DEF Egress!IInv, Egress!CleanIsAlone, Egress!Clean
  <2>8. Egress!ConfigCurrent' /\ Egress!NothingChecked' /\ Egress!ReadEnabled'
    BY <1>1, <1>2, <2>1
      DEF Egress!IInv, Egress!ConfigCurrent, Egress!NothingChecked, Egress!ReadEnabled, Egress!Began
  <2> QED
    BY <2>3, <2>4, <2>6, <2>7, <2>8 DEF Egress!IInv
<1> QED
  BY <1>3, <1>4 DEF Egress!Run

LEMMA StepDrop == ASSUME Egress!IInv, NEW p \in Slot, Egress!Drop(p) PROVE Egress!IInv'
<1>1. /\ Egress!TypeOK /\ request[p].op = "delete" /\ ~profile'.there /\ profile' \in Egress!Row
      /\ attached' \subseteq Session /\ UNCHANGED <<container, edited, barred>>
  BY DEF Egress!IInv, Egress!TypeOK, Egress!Drop, Egress!At, Egress!Row
<1>2. \A q \in Slot : request'[q] = IF q = p THEN Egress!Idle ELSE request[q]
  BY <1>1 DEF Egress!Drop, Egress!Ends, Egress!TypeOK
<1>3. Egress!TypeOK'
  BY <1>1, EgressIdleFacts DEF Egress!TypeOK, Egress!Drop, Egress!Ends
<1>4. \A q \in Slot : ~Egress!Clean(q)'
  BY <1>1, <1>2, EgressIdleFacts DEF Egress!IInv, Egress!CleanIsAlone, Egress!Clean
<1>5. Egress!CleanIsAlone' /\ Egress!CleanRemoves' /\ Egress!CleanReads'
  BY <1>4 DEF Egress!CleanIsAlone, Egress!CleanRemoves, Egress!CleanReads
<1>6. Egress!ProfileGoverns' /\ Egress!ConfigCurrent' /\ Egress!NothingChecked'
  BY <1>1 DEF Egress!ProfileGoverns, Egress!RunsItsConfig, Egress!DisabledRunsNothing,
    Egress!ConfigCurrent, Egress!NothingChecked
<1>7. Egress!ReadEnabled'
  BY <1>2, EgressIdleFacts DEF Egress!IInv, Egress!ReadEnabled, Egress!Began
<1> QED
  BY <1>3, <1>5, <1>6, <1>7 DEF Egress!IInv

\* Sessions go, containers exit.
LEMMA StepOutside ==
  ASSUME Egress!IInv, (\E s \in Session : Egress!Detach(s)) \/ Egress!ContainerExits
  PROVE  Egress!IInv'
<1>1. /\ UNCHANGED <<profile, request, edited, barred>> /\ attached' \subseteq Session
      /\ \/ UNCHANGED container
         \/ container.at = "running" /\ container' \in Egress!Managed /\ container'.at = "exited"
  BY DEF Egress!IInv, Egress!TypeOK, Egress!Detach, Egress!ContainerExits, Egress!Managed
<1>2. Egress!TypeOK'
  BY <1>1 DEF Egress!IInv, Egress!TypeOK
<1>3. Egress!ProfileGoverns'
  BY <1>1 DEF Egress!IInv, Egress!ProfileGoverns, Egress!RunsItsConfig, Egress!DisabledRunsNothing
<1>4. Egress!CleanRemoves'
  BY <1>1 DEF Egress!IInv, Egress!CleanRemoves, Egress!Clean, Egress!At, Egress!Changes, Egress!Disables
<1>5. /\ Egress!CleanIsAlone' /\ Egress!CleanReads'
      /\ Egress!ConfigCurrent' /\ Egress!NothingChecked' /\ Egress!ReadEnabled'
  BY <1>1
    DEF Egress!IInv, Egress!CleanIsAlone, Egress!CleanReads, Egress!ConfigCurrent, Egress!NothingChecked,
        Egress!ReadEnabled, Egress!Clean, Egress!Began
<1> QED
  BY <1>2, <1>3, <1>4, <1>5 DEF Egress!IInv
-----------------------------------------------------------------------------
LEMMA EgressInvInit == ASSUME Egress!Init PROVE Egress!IInv
<1>1. \A p \in Slot : request[p] = Egress!Idle
  BY DEF Egress!Init
<1>2. \A p \in Slot : request[p].op = "none" /\ request[p].verdict # "disabled"
  BY <1>1, EgressIdleFacts
<1>3. Egress!TypeOK
  BY EgressIdleFacts DEF Egress!Init, Egress!TypeOK, Egress!Row, Egress!Status, Egress!NoContainer, Egress!Managed
<1>4. container.at = "none"
  BY DEF Egress!Init, Egress!NoContainer
<1> QED
  BY <1>2, <1>3, <1>4
    DEF Egress!IInv, Egress!ProfileGoverns, Egress!RunsItsConfig, Egress!DisabledRunsNothing,
        Egress!CleanIsAlone, Egress!CleanRemoves, Egress!CleanReads, Egress!ConfigCurrent,
        Egress!NothingChecked, Egress!ReadEnabled, Egress!Clean, Egress!Began

LEMMA EgressInvNext == ASSUME Egress!IInv, Egress!Next PROVE Egress!IInv'
<1>1. attached \subseteq Session
  BY DEF Egress!IInv, Egress!TypeOK
<1>2. ASSUME NEW p \in Slot, NEW body \in Egress!Body, Egress!Begin(p, "edit", body) PROVE Egress!IInv'
  BY <1>2, StepBegin DEF Egress!Op
<1>3. ASSUME NEW p \in Slot, NEW op \in {"check", "gateway", "delete", "attach"},
             Egress!Begin(p, op, Egress!NoBody)
      PROVE  Egress!IInv'
  BY <1>3, StepBegin DEF Egress!Op, Egress!NoBody, Egress!Body, Egress!Keep
<1>4. ASSUME NEW p \in Slot, Egress!Abandon(p) PROVE Egress!IInv'
  BY <1>1, <1>4, StepEnds DEF Egress!Abandon
<1>5. ASSUME NEW p \in Slot, Egress!EditRemoves(p) \/ Egress!CheckRemoves(p) \/ Egress!DeletionRemoves(p)
      PROVE  Egress!IInv'
  BY <1>5, StepRemove DEF Egress!EditRemoves, Egress!CheckRemoves, Egress!DeletionRemoves, Egress!Place
<1>6. ASSUME NEW p \in Slot, NEW s \in Session, Egress!Attach(p, s) PROVE Egress!IInv'
  <2>1. attached' \subseteq Session
    BY <1>1, <1>6 DEF Egress!Attach
  <2> QED
    BY <1>6, <2>1, StepEnds DEF Egress!Attach
<1> QED
  BY <1>2, <1>3, <1>4, <1>5, <1>6, StepRead, StepWrite, StepStatus, StepInspectCount, EgressStepLook, StepRun,
     StepDrop, StepOutside DEF Egress!Next

\* While which is "egress" the variables move as NetworkEgress says.
LEMMA MCStep ==
  ASSUME Only("egress") => Egress!IInv, [MCNext]_<<which, vars, Others>>
  PROVE  (Only("egress") => Egress!IInv)'
<1>1. CASE Only("egress") /\ Egress!Next /\ UNCHANGED <<which, vars>>
  BY <1>1, EgressInvNext DEF Only
<1>2. CASE Only("files") /\ UNCHANGED <<which, Others>>
  BY <1>2 DEF Only
<1>3. CASE UNCHANGED <<which, vars, Others>>
  <2>1. which' = which /\ UNCHANGED Others
    BY <1>3
  <2>2. Egress!IInv => Egress!IInv'
    BY <2>1
      DEF Others, Egress!IInv, Egress!TypeOK, Egress!ProfileGoverns, Egress!RunsItsConfig,
          Egress!DisabledRunsNothing, Egress!CleanIsAlone, Egress!CleanRemoves, Egress!CleanReads,
          Egress!ConfigCurrent, Egress!NothingChecked, Egress!ReadEnabled, Egress!Clean, Egress!Began,
          Egress!At, Egress!Changes, Egress!Disables
  <2> QED
    BY <2>1, <2>2 DEF Only
<1> QED
  BY <1>1, <1>2, <1>3 DEF MCNext

LEMMA MCInv == MCSpec => [](Only("egress") => Egress!IInv)
<1>1. MCInit => (Only("egress") => Egress!IInv)
  BY EgressInvInit DEF MCInit, Only
<1> QED
  BY <1>1, MCStep, PTL DEF MCSpec

(***************************************************************************)
(* A component of its own: the invariant of NetworkEgress.                 *)
(***************************************************************************)
\* NetworkEgress keeps its types, runs the configuration of the row after a
\* clean edit of it, and runs nothing for a profile that a clean request has
\* disabled (network_egress.py, routes/network_egress.py).
THEOREM EgressInvariant == Egress!Spec => []Egress!IInv
<1>1. Egress!IInv /\ [Egress!Next]_Egress!vars => Egress!IInv'
  <2>1. CASE UNCHANGED Egress!vars
    BY <2>1
      DEF Egress!vars, Egress!IInv, Egress!TypeOK, Egress!ProfileGoverns, Egress!RunsItsConfig,
          Egress!DisabledRunsNothing, Egress!CleanIsAlone, Egress!CleanRemoves, Egress!CleanReads,
          Egress!ConfigCurrent, Egress!NothingChecked, Egress!ReadEnabled, Egress!Clean, Egress!Began,
          Egress!At, Egress!Changes, Egress!Disables
  <2> QED
    BY <2>1, EgressInvNext
<1> QED
  BY <1>1, EgressInvInit, PTL DEF Egress!Spec

\* The run's invariant: a container runs what its profile says, after an edit
\* or a disabling that nothing overlapped (update_network_egress).
THEOREM EgressProfileGoverns == MCSpec => []ProfileGoverns
<1>1. (Only("egress") => Egress!IInv) => ProfileGoverns
  BY DEF ProfileGoverns, Egress!IInv
<1> QED
  BY <1>1, MCInv, PTL

\* Only an edit that sets the status or the configuration, or a request that
\* has not found the profile disabled, takes it out of that status.
LEMMA EgressDisabledStep ==
  ASSUME Egress!IInv, Egress!Next PROVE Egress!DisabledStep
<1> SUFFICES ASSUME profile.there, profile.status = "disabled", profile'.status # "disabled"
             PROVE  \E p \in Slot : /\ request[p].op # "none" /\ request'[p] # request[p]
                                    /\ \/ request[p].seen.status # "disabled"
                                       \/ request[p].body # Egress!NoBody
  BY DEF Egress!DisabledStep
<1>1. Egress!TypeOK /\ profile \in Egress!Row
  BY DEF Egress!IInv, Egress!TypeOK
<1>2. PICK p \in Slot : Egress!Write(p) \/ Egress!Note(p) \/ Egress!Conclude(p) \/ Egress!NoteGateway(p)
  <2>1. \A p \in Slot : Egress!Drop(p) => profile'.status = profile.status
    BY <1>1 DEF Egress!Drop, Egress!Row
  <2> QED
    BY <2>1 DEF Egress!Next, Egress!Begin, Egress!Abandon, Egress!Read, Egress!EditRemoves, Egress!Remove,
      Egress!Inspect, Egress!CheckRemoves, Egress!Run, Egress!Look, Egress!Count, Egress!DeletionRemoves,
      Egress!Attach, Egress!Detach, Egress!ContainerExits
<1>3. request[p] \in Egress!Request /\ request \in [Slot -> Egress!Request]
  BY <1>1, RequestRow DEF Egress!TypeOK
<1>4. request[p].op # "none" /\ request'[p] # request[p]
  <2>1. CASE Egress!Note(p)
    BY <1>3, <2>1 DEF Egress!Note, Egress!At, Egress!Goes, Egress!Request
  <2>2. CASE Egress!Write(p) \/ Egress!Conclude(p) \/ Egress!NoteGateway(p)
    <3>1. request[p].op # "none" /\ request'[p] = Egress!Idle
      BY <1>3, <2>2 DEF Egress!Write, Egress!Conclude, Egress!NoteGateway, Egress!At, Egress!Ends
    <3> QED
      BY <3>1, EgressIdleFacts
  <2> QED
    BY <1>2, <2>1, <2>2
<1>5. CASE Egress!Note(p) \/ Egress!Conclude(p) \/ Egress!NoteGateway(p)
  <2>1. request[p].seen.status # "disabled"
    BY <1>5 DEF Egress!IInv, Egress!ReadEnabled, Egress!Began, Egress!Note, Egress!Conclude,
      Egress!NoteGateway, Egress!At
  <2> QED
    BY <1>4, <2>1
<1>6. CASE Egress!Write(p) /\ request[p].body = Egress!NoBody
  <2>1. ~Egress!Changes(p) /\ Egress!StatusOfEdit(p) = request[p].seen.status
    BY <1>6 DEF Egress!NoBody, Egress!Changes, Egress!StatusOfEdit, Egress!Keep
  <2>2. profile'.status = request[p].seen.status
    BY <1>1, <1>6, <2>1 DEF Egress!Write, Egress!Row
  <2> QED
    BY <1>4, <2>2
<1> QED
  BY <1>2, <1>4, <1>5, <1>6

\* A disabled profile is re-enabled by nobody but an edit, or a request that
\* read it before: a check and a gateway that find it disabled leave it so
\* (effective_proxy_from_row, check_egress).
THEOREM EgressDisabledStays == MCSpec => DisabledStays
<1>1. (Only("egress") => Egress!IInv) /\ [MCNext]_<<which, vars, Others>>
        => [Only("egress") => Egress!DisabledStep]_<<which, profile, request>>
  <2> SUFFICES ASSUME Only("egress") => Egress!IInv, MCNext, Only("egress")
               PROVE  Egress!DisabledStep \/ UNCHANGED <<which, profile, request>>
    BY DEF Others
  <2>1. Egress!Next
    BY DEF MCNext, Only
  <2> QED
    BY <2>1, EgressDisabledStep
<1> QED
  BY <1>1, MCInv, PTL DEF MCSpec, DisabledStays
=============================================================================
