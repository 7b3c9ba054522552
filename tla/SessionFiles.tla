----------------------------- MODULE SessionFiles -----------------------------
(***************************************************************************)
(* Files of one browser session (backend/app/file_service.py), from the    *)
(* download in the browser's container to the Files page.                  *)
(*                                                                         *)
(* Two programs capture downloads: the agent inside the container          *)
(* (services/selenium-chrome/file-capture-agent.py), which uploads them to *)
(* the backend, and the backend's own watcher (download_watcher.py), which *)
(* polls the same directory.  Users upload, delete and, with the session,  *)
(* archive files.  A save and a deletion are several calls to the object   *)
(* store and to the database, and all of them interleave; a call may fail. *)
(*                                                                         *)
(* A download stands for its path, time and size and for its identifier in *)
(* the browser: the two unique indexes of session_files agree on it.       *)
(* Abstracted: names, types and sizes, access checks, the heartbeats and   *)
(* what they list, the two polls the fallbacks wait for.  The object store *)
(* is S3: the built-in one forgets its objects after an hour by design.    *)
(***************************************************************************)
EXTENDS Naturals, FiniteSets, Functions

CONSTANTS
  Download,  \* files the browser downloads
  Slot,      \* bound: saves under way at once
  MaxId,     \* bound: files ever saved
  Watching   \* BP_LEGACY_DOCKER_DOWNLOAD_WATCHER

Id == 1 .. MaxId
None == 0        \* no file yet
NoDownload == 0  \* what a user uploads is no download

ASSUME FileAssumption == NoDownload \notin Download /\ MaxId \in Nat /\ Watching \in BOOLEAN

VARIABLES
  session,   \* the row of sessions: "there" or "gone"
  complete,  \* downloads whose file is in the container
  agent,     \* the capture agent, and what DirectoryFallback has processed
  watcher,   \* the task _watch_downloads and what it has processed
  save,      \* calls of save_file and save_bytes
  next,      \* file identifiers used, uuid4 in the code
  rows,      \* session_files
  objects,   \* keys in the object store
  deletion,  \* a user's delete_session_file or delete_global_file
  purge,     \* delete_session
  told,      \* history: files whose save has returned
  asked      \* history: files that a user, or the session's deletion, gave up

vars == <<session, complete, agent, watcher, save, next, rows, objects,
          deletion, purge, told, asked>>
capture == <<complete, agent, watcher, save, next, told>>
-----------------------------------------------------------------------------
Place  == {"session", "archived", "loose"}  \* loose: session_id and archived_at are null
Row    == [of : Download \cup {NoDownload}, place : Place]
Caller == {"agent", "watcher", "user", "nobody"}
Free   == [at |-> "free", of |-> NoDownload, id |-> None, caller |-> "nobody"]
NoPurge == [at |-> "idle", erase |-> {}, keep |-> {}, id |-> None]
NoDeletion == [at |-> "idle", id |-> None, scoped |-> FALSE]

Agent   == [at : {"running", "uploading", "stopped"}, of : Download \cup {NoDownload},
            processed : SUBSET Download]
Watcher == [at : {"off", "watching", "saving"}, of : Download \cup {NoDownload},
            processed : SUBSET Download]
Save    == [at : {"free", "looking", "storing", "inserting", "reading", "again"},
            of : Download \cup {NoDownload}, id : Id \cup {None}, caller : Caller]
Deletion == [at : {"idle", "object", "row"}, id : Id \cup {None}, scoped : BOOLEAN]
Purge    == [at : {"idle", "erasing", "row", "container", "session"},
             erase : SUBSET Id, keep : SUBSET Id, id : Id \cup {None}]

TypeOK ==
  /\ session \in {"there", "gone"}
  /\ complete \subseteq Download
  /\ agent \in Agent /\ watcher \in Watcher
  /\ save \in [Slot -> Save]
  /\ next \in 0 .. MaxId
  /\ DOMAIN rows \subseteq Id /\ \A id \in DOMAIN rows : rows[id] \in Row
  /\ objects \subseteq Id
  /\ deletion \in Deletion /\ purge \in Purge
  /\ told \subseteq Id /\ asked \subseteq Id

Init ==
  /\ session = "there" /\ complete = {}
  /\ agent = [at |-> "running", of |-> NoDownload, processed |-> {}]
  /\ watcher = [at |-> IF Watching THEN "watching" ELSE "off", of |-> NoDownload, processed |-> {}]
  /\ save = [s \in Slot |-> Free] /\ next = 0
  /\ rows = [id \in {} |-> {}] /\ objects = {}
  /\ deletion = NoDeletion /\ purge = NoPurge
  /\ told = {} /\ asked = {}
-----------------------------------------------------------------------------
(* The browser's container.  The agent reads events and polls the directory *)
(* in one thread; whatever fails takes it back to the start of main's loop. *)

\* The browser completes a download.
Downloaded(d) ==
  /\ agent.at # "stopped" /\ d \notin complete
  /\ complete' = complete \cup {d}
  /\ UNCHANGED <<session, agent, watcher, save, next, rows, objects, deletion, purge, told, asked>>

\* What ends loop, a lost connection or a failed upload, takes main to connect
\* and bootstrap, whose prime marks every file of the directory as processed.
Bootstrapped == [at |-> "running", of |-> NoDownload, processed |-> agent.processed \cup complete]

Reconnect ==
  /\ agent.at = "running"
  /\ agent' = Bootstrapped
  /\ UNCHANGED <<session, complete, watcher, save, next, rows, objects, deletion, purge, told, asked>>

\* A call of save_file begins.
Calls(s, d, caller) ==
  /\ save[s].at = "free"
  /\ save' = [save EXCEPT ![s] = [at |-> "looking", of |-> d, id |-> None, caller |-> caller]]

\* _handle_progress of a completed download, or a poll of the fallback, uploads
\* it.  (An event read after the poll saves the file again; so does the watcher.)
AgentUploads(s, d) ==
  /\ agent.at = "running" /\ d \in complete \ agent.processed
  /\ agent' = [agent EXCEPT !.at = "uploading", !.of = d]
  /\ Calls(s, d, "agent")
  /\ UNCHANGED <<session, complete, watcher, next, rows, objects, deletion, purge, told, asked>>

Uploaded == [agent EXCEPT !.at = "running", !.processed = @ \cup {agent.of}, !.of = NoDownload]

\* The agent gets no answer (a timeout, the network), or a refusal that comes
\* before save_file; the backend may go on with what it has.
AgentGivesUp(s) ==
  /\ agent.at = "uploading" /\ save[s].caller = "agent"
  /\ agent' = Bootstrapped
  /\ \/ save' = [save EXCEPT ![s].caller = "nobody"]
     \/ save[s].at = "looking" /\ save' = [save EXCEPT ![s] = Free]
  /\ UNCHANGED <<session, complete, watcher, next, rows, objects, deletion, purge, told, asked>>
-----------------------------------------------------------------------------
(* The backend's watcher, and the uploads of users. *)

\* stop_download_watcher: the task is cancelled, wherever it is in a save.
Cancelled == [at |-> "off", of |-> NoDownload, processed |-> {}]
Stopped   == [at |-> "stopped", of |-> NoDownload, processed |-> {}]

\* A call whose caller has gone: the watcher's own is cancelled with it, and
\* the backend goes on with what the agent has sent.
Unattended(s) ==
  CASE save[s].caller = "watcher" -> Free
    [] save[s].caller = "agent"   -> [save[s] EXCEPT !.caller = "nobody"]
    [] OTHER                      -> save[s]

\* start_download_watcher, whenever the container is found running.
StartWatcher ==
  /\ Watching /\ watcher.at = "off" /\ session = "there" /\ agent.at # "stopped"
  /\ watcher' = [at |-> "watching", of |-> NoDownload, processed |-> complete]
  /\ UNCHANGED <<session, complete, agent, save, next, rows, objects, deletion, purge, told, asked>>

\* A poll finds a new file and copies it out of the container.
WatcherSaves(s, d) ==
  /\ watcher.at = "watching" /\ d \in complete \ watcher.processed
  /\ watcher' = [watcher EXCEPT !.at = "saving", !.of = d]
  /\ Calls(s, d, "watcher")
  /\ UNCHANGED <<session, complete, agent, next, rows, objects, deletion, purge, told, asked>>

\* docker cp fails: the file counts as processed all the same.
WatcherCannotCopy(d) ==
  /\ watcher.at = "watching" /\ d \in complete \ watcher.processed
  /\ watcher' = [watcher EXCEPT !.processed = @ \cup {d}]
  /\ UNCHANGED <<session, complete, agent, save, next, rows, objects, deletion, purge, told, asked>>

\* The container is stopped and started, or made anew without its files, and
\* the agent starts in it with a prime.  The watcher is stopped first.
Restart ==
  /\ session = "there"
  /\ complete' \in {complete, {}} /\ watcher' = Cancelled
  /\ agent' = [at |-> "running", of |-> NoDownload, processed |-> complete']
  /\ save' = [s \in Slot |-> Unattended(s)]
  /\ UNCHANGED <<session, next, rows, objects, deletion, purge, told, asked>>

\* upload_session_file.  Bound: one such file at a time.
UserUploads(s) ==
  /\ session = "there" /\ Calls(s, NoDownload, "user")
  /\ \A t \in Slot : save[t].caller # "user"
  /\ \A id \in DOMAIN rows : rows[id].of # NoDownload
  /\ UNCHANGED <<session, complete, agent, watcher, next, rows, objects, deletion, purge, told, asked>>
-----------------------------------------------------------------------------
(* save_file. *)

\* _existing_download: the files of the session that hold download d.
Existing(d) == {id \in DOMAIN rows : d # NoDownload /\ rows[id] = [of |-> d, place |-> "session"]}

\* What the caller of slot s does with the answer of its call: the agent and
\* the watcher mark the download as processed, or give the download up.
Answers(s, ok) ==
  /\ save' = [save EXCEPT ![s] = Free]
  /\ CASE save[s].caller = "agent" ->
            /\ agent' = IF ok THEN Uploaded ELSE Bootstrapped
            /\ UNCHANGED watcher
       [] save[s].caller = "watcher" ->
            /\ watcher' = IF ok THEN [at |-> "watching", of |-> NoDownload,
                                     processed |-> watcher.processed \cup {watcher.of}]
                          ELSE Cancelled
            /\ UNCHANGED agent
       [] OTHER -> UNCHANGED <<agent, watcher>>

\* save_file returns file id.  An ingest then notes a heartbeat, which fails
\* when the session has gone; the agent is told of the failure.
Returns(s, id) ==
  /\ told' = told \cup {id}
  /\ Answers(s, save[s].caller = "agent" => session = "there")

\* save_file raises.
Raises(s) == Answers(s, FALSE) /\ UNCHANGED told

Goes(s, at) == save' = [save EXCEPT ![s].at = at] /\ UNCHANGED <<agent, watcher, told>>

Look(s) ==
  /\ save[s].at = "looking"
  /\ \/ \E id \in Existing(save[s].of) : Returns(s, id) /\ UNCHANGED next
     \/ Existing(save[s].of) = {} /\ session = "gone" /\ Raises(s) /\ UNCHANGED next
     \/ /\ Existing(save[s].of) = {} /\ session = "there" /\ next < MaxId
        /\ next' = next + 1
        /\ save' = [save EXCEPT ![s].at = "storing", ![s].id = next + 1]
        /\ UNCHANGED <<agent, watcher, told>>
  /\ UNCHANGED <<session, complete, rows, objects, deletion, purge, asked>>

\* Mutant of Store: a failure of the store is only logged.
StoreUnchecked(s) ==
  /\ save[s].at = "storing"
  /\ objects' \in {objects, objects \cup {save[s].id}} /\ Goes(s, "inserting")
  /\ UNCHANGED <<session, complete, next, rows, deletion, purge, asked>>

Store(s) ==
  /\ save[s].at = "storing"
  /\ \/ objects' = objects \cup {save[s].id} /\ Goes(s, "inserting")
     \/ UNCHANGED objects /\ Raises(s)
  /\ UNCHANGED <<session, complete, next, rows, deletion, purge, asked>>

WithRow(id, d) ==
  [i \in DOMAIN rows \cup {id} |-> IF i = id THEN [of |-> d, place |-> "session"] ELSE rows[i]]

\* INSERT ... ON CONFLICT DO NOTHING, under the two unique indexes and the
\* reference to the session.
Insert(s) ==
  /\ save[s].at = "inserting"
  /\ \/ /\ session = "there" /\ Goes(s, "reading")
        /\ rows' = IF Existing(save[s].of) # {} THEN rows
                   ELSE WithRow(save[s].id, save[s].of)
     \/ Raises(s) /\ UNCHANGED rows
  /\ UNCHANGED <<session, complete, next, objects, deletion, purge, asked>>

\* The row is read back by its identifier, then by its download.
ReadBack(s) ==
  /\ save[s].at = "reading"
  /\ IF save[s].id \in DOMAIN rows THEN Returns(s, save[s].id) ELSE Goes(s, "again")
  /\ UNCHANGED <<session, complete, next, rows, objects, deletion, purge, asked>>

LookAgain(s) ==
  /\ save[s].at = "again"
  /\ \/ \E id \in Existing(save[s].of) : Returns(s, id)
     \/ Existing(save[s].of) = {} /\ Raises(s)
  /\ UNCHANGED <<session, complete, next, rows, objects, deletion, purge, asked>>
-----------------------------------------------------------------------------
(* Deletions: _delete_file_row deletes the object, whatever comes of it, and *)
(* then the row; a row that is not there any more is an error.               *)

\* The DELETE of one row, of a session's file or of any file.
Without(id, scoped) ==
  IF id \in DOMAIN rows /\ (scoped => rows[id].place = "session")
  THEN Restrict(rows, DOMAIN rows \ {id}) ELSE rows

ObjectGone(id) == objects' \in {objects \ {id}, objects}

\* delete_session_file finds a file of the session, delete_global_file any file.
BeginDeletion(id, scoped) ==
  /\ deletion.at = "idle" /\ id \in DOMAIN rows /\ (scoped => rows[id].place = "session")
  /\ deletion' = [at |-> "object", id |-> id, scoped |-> scoped]
  /\ asked' = asked \cup {id}
  /\ UNCHANGED <<session, capture, rows, objects, purge>>

DeleteObject ==
  /\ deletion.at = "object"
  /\ ObjectGone(deletion.id)
  /\ deletion' = [deletion EXCEPT !.at = "row"]
  /\ UNCHANGED <<session, capture, rows, purge, asked>>

DeleteRow ==
  /\ deletion.at = "row"
  /\ rows' \in {Without(deletion.id, deletion.scoped), rows}
  /\ deletion' = NoDeletion
  /\ UNCHANGED <<session, capture, objects, purge, asked>>

\* delete_session: handle_session_delete_files lists the files of the session
\* and is asked to erase some of them: all, selected ones, or none.
BeginPurge(erase) ==
  LET listed == {id \in DOMAIN rows : rows[id].place = "session"} IN
  /\ purge.at = "idle" /\ session = "there" /\ erase \subseteq listed
  /\ purge' = [at |-> "erasing", erase |-> erase, keep |-> listed \ erase, id |-> None]
  /\ asked' = asked \cup erase
  /\ UNCHANGED <<session, capture, rows, objects, deletion>>

EraseObject(id) ==
  /\ purge.at = "erasing" /\ id \in purge.erase
  /\ ObjectGone(id)
  /\ purge' = [purge EXCEPT !.at = "row", !.id = id, !.erase = @ \ {id}]
  /\ UNCHANGED <<session, capture, rows, deletion, asked>>

\* A row that is gone ends the whole deletion: files are left as they are.
EraseRow ==
  /\ purge.at = "row"
  /\ rows' \in {Without(purge.id, FALSE), rows}
  /\ purge' = IF rows' = rows THEN NoPurge ELSE [purge EXCEPT !.at = "erasing", !.id = None]
  /\ UNCHANGED <<session, capture, objects, deletion, asked>>

\* Mutant of Archive: the files are left to the deletion of the session.
ArchiveUnlisted ==
  /\ purge.at = "erasing" /\ purge.erase = {}
  /\ purge' = [purge EXCEPT !.at = "container"]
  /\ UNCHANGED <<session, capture, rows, objects, deletion, asked>>

\* The UPDATE of the files that were listed and are of the session still.
Archive ==
  /\ purge.at = "erasing" /\ purge.erase = {}
  /\ rows' = [id \in DOMAIN rows |->
                IF id \in purge.keep /\ rows[id].place = "session"
                THEN [rows[id] EXCEPT !.place = "archived"] ELSE rows[id]]
  /\ purge' = [purge EXCEPT !.at = "container"]
  /\ UNCHANGED <<session, capture, objects, deletion, asked>>

\* stop_download_watcher, and remove_container with its files and its agent; a
\* watcher that cannot list the directory would end as well.
RemoveContainer ==
  /\ purge.at = "container"
  /\ purge' = [purge EXCEPT !.at = "session"]
  /\ agent' = Stopped /\ watcher' = Cancelled /\ complete' = {}
  /\ save' = [s \in Slot |-> Unattended(s)]
  /\ UNCHANGED <<session, next, rows, objects, deletion, told, asked>>

\* Mutant of Orphaned: files go with their session, as the references of the first migration had it.
OrphanedCascade == Restrict(rows, {id \in DOMAIN rows : rows[id].place # "session"})

\* What becomes of the files when the row of the session is deleted: their
\* session_id is set to null (ON DELETE SET NULL).
Orphaned == [id \in DOMAIN rows |->
               IF rows[id].place = "session" THEN [rows[id] EXCEPT !.place = "loose"] ELSE rows[id]]

DeleteSession ==
  /\ purge.at = "session"
  /\ session' = "gone" /\ rows' = Orphaned
  /\ purge' = [purge EXCEPT !.at = "idle"]
  /\ UNCHANGED <<capture, objects, deletion, asked>>

\* Any call of the deletion that raises ends it; it can be asked for again.
PurgeFails ==
  /\ purge.at # "idle"
  /\ purge' = NoPurge
  /\ UNCHANGED <<session, capture, rows, objects, deletion, asked>>
-----------------------------------------------------------------------------
Saving(s) == Look(s) \/ Store(s) \/ Insert(s) \/ ReadBack(s) \/ LookAgain(s)
Purging ==
  \/ \E erase \in SUBSET Id : BeginPurge(erase)
  \/ \E id \in Id : EraseObject(id)
  \/ EraseRow \/ Archive \/ RemoveContainer \/ DeleteSession \/ PurgeFails

Next ==
  \/ \E d \in Download : Downloaded(d) \/ WatcherCannotCopy(d)
  \/ Reconnect \/ Restart \/ StartWatcher
  \/ \E s \in Slot : \/ \E d \in Download : AgentUploads(s, d) \/ WatcherSaves(s, d)
                     \/ UserUploads(s) \/ AgentGivesUp(s) \/ Saving(s)
  \/ \E id \in Id, scoped \in BOOLEAN : BeginDeletion(id, scoped)
  \/ DeleteObject \/ DeleteRow
  \/ Purging

Spec == Init /\ [][Next]_vars
-----------------------------------------------------------------------------
\* A file that save_file has returned stays, with its content, until a user
\* deletes it or deletes its session and asks for it to be erased, whatever
\* captures, deletions and the end of the session do meanwhile.  A download is
\* shown once, though the agent and the watcher may capture it at the same time.
CapturedIsKept ==
  /\ \A id \in told : (id \in DOMAIN rows /\ id \in objects) \/ id \in asked
  /\ \A d \in Download :
       Cardinality({id \in DOMAIN rows : rows[id] = [of |-> d, place |-> "session"]}) <= 1

\* A file whose content is missing is one whose deletion somebody began: no
\* capture that fails half way leaves one.
ContentlessWasAskedFor == \A id \in DOMAIN rows : id \in objects \/ id \in asked

\* Once the session is gone, the files it had when its deletion began and that
\* were not to be erased are archived, although deletions of single files and
\* captures went on in between.
ListedIsArchived ==
  session = "gone" =>
    \A id \in purge.keep \cap DOMAIN rows : rows[id].place = "archived"

\* Why (the inductive invariant): a save that has drawn a number is the only one
\* with it, and neither a row nor a deletion knows it yet; what is removed was
\* asked to be, before anything of it goes; and whoever waits for an answer has
\* one call under way.
Pending(s) == save[s].at \in {"storing", "inserting"}

Numbered == DOMAIN rows \subseteq 1 .. next /\ purge.keep \subseteq 1 .. next
Fresh ==
  \A s \in Slot : Pending(s) =>
    save[s].id \in 1 .. next /\ save[s].id \notin DOMAIN rows /\ save[s].id \notin purge.keep
Apart == \A s, t \in Slot : Pending(s) /\ Pending(t) /\ save[s].id = save[t].id => s = t
StoredFirst ==
  \A s \in Slot : save[s].at = "inserting" => save[s].id \in objects \/ save[s].id \in asked

AskedFirst ==
  /\ deletion.at # "idle" => deletion.id \in asked
  /\ purge.erase \subseteq asked
  /\ purge.at = "row" => purge.id \in asked

\* The agent, or the watcher, waits in state "at" for the answer of one call.
Waits(who, at, name) ==
  /\ \A s \in Slot : save[s].caller = name => who.at = at /\ who.of \in Download
  /\ \A s, t \in Slot : save[s].caller = name /\ save[t].caller = name => s = t
OneCallEach == Waits(agent, "uploading", "agent") /\ Waits(watcher, "saving", "watcher")

OneRowEach ==
  \A i, j \in DOMAIN rows :
    rows[i] = rows[j] /\ rows[i].place = "session" /\ rows[i].of \in Download => i = j

PurgeInOrder ==
  /\ purge.at # "idle" => session = "there"
  /\ session = "there" => \A id \in DOMAIN rows : rows[id].place # "loose"
  /\ purge.at \in {"container", "session"} =>
       \A id \in purge.keep \cap DOMAIN rows : rows[id].place = "archived"

IInv ==
  /\ TypeOK /\ Numbered /\ Fresh /\ Apart /\ StoredFirst /\ AskedFirst
  /\ OneCallEach /\ OneRowEach /\ PurgeInOrder
  /\ CapturedIsKept /\ ContentlessWasAskedFor /\ ListedIsArchived

\* "Files in the container's download directory must not be the only copy"
\* (docs/storage-file-contract.md): what the agent will not look at again has
\* been saved or is being saved, as long as nobody deletes anything.
ProcessedIsSaved ==
  session = "there" /\ asked = {} =>
    \A d \in agent.processed : \/ \E id \in DOMAIN rows : rows[id].of = d
                              \/ \E s \in Slot : save[s].of = d
=============================================================================
