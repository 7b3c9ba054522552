----------------------------- MODULE Installation -----------------------------
(***************************************************************************)
(* What Browser Lite keeps on the disk of its computer: the decision of    *)
(* the first launch, the seed imported from another browser, and the data  *)
(* of each browser instance, which is copied from the seed once.           *)
(* (services/browser-lite-app/src/installation.mjs, and its callers in     *)
(* electron-runtime.mjs and main.mjs.)                                     *)
(*                                                                         *)
(* Every step of an import, of a preparation and of a reset is a step of   *)
(* its own here: the application may stop after each, and what the agents  *)
(* and the spaces ask for goes on between the steps of what the user asks. *)
(* The user has one window, which waits for the answer to a button; the    *)
(* installer is shown until the installation is complete, and the settings *)
(* afterwards (freshStart itself would run at any time but in an import).  *)
(* Abstracted: what a profile contains; the source browser is quit first.  *)
(***************************************************************************)
EXTENDS Naturals, FiniteSets

CONSTANTS
  Instance,  \* browser instances
  NoInstance,
  Caller,    \* bound: calls of ensure under way at once
  MaxStop    \* bound: times the application stops, a reset's included

VARIABLES
  mode,     \* this.state in memory: "none", "fresh" or "imported"
  file,     \* installation.json; a file cut short is read as none
  seed,     \* the directory Imported Profile Seed
  data,     \* Instances/<id>, with its two markers
  user,     \* what the window waits for
  todo,     \* entries of the data directory a reset has still to remove
  ensure,   \* calls of manager.ensure and what they are about to do
  running,  \* manager.instances
  stops,
  trouble   \* history: see Troubled

vars == <<mode, file, seed, data, user, todo, ensure, running, stops, trouble>>
-----------------------------------------------------------------------------
Mode    == {"none", "fresh", "imported"}
Copy    == {"none", "part", "whole"}
Entry   == {"file", "seed", "instances"}
NoSeed  == [profile |-> "none", cookies |-> FALSE]
NoData  == [profile |-> "none", marked |-> FALSE, cookies |-> "unseeded"]
NoCall  == [at |-> "idle", of |-> NoInstance, found |-> "none"]

Seeds   == [profile : Copy, cookies : BOOLEAN]
Datas   == [profile : Copy, marked : BOOLEAN, cookies : {"unseeded", "given", "missed"}]
Calls   == [at : {"idle", "capturing", "copying", "marking", "starting"},
            of : Instance \cup {NoInstance}, found : Copy]

TypeOK ==
  /\ mode \in Mode /\ file \in Mode
  /\ seed \in Seeds /\ data \in [Instance -> Datas]
  /\ user \in {"idle", "quitting", "copying", "cookies", "writing", "clearing",
               "writing fresh", "resetting"}
  /\ todo \subseteq Entry
  /\ ensure \in [Caller -> Calls]
  /\ running \subseteq Instance
  /\ stops \in 0 .. MaxStop /\ trouble \in BOOLEAN

(* A first launch, or one of a version whose import kept no profile.       *)
Init ==
  /\ mode \in {"none", "imported"} /\ file = mode
  /\ seed = [profile |-> "none", cookies |-> mode = "imported"]
  /\ data = [i \in Instance |-> NoData]
  /\ user = "idle" /\ todo = {} /\ running = {}
  /\ ensure = [c \in Caller |-> NoCall]
  /\ stops = 0 /\ trouble = FALSE
-----------------------------------------------------------------------------
(* The installer.                                                          *)

Presses(from, to) == user = from /\ user' = to

ImportStart ==
  /\ mode = "none"
  /\ Presses("idle", "quitting")
  /\ UNCHANGED <<mode, file, seed, data, todo, ensure, running, stops, trouble>>

(* The source browser has quit; an old seed goes and the copy begins.      *)
ImportCopies ==
  /\ Presses("quitting", "copying")
  /\ seed' = [profile |-> "part", cookies |-> FALSE]
  /\ UNCHANGED <<mode, file, data, todo, ensure, running, stops, trouble>>

ImportCopied ==
  /\ Presses("copying", "cookies")
  /\ seed' = [seed EXCEPT !.profile = "whole"]
  /\ UNCHANGED <<mode, file, data, todo, ensure, running, stops, trouble>>

(* The cookies and what else was read are saved; the memory says complete, *)
(* and the file is being written.                                          *)
ImportSaves ==
  /\ Presses("cookies", "writing")
  /\ seed' = [seed EXCEPT !.cookies = TRUE]
  /\ mode' = "imported" /\ file' = "none"
  /\ UNCHANGED <<data, todo, ensure, running, stops, trouble>>

ImportDone ==
  /\ Presses("writing", "idle")
  /\ file' = "imported"
  /\ UNCHANGED <<mode, seed, data, todo, ensure, running, stops, trouble>>

(* The seed goes; a memory that says complete keeps saying so.             *)
ImportFails ==
  /\ user \in {"quitting", "copying", "cookies", "writing"} /\ user' = "idle"
  /\ seed' = NoSeed
  /\ trouble' = (trouble \/ user = "writing")
  /\ UNCHANGED <<mode, file, data, todo, ensure, running, stops>>

FreshStart ==
  /\ mode = "none"
  /\ Presses("idle", "clearing")
  /\ UNCHANGED <<mode, file, seed, data, todo, ensure, running, stops, trouble>>

FreshClears ==
  /\ Presses("clearing", "writing fresh")
  /\ seed' = NoSeed /\ mode' = "fresh" /\ file' = "none"
  /\ UNCHANGED <<data, todo, ensure, running, stops, trouble>>

FreshDone ==
  /\ Presses("writing fresh", "idle")
  /\ file' = "fresh"
  /\ UNCHANGED <<mode, seed, data, todo, ensure, running, stops, trouble>>

FreshFails ==
  /\ user \in {"clearing", "writing fresh"} /\ user' = "idle"
  /\ trouble' = (trouble \/ user = "writing fresh")
  /\ UNCHANGED <<mode, file, seed, data, todo, ensure, running, stops>>
-----------------------------------------------------------------------------
(* manager.ensure, for an instance that is not running.                    *)

Sets(c, at, found) == ensure' = [ensure EXCEPT ![c].at = at, ![c].found = found]
Ends(c)   == ensure' = [ensure EXCEPT ![c] = NoCall]
Capturing == \E c \in Caller : ensure[c].at = "capturing"
Busy      == {c \in Caller : ensure[c].at # "idle"}

(* rm and mkdir of the instance's directory, and a look at the seed.       *)
Clears(i, keeping) ==
  data' = [data EXCEPT ![i] = [NoData EXCEPT !.profile = IF keeping = "none" THEN "none" ELSE "part"]]

Ask(c, i) ==
  LET next == IF data[i].marked THEN "starting"
              ELSE IF seed.profile = "none" /\ mode = "imported" THEN "capturing"
              ELSE "copying"
  IN /\ mode # "none" /\ i \notin running /\ ensure[c].at = "idle"
     /\ ensure' = [ensure EXCEPT ![c] = [at |-> next, of |-> i, found |-> seed.profile]]
     /\ seed' = IF next = "capturing" THEN [seed EXCEPT !.profile = "part"] ELSE seed
     /\ IF next = "copying" THEN Clears(i, seed.profile) ELSE UNCHANGED data
     /\ trouble' = \/ trouble \/ user = "resetting" \/ Capturing
                   \/ \E d \in Caller : ensure[d].of = i
                   \/ next = "capturing" /\ Busy # {}
     /\ UNCHANGED <<mode, file, user, todo, running, stops>>

Captured(c) ==
  /\ ensure[c].at = "capturing"
  /\ seed' = [seed EXCEPT !.profile = "whole"]
  /\ Clears(ensure[c].of, "whole") /\ Sets(c, "copying", "whole")
  /\ UNCHANGED <<mode, file, user, todo, running, stops, trouble>>

(* Only what was there from the first to the last is copied whole.         *)
Copied(c) ==
  /\ ensure[c].at = "copying"
  /\ data' = [data EXCEPT ![ensure[c].of].profile =
                IF ensure[c].found = seed.profile THEN seed.profile ELSE "part"]
  /\ Sets(c, "marking", "none")
  /\ UNCHANGED <<mode, file, seed, user, todo, running, stops, trouble>>

Marked(c) ==
  /\ ensure[c].at = "marking"
  /\ data' = [data EXCEPT ![ensure[c].of].marked = TRUE]
  /\ Sets(c, "starting", "none")
  /\ UNCHANGED <<mode, file, seed, user, todo, running, stops, trouble>>

(* seedRuntimeCookies: cookies that cannot be read are no cookies, and     *)
(* the marker is written all the same.                                     *)
Started(c) ==
  LET i == ensure[c].of
  IN /\ ensure[c].at = "starting"
     /\ data' = IF data[i].cookies # "unseeded" THEN data
                ELSE [data EXCEPT ![i].cookies = IF seed.cookies THEN "given" ELSE "missed"]
     /\ running' = running \cup {i}
     /\ Ends(c)
     /\ UNCHANGED <<mode, file, seed, user, todo, stops, trouble>>

(* A copy, a server or the browser fails; what is on the disk stays.       *)
EnsureFails(c) ==
  /\ ensure[c].at # "idle"
  /\ trouble' = (trouble \/ ensure[c].at = "capturing")
  /\ Ends(c)
  /\ UNCHANGED <<mode, file, seed, data, user, todo, running, stops>>

(* manager.remove: the partition and the directory of the instance go.     *)
Remove(i) ==
  /\ i \in running /\ user # "resetting"
  /\ running' = running \ {i}
  /\ data' = [data EXCEPT ![i] = NoData]
  /\ UNCHANGED <<mode, file, seed, user, todo, ensure, stops, trouble>>
-----------------------------------------------------------------------------
(* A reset stops the instances, removes what is there entry by entry in    *)
(* the order of the directory, and starts the application again.           *)

\* Mutant of Reset: the data of the instances is kept, as the pairing is.
ResetKeepsInstances ==
  /\ mode # "none" /\ stops < MaxStop
  /\ Presses("idle", "resetting")
  /\ todo' = Entry \ {"instances"} /\ running' = {}
  /\ trouble' = (trouble \/ Busy # {})
  /\ UNCHANGED <<mode, file, seed, data, ensure, stops>>

Reset ==
  /\ mode # "none" /\ stops < MaxStop
  /\ Presses("idle", "resetting")
  /\ todo' = Entry /\ running' = {}
  /\ trouble' = (trouble \/ Busy # {})
  /\ UNCHANGED <<mode, file, seed, data, ensure, stops>>

ResetRemoves(e) ==
  /\ user = "resetting" /\ e \in todo
  /\ todo' = todo \ {e}
  /\ file' = IF e = "file" THEN "none" ELSE file
  /\ seed' = IF e = "seed" THEN NoSeed ELSE seed
  /\ data' = IF e = "instances" THEN [i \in Instance |-> NoData] ELSE data
  /\ UNCHANGED <<mode, user, ensure, running, stops, trouble>>

(* load(): the memory of the application that starts is what the file says *)
Starts ==
  /\ mode' = file
  /\ user' = "idle" /\ todo' = {} /\ running' = {}
  /\ ensure' = [c \in Caller |-> NoCall]
  /\ stops' = stops + 1
  /\ UNCHANGED <<file, seed, data>>

ResetDone == user = "resetting" /\ todo = {} /\ Starts /\ UNCHANGED trouble

(* A file cannot be removed: the application goes on with what is left.    *)
ResetFails ==
  /\ user = "resetting" /\ todo # {}
  /\ user' = "idle" /\ todo' = {} /\ trouble' = TRUE
  /\ UNCHANGED <<mode, file, seed, data, ensure, running, stops>>

(* Between the two writes of an installation, in a capture and in a reset, *)
(* what is on the disk is not of one piece.                                *)
Troubled == user \in {"writing", "writing fresh", "resetting"} \/ Capturing

Stop ==
  /\ stops < MaxStop
  /\ Starts
  /\ trouble' = (trouble \/ Troubled)
-----------------------------------------------------------------------------
Next ==
  \/ ImportStart \/ ImportCopies \/ ImportCopied \/ ImportSaves \/ ImportDone \/ ImportFails
  \/ FreshStart \/ FreshClears \/ FreshDone \/ FreshFails
  \/ \E c \in Caller : \/ \E i \in Instance : Ask(c, i)
                       \/ Captured(c) \/ Copied(c) \/ Marked(c) \/ Started(c) \/ EnsureFails(c)
  \/ \E i \in Instance : Remove(i)
  \/ Reset \/ (\E e \in Entry : ResetRemoves(e)) \/ ResetDone \/ ResetFails
  \/ Stop

Spec == Init /\ [][Next]_vars
-----------------------------------------------------------------------------
(* The file of an import says that there is a seed to start from: however  *)
(* the import ended and whenever the application stopped, a later launch   *)
(* finds the cookies, and the whole profile unless an older version made   *)
(* the import or a capture of the profile is under way.                    *)
InstalledMeansSeeded ==
  ~trouble /\ file = "imported" /\ user # "resetting" =>
    /\ seed.cookies
    /\ seed.profile # "part" \/ Capturing

(* An instance that is marked holds what the installation of this launch   *)
(* gives it, all of it and nothing else, after any failed or interrupted   *)
(* preparation, import and reset: the whole profile and the cookies of an  *)
(* import, an empty profile of a fresh start.  Not so after an             *)
(* installation file that was not written, a capture or a reset that was   *)
(* cut short, or two preparations that met on one directory.               *)
MarkedIsOfThisInstall ==
  ~trouble /\ user = "idle" =>
    \A i \in Instance : data[i].marked =>
      /\ mode = file /\ mode # "none"
      /\ data[i].profile = IF mode = "imported" THEN "whole" ELSE "none"
      /\ data[i].cookies \in {"unseeded", IF mode = "imported" THEN "given" ELSE "missed"}

(* What is on the disk belongs to the installation of this launch.         *)
InstallHolds == InstalledMeansSeeded /\ MarkedIsOfThisInstall
-----------------------------------------------------------------------------
(* The inductive invariant.  Until there is trouble, each step of a button *)
(* and of a call finds the memory, the file, the seed and the data of the  *)
(* instances as the step before it left them.                              *)

Quiet == \A c \in Caller : ensure[c].at = "idle"

(* The profile and the cookies the installation gives an instance.         *)
Given == IF mode = "imported" THEN "whole" ELSE "none"
Fits(i) ==
  /\ mode # "none" /\ data[i].profile = Given
  /\ data[i].cookies \in {"unseeded", IF mode = "imported" THEN "given" ELSE "missed"}

(* The memory is ahead of the file only while the file is written, and the *)
(* instances wait until something is installed.                            *)
Window ==
  /\ user \in {"idle", "quitting", "copying", "cookies", "clearing"} => mode = file
  /\ user \in {"quitting", "copying", "cookies", "clearing"} => mode = "none"
  /\ user = "writing" => mode = "imported" /\ file = "none"
  /\ user = "writing fresh" => mode = "fresh" /\ file = "none"
  /\ user = "cookies" => seed.profile = "whole"
  /\ user = "resetting" \/ mode = "none" => Quiet

(* Entries a reset has passed are gone.                                    *)
Passed ==
  user = "resetting" =>
    /\ "file" \in todo \/ file = "none"
    /\ "seed" \in todo \/ seed = NoSeed
    /\ "instances" \in todo \/ \A i \in Instance : data[i] = NoData

(* What the instances start from.                                          *)
Source ==
  user # "resetting" =>
    /\ mode = "imported" => seed.cookies /\ (seed.profile # "part" \/ Capturing)
    /\ mode = "fresh" => seed = NoSeed

Marks == user # "resetting" => \A i \in Instance : data[i].marked => Fits(i)

(* A call prepares a directory nobody else uses, from a seed that stays.   *)
Call(c) ==
  ensure[c].at # "idle" =>
    /\ ensure[c].of \notin running
    /\ \A d \in Caller \ {c} :
         ensure[d].at # "idle" => ensure[d].of # ensure[c].of /\ ensure[c].at # "capturing"
    /\ ensure[c].at = "capturing" => mode = "imported"
    /\ ensure[c].at \in {"copying", "marking"} =>
         ~data[ensure[c].of].marked /\ data[ensure[c].of].cookies = "unseeded"
    /\ ensure[c].at = "copying" => ensure[c].found = seed.profile /\ seed.profile = Given
    /\ ensure[c].at = "marking" => data[ensure[c].of].profile = Given
    /\ ensure[c].at = "starting" => data[ensure[c].of].marked

Sound == Window /\ Passed /\ Source /\ Marks /\ \A c \in Caller : Call(c)

IInv ==
  /\ TypeOK
  /\ user = "resetting" => stops < MaxStop
  /\ \A c \in Caller : ensure[c].at # "idle" => ensure[c].of \in Instance
  /\ ~trouble => Sound
=============================================================================
