--------------------------- MODULE FingerprintPool ---------------------------
(***************************************************************************)
(* fingerprint.py and routes/fingerprint_pool.py: a tenant's pool of       *)
(* platforms, GPUs, hardware and screens, which is filled with the         *)
(* defaults when it is first used, and the fingerprint that is put         *)
(* together from it.                                                       *)
(*                                                                         *)
(* Filling it is a count, an INSERT for each default and a note in the     *)
(* process that it is done.  Abstracted: what an entry holds besides its   *)
(* group and tags; the tenants but one.                                    *)
(***************************************************************************)
EXTENDS Naturals

CONSTANTS
  Process,    \* requests under way
  MaxEdits,   \* of an administrator
  MaxCrashes

VARIABLES
  pool,       \* entries, by their place in Default, or Made: "absent", "on" or "off"
  seeded,     \* whether the tenant is in _seeded_tenants
  request,
  edits, crashes,
  spoiled     \* history: since it was filled or reset, the pool was edited, or the
              \* filling or the reset of it stopped half-way or met another request

vars == <<pool, seeded, request, edits, crashes, spoiled>>
-----------------------------------------------------------------------------
\* _DEFAULT_POOL, entry by entry, and an entry of the administrator's own, a
\* screen without tags.
Default == 1 .. 19
Made    == 20
Entry   == Default \cup {Made}

Group ==
  [platform |-> 1 .. 4, gpu |-> 5 .. 11, hardware |-> 12 .. 16, screen |-> 17 .. 19 \cup {Made}]
Windows == {1, 2, 5, 6, 7, 8, 14, 15, 16, 17}

Alike(i, j) == i \in Windows <=> j \in Windows

Enabled(group) == {i \in Group[group] : pool[i] = "on"}
Platforms == Enabled("platform") \cap Windows

\* What goes with a platform: a GPU shares a tag with it, hardware and a screen
\* do or have none.
Fits(group, platform) == {i \in Enabled(group) : i = Made \/ Alike(i, platform)}

\* generate_profile finds nothing to choose from, for the platform it has chosen.
RaisesFor(platform) == \E group \in {"gpu", "hardware", "screen"} : Fits(group, platform) = {}
Raises == IF Platforms = {} THEN {TRUE} ELSE {RaisesFor(i) : i \in Platforms}

Idle == [op |-> "none", at |-> "idle", next |-> 0, lone |-> FALSE]

Init ==
  /\ pool = [i \in Entry |-> "absent"] /\ seeded = FALSE
  /\ request = [p \in Process |-> Idle]
  /\ edits = 0 /\ crashes = 0 /\ spoiled = FALSE
-----------------------------------------------------------------------------
\* Mutant of Start: a fingerprint is put together from what there is.
StartUnseeded(op) == IF op = "reset" THEN "delete" ELSE "read"

Start(op) == IF op = "reset" THEN "delete" ELSE "ensure"

Begin(p, op) ==
  LET others == \E q \in Process : request[q].op # "none" IN
  /\ request[p].op = "none"
  /\ request' = [q \in Process |->
       IF q = p THEN [op |-> op, at |-> Start(op), next |-> 1, lone |-> ~others]
       ELSE [request[q] EXCEPT !.lone = FALSE]]
  /\ spoiled' = (spoiled \/ (others /\ (~seeded \/ "reset" \in {op} \cup {request[q].op : q \in Process})))
  /\ UNCHANGED <<pool, seeded, edits, crashes>>

Goes(p, from, to) ==
  request[p].at = from /\ request' = [request EXCEPT ![p].at = to]

\* _ensure_pool_seeded: its look into the cache and its count.
Ensure(p) ==
  /\ Goes(p, "ensure", IF ~seeded /\ \A i \in Entry : pool[i] = "absent" THEN "seed" ELSE "read")
  /\ seeded' = (seeded \/ request'[p].at = "read")
  /\ UNCHANGED <<pool, edits, crashes, spoiled>>

\* One of its INSERTs, unless there is such an entry.
Seed(p) ==
  LET i == request[p].next IN
  /\ request[p].at = "seed"
  /\ pool' = IF pool[i] = "absent" THEN [pool EXCEPT ![i] = "on"] ELSE pool
  /\ request' = [request EXCEPT ![p].next = i + 1, ![p].at = IF i + 1 = Made THEN "read" ELSE "seed"]
  /\ seeded' = (seeded \/ i + 1 = Made)
  /\ UNCHANGED <<edits, crashes, spoiled>>

\* generate_profile chooses, or raises; list_pool, which is no different until
\* here, and reset_pool answer.
Read(p) ==
  /\ request[p].at = "read"
  /\ \E raises \in IF request[p].op = "generate" THEN Raises ELSE {FALSE} :
       Goes(p, "read", IF raises THEN "raised" ELSE "done")
  /\ spoiled' = (spoiled /\ ~(request[p].op = "reset" /\ request[p].lone))
  /\ UNCHANGED <<pool, seeded, edits, crashes>>

\* reset_pool.
Delete(p) ==
  /\ Goes(p, "delete", "clear")
  /\ pool' = [i \in Entry |-> "absent"] /\ UNCHANGED <<seeded, edits, crashes, spoiled>>

\* clear_seeded_cache.
Cleared == FALSE

Clear(p) ==
  /\ Goes(p, "clear", "ensure")
  /\ seeded' = Cleared /\ UNCHANGED <<pool, edits, crashes, spoiled>>

Answer(p) ==
  /\ request[p].at \in {"done", "raised"}
  /\ request' = [request EXCEPT ![p] = Idle]
  /\ UNCHANGED <<pool, seeded, edits, crashes, spoiled>>

\* update_pool_entry and delete_pool_entry, create_pool_entry.
Edit ==
  /\ edits < MaxEdits /\ edits' = edits + 1
  /\ \/ \E i \in Entry, to \in {"on", "off", "absent"} :
          pool[i] \notin {to, "absent"} /\ pool' = [pool EXCEPT ![i] = to]
     \/ pool[Made] = "absent" /\ pool' = [pool EXCEPT ![Made] = "on"]
  /\ request' = [p \in Process |-> [request[p] EXCEPT !.lone = FALSE]]
  /\ spoiled' = TRUE
  /\ UNCHANGED <<seeded, crashes>>

\* The backend stops and starts again.
Crash ==
  /\ crashes < MaxCrashes /\ crashes' = crashes + 1
  /\ seeded' = FALSE /\ request' = [p \in Process |-> Idle]
  /\ spoiled' = (spoiled \/ \E p \in Process : request[p].at = "seed")
  /\ UNCHANGED <<pool, edits>>

Next ==
  \/ Edit \/ Crash
  \/ \E p \in Process : \/ \E op \in {"generate", "reset"} : Begin(p, op)
                        \/ Ensure(p) \/ Seed(p) \/ Read(p) \/ Delete(p) \/ Clear(p) \/ Answer(p)

Spec == Init /\ [][Next]_vars
-----------------------------------------------------------------------------
Defaults == [i \in Entry |-> IF i = Made THEN "absent" ELSE "on"]

\* A tenant can always have a fingerprint from the defaults: there is nothing to
\* choose from only when an administrator has edited the pool, or its filling or
\* its reset stopped half-way or met another request.
DefaultsSuffice == \A p \in Process : request[p].at = "raised" => spoiled

\* A reset that nothing overlaps leaves the defaults and nothing else, whatever
\* was edited, left half filled or remembered before.
ResetRestores ==
  \A p \in Process : request[p].op = "reset" /\ request[p].at = "done" /\ request[p].lone => pool = Defaults

\* What a tenant and its administrator rely on.
PoolHolds == DefaultsSuffice /\ ResetRestores
-----------------------------------------------------------------------------
(* The inductive invariant.  A pool that nothing has spoiled is filled with *)
(* the defaults, or empty and about to be filled by whoever comes first:   *)
(* while it is being filled, or reset, one request is under way.           *)

Request == [op : {"none", "generate", "reset"},
            at : {"idle", "delete", "clear", "ensure", "seed", "read", "done", "raised"},
            next : 0 .. Made, lone : BOOLEAN]

TypeOK ==
  /\ pool \in [Entry -> {"absent", "on", "off"}] /\ seeded \in BOOLEAN
  /\ request \in [Process -> Request]
  /\ edits \in Nat /\ crashes \in Nat /\ spoiled \in BOOLEAN

Empty     == [i \in Entry |-> "absent"]
Filled(n) == [i \in Entry |-> IF i < n THEN "on" ELSE "absent"]

Steps(p) ==
  /\ request[p].op = "none" <=> request[p].at = "idle"
  /\ request[p].at \in {"delete", "clear"} => request[p].op = "reset"
  /\ request[p].at = "raised" => request[p].op = "generate"
  /\ request[p].at \in {"delete", "clear", "ensure"} => request[p].next = 1
  /\ request[p].at = "seed" => request[p].next \in Default

Alone(p) == \A q \in Process \ {p} : request[q].op = "none"

\* A reset that nothing overlaps finds the pool as it left it.
LoneReset(p) ==
  request[p].lone =>
    /\ Alone(p)
    /\ request[p].op = "reset" =>
         /\ request[p].at = "clear" => pool = Empty
         /\ request[p].at = "ensure" => pool = Empty /\ ~seeded
         /\ request[p].at = "seed" => pool = Filled(request[p].next)
         /\ request[p].at \in {"read", "done"} => pool = Defaults

Unspoiled ==
  /\ \A p \in Process : \/ request[p].op = "none" \/ Alone(p)
                        \/ seeded /\ request[p].op = "generate"
  /\ \A p \in Process :
       /\ request[p].at = "seed" => ~seeded /\ pool = Filled(request[p].next)
       /\ request[p].at = "clear" => pool = Empty
       /\ request[p].at = "read" => pool = Defaults
       /\ request[p].at # "raised"
  /\ \/ \E p \in Process : request[p].at \in {"seed", "clear"}
     \/ pool = Defaults
     \/ pool = Empty /\ ~seeded

IInv ==
  /\ TypeOK
  /\ \A p \in Process : Steps(p) /\ LoneReset(p)
  /\ ~spoiled => Unspoiled
=============================================================================
