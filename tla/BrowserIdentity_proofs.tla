----------------------- MODULE BrowserIdentity_proofs -----------------------
(***************************************************************************)
(* Proofs about FingerprintPool, BrowserImages and FingerprintAgent, and   *)
(* about BrowserSessions, as the modules that check them have them.        *)
(* A pool that nothing has spoiled is filled with the defaults, or empty   *)
(* and about to be filled; while a request fills or empties it, that       *)
(* request is alone, so that its own steps are all there is to follow.     *)
(* An image that is ready stays as it is until its deletion, which has     *)
(* counted the sessions that have it and overtakes those that came after;  *)
(* the lookups take the newest of several, which is why there has to be    *)
(* one.                                                                    *)
(* The agent's calls nest, so what is known of a page is known of its      *)
(* frame on the stack: the lemmas take a stack and an inbox apart, then    *)
(* say for each kind of call what remains when it ends, then for each      *)
(* message what it begins.                                                 *)
(* Requests share WebDriver sessions and delete them under each other, but *)
(* none of that is left to one that is alone: it begins with a cache in    *)
(* any state, and what it has found out since is OnCourse.                 *)
(***************************************************************************)
EXTENDS MCBrowsers, WellFoundedInduction, FiniteSetTheorems, SequenceTheorems, TLAPS

LEMMA PoolIdle ==
  /\ Pool!Idle \in Pool!Request
  /\ Pool!Idle.op = "none" /\ Pool!Idle.at = "idle" /\ Pool!Idle.lone = FALSE
BY DEF Pool!Idle, Pool!Request, Pool!Made

LEMMA PoolStates ==
  /\ Pool!Empty \in [Pool!Entry -> {"absent", "on", "off"}]
  /\ Pool!Defaults \in [Pool!Entry -> {"absent", "on", "off"}]
  /\ Pool!Empty = Pool!Filled(1) /\ Pool!Defaults = Pool!Filled(Pool!Made)
  /\ Pool!Defaults # Pool!Empty
BY DEF Pool!Empty, Pool!Defaults, Pool!Filled, Pool!Entry, Pool!Default, Pool!Made

\* The defaults have a platform, and with each what goes with it: whichever is
\* chosen, nothing raises.
LEMMA DefaultsNeverRaise ==
  ASSUME pool = Pool!Defaults PROVE Pool!Raises = {FALSE}
<1>1. /\ Pool!Group.platform = 1 .. 4 /\ Pool!Group.gpu = 5 .. 11
      /\ Pool!Group.hardware = 12 .. 16 /\ Pool!Group.screen = (17 .. 19) \cup {Pool!Made}
  BY DEF Pool!Group
<1>2. \A i \in 1 .. 19 : i \in Pool!Entry /\ pool[i] = "on"
  BY DEF Pool!Defaults, Pool!Entry, Pool!Default, Pool!Made
<1>3. Pool!Platforms = {1, 2}
  BY <1>1, <1>2 DEF Pool!Platforms, Pool!Enabled, Pool!Windows
<1>4. ASSUME NEW i \in {1, 2} PROVE Pool!RaisesFor(i) = FALSE
  <2>1. 5 \in Pool!Fits("gpu", i) /\ 14 \in Pool!Fits("hardware", i) /\ 17 \in Pool!Fits("screen", i)
    BY <1>1, <1>2 DEF Pool!Fits, Pool!Enabled, Pool!Alike, Pool!Windows
  <2> QED
    BY <2>1 DEF Pool!RaisesFor
<1> QED
  BY <1>3, <1>4 DEF Pool!Raises

\* A step of one request that moves it on.
LEMMA PoolGoes ==
  ASSUME Pool!TypeOK, NEW p \in Process, NEW from, NEW to, Pool!Goes(p, from, to),
         to \in {"clear", "ensure", "seed", "read", "done", "raised"}
  PROVE  /\ poolRequest' \in [Process -> Pool!Request]
         /\ \A q \in Process : q # p => poolRequest'[q] = poolRequest[q]
         /\ poolRequest[p].at = from /\ poolRequest'[p].at = to
         /\ poolRequest'[p].op = poolRequest[p].op
         /\ poolRequest'[p].next = poolRequest[p].next
         /\ poolRequest'[p].lone = poolRequest[p].lone
<1>1. [poolRequest[p] EXCEPT !.at = to] \in Pool!Request
  BY DEF Pool!TypeOK, Pool!Request
<1> QED
  BY <1>1 DEF Pool!TypeOK, Pool!Goes, Pool!Request
-----------------------------------------------------------------------------
(* The invariant, action by action. *)

LEMMA PoolBegin ==
  ASSUME Pool!IInv, NEW p \in Process, NEW op \in {"generate", "reset"}, Pool!Begin(p, op)
  PROVE  Pool!IInv'
<1> DEFINE others == \E q \in Process : poolRequest[q].op # "none"
<1>1. Pool!TypeOK /\ poolRequest[p].op = "none" /\ poolRequest[p].at = "idle"
  BY DEF Pool!IInv, Pool!Steps, Pool!Begin
<1>2. /\ poolRequest' \in [Process -> Pool!Request]
      /\ poolRequest'[p].op = op /\ poolRequest'[p].at = Pool!Start(op) /\ poolRequest'[p].next = 1
      /\ poolRequest'[p].lone = ~others
      /\ \A q \in Process \ {p} :
           /\ poolRequest'[q].op = poolRequest[q].op /\ poolRequest'[q].at = poolRequest[q].at
           /\ poolRequest'[q].next = poolRequest[q].next /\ poolRequest'[q].lone = FALSE
  <2>1. [op |-> op, at |-> Pool!Start(op), next |-> 1, lone |-> ~others] \in Pool!Request
    BY DEF Pool!Request, Pool!Start, Pool!Made
  <2>2. \A q \in Process : [poolRequest[q] EXCEPT !.lone = FALSE] \in Pool!Request
    BY <1>1 DEF Pool!TypeOK, Pool!Request
  <2>3. \A q \in Process : poolRequest[q] \in Pool!Request
    BY <1>1 DEF Pool!TypeOK
  <2> QED
    BY <2>1, <2>2, <2>3 DEF Pool!Begin, Pool!Request
<1>3. Pool!TypeOK'
  <2>1. spoiled' \in BOOLEAN
    BY <1>1 DEF Pool!Begin, Pool!TypeOK
  <2> QED
    BY <1>1, <1>2, <2>1 DEF Pool!Begin, Pool!TypeOK
<1>4. ASSUME NEW q \in Process PROVE Pool!Steps(q)'
  BY <1>2, ZenonT(60) DEF Pool!IInv, Pool!Steps, Pool!Start
<1>5. ASSUME NEW q \in Process PROVE Pool!LoneReset(q)'
  <2>1. CASE q # p
    BY <1>2, <2>1 DEF Pool!LoneReset
  <2>2. CASE q = p
    <3>1. poolRequest'[p].at \in {"delete", "ensure"} /\ (op = "reset" => poolRequest'[p].at = "delete")
      BY <1>2 DEF Pool!Start
    <3>2. poolRequest'[p].lone => Pool!Alone(p)'
      BY <1>2 DEF Pool!Alone
    <3> QED
      BY <1>2, <2>2, <3>1, <3>2 DEF Pool!LoneReset
  <2> QED
    BY <2>1, <2>2
<1>6. ASSUME ~spoiled' PROVE Pool!Unspoiled'
  <2>1. ~spoiled /\ Pool!Unspoiled
    BY <1>6 DEF Pool!Begin, Pool!IInv
  <2>2. others => seeded /\ op = "generate" /\ \A q \in Process : poolRequest[q].op # "reset"
    BY <1>6 DEF Pool!Begin
  <2>3. \A q \in Process : poolRequest'[q].at \in {"seed", "clear", "read", "raised"}
                           => q # p /\ poolRequest[q].at = poolRequest'[q].at
    BY <1>2 DEF Pool!Start
  <2>4. ASSUME NEW q \in Process
        PROVE  \/ poolRequest'[q].op = "none" \/ Pool!Alone(q)'
               \/ seeded' /\ poolRequest'[q].op = "generate"
    <3>1. CASE others
      <4>1. poolRequest[q].op \in {"none", "generate"}
        BY <1>1, <2>2, <3>1 DEF Pool!TypeOK, Pool!Request
      <4>2. poolRequest'[q].op \in {"none", "generate"}
        BY <1>2, <2>2, <3>1, <4>1
      <4> QED
        BY <2>2, <3>1, <4>2 DEF Pool!Begin
    <3>2. CASE ~others
      BY <1>2, <3>2 DEF Pool!Alone
    <3> QED
      BY <3>1, <3>2
  <2>5. ASSUME NEW q \in Process
        PROVE  /\ poolRequest'[q].at = "seed" => ~seeded' /\ pool' = Pool!Filled(poolRequest'[q].next)
               /\ poolRequest'[q].at = "clear" => pool' = Pool!Empty
               /\ poolRequest'[q].at = "read" => pool' = Pool!Defaults
               /\ poolRequest'[q].at # "raised"
    BY <1>2, <2>1, <2>3 DEF Pool!Unspoiled, Pool!Begin
  <2>6. \/ \E q \in Process : poolRequest'[q].at \in {"seed", "clear"}
        \/ pool' = Pool!Defaults
        \/ pool' = Pool!Empty /\ ~seeded'
    BY <1>1, <1>2, <2>1 DEF Pool!Unspoiled, Pool!Begin
  <2> QED
    BY <2>4, <2>5, <2>6 DEF Pool!Unspoiled, Pool!Filled, Pool!Empty, Pool!Defaults
<1> QED
  BY <1>3, <1>4, <1>5, <1>6 DEF Pool!IInv
\* The pool is empty, or it is a tenant's that has one.
LEMMA PoolEnsure ==
  ASSUME Pool!IInv, NEW p \in Process, Pool!Ensure(p)
  PROVE  Pool!IInv'
<1> DEFINE seeds == ~seeded /\ \A i \in Pool!Entry : pool[i] = "absent"
           to == IF seeds THEN "seed" ELSE "read"
<1>1. Pool!TypeOK /\ Pool!Goes(p, "ensure", to)
  BY DEF Pool!IInv, Pool!Ensure
<1>2. /\ poolRequest' \in [Process -> Pool!Request]
      /\ \A q \in Process : q # p => poolRequest'[q] = poolRequest[q]
      /\ poolRequest[p].at = "ensure" /\ poolRequest'[p].at = to
      /\ poolRequest'[p].op = poolRequest[p].op
      /\ poolRequest'[p].next = poolRequest[p].next
      /\ poolRequest'[p].lone = poolRequest[p].lone
  BY <1>1, PoolGoes
<1>3. /\ UNCHANGED <<pool, edits, crashes, spoiled>>
      /\ seeded' = (seeded \/ ~seeds)
  BY <1>2 DEF Pool!Ensure
<1>4. Pool!TypeOK'
  <2>1. seeded' \in BOOLEAN
    BY <1>3
  <2> QED
    BY <1>1, <1>2, <1>3, <2>1 DEF Pool!TypeOK
<1>5. poolRequest[p].next = 1 /\ poolRequest[p].op # "none"
  BY <1>2 DEF Pool!IInv, Pool!Steps
<1>6. ASSUME seeds PROVE pool = Pool!Filled(1) /\ ~seeded'
  <2>1. pool = [i \in Pool!Entry |-> pool[i]]
    BY <1>1 DEF Pool!TypeOK
  <2> QED
    BY <1>3, <1>6, <2>1, PoolStates DEF Pool!Empty
<1>7. ASSUME NEW q \in Process PROVE Pool!Steps(q)'
  BY <1>2, <1>5 DEF Pool!IInv, Pool!Steps, Pool!Default
<1>8. ASSUME NEW q \in Process PROVE Pool!LoneReset(q)'
  <2> SUFFICES ASSUME poolRequest'[q].lone PROVE Pool!LoneReset(q)'
    BY DEF Pool!LoneReset
  <2>1. Pool!LoneReset(q) /\ poolRequest[q].lone /\ Pool!Alone(q)
    BY <1>2 DEF Pool!IInv, Pool!LoneReset
  <2>2. q = p
    BY <1>5, <2>1 DEF Pool!Alone
  <2>3. Pool!Alone(q)'
    BY <1>2, <2>1 DEF Pool!Alone
  <2>4. poolRequest[p].op = "reset" => seeds
    BY <1>2, <2>1, <2>2 DEF Pool!LoneReset, Pool!Empty
  <2> QED
    BY <1>2, <1>3, <1>5, <1>6, <2>2, <2>3, <2>4 DEF Pool!LoneReset, Pool!Filled
<1>9. ASSUME ~spoiled' PROVE Pool!Unspoiled'
  <2>1. Pool!Unspoiled
    BY <1>3, <1>9 DEF Pool!IInv
  <2>2. ~seeds => pool = Pool!Defaults
    <3>1. CASE seeded
      <4>1. \A q \in Process : poolRequest[q].at \notin {"seed", "clear"}
        <5> SUFFICES ASSUME NEW q \in Process, poolRequest[q].at \in {"seed", "clear"} PROVE FALSE
          OBVIOUS
        <5>1. poolRequest[q].at = "clear" /\ poolRequest[q].op = "reset"
          BY <2>1, <3>1 DEF Pool!Unspoiled, Pool!IInv, Pool!Steps
        <5>2. Pool!Alone(q) /\ q # p
          BY <1>2, <2>1, <5>1 DEF Pool!Unspoiled
        <5> QED
          BY <1>5, <5>2 DEF Pool!Alone
      <4> QED
        BY <2>1, <3>1, <4>1 DEF Pool!Unspoiled
    <3>2. CASE ~seeded /\ ~seeds
      <4>1. pool # Pool!Empty
        BY <3>2 DEF Pool!Empty
      <4>2. Pool!Alone(p)
        BY <1>5, <2>1, <3>2 DEF Pool!Unspoiled
      <4>3. \A q \in Process : poolRequest[q].at \notin {"seed", "clear"}
        BY <1>2, <4>2 DEF Pool!Alone, Pool!IInv, Pool!Steps
      <4> QED
        BY <2>1, <4>1, <4>3 DEF Pool!Unspoiled
    <3> QED
      BY <3>1, <3>2
  <2>3. ASSUME NEW q \in Process
        PROVE  \/ poolRequest'[q].op = "none" \/ Pool!Alone(q)'
               \/ seeded' /\ poolRequest'[q].op = "generate"
    <3>1. \/ poolRequest[q].op = "none" \/ Pool!Alone(q)
          \/ seeded /\ poolRequest[q].op = "generate"
      BY <2>1 DEF Pool!Unspoiled
    <3> QED
      BY <1>2, <1>3, <3>1 DEF Pool!Alone
  <2>4. ASSUME NEW q \in Process
        PROVE  /\ poolRequest'[q].at = "seed" => ~seeded' /\ pool' = Pool!Filled(poolRequest'[q].next)
               /\ poolRequest'[q].at = "clear" => pool' = Pool!Empty
               /\ poolRequest'[q].at = "read" => pool' = Pool!Defaults
               /\ poolRequest'[q].at # "raised"
    <3>1. CASE q = p
      BY <1>2, <1>3, <1>5, <1>6, <2>2, <3>1
    <3>2. CASE q # p
      <4>1. poolRequest[q].at # "seed" \/ seeds
        <5>1. poolRequest[q].at = "seed" => ~seeded /\ poolRequest[q].op # "none"
          BY <2>1 DEF Pool!Unspoiled, Pool!IInv, Pool!Steps
        <5>2. poolRequest[q].at = "seed" => Pool!Alone(q)
          BY <2>1, <5>1 DEF Pool!Unspoiled
        <5> QED
          BY <1>5, <3>2, <5>2 DEF Pool!Alone
      <4> QED
        BY <1>2, <1>3, <2>1, <3>2, <4>1 DEF Pool!Unspoiled
    <3> QED
      BY <3>1, <3>2
  <2>5. (\E q \in Process : poolRequest'[q].at \in {"seed", "clear"}) \/ pool' = Pool!Defaults
    BY <1>2, <1>3, <2>2
  <2> QED
    BY <2>3, <2>4, <2>5 DEF Pool!Unspoiled, Pool!Filled, Pool!Empty, Pool!Defaults
<1> QED
  BY <1>4, <1>7, <1>8, <1>9 DEF Pool!IInv
\* One entry more, while nobody else is at work on the pool.
LEMMA PoolSeed ==
  ASSUME Pool!IInv, NEW p \in Process, Pool!Seed(p)
  PROVE  Pool!IInv'
<1> DEFINE i == poolRequest[p].next
           to == IF i + 1 = Pool!Made THEN "read" ELSE "seed"
<1>1. Pool!TypeOK /\ poolRequest[p].at = "seed" /\ i \in 1 .. 19 /\ poolRequest[p].op # "none"
  BY DEF Pool!IInv, Pool!Steps, Pool!Seed, Pool!Default
<1>2. /\ poolRequest' \in [Process -> Pool!Request]
      /\ \A q \in Process : q # p => poolRequest'[q] = poolRequest[q]
      /\ poolRequest'[p].at = to /\ poolRequest'[p].next = i + 1
      /\ poolRequest'[p].op = poolRequest[p].op
      /\ poolRequest'[p].lone = poolRequest[p].lone
  <2>1. [poolRequest[p] EXCEPT !.next = i + 1, !.at = to] \in Pool!Request
    <3>1. poolRequest[p] \in Pool!Request /\ i + 1 \in 0 .. Pool!Made /\ to \in {"read", "seed"}
      BY <1>1 DEF Pool!TypeOK, Pool!Made
    <3> HIDE DEF to, i
    <3>2. \A n1 \in 0 .. Pool!Made, t1 \in {"read", "seed"}, r \in Pool!Request :
            [r EXCEPT !.next = n1, !.at = t1] \in Pool!Request
      BY DEF Pool!Request
    <3> QED
      BY <3>1, <3>2
  <2>2. poolRequest' = [poolRequest EXCEPT ![p] = [poolRequest[p] EXCEPT !.next = i + 1, !.at = to]]
    BY DEF Pool!Seed
  <2> QED
    BY <1>1, <2>1, <2>2 DEF Pool!TypeOK, Pool!Request
<1>3. /\ UNCHANGED <<edits, crashes, spoiled>>
      /\ seeded' = (seeded \/ i + 1 = Pool!Made)
      /\ pool' = IF pool[i] = "absent" THEN [pool EXCEPT ![i] = "on"] ELSE pool
  BY DEF Pool!Seed
<1>4. Pool!TypeOK'
  <2>1. pool' \in [Pool!Entry -> {"absent", "on", "off"}] /\ seeded' \in BOOLEAN
    BY <1>1, <1>3 DEF Pool!TypeOK
  <2> QED
    BY <1>1, <1>2, <1>3, <2>1 DEF Pool!TypeOK
<1>5. ASSUME pool = Pool!Filled(i)
      PROVE  pool' = Pool!Filled(i + 1) /\ (i + 1 = Pool!Made => pool' = Pool!Defaults)
  <2>1. i \in Pool!Entry /\ pool[i] = "absent"
    BY <1>1, <1>5 DEF Pool!Filled, Pool!Entry, Pool!Default
  <2>2. pool' = Pool!Filled(i + 1)
    BY <1>1, <1>3, <1>5, <2>1 DEF Pool!Filled, Pool!Entry, Pool!Default, Pool!Made
  <2> QED
    BY <2>2, PoolStates
<1>6. ASSUME NEW q \in Process PROVE Pool!Steps(q)'
  BY <1>1, <1>2 DEF Pool!IInv, Pool!Steps, Pool!Default, Pool!Made
<1>7. ASSUME NEW q \in Process PROVE Pool!LoneReset(q)'
  <2> SUFFICES ASSUME poolRequest'[q].lone PROVE Pool!LoneReset(q)'
    BY DEF Pool!LoneReset
  <2>1. Pool!LoneReset(q) /\ poolRequest[q].lone /\ Pool!Alone(q)
    BY <1>2 DEF Pool!IInv, Pool!LoneReset
  <2>2. q = p
    BY <1>1, <2>1 DEF Pool!Alone
  <2>3. Pool!Alone(q)'
    BY <1>2, <2>1 DEF Pool!Alone
  <2>4. poolRequest[p].op = "reset" => pool = Pool!Filled(i)
    BY <1>1, <2>1, <2>2 DEF Pool!LoneReset
  <2> QED
    BY <1>2, <1>5, <2>2, <2>3, <2>4 DEF Pool!LoneReset, Pool!Filled, Pool!Defaults
<1>8. ASSUME ~spoiled' PROVE Pool!Unspoiled'
  <2>1. Pool!Unspoiled
    BY <1>3, <1>8 DEF Pool!IInv
  <2>2. ~seeded /\ pool = Pool!Filled(i) /\ Pool!Alone(p)
    <3>1. ~seeded /\ pool = Pool!Filled(i)
      BY <1>1, <2>1 DEF Pool!Unspoiled
    <3> QED
      BY <1>1, <2>1, <3>1 DEF Pool!Unspoiled
  <2>3. \A q \in Process \ {p} : poolRequest'[q].op = "none" /\ poolRequest'[q].at = "idle"
    BY <1>2, <2>2 DEF Pool!Alone, Pool!IInv, Pool!Steps
  <2>4. ASSUME NEW q \in Process PROVE poolRequest'[q].op = "none" \/ Pool!Alone(q)'
    BY <2>3 DEF Pool!Alone
  <2>5. ASSUME NEW q \in Process
        PROVE  /\ poolRequest'[q].at = "seed" => ~seeded' /\ pool' = Pool!Filled(poolRequest'[q].next)
               /\ poolRequest'[q].at = "clear" => pool' = Pool!Empty
               /\ poolRequest'[q].at = "read" => pool' = Pool!Defaults
               /\ poolRequest'[q].at # "raised"
    <3>1. CASE q = p
      BY <1>2, <1>3, <1>5, <2>2, <3>1
    <3>2. CASE q # p
      BY <2>3, <3>2
    <3> QED
      BY <3>1, <3>2
  <2>6. (\E q \in Process : poolRequest'[q].at \in {"seed", "clear"}) \/ pool' = Pool!Defaults
    BY <1>2, <1>5, <2>2
  <2> QED
    BY <2>4, <2>5, <2>6 DEF Pool!Unspoiled, Pool!Filled, Pool!Empty, Pool!Defaults
<1> QED
  BY <1>4, <1>6, <1>7, <1>8 DEF Pool!IInv

\* generate_profile chooses, list_pool and reset_pool answer: nobody's pool changes,
\* and the end of a reset that was alone makes it good again.
LEMMA PoolRead ==
  ASSUME Pool!IInv, NEW p \in Process, Pool!Read(p)
  PROVE  Pool!IInv'
<1>1. PICK raises \in IF poolRequest[p].op = "generate" THEN Pool!Raises ELSE {FALSE} :
        Pool!Goes(p, "read", IF raises THEN "raised" ELSE "done")
  BY DEF Pool!Read
<1> DEFINE to == IF raises THEN "raised" ELSE "done"
<1>2. Pool!TypeOK /\ to \in {"raised", "done"}
  BY DEF Pool!IInv
<1>3. /\ poolRequest' \in [Process -> Pool!Request]
      /\ \A q \in Process : q # p => poolRequest'[q] = poolRequest[q]
      /\ poolRequest[p].at = "read" /\ poolRequest'[p].at = to
      /\ poolRequest'[p].op = poolRequest[p].op
      /\ poolRequest'[p].next = poolRequest[p].next
      /\ poolRequest'[p].lone = poolRequest[p].lone
  BY <1>1, <1>2, PoolGoes
<1>4. UNCHANGED <<pool, seeded, edits, crashes>>
  BY DEF Pool!Read
<1>5. spoiled' = (spoiled /\ ~(poolRequest[p].op = "reset" /\ poolRequest[p].lone))
  BY DEF Pool!Read
<1>6. Pool!TypeOK'
  <2>1. spoiled' \in BOOLEAN
    BY <1>5
  <2> QED
    BY <1>2, <1>3, <1>4, <2>1 DEF Pool!TypeOK
<1>7. poolRequest[p].op # "none" /\ (to = "raised" => poolRequest[p].op = "generate")
  BY <1>1, <1>3 DEF Pool!IInv, Pool!Steps
<1>8. ASSUME NEW q \in Process PROVE Pool!Steps(q)'
  BY <1>2, <1>3, <1>7 DEF Pool!IInv, Pool!Steps
<1>9. ASSUME NEW q \in Process PROVE Pool!LoneReset(q)'
  <2> SUFFICES ASSUME poolRequest'[q].lone PROVE Pool!LoneReset(q)'
    BY DEF Pool!LoneReset
  <2>1. Pool!LoneReset(q) /\ poolRequest[q].lone /\ Pool!Alone(q)
    BY <1>3 DEF Pool!IInv, Pool!LoneReset
  <2>2. q = p
    BY <1>7, <2>1 DEF Pool!Alone
  <2>3. Pool!Alone(q)'
    BY <1>3, <2>1 DEF Pool!Alone
  <2>4. poolRequest[p].op = "reset" => pool = Pool!Defaults
    BY <1>3, <2>1, <2>2 DEF Pool!LoneReset
  <2> QED
    BY <1>2, <1>3, <1>4, <2>2, <2>3, <2>4 DEF Pool!LoneReset, Pool!Filled, Pool!Defaults
<1>10. ASSUME ~spoiled' PROVE Pool!Unspoiled'
  <2>1. CASE spoiled
    <3>1. poolRequest[p].op = "reset" /\ poolRequest[p].lone
      BY <1>5, <1>10, <2>1
    <3>2. Pool!Alone(p) /\ pool = Pool!Defaults
      BY <1>3, <3>1 DEF Pool!IInv, Pool!LoneReset
    <3>3. \A q \in Process \ {p} : poolRequest'[q].op = "none" /\ poolRequest'[q].at = "idle"
      BY <1>3, <3>2 DEF Pool!Alone, Pool!IInv, Pool!Steps
    <3>4. ASSUME NEW q \in Process PROVE poolRequest'[q].op = "none" \/ Pool!Alone(q)'
      BY <3>3 DEF Pool!Alone
    <3>5. to = "done"
      BY <1>1, <3>1
    <3> QED
      BY <1>3, <1>4, <3>2, <3>3, <3>4, <3>5 DEF Pool!Unspoiled, Pool!Filled, Pool!Empty, Pool!Defaults
  <2>2. CASE ~spoiled
    <3>1. Pool!Unspoiled /\ pool = Pool!Defaults
      BY <1>3, <2>2 DEF Pool!IInv, Pool!Unspoiled
    <3>2. to = "done"
      BY <1>1, <3>1, DefaultsNeverRaise
    <3>3. ASSUME NEW q \in Process
          PROVE  \/ poolRequest'[q].op = "none" \/ Pool!Alone(q)'
                 \/ seeded' /\ poolRequest'[q].op = "generate"
      <4>1. \/ poolRequest[q].op = "none" \/ Pool!Alone(q)
            \/ seeded /\ poolRequest[q].op = "generate"
        BY <3>1 DEF Pool!Unspoiled
      <4> QED
        BY <1>3, <1>4, <4>1 DEF Pool!Alone
    <3>4. ASSUME NEW q \in Process
          PROVE  /\ poolRequest'[q].at = "seed" => ~seeded' /\ pool' = Pool!Filled(poolRequest'[q].next)
                 /\ poolRequest'[q].at = "clear" => pool' = Pool!Empty
                 /\ poolRequest'[q].at = "read" => pool' = Pool!Defaults
                 /\ poolRequest'[q].at # "raised"
      BY <1>3, <1>4, <3>1, <3>2 DEF Pool!Unspoiled
    <3> QED
      BY <1>4, <3>1, <3>3, <3>4 DEF Pool!Unspoiled, Pool!Filled, Pool!Empty, Pool!Defaults
  <2> QED
    BY <2>1, <2>2, <1>2 DEF Pool!TypeOK
<1> QED
  BY <1>6, <1>8, <1>9, <1>10 DEF Pool!IInv
LEMMA PoolDelete ==
  ASSUME Pool!IInv, NEW p \in Process, Pool!Delete(p)
  PROVE  Pool!IInv'
<1>1. Pool!TypeOK /\ Pool!Goes(p, "delete", "clear")
  BY DEF Pool!IInv, Pool!Delete
<1>2. /\ poolRequest' \in [Process -> Pool!Request]
      /\ \A q \in Process : q # p => poolRequest'[q] = poolRequest[q]
      /\ poolRequest[p].at = "delete" /\ poolRequest'[p].at = "clear"
      /\ poolRequest'[p].op = poolRequest[p].op
      /\ poolRequest'[p].next = poolRequest[p].next
      /\ poolRequest'[p].lone = poolRequest[p].lone
  BY <1>1, PoolGoes
<1>3. pool' = Pool!Empty /\ UNCHANGED <<seeded, edits, crashes, spoiled>>
  BY DEF Pool!Delete, Pool!Empty
<1>4. Pool!TypeOK'
  BY <1>1, <1>2, <1>3, PoolStates DEF Pool!TypeOK
<1>5. poolRequest[p].op = "reset" /\ poolRequest[p].next = 1
  BY <1>2 DEF Pool!IInv, Pool!Steps
<1>6. ASSUME NEW q \in Process PROVE Pool!Steps(q)'
  BY <1>2, <1>5 DEF Pool!IInv, Pool!Steps
<1>7. ASSUME NEW q \in Process PROVE Pool!LoneReset(q)'
  <2> SUFFICES ASSUME poolRequest'[q].lone PROVE Pool!LoneReset(q)'
    BY DEF Pool!LoneReset
  <2>1. Pool!Alone(q)
    BY <1>2 DEF Pool!IInv, Pool!LoneReset
  <2>2. q = p
    BY <1>5, <2>1 DEF Pool!Alone
  <2>3. Pool!Alone(q)'
    BY <1>2, <2>1 DEF Pool!Alone
  <2> QED
    BY <1>2, <1>3, <2>2, <2>3 DEF Pool!LoneReset, Pool!Empty
<1>8. ASSUME ~spoiled' PROVE Pool!Unspoiled'
  <2>1. Pool!Unspoiled /\ Pool!Alone(p)
    BY <1>3, <1>5, <1>8 DEF Pool!IInv, Pool!Unspoiled
  <2>2. \A q \in Process \ {p} : poolRequest'[q].op = "none" /\ poolRequest'[q].at = "idle"
    BY <1>2, <2>1 DEF Pool!Alone, Pool!IInv, Pool!Steps
  <2>3. ASSUME NEW q \in Process PROVE poolRequest'[q].op = "none" \/ Pool!Alone(q)'
    BY <2>2 DEF Pool!Alone
  <2> QED
    BY <1>2, <1>3, <2>2, <2>3 DEF Pool!Unspoiled, Pool!Empty
<1> QED
  BY <1>4, <1>6, <1>7, <1>8 DEF Pool!IInv

LEMMA PoolClear ==
  ASSUME Pool!IInv, NEW p \in Process, Pool!Clear(p)
  PROVE  Pool!IInv'
<1>1. Pool!TypeOK /\ Pool!Goes(p, "clear", "ensure")
  BY DEF Pool!IInv, Pool!Clear
<1>2. /\ poolRequest' \in [Process -> Pool!Request]
      /\ \A q \in Process : q # p => poolRequest'[q] = poolRequest[q]
      /\ poolRequest[p].at = "clear" /\ poolRequest'[p].at = "ensure"
      /\ poolRequest'[p].op = poolRequest[p].op
      /\ poolRequest'[p].next = poolRequest[p].next
      /\ poolRequest'[p].lone = poolRequest[p].lone
  BY <1>1, PoolGoes
<1>3. seeded' = FALSE /\ UNCHANGED <<pool, edits, crashes, spoiled>>
  BY DEF Pool!Clear, Pool!Cleared
<1>4. Pool!TypeOK'
  BY <1>1, <1>2, <1>3 DEF Pool!TypeOK
<1>5. poolRequest[p].op = "reset" /\ poolRequest[p].next = 1
  BY <1>2 DEF Pool!IInv, Pool!Steps
<1>6. ASSUME NEW q \in Process PROVE Pool!Steps(q)'
  BY <1>2, <1>5 DEF Pool!IInv, Pool!Steps
<1>7. ASSUME NEW q \in Process PROVE Pool!LoneReset(q)'
  <2> SUFFICES ASSUME poolRequest'[q].lone PROVE Pool!LoneReset(q)'
    BY DEF Pool!LoneReset
  <2>1. Pool!LoneReset(q) /\ poolRequest[q].lone /\ Pool!Alone(q)
    BY <1>2 DEF Pool!IInv, Pool!LoneReset
  <2>2. q = p
    BY <1>5, <2>1 DEF Pool!Alone
  <2>3. Pool!Alone(q)'
    BY <1>2, <2>1 DEF Pool!Alone
  <2>4. pool = Pool!Empty
    BY <1>2, <1>5, <2>1, <2>2 DEF Pool!LoneReset
  <2> QED
    BY <1>2, <1>3, <2>2, <2>3, <2>4 DEF Pool!LoneReset, Pool!Empty
<1>8. ASSUME ~spoiled' PROVE Pool!Unspoiled'
  <2>1. Pool!Alone(p) /\ pool = Pool!Empty
    BY <1>2, <1>3, <1>5, <1>8 DEF Pool!IInv, Pool!Unspoiled
  <2>2. \A q \in Process \ {p} : poolRequest'[q].op = "none" /\ poolRequest'[q].at = "idle"
    BY <1>2, <2>1 DEF Pool!Alone, Pool!IInv, Pool!Steps
  <2>3. ASSUME NEW q \in Process PROVE poolRequest'[q].op = "none" \/ Pool!Alone(q)'
    BY <2>2 DEF Pool!Alone
  <2> QED
    BY <1>2, <1>3, <2>1, <2>2, <2>3 DEF Pool!Unspoiled, Pool!Empty
<1> QED
  BY <1>4, <1>6, <1>7, <1>8 DEF Pool!IInv

LEMMA PoolAnswer ==
  ASSUME Pool!IInv, NEW p \in Process, Pool!Answer(p)
  PROVE  Pool!IInv'
<1>1. /\ Pool!TypeOK /\ poolRequest[p].at \in {"done", "raised"}
      /\ UNCHANGED <<pool, seeded, edits, crashes, spoiled>>
  BY DEF Pool!IInv, Pool!Answer
<1>2. /\ poolRequest' \in [Process -> Pool!Request]
      /\ \A q \in Process : q # p => poolRequest'[q] = poolRequest[q]
      /\ poolRequest'[p] = Pool!Idle
  BY <1>1, PoolIdle DEF Pool!Answer, Pool!TypeOK
<1>3. Pool!TypeOK'
  BY <1>1, <1>2 DEF Pool!TypeOK
<1>4. ASSUME NEW q \in Process, Pool!Alone(q) PROVE Pool!Alone(q)'
  BY <1>2, <1>4, PoolIdle DEF Pool!Alone
<1>5. ASSUME NEW q \in Process PROVE Pool!Steps(q)'
  BY <1>2, PoolIdle DEF Pool!IInv, Pool!Steps
<1>6. ASSUME NEW q \in Process PROVE Pool!LoneReset(q)'
  <2>1. CASE q = p
    BY <1>2, <2>1, PoolIdle DEF Pool!LoneReset
  <2>2. CASE q # p
    <3>1. Pool!LoneReset(q) /\ poolRequest'[q] = poolRequest[q]
      BY <1>2, <2>2 DEF Pool!IInv
    <3> QED
      BY <1>1, <1>4, <3>1 DEF Pool!LoneReset, Pool!Empty, Pool!Filled, Pool!Defaults
  <2> QED
    BY <2>1, <2>2
<1>7. ASSUME ~spoiled' PROVE Pool!Unspoiled'
  <2>1. Pool!Unspoiled
    BY <1>1, <1>7 DEF Pool!IInv
  <2>2. ASSUME NEW q \in Process
        PROVE  \/ poolRequest'[q].op = "none" \/ Pool!Alone(q)'
               \/ seeded' /\ poolRequest'[q].op = "generate"
    <3>1. \/ poolRequest[q].op = "none" \/ Pool!Alone(q)
          \/ seeded /\ poolRequest[q].op = "generate"
      BY <2>1 DEF Pool!Unspoiled
    <3> QED
      BY <1>1, <1>2, <1>4, <3>1, PoolIdle
  <2>3. ASSUME NEW q \in Process
        PROVE  /\ poolRequest'[q].at = "seed" => ~seeded' /\ pool' = Pool!Filled(poolRequest'[q].next)
               /\ poolRequest'[q].at = "clear" => pool' = Pool!Empty
               /\ poolRequest'[q].at = "read" => pool' = Pool!Defaults
               /\ poolRequest'[q].at # "raised"
    BY <1>1, <1>2, <2>1, PoolIdle DEF Pool!Unspoiled
  <2>4. \/ \E q \in Process : poolRequest'[q].at \in {"seed", "clear"}
        \/ pool' = Pool!Defaults
        \/ pool' = Pool!Empty /\ ~seeded'
    BY <1>1, <1>2, <2>1 DEF Pool!Unspoiled
  <2> QED
    BY <2>2, <2>3, <2>4 DEF Pool!Unspoiled, Pool!Filled, Pool!Empty, Pool!Defaults
<1> QED
  BY <1>3, <1>5, <1>6, <1>7 DEF Pool!IInv

\* An administrator edits the pool, of which nothing is promised from then on.
LEMMA PoolEdit == Pool!IInv /\ Pool!Edit => Pool!IInv'
<1> SUFFICES ASSUME Pool!IInv, Pool!Edit PROVE Pool!IInv'
  OBVIOUS
<1>1. Pool!TypeOK /\ spoiled' = TRUE /\ edits' = edits + 1 /\ UNCHANGED <<seeded, crashes>>
  BY DEF Pool!IInv, Pool!Edit
<1>2. /\ poolRequest' \in [Process -> Pool!Request]
      /\ \A q \in Process :
           /\ poolRequest'[q].op = poolRequest[q].op /\ poolRequest'[q].at = poolRequest[q].at
           /\ poolRequest'[q].next = poolRequest[q].next /\ poolRequest'[q].lone = FALSE
  <2>1. \A q \in Process : [poolRequest[q] EXCEPT !.lone = FALSE] \in Pool!Request
    BY <1>1 DEF Pool!TypeOK, Pool!Request
  <2>2. \A q \in Process : poolRequest[q] \in Pool!Request
    BY <1>1 DEF Pool!TypeOK
  <2> QED
    BY <2>1, <2>2 DEF Pool!Edit, Pool!Request
<1>3. Pool!TypeOK'
  <2>1. pool' \in [Pool!Entry -> {"absent", "on", "off"}]
    BY <1>1 DEF Pool!Edit, Pool!TypeOK, Pool!Entry
  <2>2. edits' \in Nat
    BY <1>1 DEF Pool!TypeOK
  <2> QED
    BY <1>1, <1>2, <2>1, <2>2 DEF Pool!TypeOK
<1>4. \A q \in Process : Pool!Steps(q)' /\ Pool!LoneReset(q)'
  BY <1>2 DEF Pool!IInv, Pool!Steps, Pool!LoneReset
<1> QED
  BY <1>1, <1>3, <1>4 DEF Pool!IInv

LEMMA PoolCrash == Pool!IInv /\ Pool!Crash => Pool!IInv'
<1> SUFFICES ASSUME Pool!IInv, Pool!Crash PROVE Pool!IInv'
  OBVIOUS
<1>1. Pool!TypeOK /\ crashes' = crashes + 1 /\ seeded' = FALSE /\ UNCHANGED <<pool, edits>>
  BY DEF Pool!IInv, Pool!Crash
<1>2. \A q \in Process : poolRequest'[q] = Pool!Idle
  BY DEF Pool!Crash
<1>3. Pool!TypeOK'
  <2>1. poolRequest' \in [Process -> Pool!Request]
    BY PoolIdle DEF Pool!Crash
  <2>2. crashes' \in Nat /\ spoiled' \in BOOLEAN
    BY <1>1 DEF Pool!TypeOK, Pool!Crash
  <2> QED
    BY <1>1, <2>1, <2>2 DEF Pool!TypeOK
<1>4. \A q \in Process : Pool!Steps(q)' /\ Pool!LoneReset(q)'
  BY <1>2, PoolIdle DEF Pool!Steps, Pool!LoneReset
<1>5. ASSUME ~spoiled' PROVE Pool!Unspoiled'
  <2>1. Pool!Unspoiled /\ \A q \in Process : poolRequest[q].at # "seed"
    BY <1>5 DEF Pool!Crash, Pool!IInv
  <2>2. pool \in {Pool!Defaults, Pool!Empty}
    BY <2>1 DEF Pool!Unspoiled
  <2> QED
    BY <1>1, <1>2, <2>2, PoolIdle DEF Pool!Unspoiled, Pool!Defaults, Pool!Empty
<1> QED
  BY <1>3, <1>4, <1>5 DEF Pool!IInv
-----------------------------------------------------------------------------
LEMMA PoolInit == Pool!Init => Pool!IInv
<1> SUFFICES ASSUME Pool!Init PROVE Pool!IInv
  OBVIOUS
<1>1. pool = Pool!Empty /\ seeded = FALSE /\ spoiled = FALSE /\ edits = 0 /\ crashes = 0
  BY DEF Pool!Init, Pool!Empty
<1>2. poolRequest \in [Process -> Pool!Request] /\ \A p \in Process : poolRequest[p] = Pool!Idle
  BY PoolIdle DEF Pool!Init
<1>3. Pool!TypeOK
  BY <1>1, <1>2, PoolStates DEF Pool!TypeOK
<1>4. \A p \in Process : Pool!Steps(p) /\ Pool!LoneReset(p)
  BY <1>2, PoolIdle DEF Pool!Steps, Pool!LoneReset
<1>5. Pool!Unspoiled
  BY <1>1, <1>2, PoolIdle DEF Pool!Unspoiled
<1> QED
  BY <1>3, <1>4, <1>5 DEF Pool!IInv

LEMMA PoolStep == Pool!IInv /\ Pool!Next => Pool!IInv'
BY PoolBegin, PoolEnsure, PoolSeed, PoolRead, PoolDelete, PoolClear, PoolAnswer, PoolEdit, PoolCrash
   DEF Pool!Next

LEMMA PoolRest == Pool!IInv /\ UNCHANGED Pool!vars => Pool!IInv'
BY DEF Pool!vars, Pool!IInv, Pool!TypeOK, Pool!Steps, Pool!LoneReset, Pool!Alone, Pool!Unspoiled,
  Pool!Empty, Pool!Filled, Pool!Defaults

LEMMA PoolConclusion == Pool!IInv => Pool!PoolHolds
<1> SUFFICES ASSUME Pool!IInv, NEW p \in Process
             PROVE  /\ poolRequest[p].at = "raised" => spoiled
                    /\ poolRequest[p].op = "reset" /\ poolRequest[p].at = "done" /\ poolRequest[p].lone
                         => pool = Pool!Defaults
  BY DEF Pool!PoolHolds, Pool!DefaultsSuffice, Pool!ResetRestores
<1>1. poolRequest[p].at = "raised" => spoiled
  BY DEF Pool!IInv, Pool!Unspoiled
<1>2. poolRequest[p].op = "reset" /\ poolRequest[p].at = "done" /\ poolRequest[p].lone
        => pool = Pool!Defaults
  BY DEF Pool!IInv, Pool!LoneReset
<1> QED
  BY <1>1, <1>2

\* Each request is where its kind can be, a reset that is alone finds the pool as
\* it left it, and a pool that nothing has spoiled is filled with the defaults,
\* or empty and about to be filled (fingerprint.py, routes/fingerprint_pool.py).
THEOREM PoolInvariant == MCSpec => [](Only("pool") => Pool!IInv)
<1>1. MCInit => (Only("pool") => Pool!IInv)
  BY PoolInit DEF MCInit, Only
<1>2. (Only("pool") => Pool!IInv) /\ [MCNext]_<<which, vars, Others>> => (Only("pool") => Pool!IInv)'
  <2> SUFFICES ASSUME Only("pool") => Pool!IInv, [MCNext]_<<which, vars, Others>>, Only("pool")'
               PROVE  Pool!IInv'
    OBVIOUS
  <2>1. CASE MCNext
    <3>1. Only("pool") /\ Pool!Next
      BY <2>1 DEF MCNext, Only
    <3> QED
      BY <3>1, PoolStep
  <2>2. CASE UNCHANGED <<which, vars, Others>>
    BY <2>2, PoolRest DEF Only, Others, Pool!vars
  <2> QED
    BY <2>1, <2>2
<1> QED
  BY <1>1, <1>2, PTL DEF MCSpec

\* A tenant can always have a fingerprint from the defaults, and a reset that
\* nothing overlaps leaves the defaults and nothing else (generate_profile,
\* reset_pool), for any number of requests, edits and stops of the backend.
THEOREM PoolIsRestored == MCSpec => []PoolHolds
BY PoolInvariant, PoolConclusion, PTL DEF PoolHolds
-----------------------------------------------------------------------------
(* The newest image, and the newest of the highest major. *)

LEMMA NatMin ==
  ASSUME NEW S \in SUBSET Nat, S # {} PROVE \E x \in S : \A y \in S : x <= y
<1>1. \E x \in S : \A y \in S : ~(y < x)
  <2>1. \E x \in S : \A y \in S : ~(<<y, x>> \in OpToRel(<, Nat))
    BY NatLessThanWellFounded, WFMin
  <2>2. \A x, y \in Nat : y < x => <<y, x>> \in OpToRel(<, Nat)
    BY DEF OpToRel
  <2> QED
    BY <2>1, <2>2
<1>2. \A x, y \in Nat : ~(y < x) => x <= y
  OBVIOUS
<1> QED
  BY <1>1, <1>2

LEMMA NatMax ==
  ASSUME NEW N \in Nat, NEW S \in SUBSET (0 .. N), S # {}
  PROVE  \E x \in S : \A y \in S : y <= x
<1> DEFINE T == {N - y : y \in S}
<1>1. T \in SUBSET Nat /\ T # {}
  OBVIOUS
<1>2. PICK t \in T : \A u \in T : t <= u
  <2> HIDE DEF T
  <2> QED
    BY <1>1, NatMin
<1>3. PICK x \in S : t = N - x
  OBVIOUS
<1>4. ASSUME NEW y \in S PROVE y <= x
  <2>1. N - y \in T
    OBVIOUS
  <2>2. N - x <= N - y
    BY <2>1, <1>2, <1>3
  <2> QED
    BY <2>2
<1> QED
  BY <1>4

\* A function on finitely many has a bound: there is no least n up to which it has none.
LEMMA Bound ==
  ASSUME NEW N \in Nat, NEW f \in [1 .. N -> Nat]
  PROVE  \E b \in Nat : \A i \in 1 .. N : f[i] <= b
<1> DEFINE Bounded(n) == \E b \in Nat : \A i \in 1 .. n : f[i] <= b
           B == {n \in 0 .. N : ~Bounded(n)}
<1>1. Bounded(0)
  <2>1. \A i \in 1 .. 0 : f[i] <= 0
    OBVIOUS
  <2> QED
    BY <2>1
<1>2. ASSUME NEW n \in 1 .. N, Bounded(n - 1) PROVE Bounded(n)
  <2>1. PICK b \in Nat : \A i \in 1 .. (n - 1) : f[i] <= b
    BY <1>2
  <2>2. PICK c \in Nat : b <= c /\ f[n] <= c
    <3>1. f[n] \in Nat
      OBVIOUS
    <3>2. \A x, y \in Nat : \E z \in Nat : x <= z /\ y <= z
      <4> TAKE x, y \in Nat
      <4>1. CASE x <= y
        BY <4>1
      <4>2. CASE y <= x
        BY <4>2
      <4> QED
        BY <4>1, <4>2
    <3> QED
      BY <3>1, <3>2
  <2>3. ASSUME NEW i \in 1 .. n PROVE f[i] <= c
    <3>1. CASE i = n
      BY <2>2, <3>1
    <3>2. CASE i # n
      <4>1. i \in 1 .. (n - 1) /\ i \in 1 .. N
        BY <3>2
      <4>2. f[i] \in Nat /\ f[i] <= b
        BY <2>1, <4>1
      <4> QED
        BY <2>2, <4>2
    <3> QED
      BY <3>1, <3>2
  <2> QED
    BY <2>3
<1>3. B \in SUBSET Nat /\ \A n \in B : n \in 0 .. N /\ ~Bounded(n)
  OBVIOUS
<1>4. \A n \in 0 .. N : n \notin B => Bounded(n)
  OBVIOUS
<1> HIDE DEF Bounded, B
<1>5. ASSUME B # {} PROVE FALSE
  <2>1. PICK n \in B : \A m \in B : n <= m
    BY <1>3, <1>5, NatMin
  <2>2. n \in 1 .. N
    <3>1. n \in 0 .. N /\ ~Bounded(n)
      BY <1>3, <2>1
    <3>2. ASSUME n = 0 PROVE FALSE
      <4>1. Bounded(n)
        BY <1>1, <3>2, Zenon
      <4> QED
        BY <3>1, <4>1, Zenon
    <3> QED
      BY <3>1, <3>2
  <2>3. n - 1 \in 0 .. N /\ n - 1 \notin B
    BY <2>1, <2>2
  <2> QED
    BY <1>2, <1>3, <1>4, <2>1, <2>2, <2>3
<1>6. Bounded(N)
  BY <1>4, <1>5
<1> QED
  BY <1>6 DEF Bounded

LEMMA NewestIn ==
  ASSUME NEW S \in SUBSET Images!Image, S # {}
  PROVE  Images!Newest(S) \in S
<1>1. S \in SUBSET (0 .. MaxImage)
  BY MaxImageAssumption DEF Images!Image
<1>2. \E i \in S : \A j \in S : j <= i
  BY <1>1, NatMax, MaxImageAssumption
<1> QED
  BY <1>2 DEF Images!Newest

LEMMA NewestOfOne == \A i \in Images!Image : Images!Newest({i}) = i
<1> TAKE i \in Images!Image
<1>1. Images!Newest({i}) \in {i}
  BY NewestIn
<1> QED
  BY <1>1

LEMMA MajorIsNat == Images!TypeOK => \A i \in Images!Image : rows[i].base[1] \in Nat
<1> SUFFICES ASSUME Images!TypeOK, NEW i \in Images!Image PROVE rows[i].base[1] \in Nat
  OBVIOUS
<1>1. rows[i].base \in Images!Known
  BY DEF Images!TypeOK, Images!Row
<1>2. \A v \in Version : v[1] \in Nat /\ <<v[1], 0>>[1] \in Nat
  BY VersionAssumption
<1>3. Images!NoVersion[1] \in Nat
  BY DEF Images!NoVersion
<1> QED
  BY <1>1, <1>2, <1>3 DEF Images!Known

LEMMA NewestMajorIn ==
  ASSUME Images!TypeOK, NEW S \in SUBSET Images!Image, S # {}
  PROVE  Images!NewestMajor(S) \in S
<1> DEFINE f == [i \in 1 .. MaxImage |-> rows[i].base[1]]
           T == {f[i] : i \in S}
           H == {i \in S : \A j \in S : rows[j].base[1] <= rows[i].base[1]}
<1>1. f \in [1 .. MaxImage -> Nat] /\ \A i \in S : f[i] = rows[i].base[1]
  BY MajorIsNat DEF Images!Image
<1>2. PICK b \in Nat : \A i \in 1 .. MaxImage : f[i] <= b
  <2> HIDE DEF f
  <2> QED
    BY <1>1, Bound, MaxImageAssumption
<1>3. T \in SUBSET (0 .. b) /\ T # {}
  <2>1. ASSUME NEW i \in S PROVE f[i] \in 0 .. b
    <3>1. i \in 1 .. MaxImage
      BY DEF Images!Image
    <3>2. f[i] \in Nat /\ f[i] <= b
      <4> HIDE DEF f
      <4> QED
        BY <1>1, <1>2, <3>1
    <3> HIDE DEF f
    <3> QED
      BY <3>2
  <2> HIDE DEF f
  <2> QED
    BY <2>1
<1>4. PICK x \in T : \A y \in T : y <= x
  <2> HIDE DEF T
  <2> QED
    BY <1>3, NatMax
<1>5. PICK i \in S : x = f[i]
  OBVIOUS
<1>6. i \in H
  BY <1>1, <1>4, <1>5
<1>7. H \in SUBSET Images!Image /\ H \subseteq S
  OBVIOUS
<1>8. Images!Newest(H) \in H
  <2> HIDE DEF H
  <2> QED
    BY <1>6, <1>7, NewestIn
<1>9. Images!NewestMajor(S) = Images!Newest(H)
  BY DEF Images!NewestMajor
<1> HIDE DEF H
<1> QED
  BY <1>7, <1>8, <1>9
-----------------------------------------------------------------------------
(* The lookups, by a session that has a row. *)

LEMMA ReadyFacts ==
  /\ \A runtime, i : i \in Images!Ready(runtime) <=>
       i \in Images!Image /\ rows[i].runtime = runtime /\ rows[i].status = "ready"
  /\ \A v, i : i \in Images!ReadyAs(v) <=>
       /\ i \in Images!Image /\ rows[i].runtime = "standard" /\ rows[i].status = "ready"
       /\ rows[i].version = v
BY DEF Images!Ready, Images!ReadyAs, Images!Of

LEMMA StockIsNone ==
  Images!Stock \notin Images!Image /\ Images!NoContainer \notin Images!Image
BY MaxImageAssumption DEF Images!Stock, Images!NoContainer, Images!Image

\* The image of a session that is ready is the one of its version.
LEMMA OfItsVersion ==
  ASSUME Images!IInv, NEW i \in Images!Image,
         rows[i].status = "ready", rows[i].runtime = "standard"
  PROVE  Images!ReadyAs(rows[i].version) = {i} /\ Images!Newest(Images!ReadyAs(rows[i].version)) = i
<1>1. i \in Images!ReadyAs(rows[i].version)
  BY ReadyFacts
<1>2. \A j \in Images!ReadyAs(rows[i].version) : j = i
  BY ReadyFacts DEF Images!IInv, Images!OneReadyPerVersion
<1>3. Images!ReadyAs(rows[i].version) = {i}
  BY <1>1, <1>2
<1> QED
  BY <1>3, NewestOfOne

\* A session whose image is ready gets it from both lookups.
LEMMA FindsItsImage ==
  ASSUME Images!IInv, NEW s \in Holder, sessions[s].at # "none",
         sessions[s].image # Images!Stock, rows[sessions[s].image].status = "ready"
  PROVE  Images!SessionImage(s) = sessions[s].image /\ Images!ContainerImage(s) = sessions[s].image
<1> DEFINE x == sessions[s]
<1>1. /\ x.image \in Images!Image /\ x.runtime \in {"standard", "cloak"}
      /\ rows[x.image].runtime = x.runtime
      /\ x.runtime = "cloak" => x.version = Images!NoVersion
      /\ x.runtime = "standard" => x.version = rows[x.image].version
  BY DEF Images!IInv, Images!TypeOK, Images!SessionRow, Images!SessionRight, Images!Runtime
<1>2. Images!SessionImage(s) = x.image
  BY DEF Images!SessionImage
<1>3. x.runtime = "standard" => Images!NewestOr(Images!ReadyAs(x.version), x.image) = x.image
  BY <1>1, OfItsVersion DEF Images!NewestOr
<1>4. Images!ContainerImage(s) = x.image
  BY <1>1, <1>3 DEF Images!ContainerImage
<1> QED
  BY <1>2, <1>4

\* One whose image has gone, or that never had one, gets the same from both.
LEMMA FindsTheSame ==
  ASSUME Images!IInv, NEW s \in Holder, sessions[s].at # "none",
         sessions[s].image = Images!Stock \/ rows[sessions[s].image].status # "ready"
  PROVE  Images!SessionImage(s) = Images!ContainerImage(s)
<1> DEFINE x == sessions[s]
<1>1. /\ x.runtime \in {"standard", "cloak"} /\ x.image \in Images!Image \cup {Images!Stock}
      /\ x.runtime = "cloak" => x.version = Images!NoVersion
      /\ x.runtime = "standard" => x.version # Images!NoVersion
  BY DEF Images!IInv, Images!TypeOK, Images!SessionRow, Images!SessionRight, Images!Runtime
<1>2. CASE x.runtime = "cloak"
  BY <1>1, <1>2 DEF Images!SessionImage, Images!ContainerImage
<1>3. CASE x.runtime = "standard"
  <2>1. Images!ReadyAs(x.version) # {} => Images!Newest(Images!ReadyAs(x.version)) # Images!Stock
    <3>1. Images!ReadyAs(x.version) \in SUBSET Images!Image
      BY ReadyFacts
    <3> QED
      BY <3>1, NewestIn, StockIsNone
  <2> QED
    BY <1>1, <1>3, <2>1 DEF Images!SessionImage, Images!ContainerImage, Images!NewestOr
<1> QED
  BY <1>1, <1>2, <1>3

LEMMA ImagesConclusion == Images!IInv => Images!ImagesHold
<1> SUFFICES ASSUME Images!IInv PROVE Images!ImagesHold
  OBVIOUS
<1>1. ASSUME NEW s \in Images!Made
      PROVE  Images!SessionImage(s) = Images!ContainerImage(s)
  BY FindsItsImage, FindsTheSame DEF Images!Made
<1>2. ASSUME NEW s \in Images!Made \ overtaken, sessions[s].image # Images!Stock
      PROVE  /\ Images!ContainerImage(s) = sessions[s].image
             /\ sessions[s].image \in docker
             /\ sessions[s].container \in {Images!NoContainer, sessions[s].image}
  <2>1. s \in Holder /\ sessions[s].at # "none" /\ sessions[s].image \in Images!Image
    BY <1>2 DEF Images!Made, Images!IInv, Images!TypeOK, Images!SessionRow
  <2>2. /\ rows[sessions[s].image].status = "ready"
        /\ sessions[s].container \in {Images!NoContainer, sessions[s].image}
    BY <1>2, <2>1 DEF Images!IInv, Images!SessionRight
  <2>3. sessions[s].image \in docker
    BY <2>1, <2>2 DEF Images!IInv, Images!RowsRight
  <2> QED
    BY <1>2, <2>1, <2>2, <2>3, FindsItsImage
<1> QED
  BY <1>1, <1>2 DEF Images!ImagesHold, Images!LookupsAgree, Images!SessionKeepsItsImage, Images!IInv

\* What a session that is created resolves is ready, and the version's own.
LEMMA ResolvesReady ==
  ASSUME Images!IInv, NEW ask \in Version \cup {Images!NoVersion}, Images!CanResolve(ask)
  PROVE  Images!Resolved(ask) \in Images!Ready("standard")
<1> DEFINE S == {i \in Images!Ready("standard") : rows[i].base[1] = ask[1]}
<1>1. Images!Ready("standard") \in SUBSET Images!Image /\ Images!ReadyAs(ask) \in SUBSET Images!Image
  BY ReadyFacts
<1>2. Images!ReadyAs(ask) \subseteq S
  BY ReadyFacts DEF Images!IInv, Images!RowsRight
<1>3. CASE ask = Images!NoVersion
  <2>1. Images!Ready("standard") # {}
    BY <1>2 DEF Images!CanResolve
  <2> QED
    BY <1>1, <1>3, <2>1, NewestMajorIn DEF Images!Resolved, Images!IInv
<1>4. CASE ask # Images!NoVersion /\ ask[2] # 0 /\ Images!ReadyAs(ask) # {}
  <2>1. Images!Newest(Images!ReadyAs(ask)) \in Images!ReadyAs(ask)
    BY <1>1, <1>4, NewestIn
  <2> QED
    BY <1>2, <1>4, <2>1 DEF Images!Resolved
<1>5. CASE ask # Images!NoVersion /\ ~(ask[2] # 0 /\ Images!ReadyAs(ask) # {})
  <2>1. S # {}
    BY <1>2, <1>5 DEF Images!CanResolve
  <2>2. S \in SUBSET Images!Image /\ S \subseteq Images!Ready("standard")
    BY <1>1
  <2>3. Images!Resolved(ask) = Images!Newest(S)
    BY <1>5 DEF Images!Resolved
  <2> HIDE DEF S
  <2> QED
    BY <2>1, <2>2, <2>3, NewestIn
<1> QED
  BY <1>3, <1>4, <1>5

LEMMA ContainerImageIn ==
  ASSUME Images!IInv, NEW s \in Holder
  PROVE  Images!ContainerImage(s) \in Images!Image \cup {Images!Stock}
<1>1. sessions[s].image \in Images!Image \cup {Images!Stock} /\ Images!TypeOK
  BY DEF Images!IInv, Images!TypeOK, Images!SessionRow
<1>2. ASSUME NEW S \in SUBSET Images!Image, NEW i \in Images!Image \cup {Images!Stock}
      PROVE  Images!NewestOr(S, i) \in Images!Image \cup {Images!Stock}
  BY <1>2, NewestIn DEF Images!NewestOr
<1>3. /\ Images!Ready("cloak") \in SUBSET Images!Image
      /\ Images!ReadyAs(sessions[s].version) \in SUBSET Images!Image
      /\ Images!Ready("standard") \in SUBSET Images!Image
  BY ReadyFacts
<1>4. Images!Ready("standard") # {} => Images!NewestMajor(Images!Ready("standard")) \in Images!Image
  BY <1>1, <1>3, NewestMajorIn
<1> QED
  BY <1>1, <1>2, <1>3, <1>4 DEF Images!ContainerImage
-----------------------------------------------------------------------------
(* What a step leaves alone goes on as it was. *)

LEMMA KnownVersions ==
  /\ Images!NoVersion \in Images!Known /\ Version \subseteq Images!Known
  /\ \A v \in Images!Known : <<v[1], 0>> \in Images!Known
<1>1. Images!NoVersion \in Images!Known /\ Version \subseteq Images!Known
  BY DEF Images!Known
<1>2. ASSUME NEW v \in Images!Known PROVE <<v[1], 0>> \in Images!Known
  <2>1. CASE v \in Version
    BY <2>1 DEF Images!Known
  <2>2. CASE v = Images!NoVersion
    BY <1>1, <2>2 DEF Images!NoVersion
  <2>3. CASE \E w \in Version : v = <<w[1], 0>>
    BY <2>3 DEF Images!Known
  <2> QED
    BY <2>1, <2>2, <2>3 DEF Images!Known
<1> QED
  BY <1>1, <1>2

LEMMA ImageNothings ==
  /\ Images!NoTask \in Images!Building /\ Images!NoTask.at = "none"
  /\ Images!Idle \in Images!Request /\ Images!Idle.at = "idle"
  /\ Images!NoSession \in Images!SessionRow /\ Images!NoSession.at = "none"
  /\ Images!NoRow \in Images!Row /\ Images!NoRow.status = "none"
BY KnownVersions DEF Images!NoTask, Images!Building, Images!Idle, Images!Request, Images!NoSession,
  Images!SessionRow, Images!NoRow, Images!Row, Images!Runtime

\* Rows and builds are right, whatever Docker got besides.
LEMMA RowsStand ==
  ASSUME \A i \in Images!Image : Images!RowsRight(i), UNCHANGED <<rows, builds>>,
         \A i \in Images!Image :
           \/ rows[i].status = "ready"
           \/ builds[i].at = "record" /\ rows[i].status # "deleted"
           => (i \in docker => i \in docker')
  PROVE  \A i \in Images!Image : Images!RowsRight(i)'
BY DEF Images!RowsRight

LEMMA OneStands ==
  ASSUME Images!OneReadyPerVersion, UNCHANGED rows PROVE Images!OneReadyPerVersion'
BY DEF Images!OneReadyPerVersion, Images!Ready, Images!Of

\* Deletions, those that do not end, are right while what is deleted stays so and
\* the sessions they have seen stay with their image.
LEMMA DeletionsStand ==
  ASSUME Images!TypeOK, \A a \in Admin : Images!DeletionRight(a),
         \A a \in Admin : requests'[a] = requests[a] \/ requests'[a] = Images!Idle,
         \A i \in Images!Image : rows[i].status = "deleted" => rows'[i].status = "deleted",
         \A s \in Holder : sessions[s].at \in {"made", "start"} =>
           sessions'[s].at \in {"made", "start"} /\ sessions'[s].image = sessions[s].image
  PROVE  \A a \in Admin : Images!DeletionRight(a)'
<1> SUFFICES ASSUME NEW a \in Admin PROVE Images!DeletionRight(a)'
  OBVIOUS
<1>1. CASE requests'[a] = requests[a]
  <2>1. Images!DeletionRight(a) /\ requests[a].image \in Images!Image \cup {Images!Stock}
    BY DEF Images!TypeOK, Images!Request
  <2> QED
    BY <1>1, <2>1 DEF Images!DeletionRight, Images!Made
<1>2. CASE requests'[a] = Images!Idle
  BY <1>2, ImageNothings DEF Images!DeletionRight
<1> QED
  BY <1>1, <1>2

\* Sessions are right while a row that was ready keeps runtime and version, and is
\* not deleted without overtaking those that have it.
LEMMA SessionsStand ==
  ASSUME Images!TypeOK, \A s \in Holder : Images!SessionRight(s), UNCHANGED sessions,
         \A s \in Holder : s \in overtaken => s \in overtaken',
         \A i \in Images!Image : rows[i].status \in {"ready", "deleted"} =>
           /\ rows'[i].runtime = rows[i].runtime /\ rows'[i].version = rows[i].version
           /\ rows'[i].status \in {"ready", "deleted"},
         \A s \in Holder : sessions[s].at # "none" /\ sessions[s].image # Images!Stock =>
           \/ s \in overtaken'
           \/ rows[sessions[s].image].status # "ready"
           \/ rows'[sessions[s].image].status = "ready"
  PROVE  \A s \in Holder : Images!SessionRight(s)'
<1> SUFFICES ASSUME NEW s \in Holder, sessions[s].at # "none" PROVE Images!SessionRight(s)'
  BY DEF Images!SessionRight
<1>1. Images!SessionRight(s) /\ sessions[s].image \in Images!Image \cup {Images!Stock}
  BY DEF Images!TypeOK, Images!SessionRow
<1>2. CASE sessions[s].image = Images!Stock
  BY <1>1, <1>2 DEF Images!SessionRight
<1>3. CASE sessions[s].image # Images!Stock
  <2>1. /\ rows[sessions[s].image].status \in {"ready", "deleted"}
        /\ rows'[sessions[s].image].status \in {"ready", "deleted"}
        /\ rows'[sessions[s].image].runtime = rows[sessions[s].image].runtime
        /\ rows'[sessions[s].image].version = rows[sessions[s].image].version
    BY <1>1, <1>3 DEF Images!SessionRight
  <2> QED
    BY <1>1, <1>3, <2>1 DEF Images!SessionRight
<1> QED
  BY <1>2, <1>3

\* Of a step that leaves rows alone, and of the others what concerns them.
LEMMA RowsAlone ==
  ASSUME Images!IInv, UNCHANGED <<rows, builds, docker, sessions, overtaken>>,
         requests' \in [Admin -> Images!Request], \A a \in Admin : Images!DeletionRight(a)'
  PROVE  Images!IInv'
<1>1. Images!TypeOK'
  BY DEF Images!IInv, Images!TypeOK
<1>2. \A i \in Images!Image : Images!RowsRight(i)'
  BY RowsStand DEF Images!IInv
<1>3. Images!OneReadyPerVersion'
  BY OneStands DEF Images!IInv
<1>4. \A s \in Holder : Images!SessionRight(s)'
  BY SessionsStand DEF Images!IInv
<1> QED
  BY <1>1, <1>2, <1>3, <1>4 DEF Images!IInv

LEMMA SessionMoves ==
  ASSUME Images!IInv, UNCHANGED <<rows, builds, docker, requests>>, overtaken' \subseteq overtaken,
         NEW s \in Holder, NEW x \in Images!SessionRow, sessions' = [sessions EXCEPT ![s] = x],
         sessions[s].at \in {"made", "start"} =>
           x.at \in {"made", "start"} /\ x.image = sessions[s].image,
         overtaken \ {s} \subseteq overtaken',
         Images!SessionRight(s)'
  PROVE  Images!IInv'
<1>1. /\ sessions' \in [Holder -> Images!SessionRow] /\ sessions'[s] = x
      /\ \A q \in Holder : q # s => sessions'[q] = sessions[q]
  BY DEF Images!IInv, Images!TypeOK
<1>2. Images!TypeOK'
  BY <1>1 DEF Images!IInv, Images!TypeOK
<1>3. \A i \in Images!Image : Images!RowsRight(i)'
  BY RowsStand DEF Images!IInv
<1>4. Images!OneReadyPerVersion'
  BY OneStands DEF Images!IInv
<1>5. \A a \in Admin : Images!DeletionRight(a)'
  BY <1>1, DeletionsStand DEF Images!IInv
<1>6. ASSUME NEW q \in Holder PROVE Images!SessionRight(q)'
  <2>1. CASE q = s
    BY <2>1
  <2>2. CASE q # s
    <3>1. Images!SessionRight(q) /\ sessions'[q] = sessions[q] /\ (q \in overtaken' <=> q \in overtaken)
      BY <1>1, <2>2 DEF Images!IInv
    <3> QED
      BY <3>1 DEF Images!SessionRight
  <2> QED
    BY <2>1, <2>2
<1> QED
  BY <1>2, <1>3, <1>4, <1>5, <1>6 DEF Images!IInv
-----------------------------------------------------------------------------
(* Sessions. *)

LEMMA ResolveStandardStep ==
  ASSUME Images!IInv, NEW s \in Holder, NEW ask \in Version \cup {Images!NoVersion},
         Images!ResolveStandard(s, ask)
  PROVE  Images!IInv'
<1> DEFINE i == Images!Resolved(ask)
           x == [Images!NoSession EXCEPT !.at = "resolved", !.image = i, !.version = rows[i].version]
<1>1. i \in Images!Image /\ rows[i].status = "ready" /\ rows[i].runtime = "standard"
  BY ResolvesReady, ReadyFacts DEF Images!ResolveStandard
<1>2. rows[i].version \in Images!Known /\ rows[i].version # Images!NoVersion
  BY <1>1 DEF Images!IInv, Images!TypeOK, Images!Row, Images!RowsRight
<1>3. /\ sessions' = [sessions EXCEPT ![s] = x] /\ overtaken' = overtaken \ {s}
      /\ sessions[s].at = "none" /\ UNCHANGED <<rows, docker, builds, requests>>
  BY DEF Images!ResolveStandard
<1> HIDE DEF i
<1>4. /\ x \in Images!SessionRow /\ x.at = "resolved" /\ x.image = i /\ x.runtime = "standard"
      /\ x.version = rows[i].version /\ x.container = Images!NoContainer
  BY <1>1, <1>2, ImageNothings DEF Images!SessionRow, Images!NoSession
<1> HIDE DEF x
<1>5. sessions'[s] = x
  BY <1>3 DEF Images!IInv, Images!TypeOK
<1>6. Images!SessionRight(s)'
  BY <1>1, <1>2, <1>3, <1>4, <1>5, StockIsNone DEF Images!SessionRight
<1> QED
  BY <1>3, <1>4, <1>6, SessionMoves

LEMMA ResolveCloakStep ==
  ASSUME Images!IInv, NEW s \in Holder, Images!ResolveCloak(s)
  PROVE  Images!IInv'
<1>1. PICK i \in Images!Ready("cloak") \cup (docker \cap {Images!Stock}) :
        sessions' = [sessions EXCEPT ![s] =
          [Images!NoSession EXCEPT !.at = "resolved", !.runtime = "cloak", !.image = i]]
  BY DEF Images!ResolveCloak
<1> DEFINE x == [Images!NoSession EXCEPT !.at = "resolved", !.runtime = "cloak", !.image = i]
<1>2. /\ overtaken' = overtaken \ {s}
      /\ sessions[s].at = "none" /\ UNCHANGED <<rows, docker, builds, requests>>
  BY DEF Images!ResolveCloak
<1>3. /\ i \in Images!Image \cup {Images!Stock}
      /\ i # Images!Stock => rows[i].status = "ready" /\ rows[i].runtime = "cloak"
  BY ReadyFacts
<1>4. /\ x \in Images!SessionRow /\ x.at = "resolved" /\ x.image = i /\ x.runtime = "cloak"
      /\ x.version = Images!NoVersion /\ x.container = Images!NoContainer
  BY <1>3, ImageNothings DEF Images!SessionRow, Images!NoSession, Images!Runtime
<1>5. sessions' = [sessions EXCEPT ![s] = x]
  BY <1>1
<1> HIDE DEF x
<1>6. sessions'[s] = x
  BY <1>5 DEF Images!IInv, Images!TypeOK
<1>7. Images!SessionRight(s)'
  BY <1>2, <1>3, <1>4, <1>6 DEF Images!SessionRight
<1> QED
  BY <1>2, <1>4, <1>5, <1>7, SessionMoves

LEMMA CreateStep ==
  ASSUME Images!IInv, NEW s \in Holder, Images!Create(s)
  PROVE  Images!IInv'
<1> DEFINE x == [sessions[s] EXCEPT !.at = "made"]
<1>1. /\ sessions' = [sessions EXCEPT ![s] = x] /\ sessions[s].at = "resolved"
      /\ UNCHANGED <<rows, docker, builds, requests, overtaken>>
  BY DEF Images!Create
<1>2. sessions[s] \in Images!SessionRow
  BY DEF Images!IInv, Images!TypeOK
<1>3. /\ x \in Images!SessionRow /\ x.at = "made" /\ x.image = sessions[s].image
      /\ x.runtime = sessions[s].runtime /\ x.version = sessions[s].version
      /\ x.container = sessions[s].container
  BY <1>2 DEF Images!SessionRow
<1> HIDE DEF x
<1>4. sessions'[s] = x
  BY <1>1 DEF Images!IInv, Images!TypeOK
<1>5. Images!SessionRight(s)
  BY DEF Images!IInv
<1>6. Images!SessionRight(s)'
  BY <1>1, <1>3, <1>4, <1>5 DEF Images!SessionRight
<1> QED
  BY <1>1, <1>3, <1>6, SessionMoves

LEMMA StartStep ==
  ASSUME Images!IInv, NEW s \in Holder, Images!Start(s)
  PROVE  Images!IInv'
<1> DEFINE i == Images!ContainerImage(s)
           x == [sessions[s] EXCEPT !.at = "start", !.next = i]
<1>1. /\ sessions' = [sessions EXCEPT ![s] = x] /\ sessions[s].at = "made"
      /\ UNCHANGED <<rows, docker, builds, requests, overtaken>>
  BY DEF Images!Start
<1>2. sessions[s] \in Images!SessionRow /\ i \in Images!Image \cup {Images!Stock}
  BY ContainerImageIn DEF Images!IInv, Images!TypeOK
<1>3. Images!SessionRight(s)
  BY DEF Images!IInv
<1>4. s \notin overtaken /\ sessions[s].image # Images!Stock => i = sessions[s].image
  BY <1>1, <1>3, FindsItsImage DEF Images!SessionRight
<1> HIDE DEF i
<1>5. /\ x \in Images!SessionRow /\ x.at = "start" /\ x.image = sessions[s].image
      /\ x.runtime = sessions[s].runtime /\ x.version = sessions[s].version
      /\ x.container = sessions[s].container /\ x.next = i
  BY <1>2 DEF Images!SessionRow
<1> HIDE DEF x
<1>6. sessions'[s] = x
  BY <1>1 DEF Images!IInv, Images!TypeOK
<1>7. Images!SessionRight(s)'
  BY <1>1, <1>3, <1>4, <1>5, <1>6 DEF Images!SessionRight
<1> QED
  BY <1>1, <1>5, <1>7, SessionMoves

LEMMA RunStep ==
  ASSUME Images!IInv, NEW s \in Holder, Images!Run(s)
  PROVE  Images!IInv'
<1> DEFINE runs == /\ sessions[s].next \in docker
                   /\ sessions[s].next = Images!Stock => sessions[s].runtime = "cloak"
           c == IF runs THEN sessions[s].next ELSE Images!NoContainer
           x == [sessions[s] EXCEPT !.at = "made", !.next = Images!Stock, !.container = c]
<1>1. /\ sessions' = [sessions EXCEPT ![s] = x] /\ sessions[s].at = "start"
      /\ UNCHANGED <<rows, docker, builds, requests, overtaken>>
  BY DEF Images!Run
<1>2. sessions[s] \in Images!SessionRow
  BY DEF Images!IInv, Images!TypeOK
<1>3. /\ c \in Images!Image \cup {Images!Stock, Images!NoContainer}
      /\ c \in {Images!NoContainer, sessions[s].next}
  BY <1>2 DEF Images!SessionRow
<1> HIDE DEF c
<1>4. /\ x \in Images!SessionRow /\ x.at = "made" /\ x.image = sessions[s].image
      /\ x.runtime = sessions[s].runtime /\ x.version = sessions[s].version
      /\ x.container = c
  BY <1>2, <1>3 DEF Images!SessionRow
<1> HIDE DEF x
<1>5. sessions'[s] = x
  BY <1>1 DEF Images!IInv, Images!TypeOK
<1>6. Images!SessionRight(s)
  BY DEF Images!IInv
<1>7. Images!SessionRight(s)'
  BY <1>1, <1>3, <1>4, <1>5, <1>6 DEF Images!SessionRight
<1> QED
  BY <1>1, <1>4, <1>7, SessionMoves

\* A deletion that has seen a session forgets it when it goes: the next of its name is another.
LEMMA DeleteSessionStep ==
  ASSUME Images!IInv, NEW s \in Holder, Images!DeleteSession(s)
  PROVE  Images!IInv'
<1>1. /\ sessions' = [sessions EXCEPT ![s] = Images!NoSession]
      /\ requests' = [a \in Admin |-> [requests[a] EXCEPT !.seen = @ \ {s}]]
      /\ UNCHANGED <<rows, docker, builds, overtaken>> /\ Images!TypeOK
  BY DEF Images!DeleteSession, Images!IInv
<1>2. /\ sessions' \in [Holder -> Images!SessionRow] /\ sessions'[s].at = "none"
      /\ \A q \in Holder : q # s => sessions'[q] = sessions[q]
  BY <1>1, ImageNothings DEF Images!TypeOK
<1>3. /\ requests' \in [Admin -> Images!Request]
      /\ \A a \in Admin :
           /\ requests'[a].at = requests[a].at /\ requests'[a].image = requests[a].image
           /\ requests'[a].runtime = requests[a].runtime
           /\ requests'[a].seen = requests[a].seen \ {s}
  <2>1. ASSUME NEW a \in Admin
        PROVE  LET r == [requests[a] EXCEPT !.seen = @ \ {s}] IN
               /\ r \in Images!Request
               /\ r.at = requests[a].at /\ r.image = requests[a].image
               /\ r.runtime = requests[a].runtime /\ r.seen = requests[a].seen \ {s}
    <3>1. requests[a] \in Images!Request
      BY <1>1 DEF Images!TypeOK
    <3> QED
      BY <3>1 DEF Images!Request
  <2> QED
    BY <1>1, <2>1
<1>4. Images!TypeOK'
  BY <1>1, <1>2, <1>3 DEF Images!TypeOK
<1>5. \A i \in Images!Image : Images!RowsRight(i)'
  BY <1>1, RowsStand DEF Images!IInv
<1>6. Images!OneReadyPerVersion'
  BY <1>1, OneStands DEF Images!IInv
<1>7. ASSUME NEW a \in Admin PROVE Images!DeletionRight(a)'
  <2>1. Images!DeletionRight(a)
    BY DEF Images!IInv
  <2>2. requests[a].seen \subseteq Holder
    BY <1>1 DEF Images!TypeOK, Images!Request
  <2> QED
    BY <1>1, <1>2, <1>3, <2>1, <2>2 DEF Images!DeletionRight, Images!Made
<1>8. ASSUME NEW q \in Holder PROVE Images!SessionRight(q)'
  <2>1. CASE q = s
    BY <1>2, <2>1 DEF Images!SessionRight
  <2>2. CASE q # s
    <3>1. Images!SessionRight(q) /\ sessions'[q] = sessions[q]
      BY <1>2, <2>2 DEF Images!IInv
    <3> QED
      BY <1>1, <3>1 DEF Images!SessionRight
  <2> QED
    BY <2>1, <2>2
<1> QED
  BY <1>4, <1>5, <1>6, <1>7, <1>8 DEF Images!IInv
-----------------------------------------------------------------------------
(* Requests that ask and delete. *)

\* A request gets another place, with what goes with it.
LEMMA RequestMoves ==
  ASSUME Images!IInv, UNCHANGED <<rows, builds, docker, sessions, overtaken>>,
         NEW a \in Admin, NEW r \in Images!Request, requests' = [requests EXCEPT ![a] = r],
         r.at \in {"idle", "base", "insert", "count"} \/ Images!DeletionRight(a)'
  PROVE  Images!IInv'
<1>1. /\ requests' \in [Admin -> Images!Request] /\ requests'[a] = r
      /\ \A b \in Admin : b # a => requests'[b] = requests[b]
  BY DEF Images!IInv, Images!TypeOK
<1>2. ASSUME NEW b \in Admin PROVE Images!DeletionRight(b)'
  <2>1. CASE b = a
    BY <1>1, <2>1 DEF Images!DeletionRight
  <2>2. CASE b # a
    <3>1. Images!DeletionRight(b) /\ requests'[b] = requests[b]
      BY <1>1, <2>2 DEF Images!IInv
    <3> QED
      BY <3>1 DEF Images!DeletionRight, Images!Made
  <2> QED
    BY <2>1, <2>2
<1> QED
  BY <1>1, <1>2, RowsAlone

LEMMA AskBuildStep ==
  ASSUME Images!IInv, NEW a \in Admin, NEW ask \in Version, Images!AskBuild(a, ask)
  PROVE  Images!IInv'
<1> DEFINE r == [requests[a] EXCEPT !.at = "base", !.base = ask]
<1>1. requests' = [requests EXCEPT ![a] = r] /\ UNCHANGED <<rows, docker, builds, sessions, overtaken>>
  BY DEF Images!AskBuild
<1>2. requests[a] \in Images!Request /\ ask \in Images!Known
  BY KnownVersions DEF Images!IInv, Images!TypeOK
<1>3. r \in Images!Request /\ r.at = "base"
  BY <1>2 DEF Images!Request
<1> HIDE DEF r
<1> QED
  BY <1>1, <1>3, RequestMoves

LEMMA CheckBaseStep ==
  ASSUME Images!IInv, NEW a \in Admin, Images!CheckBase(a)
  PROVE  Images!IInv'
<1> DEFINE busy == {i \in Images!Of("standard") : rows[i].status \in {"pending", "building"}
                                              /\ rows[i].base = requests[a].base}
           r == IF busy = {} THEN [requests[a] EXCEPT !.at = "insert"] ELSE Images!Idle
<1>1. UNCHANGED <<rows, docker, builds, sessions, overtaken>>
  BY DEF Images!CheckBase
<1>2. requests' = [requests EXCEPT ![a] = r]
  BY DEF Images!CheckBase
<1>3. requests[a] \in Images!Request
  BY DEF Images!IInv, Images!TypeOK
<1> HIDE DEF busy
<1>4. r \in Images!Request /\ r.at \in {"insert", "idle"}
  BY <1>3, ImageNothings DEF Images!Request
<1> HIDE DEF r
<1> QED
  BY <1>1, <1>2, <1>4, RequestMoves

LEMMA MadeIn == Images!Made \subseteq Holder
BY DEF Images!Made

\* Without a version the row is of a build that has not ended: no session has it.
LEMMA DeleteStep ==
  ASSUME Images!IInv, NEW a \in Admin, NEW i \in Images!Image \cup {Images!Stock}, Images!Delete(a, i)
  PROVE  Images!IInv'
<1> DEFINE counts == i = Images!Stock \/ rows[i].runtime = "cloak" \/ rows[i].version # Images!NoVersion
           at == IF counts THEN "count" ELSE "drop"
           runtime == IF i = Images!Stock THEN "cloak" ELSE rows[i].runtime
           v == IF i = Images!Stock THEN Images!NoVersion ELSE rows[i].version
           r == [Images!Idle EXCEPT !.at = at, !.image = i, !.seen = Images!Made,
                                    !.runtime = runtime, !.version = v]
<1>1. /\ UNCHANGED <<rows, docker, builds, sessions, overtaken>> /\ Images!TypeOK
      /\ i # Images!Stock => rows[i].status \notin {"none", "deleted"}
  BY DEF Images!Delete, Images!IInv
<1>2. requests' = [requests EXCEPT ![a] = r]
  BY DEF Images!Delete
<1>3. /\ at \in {"count", "drop"} /\ runtime \in Images!Runtime /\ v \in Images!Known
      /\ at = "drop" => i # Images!Stock /\ rows[i].runtime = "standard" /\ rows[i].version = Images!NoVersion
  BY <1>1, KnownVersions DEF Images!TypeOK, Images!Row, Images!Runtime
<1> HIDE DEF at, runtime, v
<1>4. /\ r \in Images!Request /\ r.at = at /\ r.image = i /\ r.seen = Images!Made
      /\ r.runtime = runtime
  BY <1>3, ImageNothings, MadeIn DEF Images!Request, Images!Idle
<1> HIDE DEF r
<1>5. requests'[a] = r
  BY <1>1, <1>2 DEF Images!TypeOK
<1>6. ASSUME at = "drop" PROVE Images!DeletionRight(a)'
  <2>1. rows[i].status # "ready"
    BY <1>3, <1>6 DEF Images!IInv, Images!RowsRight
  <2>2. \A s \in Images!Made : sessions[s].image # i
    <3>1. \A s \in Images!Made : s \in Holder /\ sessions[s].at # "none"
      BY DEF Images!Made
    <3> QED
      BY <1>1, <1>3, <1>6, <2>1, <3>1 DEF Images!IInv, Images!SessionRight
  <2> QED
    BY <1>1, <1>3, <1>4, <1>5, <1>6, <2>2 DEF Images!DeletionRight, Images!Made
<1> QED
  BY <1>1, <1>2, <1>3, <1>4, <1>6, RequestMoves

LEMMA CountStep ==
  ASSUME Images!IInv, NEW a \in Admin, Images!Count(a)
  PROVE  Images!IInv'
<1> DEFINE at == IF requests[a].image = Images!Stock THEN "rmi" ELSE "drop"
           r == IF Images!Users(a) # {} THEN Images!Idle
                ELSE [requests[a] EXCEPT !.at = at, !.seen = Images!Made]
<1>1. /\ UNCHANGED <<rows, docker, builds, sessions, overtaken>> /\ Images!TypeOK
      /\ requests[a].at = "count" /\ requests[a] \in Images!Request
  BY DEF Images!Count, Images!IInv, Images!TypeOK
<1>2. requests' = [requests EXCEPT ![a] = r]
  BY DEF Images!Count
<1>3. CASE Images!Users(a) # {}
  <2>1. r = Images!Idle
    BY <1>3
  <2> HIDE DEF r
  <2> QED
    BY <1>1, <1>2, <2>1, ImageNothings, RequestMoves
<1>4. CASE Images!Users(a) = {}
  <2>1. at \in {"rmi", "drop"} /\ (at = "rmi" <=> requests[a].image = Images!Stock)
    OBVIOUS
  <2> HIDE DEF at
  <2>2. /\ r \in Images!Request /\ r.at = at /\ r.image = requests[a].image /\ r.seen = Images!Made
    BY <1>1, <1>4, <2>1, MadeIn DEF Images!Request
  <2> HIDE DEF r
  <2>3. requests'[a] = r
    BY <1>1, <1>2 DEF Images!TypeOK
  <2>4. requests[a].image # Images!Stock => \A s \in Images!Made : sessions[s].image # requests[a].image
    BY <1>4 DEF Images!Users
  <2>5. Images!DeletionRight(a)'
    BY <1>1, <2>1, <2>2, <2>3, <2>4 DEF Images!DeletionRight, Images!Made
  <2> QED
    BY <1>1, <1>2, <2>1, <2>2, <2>5, RequestMoves
<1> QED
  BY <1>3, <1>4

\* The sessions that have the image were not seen: they are overtaken.
LEMMA DropRowStep ==
  ASSUME Images!IInv, NEW a \in Admin, Images!DropRow(a)
  PROVE  Images!IInv'
<1> DEFINE i == requests[a].image
           r == [requests[a] EXCEPT !.at = "rmi"]
           row == [rows[i] EXCEPT !.status = "deleted"]
<1>1. /\ rows' = [rows EXCEPT ![i] = row] /\ requests' = [requests EXCEPT ![a] = r]
      /\ requests[a].at = "drop" /\ overtaken' = Images!Overtaken(a)
      /\ UNCHANGED <<docker, builds, sessions>> /\ Images!TypeOK
  BY DEF Images!DropRow, Images!IInv
<1>2. /\ requests[a] \in Images!Request /\ i \in Images!Image
      /\ \A s \in requests[a].seen : s \in Images!Made /\ sessions[s].image # i
  BY <1>1 DEF Images!IInv, Images!TypeOK, Images!Request, Images!DeletionRight
<1>3. r \in Images!Request /\ r.at = "rmi" /\ r.image = i
  BY <1>2 DEF Images!Request
<1>4. /\ row \in Images!Row /\ row.status = "deleted" /\ row.runtime = rows[i].runtime
      /\ row.version = rows[i].version
  BY <1>1, <1>2 DEF Images!TypeOK, Images!Row
<1> HIDE DEF r, row
<1>5. /\ rows' \in [Images!Image -> Images!Row] /\ rows'[i] = row
      /\ \A j \in Images!Image : j # i => rows'[j] = rows[j]
  BY <1>1, <1>2, <1>4 DEF Images!TypeOK
<1>6. /\ requests' \in [Admin -> Images!Request] /\ requests'[a] = r
      /\ \A b \in Admin : b # a => requests'[b] = requests[b]
  BY <1>1, <1>3 DEF Images!TypeOK
<1>7. /\ overtaken' \subseteq Holder /\ overtaken \subseteq overtaken'
      /\ \A s \in Holder : sessions[s].at # "none" /\ sessions[s].image = i => s \in overtaken'
  BY <1>1, <1>2 DEF Images!Overtaken, Images!TypeOK
<1>8. Images!TypeOK'
  BY <1>1, <1>5, <1>6, <1>7 DEF Images!TypeOK
<1>9. ASSUME NEW j \in Images!Image PROVE Images!RowsRight(j)'
  <2>1. Images!RowsRight(j)
    BY DEF Images!IInv
  <2> QED
    BY <1>1, <1>4, <1>5, <2>1, Zenon DEF Images!RowsRight
<1>10. Images!OneReadyPerVersion'
  BY <1>4, <1>5 DEF Images!IInv, Images!OneReadyPerVersion, Images!Ready, Images!Of
<1>11. ASSUME NEW b \in Admin PROVE Images!DeletionRight(b)'
  <2>1. CASE b = a
    BY <1>2, <1>3, <1>4, <1>5, <1>6, <2>1 DEF Images!DeletionRight
  <2>2. CASE b # a
    <3>1. Images!DeletionRight(b) /\ requests'[b] = requests[b]
      BY <1>6, <2>2 DEF Images!IInv
    <3>2. requests[b].image \in Images!Image \cup {Images!Stock}
      BY <1>1 DEF Images!TypeOK, Images!Request
    <3> QED
      BY <1>1, <1>4, <1>5, <3>1, <3>2 DEF Images!DeletionRight, Images!Made
  <2> QED
    BY <2>1, <2>2
<1>12. \A s \in Holder : Images!SessionRight(s)'
  <2>1. ASSUME NEW j \in Images!Image
        PROVE  rows[j].status \in {"ready", "deleted"} =>
                 /\ rows'[j].runtime = rows[j].runtime /\ rows'[j].version = rows[j].version
                 /\ rows'[j].status \in {"ready", "deleted"}
    BY <1>4, <1>5
  <2>2. ASSUME NEW s \in Holder, sessions[s].at # "none", sessions[s].image # Images!Stock
        PROVE  \/ s \in overtaken'
               \/ rows[sessions[s].image].status # "ready"
               \/ rows'[sessions[s].image].status = "ready"
    <3>1. sessions[s].image \in Images!Image
      BY <1>1, <2>2 DEF Images!TypeOK, Images!SessionRow
    <3> QED
      BY <1>5, <1>7, <2>2, <3>1
  <2> QED
    BY <1>1, <1>7, <2>1, <2>2, SessionsStand DEF Images!IInv
<1> QED
  BY <1>8, <1>9, <1>10, <1>11, <1>12 DEF Images!IInv

LEMMA RmiDeletedStep ==
  ASSUME Images!IInv, NEW a \in Admin, Images!RmiDeleted(a)
  PROVE  Images!IInv'
<1> DEFINE i == requests[a].image
<1>1. /\ requests' = [requests EXCEPT ![a] = Images!Idle] /\ requests[a].at = "rmi"
      /\ UNCHANGED <<rows, builds, sessions>> /\ Images!TypeOK /\ Images!Rmi(i)
      /\ overtaken' = IF i = Images!Stock THEN Images!Overtaken(a) ELSE overtaken
  BY DEF Images!RmiDeleted, Images!IInv
<1>2. docker' \subseteq docker /\ docker \ {i} \subseteq docker'
  BY <1>1 DEF Images!Rmi
<1>3. overtaken' \subseteq Holder /\ overtaken \subseteq overtaken'
  BY <1>1 DEF Images!Overtaken, Images!TypeOK
<1>4. /\ requests' \in [Admin -> Images!Request] /\ requests'[a] = Images!Idle
      /\ \A b \in Admin : b # a => requests'[b] = requests[b]
  BY <1>1, ImageNothings DEF Images!TypeOK
<1>5. Images!TypeOK'
  BY <1>1, <1>2, <1>3, <1>4 DEF Images!TypeOK
<1>6. i \in Images!Image => rows[i].status = "deleted"
  BY <1>1, StockIsNone DEF Images!IInv, Images!DeletionRight
<1>7. \A j \in Images!Image : Images!RowsRight(j)'
  <2>1. ASSUME NEW j \in Images!Image,
               \/ rows[j].status = "ready"
               \/ builds[j].at = "record" /\ rows[j].status # "deleted"
        PROVE  j \in docker => j \in docker'
    BY <1>2, <1>6, <2>1
  <2> QED
    BY <1>1, <2>1, RowsStand DEF Images!IInv
<1>8. Images!OneReadyPerVersion'
  BY <1>1, OneStands DEF Images!IInv
<1>9. \A b \in Admin : Images!DeletionRight(b)'
  BY <1>1, <1>4, DeletionsStand DEF Images!IInv
<1>10. \A s \in Holder : Images!SessionRight(s)'
  BY <1>1, <1>3, SessionsStand DEF Images!IInv
<1> QED
  BY <1>5, <1>7, <1>8, <1>9, <1>10 DEF Images!IInv
-----------------------------------------------------------------------------
(* Builds. *)

\* A statement on a row, of what a build is about.
LEMMA SetFacts ==
  ASSUME Images!TypeOK, NEW i \in Images!Image, NEW v \in Images!Known,
         NEW status \in {"building", "ready", "failed"}, Images!Set(i, status, v)
  PROVE  /\ rows' \in [Images!Image -> Images!Row]
         /\ \A j \in Images!Image : j # i => rows'[j] = rows[j]
         /\ rows'[i].runtime = rows[i].runtime /\ rows'[i].base = rows[i].base
         /\ rows[i].status = "deleted" => rows'[i] = rows[i]
         /\ rows[i].status # "deleted" => rows'[i].status = status /\ rows'[i].version = v
<1> DEFINE row == [rows[i] EXCEPT !.status = status, !.version = v]
<1>1. rows[i] \in Images!Row
  BY DEF Images!TypeOK
<1>2. /\ row \in Images!Row /\ row.runtime = rows[i].runtime /\ row.base = rows[i].base
      /\ row.status = status /\ row.version = v
  BY <1>1 DEF Images!Row
<1>3. rows' = IF rows[i].status = "deleted" THEN rows ELSE [rows EXCEPT ![i] = row]
  BY DEF Images!Set
<1> HIDE DEF row
<1> QED
  BY <1>2, <1>3 DEF Images!TypeOK

\* A step of a build on a row that is not ready and, unless it makes it so, does
\* not become it.
LEMMA BuildMoves ==
  ASSUME Images!IInv, UNCHANGED <<sessions, overtaken>>, requests' \in [Admin -> Images!Request],
         \A a \in Admin : requests'[a] = requests[a] \/ requests'[a] = Images!Idle,
         docker' \subseteq Images!Image \cup {Images!Stock},
         NEW i \in Images!Image, NEW b \in Images!Building, builds' = [builds EXCEPT ![i] = b],
         rows' \in [Images!Image -> Images!Row],
         \A j \in Images!Image : j # i => rows'[j] = rows[j] /\ (j \in docker => j \in docker'),
         rows[i].status # "ready", rows[i].status = "deleted" => rows'[i] = rows[i],
         rows'[i].status = "ready" /\ rows'[i].runtime = "standard" =>
           \A j \in Images!ReadyAs(rows'[i].version) : j = i,
         Images!RowsRight(i)'
  PROVE  Images!IInv'
<1>1. /\ builds' \in [Images!Image -> Images!Building]
      /\ \A j \in Images!Image : j # i => builds'[j] = builds[j]
  BY DEF Images!IInv, Images!TypeOK
<1>2. Images!TypeOK'
  BY <1>1 DEF Images!IInv, Images!TypeOK
<1>3. ASSUME NEW j \in Images!Image PROVE Images!RowsRight(j)'
  <2>1. CASE j # i
    <3>1. Images!RowsRight(j)
      BY DEF Images!IInv
    <3> QED
      BY <1>1, <2>1, <3>1 DEF Images!RowsRight
  <2>2. CASE j = i
    BY <2>2
  <2> QED
    BY <2>1, <2>2
<1>4. Images!OneReadyPerVersion'
  <2> SUFFICES ASSUME NEW j \in Images!Image, NEW k \in Images!Image,
                      rows'[j].status = "ready", rows'[j].runtime = "standard",
                      rows'[k].status = "ready", rows'[k].runtime = "standard",
                      rows'[j].version = rows'[k].version
               PROVE  j = k
    BY DEF Images!OneReadyPerVersion, Images!Ready, Images!Of
  <2>1. CASE j # i /\ k # i
    BY <2>1, ReadyFacts DEF Images!IInv, Images!OneReadyPerVersion
  <2>2. CASE j = i /\ k # i
    BY <2>2, ReadyFacts
  <2>3. CASE j # i /\ k = i
    BY <2>3, ReadyFacts
  <2> QED
    BY <2>1, <2>2, <2>3
<1>5. \A a \in Admin : Images!DeletionRight(a)'
  <2>1. \A j \in Images!Image : rows[j].status = "deleted" => rows'[j].status = "deleted"
    OBVIOUS
  <2> QED
    BY <2>1, DeletionsStand DEF Images!IInv
<1>6. \A s \in Holder : Images!SessionRight(s)'
  <2>1. \A j \in Images!Image : rows[j].status \in {"ready", "deleted"} => rows'[j] = rows[j]
    OBVIOUS
  <2>2. \A s \in Holder : sessions[s].image \in Images!Image \cup {Images!Stock}
    BY DEF Images!IInv, Images!TypeOK, Images!SessionRow
  <2>3. ASSUME NEW s \in Holder, sessions[s].at # "none", sessions[s].image # Images!Stock
        PROVE  \/ rows[sessions[s].image].status # "ready"
               \/ rows'[sessions[s].image].status = "ready"
    BY <2>1, <2>2, <2>3
  <2>4. \A j \in Images!Image : rows[j].status \in {"ready", "deleted"} =>
          /\ rows'[j].runtime = rows[j].runtime /\ rows'[j].version = rows[j].version
          /\ rows'[j].status \in {"ready", "deleted"}
    BY <2>1
  <2> QED
    BY <2>3, <2>4, SessionsStand DEF Images!IInv
<1> QED
  BY <1>2, <1>3, <1>4, <1>5, <1>6 DEF Images!IInv

LEMMA InsertStep ==
  ASSUME Images!IInv, NEW runtime \in Images!Runtime, NEW base \in Images!Known,
         Images!Insert(runtime, base), UNCHANGED <<docker, sessions, overtaken>>,
         requests' \in [Admin -> Images!Request],
         \A a \in Admin : requests'[a] = requests[a] \/ requests'[a] = Images!Idle
  PROVE  Images!IInv'
<1>1. PICK i \in Images!Image :
        /\ rows[i].status = "none"
        /\ rows' = [rows EXCEPT ![i] = [status |-> "pending", runtime |-> runtime, base |-> base,
                                        version |-> Images!NoVersion]]
        /\ builds' = [builds EXCEPT ![i].at = "start"]
  BY DEF Images!Insert
<1> DEFINE row == [status |-> "pending", runtime |-> runtime, base |-> base,
                   version |-> Images!NoVersion]
           b == [builds[i] EXCEPT !.at = "start"]
<1>2. Images!TypeOK
  BY DEF Images!IInv
<1>3. row \in Images!Row /\ row.status = "pending"
  BY KnownVersions DEF Images!Row
<1>4. rows' = [rows EXCEPT ![i] = row] /\ builds' = [builds EXCEPT ![i] = b]
  BY <1>1
<1>5. b \in Images!Building /\ b.at = "start"
  BY <1>2 DEF Images!TypeOK, Images!Building
<1> HIDE DEF row, b
<1>6. /\ rows' \in [Images!Image -> Images!Row] /\ rows'[i] = row /\ builds'[i] = b
      /\ \A j \in Images!Image : j # i => rows'[j] = rows[j]
  BY <1>2, <1>3, <1>4, <1>5 DEF Images!TypeOK
<1>7. Images!RowsRight(i)'
  BY <1>3, <1>5, <1>6 DEF Images!RowsRight
<1>8. docker' \subseteq Images!Image \cup {Images!Stock}
  BY <1>2 DEF Images!TypeOK
<1> QED
  BY <1>1, <1>3, <1>4, <1>5, <1>6, <1>7, <1>8, BuildMoves

LEMMA StartBuildStep ==
  ASSUME Images!IInv, NEW i \in Images!Image, Images!StartBuild(i)
  PROVE  Images!IInv'
<1> DEFINE b == [builds[i] EXCEPT !.at = "build"]
<1>1. /\ builds[i].at = "start" /\ Images!Set(i, "building", rows[i].version)
      /\ builds' = [builds EXCEPT ![i] = b]
      /\ UNCHANGED <<docker, requests, sessions, overtaken>>
  BY DEF Images!StartBuild, Images!Keep, Images!Task
<1>2. /\ Images!TypeOK /\ rows[i].version \in Images!Known
      /\ rows[i].status \in {"pending", "building", "deleted"}
  BY <1>1 DEF Images!IInv, Images!TypeOK, Images!Row, Images!RowsRight
<1>3. b \in Images!Building /\ b.at = "build"
  BY <1>2 DEF Images!TypeOK, Images!Building
<1> HIDE DEF b
<1>4. /\ rows' \in [Images!Image -> Images!Row]
      /\ \A j \in Images!Image : j # i => rows'[j] = rows[j]
      /\ rows[i].status = "deleted" => rows'[i] = rows[i]
      /\ rows'[i].status \in {"building", "deleted"} /\ builds'[i] = b
  BY <1>1, <1>2, <1>3, SetFacts DEF Images!TypeOK
<1>5. Images!RowsRight(i)'
  BY <1>3, <1>4 DEF Images!RowsRight
<1>6. docker' \subseteq Images!Image \cup {Images!Stock}
  BY <1>1, <1>2 DEF Images!TypeOK
<1> QED
  BY <1>1, <1>2, <1>3, <1>4, <1>5, <1>6, BuildMoves DEF Images!TypeOK

LEMMA BuildStep ==
  ASSUME Images!IInv, NEW i \in Images!Image, NEW v \in Images!Known, Images!Build(i, v)
  PROVE  Images!IInv'
<1> DEFINE b == [at |-> "record", version |-> v]
<1>1. /\ builds[i].at = "build" /\ docker' = docker \cup {i} /\ builds' = [builds EXCEPT ![i] = b]
      /\ rows[i].runtime # "cloak" => v # Images!NoVersion
      /\ UNCHANGED <<rows, requests, sessions, overtaken>>
  BY DEF Images!Build
<1>2. Images!TypeOK /\ rows[i].status \in {"pending", "building", "deleted"}
  BY <1>1 DEF Images!IInv, Images!RowsRight
<1>3. b \in Images!Building /\ b.at = "record" /\ b.version = v
  BY DEF Images!Building
<1> HIDE DEF b
<1>4. builds'[i] = b /\ docker' \subseteq Images!Image \cup {Images!Stock} /\ i \in docker'
  BY <1>1, <1>2 DEF Images!TypeOK
<1>5. Images!RowsRight(i)'
  BY <1>1, <1>2, <1>3, <1>4 DEF Images!RowsRight
<1>6. rows' \in [Images!Image -> Images!Row]
  BY <1>1, <1>2 DEF Images!TypeOK
<1> QED
  BY <1>1, <1>2, <1>3, <1>4, <1>5, <1>6, BuildMoves DEF Images!TypeOK

LEMMA BuildFailsStep ==
  ASSUME Images!IInv, NEW i \in Images!Image, Images!BuildFails(i)
  PROVE  Images!IInv'
<1>1. /\ builds[i].at = "build" /\ Images!Set(i, "failed", rows[i].version)
      /\ builds' = [builds EXCEPT ![i] = Images!NoTask]
      /\ UNCHANGED <<docker, requests, sessions, overtaken>>
  BY DEF Images!BuildFails, Images!Keep, Images!End
<1>2. /\ Images!TypeOK /\ rows[i].version \in Images!Known
      /\ rows[i].status \in {"pending", "building", "deleted"}
  BY <1>1 DEF Images!IInv, Images!TypeOK, Images!Row, Images!RowsRight
<1>3. /\ rows' \in [Images!Image -> Images!Row]
      /\ \A j \in Images!Image : j # i => rows'[j] = rows[j]
      /\ rows[i].status = "deleted" => rows'[i] = rows[i]
      /\ rows'[i].status \in {"failed", "deleted"} /\ builds'[i] = Images!NoTask
  BY <1>1, <1>2, SetFacts DEF Images!TypeOK
<1>4. Images!RowsRight(i)'
  BY <1>3, ImageNothings DEF Images!RowsRight
<1>5. docker' \subseteq Images!Image \cup {Images!Stock}
  BY <1>1, <1>2 DEF Images!TypeOK
<1> QED
  BY <1>1, <1>2, <1>3, <1>4, <1>5, ImageNothings, BuildMoves DEF Images!TypeOK

\* What was found is recorded when no other image of it is ready.
LEMMA RecordStep ==
  ASSUME Images!IInv, NEW i \in Images!Image, Images!Record(i)
  PROVE  Images!IInv'
<1> DEFINE v == builds[i].version
           fails == /\ rows[i].runtime # "cloak"
                    /\ v[1] # rows[i].base[1] \/ Images!Duplicates(i) # {}
<1>1. builds[i].at = "record" /\ UNCHANGED <<docker, requests, sessions, overtaken>>
  BY DEF Images!Record
<1>2. /\ Images!TypeOK /\ rows[i].version \in Images!Known /\ v \in Images!Known
      /\ rows[i].runtime \in {"standard", "cloak"}
      /\ rows[i].status \in {"pending", "building", "deleted"}
      /\ rows[i].status # "deleted" => i \in docker
      /\ rows[i].runtime = "standard" => v # Images!NoVersion
  BY <1>1 DEF Images!IInv, Images!TypeOK, Images!Row, Images!Building, Images!Runtime, Images!RowsRight
<1>3. docker' \subseteq Images!Image \cup {Images!Stock}
  BY <1>1, <1>2 DEF Images!TypeOK
<1>4. CASE fails
  <2> DEFINE b == [builds[i] EXCEPT !.at = "rmi"]
  <2>1. Images!Set(i, "failed", rows[i].version) /\ builds' = [builds EXCEPT ![i] = b]
    BY <1>4 DEF Images!Record, Images!Keep, Images!Task
  <2>2. b \in Images!Building /\ b.at = "rmi"
    BY <1>2 DEF Images!TypeOK, Images!Building
  <2> HIDE DEF b
  <2>3. /\ rows' \in [Images!Image -> Images!Row]
        /\ \A j \in Images!Image : j # i => rows'[j] = rows[j]
        /\ rows[i].status = "deleted" => rows'[i] = rows[i]
        /\ rows'[i].status \in {"failed", "deleted"} /\ builds'[i] = b
    BY <1>2, <2>1, SetFacts DEF Images!TypeOK
  <2>4. Images!RowsRight(i)'
    BY <2>2, <2>3 DEF Images!RowsRight
  <2> QED
    BY <1>1, <1>2, <1>3, <2>1, <2>2, <2>3, <2>4, BuildMoves DEF Images!TypeOK
<1>5. CASE ~fails
  <2>1. Images!Set(i, "ready", v) /\ builds' = [builds EXCEPT ![i] = Images!NoTask]
    BY <1>5 DEF Images!Record, Images!End
  <2>2. rows[i].runtime = "standard" => v[1] = rows[i].base[1] /\ Images!ReadyAs(v) \subseteq {i}
    BY <1>5 DEF Images!Duplicates
  <2> HIDE DEF v, fails
  <2>3. /\ rows' \in [Images!Image -> Images!Row]
        /\ \A j \in Images!Image : j # i => rows'[j] = rows[j]
        /\ rows'[i].runtime = rows[i].runtime /\ rows'[i].base = rows[i].base
        /\ rows[i].status = "deleted" => rows'[i] = rows[i]
        /\ rows[i].status # "deleted" => rows'[i].status = "ready" /\ rows'[i].version = v
        /\ builds'[i] = Images!NoTask
    BY <1>2, <2>1, SetFacts DEF Images!TypeOK
  <2>4. Images!RowsRight(i)'
    BY <1>1, <1>2, <2>2, <2>3, ImageNothings DEF Images!RowsRight
  <2>5. rows'[i].status = "ready" /\ rows'[i].runtime = "standard" =>
          \A j \in Images!ReadyAs(rows'[i].version) : j = i
    BY <1>2, <2>2, <2>3
  <2> QED
    BY <1>1, <1>2, <1>3, <2>1, <2>3, <2>4, <2>5, ImageNothings, BuildMoves DEF Images!TypeOK
<1> QED
  BY <1>4, <1>5

LEMMA DropBuiltStep ==
  ASSUME Images!IInv, NEW i \in Images!Image, Images!DropBuilt(i)
  PROVE  Images!IInv'
<1>1. /\ builds[i].at = "rmi" /\ Images!Rmi(i) /\ builds' = [builds EXCEPT ![i] = Images!NoTask]
      /\ UNCHANGED <<rows, requests, sessions, overtaken>>
  BY DEF Images!DropBuilt, Images!End
<1>2. Images!TypeOK /\ rows[i].status \in {"failed", "deleted"}
  BY <1>1 DEF Images!IInv, Images!RowsRight
<1>3. docker' \subseteq docker /\ docker \ {i} \subseteq docker'
  BY <1>1 DEF Images!Rmi
<1>4. /\ docker' \subseteq Images!Image \cup {Images!Stock} /\ rows' \in [Images!Image -> Images!Row]
      /\ builds'[i] = Images!NoTask
  BY <1>1, <1>2, <1>3 DEF Images!TypeOK
<1>5. Images!RowsRight(i)'
  BY <1>1, <1>2, <1>4, ImageNothings DEF Images!RowsRight
<1> QED
  BY <1>1, <1>2, <1>3, <1>4, <1>5, ImageNothings, BuildMoves DEF Images!TypeOK
\* The backend stops and starts again: tasks and requests end, sessions that were not
\* made are gone, the others have no start under way.
LEMMA RestartStep == Images!IInv /\ Images!Restart => Images!IInv'
<1> SUFFICES ASSUME Images!IInv, Images!Restart PROVE Images!IInv'
  OBVIOUS
<1>1. /\ builds' = [i \in Images!Image |-> Images!NoTask]
      /\ requests' = [a \in Admin |-> Images!Idle]
      /\ UNCHANGED <<rows, docker, overtaken>> /\ Images!TypeOK
  BY DEF Images!Restart, Images!IInv
<1>2. ASSUME NEW s \in Holder
      PROVE  /\ sessions'[s] \in Images!SessionRow
             /\ \/ sessions'[s] = Images!NoSession
                \/ /\ sessions[s].at # "none" /\ sessions'[s].at = "made"
                   /\ sessions'[s].image = sessions[s].image
                   /\ sessions'[s].runtime = sessions[s].runtime
                   /\ sessions'[s].version = sessions[s].version
                   /\ sessions'[s].container = sessions[s].container
  <2> DEFINE x == [sessions[s] EXCEPT !.at = "made", !.next = Images!Stock]
  <2>1. sessions[s] \in Images!SessionRow
    BY <1>1 DEF Images!TypeOK
  <2>2. /\ x \in Images!SessionRow /\ x.at = "made" /\ x.image = sessions[s].image
        /\ x.runtime = sessions[s].runtime /\ x.version = sessions[s].version
        /\ x.container = sessions[s].container
    BY <2>1 DEF Images!SessionRow
  <2>3. sessions'[s] = Images!NoSession \/ (sessions[s].at # "none" /\ sessions'[s] = x)
    BY DEF Images!Restart
  <2> HIDE DEF x
  <2> QED
    BY <2>2, <2>3, ImageNothings
<1>3. sessions' \in [Holder -> Images!SessionRow]
  <2>1. \A s \in Holder : sessions'[s] \in Images!SessionRow
    BY <1>2
  <2> QED
    BY <2>1 DEF Images!Restart
<1>4. Images!TypeOK'
  BY <1>1, <1>3, ImageNothings DEF Images!TypeOK
<1>5. \A i \in Images!Image : Images!RowsRight(i)'
  BY <1>1, ImageNothings DEF Images!IInv, Images!RowsRight
<1>6. Images!OneReadyPerVersion'
  BY <1>1, OneStands DEF Images!IInv
<1>7. \A a \in Admin : Images!DeletionRight(a)'
  BY <1>1, ImageNothings DEF Images!DeletionRight
<1>8. ASSUME NEW s \in Holder PROVE Images!SessionRight(s)'
  <2>1. Images!SessionRight(s)
    BY DEF Images!IInv
  <2>2. CASE sessions'[s] = Images!NoSession
    BY <2>2, ImageNothings DEF Images!SessionRight
  <2>3. CASE sessions'[s] # Images!NoSession
    BY <1>1, <1>2, <2>1, <2>3 DEF Images!SessionRight
  <2> QED
    BY <2>2, <2>3
<1> QED
  BY <1>4, <1>5, <1>6, <1>7, <1>8 DEF Images!IInv
-----------------------------------------------------------------------------
LEMMA ImagesInit == Images!Init => Images!IInv
<1> SUFFICES ASSUME Images!Init PROVE Images!IInv
  OBVIOUS
<1>1. /\ rows = [i \in Images!Image |-> Images!NoRow] /\ docker \subseteq {Images!Stock}
      /\ builds = [i \in Images!Image |-> Images!NoTask]
      /\ requests = [a \in Admin |-> Images!Idle]
      /\ sessions = [s \in Holder |-> Images!NoSession] /\ overtaken = {}
  BY DEF Images!Init
<1>2. Images!TypeOK
  BY <1>1, ImageNothings DEF Images!TypeOK
<1>3. \A i \in Images!Image : Images!RowsRight(i)
  BY <1>1, ImageNothings DEF Images!RowsRight
<1>4. Images!OneReadyPerVersion
  BY <1>1, ImageNothings DEF Images!OneReadyPerVersion, Images!Ready, Images!Of
<1>5. /\ \A a \in Admin : Images!DeletionRight(a)
      /\ \A s \in Holder : Images!SessionRight(s)
  BY <1>1, ImageNothings DEF Images!DeletionRight, Images!SessionRight
<1> QED
  BY <1>2, <1>3, <1>4, <1>5 DEF Images!IInv

LEMMA AdminStep ==
  ASSUME Images!IInv, NEW a \in Admin,
         \/ \E ask \in Version : Images!AskBuild(a, ask)
         \/ \E i \in Images!Image \cup {Images!Stock} : Images!Delete(a, i)
         \/ Images!CheckBase(a) \/ Images!InsertBuild(a) \/ Images!AskCloak(a)
         \/ Images!Count(a) \/ Images!DropRow(a) \/ Images!RmiDeleted(a)
  PROVE  Images!IInv'
<1>1. CASE Images!InsertBuild(a)
  <2>1. /\ requests' = [requests EXCEPT ![a] = Images!Idle]
        /\ requests[a] \in Images!Request /\ Images!TypeOK
        /\ Images!Insert("standard", requests[a].base) /\ UNCHANGED <<docker, sessions, overtaken>>
    BY <1>1 DEF Images!InsertBuild, Images!IInv, Images!TypeOK
  <2>2. /\ requests' \in [Admin -> Images!Request]
        /\ \A b \in Admin : requests'[b] = requests[b] \/ requests'[b] = Images!Idle
    BY <2>1, ImageNothings DEF Images!TypeOK
  <2>3. requests[a].base \in Images!Known /\ "standard" \in Images!Runtime
    BY <2>1 DEF Images!Request, Images!Runtime
  <2> QED
    BY <2>1, <2>2, <2>3, InsertStep
<1>2. CASE Images!AskCloak(a)
  <2>1. /\ Images!Insert("cloak", Images!NoVersion) /\ "cloak" \in Images!Runtime
        /\ UNCHANGED <<docker, requests, sessions, overtaken>> /\ Images!TypeOK
    BY <1>2 DEF Images!AskCloak, Images!Runtime, Images!IInv
  <2> QED
    BY <2>1, KnownVersions, InsertStep DEF Images!TypeOK
<1> QED
  BY <1>1, <1>2, AskBuildStep, DeleteStep, CheckBaseStep, CountStep, DropRowStep, RmiDeletedStep

LEMMA ImagesStep == Images!IInv /\ Images!Next => Images!IInv'
<1> SUFFICES ASSUME Images!IInv, Images!Next PROVE Images!IInv'
  OBVIOUS
<1>1. ASSUME NEW i \in Images!Image,
             \/ Images!StartBuild(i) \/ Images!BuildFails(i) \/ Images!Record(i) \/ Images!DropBuilt(i)
             \/ \E v \in Version \cup {Images!NoVersion} \cup {<<rows[i].base[1], 0>>} : Images!Build(i, v)
      PROVE  Images!IInv'
  <2>1. rows[i].base \in Images!Known
    BY DEF Images!IInv, Images!TypeOK, Images!Row
  <2>2. Version \cup {Images!NoVersion} \cup {<<rows[i].base[1], 0>>} \subseteq Images!Known
    BY <2>1, KnownVersions
  <2> QED
    BY <1>1, <2>2, StartBuildStep, BuildFailsStep, RecordStep, DropBuiltStep, BuildStep
<1>2. ASSUME NEW s \in Holder,
             \/ \E ask \in Version \cup {Images!NoVersion} : Images!ResolveStandard(s, ask)
             \/ Images!ResolveCloak(s) \/ Images!Create(s) \/ Images!Start(s) \/ Images!Run(s)
             \/ Images!DeleteSession(s)
      PROVE  Images!IInv'
  BY <1>2, ResolveStandardStep, ResolveCloakStep, CreateStep, StartStep, RunStep, DeleteSessionStep
<1> QED
  BY <1>1, <1>2, AdminStep, RestartStep DEF Images!Next

LEMMA ImagesRest == Images!IInv /\ UNCHANGED Images!vars => Images!IInv'
<1> SUFFICES ASSUME Images!IInv, UNCHANGED <<rows, docker, builds, requests, sessions, overtaken>>
             PROVE  Images!IInv'
  BY DEF Images!vars
<1>1. requests' \in [Admin -> Images!Request] /\ \A a \in Admin : Images!DeletionRight(a)'
  BY DeletionsStand DEF Images!IInv, Images!TypeOK
<1> QED
  BY <1>1, RowsAlone

\* An image that is ready is in Docker, with the version of its row's major and no
\* other of the version; a deletion met no session of its image; a session has the
\* image and the version of a row that was ready, and still is unless a deletion has
\* overtaken it (routes/browser_images.py, routes/sessions.py, container.py).
THEOREM ImagesInvariant == MCSpec => [](Only("images") => Images!IInv)
<1>1. MCInit => (Only("images") => Images!IInv)
  BY ImagesInit DEF MCInit, Only
<1>2. (Only("images") => Images!IInv) /\ [MCNext]_<<which, vars, Others>> => (Only("images") => Images!IInv)'
  <2> SUFFICES ASSUME Only("images") => Images!IInv, [MCNext]_<<which, vars, Others>>, Only("images")'
               PROVE  Images!IInv'
    OBVIOUS
  <2>1. CASE MCNext
    <3>1. Only("images") /\ Images!Next
      BY <2>1 DEF MCNext, Only
    <3> QED
      BY <3>1, ImagesStep
  <2>2. CASE UNCHANGED <<which, vars, Others>>
    BY <2>2, ImagesRest DEF Only, Others, Images!vars
  <2> QED
    BY <2>1, <2>2
<1> QED
  BY <1>1, <1>2, PTL DEF MCSpec

\* One image at most is ready for a version, both lookups of a session's image find
\* the same one, and a session that no deletion has overtaken keeps the image of its
\* row, for any number of builds, deletions and sessions (_do_build, delete_image,
\* _resolve_session_image, _session_container_params).
THEOREM ImagesAgree == MCSpec => []ImagesHold
BY ImagesInvariant, ImagesConclusion, PTL DEF ImagesHold
-----------------------------------------------------------------------------
(* The agent: calls on its stack, and messages in its inbox.               *)

LEMMA FramesPush ==
  ASSUME NEW st \in Seq(Call), NEW g \in Call
  PROVE  /\ <<g>> \o st \in Seq(Call) /\ Frames(<<g>> \o st) = Frames(st) \cup {g}
         /\ BootIsLast(st) /\ (g.kind = "boot" => st = <<>>) => BootIsLast(<<g>> \o st)
<1> DEFINE u == <<g>> \o st
<1>1. /\ u \in Seq(Call) /\ Len(u) = Len(st) + 1 /\ u[1] = g
      /\ \A i \in 1..Len(st) : u[i + 1] = st[i]
      /\ \A i \in 2..Len(u) : i - 1 \in 1..Len(st) /\ u[i] = st[i - 1]
  OBVIOUS
<1>2. Len(st) \in Nat /\ DOMAIN u = 1..(Len(st) + 1) /\ DOMAIN st = 1..Len(st)
  BY <1>1
<1> HIDE DEF u
<1>3. Frames(u) = Frames(st) \cup {g}
  <2>1. ASSUME NEW i \in DOMAIN u PROVE u[i] \in Frames(st) \cup {g}
    <3>1. CASE i = 1
      BY <1>1, <3>1
    <3>2. CASE i # 1
      <4>1. i - 1 \in DOMAIN st /\ u[i] = st[i - 1]
        BY <1>1, <1>2, <3>2
      <4> QED
        BY <4>1 DEF Frames
    <3> QED
      BY <3>1, <3>2
  <2>2. ASSUME NEW i \in DOMAIN st PROVE st[i] \in Frames(u)
    <3>1. i + 1 \in DOMAIN u /\ u[i + 1] = st[i]
      BY <1>1, <1>2
    <3> QED
      BY <3>1 DEF Frames
  <2>3. g \in Frames(u)
    <3>1. 1 \in DOMAIN u /\ u[1] = g
      BY <1>1, <1>2
    <3> QED
      BY <3>1 DEF Frames
  <2> QED
    BY <2>1, <2>2, <2>3 DEF Frames
<1>4. ASSUME BootIsLast(st), g.kind = "boot" => st = <<>> PROVE BootIsLast(u)
  <2> SUFFICES ASSUME NEW i \in DOMAIN u, i # Len(u) PROVE u[i].kind # "boot"
    BY DEF BootIsLast
  <2>1. CASE i = 1
    <3>1. Len(st) # 0
      BY <1>1, <1>2, <2>1
    <3>2. st # <<>>
      BY <3>1
    <3> QED
      BY <1>1, <1>4, <2>1, <3>2
  <2>2. CASE i # 1
    <3>1. i - 1 \in DOMAIN st /\ u[i] = st[i - 1] /\ i - 1 # Len(st)
      BY <1>1, <1>2, <2>2
    <3> QED
      BY <1>4, <3>1 DEF BootIsLast
  <2> QED
    BY <2>1, <2>2
<1> QED
  BY <1>1, <1>3, <1>4 DEF u

LEMMA FramesPop ==
  ASSUME NEW st \in Seq(Call), st # <<>>
  PROVE  /\ Head(st) \in Call /\ Tail(st) \in Seq(Call) /\ Frames(st) = Frames(Tail(st)) \cup {Head(st)}
         /\ BootIsLast(st) => BootIsLast(Tail(st)) /\ (Head(st).kind = "boot" => Tail(st) = <<>>)
<1> DEFINE u == Tail(st)
<1>1. /\ u \in Seq(Call) /\ Len(u) = Len(st) - 1 /\ st[1] = Head(st) /\ Head(st) \in Call
      /\ \A i \in 1..Len(u) : u[i] = st[i + 1] /\ i + 1 \in 1..Len(st)
      /\ Len(st) \in Nat /\ Len(st) # 0
  OBVIOUS
<1>2. DOMAIN u = 1..(Len(st) - 1) /\ DOMAIN st = 1..Len(st)
  BY <1>1
<1>3. u = <<>> <=> Len(st) = 1
  BY <1>1
<1> HIDE DEF u
<1>4. Frames(st) = Frames(u) \cup {Head(st)}
  <2>1. ASSUME NEW i \in DOMAIN st PROVE st[i] \in Frames(u) \cup {Head(st)}
    <3>1. CASE i = 1
      BY <1>1, <3>1
    <3>2. CASE i # 1
      <4>1. i - 1 \in DOMAIN u /\ u[i - 1] = st[(i - 1) + 1] /\ (i - 1) + 1 = i
        BY <1>1, <1>2, <3>2
      <4> QED
        BY <4>1 DEF Frames
    <3> QED
      BY <3>1, <3>2
  <2>2. ASSUME NEW i \in DOMAIN u PROVE u[i] \in Frames(st)
    <3>1. i + 1 \in DOMAIN st /\ u[i] = st[i + 1]
      BY <1>1, <1>2
    <3> QED
      BY <3>1 DEF Frames
  <2>3. Head(st) \in Frames(st)
    <3>1. 1 \in DOMAIN st /\ st[1] = Head(st)
      BY <1>1, <1>2
    <3> QED
      BY <3>1 DEF Frames
  <2> QED
    BY <2>1, <2>2, <2>3 DEF Frames
<1>5. ASSUME BootIsLast(st) PROVE BootIsLast(u) /\ (Head(st).kind = "boot" => u = <<>>)
  <2>1. ASSUME NEW i \in DOMAIN u, i # Len(u) PROVE u[i].kind # "boot"
    <3>1. i + 1 \in DOMAIN st /\ u[i] = st[i + 1] /\ i + 1 # Len(st)
      BY <1>1, <1>2, <2>1
    <3> QED
      BY <1>5, <3>1 DEF BootIsLast
  <2>2. Head(st).kind = "boot" => Len(st) = 1
    <3>1. 1 \in DOMAIN st
      BY <1>1, <1>2
    <3> QED
      BY <1>1, <1>5, <3>1 DEF BootIsLast
  <2> QED
    BY <1>3, <2>1, <2>2 DEF BootIsLast
<1> QED
  BY <1>1, <1>4, <1>5 DEF u

LEMMA NoFrames == Frames(<<>>) = {} /\ BootIsLast(<<>>) /\ <<>> \in Seq(Call) /\ Said(<<>>) = {}
BY DEF Frames, BootIsLast, Said

LEMMA SaidMore ==
  ASSUME NEW in \in Seq(Message), NEW more \in Seq(Message)
  PROVE  in \o more \in Seq(Message) /\ Said(in \o more) = Said(in) \cup Said(more)
<1> DEFINE u == in \o more
<1>1. /\ u \in Seq(Message) /\ Len(u) = Len(in) + Len(more) /\ Len(in) \in Nat /\ Len(more) \in Nat
      /\ \A i \in 1..Len(in) : u[i] = in[i]
      /\ \A i \in 1..Len(more) : u[Len(in) + i] = more[i]
  OBVIOUS
<1>2. DOMAIN u = 1..(Len(in) + Len(more)) /\ DOMAIN in = 1..Len(in) /\ DOMAIN more = 1..Len(more)
  BY <1>1
<1> HIDE DEF u
<1>3. ASSUME NEW i \in DOMAIN u
      PROVE  (\E j \in DOMAIN in : u[i] = in[j]) \/ (\E j \in DOMAIN more : u[i] = more[j])
  <2>1. CASE i <= Len(in)
    BY <1>1, <1>2, <2>1
  <2>2. CASE i > Len(in)
    <3>1. i - Len(in) \in DOMAIN more /\ Len(in) + (i - Len(in)) = i
      BY <1>1, <1>2, <2>2
    <3> QED
      BY <1>1, <1>2, <3>1
  <2> QED
    BY <1>1, <1>2, <2>1, <2>2
<1>4. ASSUME NEW j \in DOMAIN in PROVE \E i \in DOMAIN u : u[i] = in[j]
  BY <1>1, <1>2
<1>5. ASSUME NEW j \in DOMAIN more PROVE \E i \in DOMAIN u : u[i] = more[j]
  <2>1. Len(in) + j \in DOMAIN u /\ u[Len(in) + j] = more[j]
    BY <1>1, <1>2
  <2> QED
    BY <2>1
<1>6. Said(u) \subseteq Said(in) \cup Said(more)
  BY <1>3 DEF Said
<1>7. Said(in) \subseteq Said(u) /\ Said(more) \subseteq Said(u)
  BY <1>4, <1>5 DEF Said
<1> QED
  BY <1>1, <1>6, <1>7 DEF u

LEMMA SaidOne ==
  ASSUME NEW e1 \in Message
  PROVE  <<e1>> \in Seq(Message) /\ Said(<<e1>>) = IF e1.type = "attached" THEN {e1.s} ELSE {}
<1> DEFINE u == <<e1>>
<1>1. u \in Seq(Message) /\ DOMAIN u = {1} /\ u[1] = e1
  OBVIOUS
<1> HIDE DEF u
<1> QED
  BY <1>1 DEF Said, u

LEMMA SaidTail ==
  ASSUME NEW in \in Seq(Message), in # <<>>
  PROVE  /\ Head(in) \in Message /\ Tail(in) \in Seq(Message)
         /\ Said(in) = Said(Tail(in)) \cup (IF Head(in).type = "attached" THEN {Head(in).s} ELSE {})
<1>1. /\ Head(in) \in Message /\ Tail(in) \in Seq(Message) /\ <<Head(in)>> \in Seq(Message)
      /\ in = <<Head(in)>> \o Tail(in)
  OBVIOUS
<1>2. Said(in) = Said(<<Head(in)>>) \cup Said(Tail(in))
  BY <1>1, SaidMore
<1> QED
  BY <1>1, <1>2, SaidOne

LEMMA EventsAre ==
  ASSUME IsFiniteSet(Page), NEW pages \in [Page -> PageRow], NEW S \in SUBSET Session,
         NEW type \in {"attached", "detached", "navigated"}
  PROVE  /\ EventsTo(S, type, pages) \in Seq(Message)
         /\ Said(EventsTo(S, type, pages)) \subseteq S
         /\ type # "attached" => Said(EventsTo(S, type, pages)) = {}
<1> DEFINE e(s) == Event(type, s, pages[s[1]].url)
           T == {e(s) : s \in S}
           m == [s \in S |-> e(s)]
<1>1. \A s \in S : e(s) \in Message /\ e(s).type = type /\ e(s).s = s
  BY DEF Event, Message, Session, PageRow
<1>2. IsFiniteSet(S)
  <2>1. IsFiniteSet({"auto", "asked"})
    <3>1. IsFiniteSet({"auto"})
      BY FS_Singleton
    <3>2. IsFiniteSet({"auto"} \cup {"asked"})
      BY <3>1, FS_AddElement
    <3> QED
      BY <3>2
  <2>2. IsFiniteSet(Session)
    BY <2>1, FS_Product DEF Session
  <2> QED
    BY <2>2, FS_Subset
<1> HIDE DEF e
<1>3. IsFiniteSet(T)
  <2>1. m \in Surjection(S, T)
    BY DEF Surjection
  <2> HIDE DEF m, T
  <2> QED
    BY <1>2, <2>1, FS_Surjection
<1> DEFINE q == SetToSeq(T)
<1>4. q \in [1..Cardinality(T) -> T] /\ Cardinality(T) \in Nat
  <2>1. Cardinality(T) \in Nat /\ ExistsBijection(1..Cardinality(T), T)
    BY <1>3, FS_CardinalityType
  <2>2. \E f \in [1..Cardinality(T) -> T] : IsInjective(f)
    BY <2>1 DEF ExistsBijection, Bijection, Injection
  <2> QED
    BY <2>1, <2>2 DEF SetToSeq
<1>5. EventsTo(S, type, pages) = q
  BY DEF EventsTo, e
<1> HIDE DEF q
<1>6. T \subseteq Message
  BY <1>1
<1>7. q \in Seq(Message)
  <2>1. q \in [1..Cardinality(T) -> Message]
    BY <1>4, <1>6
  <2>2. q \in UNION {[1..k -> Message] : k \in Nat}
    BY <1>4, <2>1
  <2>3. Seq(Message) = UNION {[1..k -> Message] : k \in Nat}
    BY SeqDef, Zenon
  <2> QED
    BY <2>2, <2>3
<1>8. \A i \in DOMAIN q : q[i].type = type /\ q[i].s \in S
  <2> TAKE i \in DOMAIN q
  <2>1. q[i] \in T
    BY <1>4
  <2> QED
    BY <1>1, <2>1
<1> QED
  BY <1>5, <1>7, <1>8 DEF Said

-----------------------------------------------------------------------------
(* What Chrome does on a command for a page, and what stands meanwhile.    *)

Keeps(p) ==
  /\ page[p].script # "no" => page'[p].script # "no"
  /\ page'[p].held = page[p].held
  /\ page'[p].at = page[p].at \/ (page[p].at = "waiting" /\ page'[p].at = "running")

Commanded(s, step, in) ==
  /\ page' \in [Page -> PageRow] /\ auto' = auto
  /\ inbox' \in Seq(Message) /\ Said(inbox') = Said(in)
  /\ attached' = IF step = "detach" THEN attached \ {s} ELSE attached
  /\ \A p \in Page : /\ Keeps(p)
                     /\ page'[p].at # page[p].at => step = "resume" /\ s \in attached /\ p = s[1]
  /\ step = "install" /\ s \in attached => page'[s[1]].script # "no"
  /\ step = "resume" /\ s \in attached => page'[s[1]].at # "waiting"

LEMMA AnswerIs ==
  ASSUME NEW id \in Calls, NEW ok \in BOOLEAN, NEW in \in Seq(Message)
  PROVE  /\ Answer(id, ok) \in Message /\ Answer(id, ok).type = "answer"
         /\ in \o <<Answer(id, ok)>> \in Seq(Message) /\ Said(in \o <<Answer(id, ok)>>) = Said(in)
<1> DEFINE e1 == Answer(id, ok)
<1>1. e1 \in Message /\ e1.type = "answer"
  BY DEF Answer, Message
<1> HIDE DEF e1
<1> DEFINE more == <<e1>>
<1>2. more \in Seq(Message) /\ Said(more) = {}
  BY <1>1, SaidOne
<1> HIDE DEF more
<1>3. in \o more \in Seq(Message) /\ Said(in \o more) = Said(in) \cup Said(more)
  BY <1>2, SaidMore
<1> QED
  BY <1>1, <1>2, <1>3 DEF e1, more

LEMMA PageCommand ==
  ASSUME Fields, NEW kind \in {"init", "again", "nav"}, NEW s \in Session,
         NEW step \in {"install", "resume", "check", "detach"}, NEW in \in Seq(Message),
         Carries(<<kind, s, step>>, in)
  PROVE  Commanded(s, step, in)
<1> USE DEF Commanded
<1> DEFINE id == <<kind, s, step>>
           here == s \in attached
<1>1. id \in Calls /\ id[2] = s /\ id[3] = step /\ here \in BOOLEAN
  BY DEF Calls
<1>2. page \in [Page -> PageRow] /\ s[1] \in Page /\ page[s[1]] \in PageRow
  BY DEF Fields, Session
<1>3. CASE step = "install"
  <2>1. PICK ok \in {here, FALSE} :
          /\ inbox' = in \o <<Answer(id, ok)>>
          /\ page' = IF ~here THEN page
                     ELSE [page EXCEPT ![s[1]].script = IF ok THEN "yes" ELSE IF page[s[1]].script = "yes" THEN "yes" ELSE "refused"]
          /\ UNCHANGED <<attached, auto>>
    BY <1>1, <1>3 DEF Carries
  <2>2. inbox' \in Seq(Message) /\ Said(inbox') = Said(in)
    BY <1>1, <2>1, AnswerIs
  <2>3. CASE ~here
    BY <1>2, <1>3, <2>1, <2>2, <2>3 DEF Keeps
  <2>4. CASE here
    <3> DEFINE to == IF ok THEN "yes" ELSE IF page[s[1]].script = "yes" THEN "yes" ELSE "refused"
               row == [page[s[1]] EXCEPT !.script = to]
    <3>1. to \in {"refused", "yes"}
      OBVIOUS
    <3>2. page' = [page EXCEPT ![s[1]] = row]
      BY <2>1, <2>4
    <3> HIDE DEF to
    <3>3. /\ row \in PageRow /\ row.script # "no" /\ row.held = page[s[1]].held
          /\ row.at = page[s[1]].at
      BY <1>2, <3>1 DEF PageRow
    <3> HIDE DEF row
    <3>4. /\ page' \in [Page -> PageRow] /\ page'[s[1]] = row
          /\ \A p \in Page : p # s[1] => page'[p] = page[p]
      BY <1>2, <3>2, <3>3
    <3> QED
      BY <1>3, <2>1, <2>2, <3>3, <3>4 DEF Keeps
  <2> QED
    BY <2>3, <2>4
<1>4. CASE step = "resume"
  <2>1. /\ inbox' = in \o <<Answer(id, here)>>
        /\ page' = IF here /\ page[s[1]].at = "waiting" THEN [page EXCEPT ![s[1]].at = "running"] ELSE page
        /\ UNCHANGED <<attached, auto>>
    BY <1>1, <1>4 DEF Carries
  <2>2. inbox' \in Seq(Message) /\ Said(inbox') = Said(in)
    BY <1>1, <2>1, AnswerIs
  <2>3. CASE ~(here /\ page[s[1]].at = "waiting")
    BY <1>2, <1>4, <2>1, <2>2, <2>3 DEF Keeps
  <2>4. CASE here /\ page[s[1]].at = "waiting"
    <3> DEFINE row == [page[s[1]] EXCEPT !.at = "running"]
    <3>1. page' = [page EXCEPT ![s[1]] = row]
      BY <2>1, <2>4
    <3>2. /\ row \in PageRow /\ row.script = page[s[1]].script /\ row.held = page[s[1]].held
          /\ row.at = "running"
      BY <1>2 DEF PageRow
    <3> HIDE DEF row
    <3>3. /\ page' \in [Page -> PageRow] /\ page'[s[1]] = row
          /\ \A p \in Page : p # s[1] => page'[p] = page[p]
      BY <1>2, <3>1, <3>2
    <3> QED
      BY <1>4, <2>1, <2>2, <2>4, <3>2, <3>3 DEF Keeps
  <2> QED
    BY <2>3, <2>4
<1>5. CASE step = "check"
  <2>1. PICK ok \in {here, FALSE} : inbox' = in \o <<Answer(id, ok)>> /\ UNCHANGED chrome
    BY <1>1, <1>5 DEF Carries
  <2>2. inbox' \in Seq(Message) /\ Said(inbox') = Said(in)
    BY <1>1, <2>1, AnswerIs
  <2> QED
    BY <1>2, <1>5, <2>1, <2>2 DEF Keeps, chrome
<1>6. CASE step = "detach"
  <2> DEFINE gone == IF here THEN <<Event("detached", s, "safe")>> ELSE <<>>
  <2>1. /\ attached' = attached \ {s} /\ UNCHANGED <<page, auto>>
        /\ inbox' = (in \o gone) \o <<Answer(id, here)>>
    BY <1>1, <1>6 DEF Carries
  <2>2. gone \in Seq(Message) /\ Said(gone) = {}
    <3>1. Event("detached", s, "safe") \in Message /\ Event("detached", s, "safe").type = "detached"
      BY DEF Event, Message
    <3>2. <<Event("detached", s, "safe")>> \in Seq(Message) /\ Said(<<Event("detached", s, "safe")>>) = {}
      BY <3>1, SaidOne
    <3>3. <<>> \in Seq(Message) /\ Said(<<>>) = {}
      BY NoFrames
    <3> QED
      BY <3>2, <3>3
  <2> HIDE DEF gone
  <2>3. in \o gone \in Seq(Message) /\ Said(in \o gone) = Said(in)
    <3>1. in \o gone \in Seq(Message) /\ Said(in \o gone) = Said(in) \cup Said(gone)
      BY <2>2, SaidMore
    <3> QED
      BY <2>2, <3>1
  <2> DEFINE told == in \o gone
  <2> HIDE DEF told
  <2>4. told \in Seq(Message) /\ Said(told) = Said(in) /\ inbox' = told \o <<Answer(id, here)>>
    BY <2>1, <2>3 DEF told
  <2> HIDE DEF here, id
  <2>5. inbox' \in Seq(Message) /\ Said(inbox') = Said(in)
    BY <1>1, <2>4, AnswerIs
  <2> QED
    BY <1>2, <1>6, <2>1, <2>5 DEF Keeps
<1> QED
  BY <1>3, <1>4, <1>5, <1>6

\* A step of the agent: the calls that stay, and those it adds.
LEMMA AgentMoves ==
  ASSUME IInv, connected' = TRUE, connected, Fields', BootIsLast(stack'),
         \A p \in Page : /\ Keeps(p)
                         /\ page'[p].at # page[p].at => page'[p].script # "no",
         \A f \in Frames(stack') : f \in Frames(stack) \/ (CallRight(f)' /\ (OfInit(f) => Installed(f)')),
         \A f \in Frames(stack') : f.kind = "boot" => \A p \in ToAsk(f) : Unasked(<<p, "asked">>)',
         \A f \in Frames(stack) : OfInit(f) /\ f.s \in attached' => f.s \in attached,
         \A s \in Said(inbox') : s \in Said(inbox) \/ Real(s)',
         Booked', Attended', OkIsOfThisConnection'
  PROVE  IInv'
<1>1. ASSUME NEW s, Real(s) PROVE Real(s)'
  BY <1>1 DEF Real, Keeps, Session
<1>2. \A s \in Said(inbox') : Real(s)'
  BY <1>1 DEF IInv
<1>3. ASSUME NEW f \in Frames(stack) PROVE CallRight(f)' /\ (OfInit(f) => Installed(f)')
  <2>1. CallRight(f) /\ (OfInit(f) => Installed(f))
    BY <1>3 DEF IInv
  <2>2. f \in Call
    BY <1>3 DEF IInv, Fields, Frames
  <2>3. CallRight(f)'
    <3>1. f.kind # "boot" \/ f.step \in {"attach", "attached"} => Real(f.s)'
      BY <1>1, <2>1 DEF CallRight
    <3>2. \A p \in f.left : page'[p].at # "none"
      BY <2>1, <2>2 DEF CallRight, Call, Keeps
    <3> QED
      BY <2>1, <3>1, <3>2 DEF CallRight
  <2>4. ASSUME OfInit(f) PROVE Installed(f)'
    <3>1. f.s \in Session
      BY <2>1, <2>4 DEF CallRight, OfInit, Real
    <3> QED
      BY <1>3, <2>1, <2>4, <3>1 DEF Installed, Keeps, Session
  <2> QED
    BY <2>3, <2>4
<1>4. \A f \in Frames(stack') : /\ CallRight(f)'
                                /\ OfInit(f) => Installed(f)'
                                /\ f.kind = "boot" => \A p \in ToAsk(f) : Unasked(<<p, "asked">>)'
  BY <1>3
<1>5. ScriptBeforeRun'
  BY DEF IInv, ScriptBeforeRun, Keeps
<1> QED
  BY <1>2, <1>4, <1>5 DEF IInv

\* Bootstrap's sessions stay its own while others are initialised.
LEMMA UnaskedStays ==
  ASSUME IInv, Said(inbox') \subseteq Said(inbox),
         \A f \in Frames(stack') : /\ f.kind = "boot" => f \in Frames(stack)
                                   /\ OfInit(f) => \/ f.s \in Said(inbox)
                                                   \/ \E h \in Frames(stack) : OfInit(h) /\ h.s = f.s
  PROVE  \A f \in Frames(stack') : f.kind = "boot" => \A p \in ToAsk(f) : Unasked(<<p, "asked">>)'
BY DEF IInv, Unasked

-----------------------------------------------------------------------------
(* Calls of _init_page and of a check. *)

\* The call on top, and those under it.
OnTop(f, r) ==
  /\ f \in Call /\ r \in Seq(Call) /\ f \in Frames(stack) /\ Frames(stack) = Frames(r) \cup {f}
  /\ BootIsLast(r) /\ (f.kind = "boot" => r = <<>>)

LEMMA TopIs ==
  ASSUME IInv, stack # <<>>
  PROVE  \E f, r : f = Head(stack) /\ r = Tail(stack) /\ OnTop(f, r)
BY FramesPop DEF IInv, Fields, OnTop

\* The call goes on, or is over.
LEMMA Onward ==
  ASSUME IInv, NEW f, NEW r, OnTop(f, r), f.kind # "boot", NEW x \in Call, x.kind = f.kind, x.s = f.s,
         stack' = <<x>> \o r
  PROVE  /\ stack' \in Seq(Call) /\ BootIsLast(stack') /\ Frames(stack') = Frames(r) \cup {x}
         /\ \A h \in Frames(stack') : h \in Frames(stack) \/ h = x
         /\ \A h \in Frames(stack') : /\ h.kind = "boot" => h \in Frames(stack)
                                      /\ OfInit(h) => \E k \in Frames(stack) : OfInit(k) /\ k.s = h.s
<1>1. /\ stack' \in Seq(Call) /\ BootIsLast(stack') /\ Frames(stack') = Frames(r) \cup {x}
  BY FramesPush DEF OnTop
<1> QED
  BY <1>1 DEF OnTop, OfInit

LEMMA Over ==
  ASSUME IInv, NEW f, NEW r, OnTop(f, r), stack' = r
  PROVE  /\ stack' \in Seq(Call) /\ BootIsLast(stack') /\ Frames(stack') = Frames(r)
         /\ \A h \in Frames(stack') : h \in Frames(stack)
BY DEF OnTop

LEMMA PageCallFacts ==
  ASSUME IInv, NEW f, NEW r, OnTop(f, r), f.kind # "boot"
  PROVE  /\ f.kind \in {"init", "again", "nav"} /\ f.s \in Session /\ f.s[1] \in Page /\ Real(f.s)
         /\ f.step \in {"install", "resume", "check", "detach"} /\ (f.kind = "nav" => f.step = "check")
         /\ OfInit(f) => Installed(f)
         /\ CallRight(f)
<1>1. f \in Call /\ CallRight(f) /\ (OfInit(f) => Installed(f))
  BY DEF OnTop, IInv
<1> QED
  BY <1>1 DEF CallRight, Call, Real, Session

\* The same, for the call that waits.
LEMMA PageWaits ==
  ASSUME Fields, NEW x \in Call, x.kind \in {"init", "again", "nav"}, x.s \in Session,
         x.step \in {"install", "resume", "check", "detach"}, NEW in \in Seq(Message), Carries(Id(x), in)
  PROVE  Commanded(x.s, x.step, in)
BY PageCommand DEF Id

LEMMA InstallEnds ==
  ASSUME IInv, connected, connected' = TRUE, NEW f, NEW r, OnTop(f, r), f.kind # "boot", NEW ok \in BOOLEAN,
         f.step = "install", PageCall(f, r, ok), answers' \subseteq answers
  PROVE  IInv'
<1> DEFINE x == [f EXCEPT !.warned = f.warned \/ ~ok, !.step = "resume"]
<1>1. f \in Call /\ inbox \in Seq(Message) /\ Fields
  BY DEF OnTop, IInv, Fields
<1>2. x \in Call /\ x.kind = f.kind /\ x.s = f.s /\ x.step = "resume" /\ x.left = f.left
  BY <1>1 DEF Call
<1>3. /\ stack' = <<x>> \o r /\ UNCHANGED <<books, health, passed>>
      /\ \E in : in = inbox /\ Carries(Id(x), in)
  <2>1. Waits(x, r, inbox) /\ UNCHANGED <<books, health, passed>>
    BY DEF PageCall, First
  <2> HIDE DEF x
  <2> QED
    BY <2>1 DEF Waits, Id, Carries
<1> HIDE DEF x
<1>4. /\ f.kind \in {"init", "again"} /\ f.s \in Session /\ f.s[1] \in Page /\ Real(f.s) /\ OfInit(f)
      /\ Installed(f) /\ CallRight(f)
  BY PageCallFacts DEF OfInit
<1>6. PICK s \in Session : s = f.s
  BY <1>4
<1>7. PICK in \in Seq(Message) : in = inbox /\ Carries(Id(x), in)
  BY <1>1, <1>3
<1>5. Commanded(x.s, x.step, in)
  BY <1>1, <1>2, <1>4, <1>7, PageWaits
<1>8. /\ page' \in [Page -> PageRow] /\ auto' = auto
      /\ inbox' \in Seq(Message) /\ Said(inbox') = Said(inbox) /\ attached' = attached
      /\ \A p \in Page : /\ Keeps(p)
                         /\ page'[p].at # page[p].at => s \in attached /\ p = s[1]
      /\ s \in attached => page'[s[1]].at # "waiting"
  BY <1>2, <1>5, <1>6, <1>7 DEF Commanded
<1>9. /\ stack' \in Seq(Call) /\ BootIsLast(stack') /\ Frames(stack') = Frames(r) \cup {x}
      /\ \A h \in Frames(stack') : h \in Frames(stack) \/ h = x
      /\ \A h \in Frames(stack') : /\ h.kind = "boot" => h \in Frames(stack)
                                   /\ OfInit(h) => \E k \in Frames(stack) : OfInit(k) /\ k.s = h.s
  BY <1>2, <1>3, Onward
<1>10. Fields'
  BY <1>1, <1>3, <1>8, <1>9 DEF Fields, books
<1>11. \A f2 \in Frames(stack') : f2.kind = "boot" => \A p \in ToAsk(f2) : Unasked(<<p, "asked">>)'
  BY <1>8, <1>9, UnaskedStays
<1>12. CallRight(x)' /\ Installed(x)'
  <2>1. Real(f.s)' /\ \A p \in f.left : page'[p].at # "none"
    BY <1>1, <1>4, <1>8 DEF CallRight, Real, Keeps, Call
  <2>3. CallRight(x)'
    BY <1>2, <1>4, <2>1 DEF CallRight
  <2>2. Installed(x)'
    BY <1>2, <1>4, <1>6, <1>8 DEF Installed, Keeps
  <2> QED
    BY <2>2, <2>3
<1>13. Booked'
  <2>1. \A h \in Frames(stack) : h \in Frames(stack') \/ h = f
    BY <1>9 DEF OnTop
  <2>2. x \in Frames(stack') /\ OfInit(x)
    BY <1>2, <1>4, <1>9 DEF OfInit
  <2> QED
    BY <1>2, <1>3, <2>1, <2>2 DEF IInv, Booked, books
<1>14. Attended'
  <2> SUFFICES ASSUME NEW p \in Page, page'[p].at = "waiting"
               PROVE  /\ <<p, "auto">> \in attached'
                      /\ \/ <<p, "auto">> \in Said(inbox')
                         \/ \E h \in Frames(stack') : OfInit(h) /\ h.s = <<p, "auto">> /\ h.step = "install"
    BY DEF Attended
  <2>1. page[p].at = "waiting" /\ Keeps(p)
    BY <1>8 DEF Keeps
  <2>2. /\ <<p, "auto">> \in attached
        /\ \/ <<p, "auto">> \in Said(inbox)
           \/ \E h \in Frames(stack) : OfInit(h) /\ h.s = <<p, "auto">> /\ h.step = "install"
    BY <2>1 DEF IInv, Attended
  <2>3. f.s # <<p, "auto">>
    BY <1>6, <1>8, <2>2
  <2> QED
    BY <1>8, <1>9, <2>2, <2>3 DEF OnTop
<1>15. OkIsOfThisConnection'
  BY <1>3 DEF IInv, OkIsOfThisConnection
<1>16. \A p \in Page : Keeps(p) /\ (page'[p].at # page[p].at => page'[p].script # "no")
  BY <1>4, <1>6, <1>8 DEF Installed, Keeps
<1> QED
  BY <1>8, <1>9, <1>10, <1>11, <1>12, <1>13, <1>14, <1>15, <1>16, AgentMoves

\* The call of a page that has run goes on, or is over.
LEMMA GoesOn ==
  ASSUME IInv, connected, connected' = TRUE, NEW f, NEW r, OnTop(f, r), OfInit(f), f.step # "install",
         NEW x \in Call, x.kind = f.kind, x.s = f.s, x.left = f.left, x.step \in {"check", "detach"},
         stack' = <<x>> \o r, NEW in \in Seq(Message), in = inbox, Carries(Id(x), in),
         url' = url, answers' \subseteq answers, Booked', OkIsOfThisConnection'
  PROVE  IInv'
<1>1. f \in Call /\ inbox \in Seq(Message) /\ Fields /\ f.kind # "boot"
  BY DEF OnTop, IInv, Fields, OfInit
<1>2. /\ f.kind \in {"init", "again"} /\ f.s \in Session /\ f.s[1] \in Page /\ Real(f.s)
      /\ Installed(f) /\ CallRight(f)
  BY <1>1, PageCallFacts DEF OfInit
<1>3. PICK s \in Session : s = f.s
  BY <1>2
<1>4. Commanded(x.s, x.step, in)
  BY <1>1, <1>2, PageWaits
<1>5. /\ page' \in [Page -> PageRow] /\ auto' = auto
      /\ inbox' \in Seq(Message) /\ Said(inbox') = Said(inbox)
      /\ attached' \subseteq attached /\ attached \subseteq attached' \cup {s}
      /\ \A p \in Page : Keeps(p) /\ page'[p].at = page[p].at
  BY <1>3, <1>4 DEF Commanded
<1>6. /\ stack' \in Seq(Call) /\ BootIsLast(stack') /\ Frames(stack') = Frames(r) \cup {x}
      /\ \A h \in Frames(stack') : h \in Frames(stack) \/ h = x
      /\ \A h \in Frames(stack') : /\ h.kind = "boot" => h \in Frames(stack)
                                   /\ OfInit(h) => \E k \in Frames(stack) : OfInit(k) /\ k.s = h.s
  BY <1>1, Onward
<1>7. Fields'
  BY <1>1, <1>5, <1>6 DEF Fields
<1>8. \A f2 \in Frames(stack') : f2.kind = "boot" => \A p \in ToAsk(f2) : Unasked(<<p, "asked">>)'
  BY <1>5, <1>6, UnaskedStays
<1>9. CallRight(x)' /\ Installed(x)'
  <2>1. Real(f.s)' /\ \A p \in f.left : page'[p].at # "none"
    BY <1>1, <1>2, <1>5 DEF CallRight, Real, Call
  <2>2. CallRight(x)'
    BY <1>2, <2>1 DEF CallRight
  <2>3. Installed(x)'
    BY <1>2, <1>5 DEF Installed, Keeps
  <2> QED
    BY <2>2, <2>3
<1>10. Attended'
  <2> SUFFICES ASSUME NEW p \in Page, page'[p].at = "waiting"
               PROVE  /\ <<p, "auto">> \in attached'
                      /\ \/ <<p, "auto">> \in Said(inbox')
                         \/ \E h \in Frames(stack') : OfInit(h) /\ h.s = <<p, "auto">> /\ h.step = "install"
    BY DEF Attended
  <2>1. page[p].at = "waiting"
    BY <1>5
  <2>2. /\ <<p, "auto">> \in attached
        /\ \/ <<p, "auto">> \in Said(inbox)
           \/ \E h \in Frames(stack) : OfInit(h) /\ h.s = <<p, "auto">> /\ h.step = "install"
    BY <2>1 DEF IInv, Attended
  <2>3. s # <<p, "auto">>
    <3>1. s \in attached => page[s[1]].at # "waiting"
      BY <1>2, <1>3 DEF Installed
    <3>2. ASSUME s = <<p, "auto">> PROVE FALSE
      <4>1. s[1] = p /\ s \in attached
        BY <2>2, <3>2
      <4> QED
        BY <2>1, <3>1, <4>1
    <3> QED
      BY <3>2
  <2> QED
    BY <1>5, <1>6, <2>2, <2>3 DEF OnTop
<1> QED
  BY <1>5, <1>6, <1>7, <1>8, <1>9, <1>10, AgentMoves DEF Keeps, IInv

LEMMA GoesBack ==
  ASSUME IInv, connected, connected' = TRUE, NEW f, NEW r, OnTop(f, r), f.kind # "boot", f.step # "install",
         stack' = r, inbox' = inbox, UNCHANGED chrome,
         url' = url, answers' \subseteq answers, Booked', OkIsOfThisConnection'
  PROVE  IInv'
<1>1. f \in Call /\ inbox \in Seq(Message) /\ Fields /\ page \in [Page -> PageRow]
  BY DEF OnTop, IInv, Fields
<1>2. page' = page /\ attached' = attached /\ auto' = auto /\ Said(inbox') = Said(inbox)
  BY DEF chrome
<1>3. \A p \in Page : Keeps(p) /\ page'[p].at = page[p].at
  BY <1>1, <1>2 DEF Keeps
<1>4. /\ stack' \in Seq(Call) /\ BootIsLast(stack') /\ Frames(stack') = Frames(r)
      /\ \A h \in Frames(stack') : h \in Frames(stack)
  BY Over
<1>5. Fields'
  BY <1>1, <1>2, <1>4 DEF Fields
<1>6. \A f2 \in Frames(stack') : f2.kind = "boot" => \A p \in ToAsk(f2) : Unasked(<<p, "asked">>)'
  BY <1>2, <1>4, UnaskedStays
<1>7. Attended'
  BY <1>2, <1>4 DEF IInv, Attended, OnTop
<1> QED
  BY <1>2, <1>3, <1>4, <1>5, <1>6, <1>7, AgentMoves

LEMMA ResumeEnds ==
  ASSUME IInv, connected, connected' = TRUE, NEW f, NEW r, OnTop(f, r), f.kind # "boot", NEW ok \in BOOLEAN,
         f.step = "resume", PageCall(f, r, ok), answers' \subseteq answers
  PROVE  IInv'
<1> DEFINE x == [f EXCEPT !.warned = f.warned \/ ~ok, !.step = IF url[f.s] = "safe" THEN "check" ELSE "detach"]
<1>1. f \in Call /\ inbox \in Seq(Message)
  BY DEF OnTop, IInv, Fields
<1>2. x \in Call /\ x.kind = f.kind /\ x.s = f.s /\ x.step \in {"check", "detach"} /\ x.left = f.left
  BY <1>1 DEF Call
<1>3. /\ stack' = <<x>> \o r /\ UNCHANGED <<url, health, passed>>
      /\ initializing' = initializing \ {f.s} /\ initialized' = initialized \cup {f.s}
      /\ \E in : in = inbox /\ Carries(Id(x), in)
  <2>1. /\ Waits(x, r, inbox) /\ UNCHANGED <<url, health, passed>>
        /\ initializing' = initializing \ {f.s} /\ initialized' = initialized \cup {f.s}
    BY DEF PageCall, First
  <2> HIDE DEF x
  <2> QED
    BY <2>1 DEF Waits, Id, Carries
<1> HIDE DEF x
<1>4. OfInit(f)
  BY PageCallFacts DEF OfInit
<1>5. PICK in \in Seq(Message) : in = inbox /\ Carries(Id(x), in)
  BY <1>1, <1>3
<1>6. Frames(stack') = Frames(r) \cup {x}
  BY <1>2, <1>3, Onward
<1>7. Booked'
  <2>1. \A h \in Frames(stack) : h \in Frames(stack') \/ h = f
    BY <1>6 DEF OnTop
  <2>2. x \in Frames(stack') /\ OfInit(x)
    BY <1>2, <1>4, <1>6 DEF OfInit
  <2> QED
    BY <1>2, <1>3, <2>1, <2>2 DEF IInv, Booked
<1>8. OkIsOfThisConnection'
  BY <1>3 DEF IInv, OkIsOfThisConnection
<1> QED
  BY <1>2, <1>3, <1>4, <1>5, <1>7, <1>8, GoesOn

LEMMA CheckEnds ==
  ASSUME IInv, connected, connected' = TRUE, NEW f, NEW r, OnTop(f, r), f.kind # "boot", NEW ok \in BOOLEAN,
         f.step = "check", PageCall(f, r, ok), answers' \subseteq answers
  PROVE  IInv'
<1>1. f \in Call /\ inbox \in Seq(Message)
  BY DEF OnTop, IInv, Fields
<1>2. /\ UNCHANGED books
      /\ \/ health' = "ok" /\ passed' = TRUE
         \/ health' = "warning"
         \/ health' = Unobserved /\ UNCHANGED passed
  BY DEF PageCall, First
<1>3. OkIsOfThisConnection'
  BY <1>2 DEF IInv, OkIsOfThisConnection, Unobserved
<1>4. CASE f.kind = "nav"
  <2>1. stack' = r /\ inbox' = inbox /\ UNCHANGED chrome
    BY <1>4 DEF PageCall, First, Returns
  <2>2. Booked'
    <3>1. \A h \in Frames(stack) : OfInit(h) => h \in Frames(stack')
      BY <1>4, <2>1 DEF OnTop, OfInit
    <3> QED
      BY <1>2, <3>1 DEF IInv, Booked, books
  <2> QED
    BY <1>2, <1>3, <2>1, <2>2, GoesBack DEF books
<1>5. CASE f.kind # "nav"
  <2> DEFINE x == [f EXCEPT !.step = "detach"]
  <2>1. x \in Call /\ x.kind = f.kind /\ x.s = f.s /\ x.step = "detach" /\ x.left = f.left
    BY <1>1 DEF Call
  <2>2. stack' = <<x>> \o r /\ \E in : in = inbox /\ Carries(Id(x), in)
    BY <1>5 DEF PageCall, Waits, First, Id, Carries
  <2> HIDE DEF x
  <2>3. OfInit(f)
    BY <1>5, PageCallFacts DEF OfInit
  <2>4. PICK in \in Seq(Message) : in = inbox /\ Carries(Id(x), in)
    BY <1>1, <2>2
  <2>5. Frames(stack') = Frames(r) \cup {x}
    BY <2>1, <2>2, Onward
  <2>6. Booked'
    <3>1. \A h \in Frames(stack) : h \in Frames(stack') \/ h = f
      BY <2>5 DEF OnTop
    <3>2. x \in Frames(stack') /\ OfInit(x)
      BY <2>1, <2>3, <2>5 DEF OfInit
    <3> QED
      BY <1>2, <2>1, <3>1, <3>2 DEF IInv, Booked, books
  <2>7. url' = url
    BY <1>2 DEF books
  <2> QED
    BY <1>3, <2>1, <2>2, <2>3, <2>4, <2>6, <2>7, GoesOn
<1> QED
  BY <1>4, <1>5

LEMMA DetachEnds ==
  ASSUME IInv, connected, connected' = TRUE, NEW f, NEW r, OnTop(f, r), f.kind # "boot", NEW ok \in BOOLEAN,
         f.step = "detach", PageCall(f, r, ok), answers' \subseteq answers
  PROVE  IInv'
<1>1. /\ stack' = r /\ inbox' = inbox /\ UNCHANGED chrome /\ UNCHANGED <<url, health, passed>>
      /\ initializing' = initializing \ {f.s} /\ initialized' = initialized \ {f.s}
  BY DEF PageCall, Returns, First, Forgets
<1>2. Booked'
  <2>1. \A h \in Frames(stack) : h \in Frames(stack') \/ h = f
    BY <1>1 DEF OnTop
  <2> QED
    BY <1>1, <2>1 DEF IInv, Booked
<1>3. OkIsOfThisConnection'
  BY <1>1 DEF IInv, OkIsOfThisConnection
<1> QED
  BY <1>1, <1>2, <1>3, GoesBack

LEMMA PageCallEnds ==
  ASSUME IInv, connected, connected' = TRUE, NEW f, NEW r, OnTop(f, r), f.kind # "boot", NEW ok \in BOOLEAN,
         PageCall(f, r, ok), answers' \subseteq answers
  PROVE  IInv'
BY PageCallFacts, InstallEnds, ResumeEnds, CheckEnds, DetachEnds

-----------------------------------------------------------------------------
(* Calls of bootstrap. *)

\* Nothing is under bootstrap's call, so no page is being initialised.
LEMMA BootAlone ==
  ASSUME IInv, NEW f, NEW r, OnTop(f, r), f.kind = "boot"
  PROVE  /\ f \in Call /\ f.step \in {"auto", "list", "attach", "attached"} /\ CallRight(f)
         /\ r = <<>> /\ Frames(r) = {} /\ Frames(stack) = {f}
         /\ initializing = {} /\ initialized = {}
         /\ \A p \in ToAsk(f) : Unasked(<<p, "asked">>)
<1>1. f \in Call /\ CallRight(f) /\ r = <<>> /\ Frames(stack) = Frames(r) \cup {f}
  BY DEF OnTop, IInv
<1>2. Frames(r) = {}
  BY <1>1, NoFrames
<1>3. \A h \in Frames(stack) : ~OfInit(h)
  BY <1>1, <1>2 DEF OfInit
<1>4. initializing = {} /\ initialized = {}
  BY <1>3 DEF IInv, Booked
<1>5. \A p \in ToAsk(f) : Unasked(<<p, "asked">>)
  BY <1>1, <1>2 DEF IInv
<1> QED
  BY <1>1, <1>2, <1>4, <1>5 DEF CallRight

LEMMA ListSent ==
  ASSUME NEW x \in Call, x.kind = "boot", x.step = "list", NEW in \in Seq(Message), Carries(Id(x), in)
  PROVE  inbox' \in Seq(Message) /\ Said(inbox') = Said(in) /\ UNCHANGED chrome
<1>1. Id(x) \in Calls /\ Id(x)[3] = "list"
  BY DEF Id, Calls, Call
<1>2. inbox' = in \o <<Answer(Id(x), TRUE)>> /\ UNCHANGED chrome
  BY <1>1 DEF Carries
<1> QED
  BY <1>1, <1>2, AnswerIs

LEMMA AttachSent ==
  ASSUME Fields, NEW x \in Call, x.kind = "boot", x.s \in Session, x.step = "attach",
         NEW in \in Seq(Message), Carries(Id(x), in)
  PROVE  /\ UNCHANGED <<page, auto>> /\ attached \subseteq attached' /\ attached' \subseteq attached \cup {x.s}
         /\ inbox' \in Seq(Message) /\ Said(in) \subseteq Said(inbox') /\ Said(inbox') \subseteq Said(in) \cup {x.s}
<1> DEFINE s == x.s
           c == Id(x)
<1>1. c \in Calls /\ c[2] = s /\ c[3] = "attach" /\ page[s[1]] \in PageRow
  BY DEF Id, Calls, Call, Session, Fields
<1>2. CASE page[s[1]].at = "closed"
  <2>1. inbox' = in \o <<Answer(c, FALSE)>> /\ UNCHANGED chrome
    BY <1>1, <1>2 DEF Carries
  <2> HIDE DEF c
  <2> QED
    BY <1>1, <2>1, AnswerIs DEF chrome
<1>3. CASE page[s[1]].at # "closed"
  <2> DEFINE e1 == Event("attached", s, page[s[1]].url)
             told == in \o <<e1>>
  <2>1. /\ attached' = attached \cup {s} /\ UNCHANGED <<page, auto>>
        /\ inbox' = told \o <<Answer(c, TRUE)>>
    BY <1>1, <1>3 DEF Carries
  <2>2. e1 \in Message /\ e1.type = "attached" /\ e1.s = s
    BY <1>1 DEF Event, Message, PageRow
  <2> HIDE DEF e1
  <2>3. <<e1>> \in Seq(Message) /\ Said(<<e1>>) = {s}
    BY <2>2, SaidOne
  <2>4. told \in Seq(Message) /\ Said(told) = Said(in) \cup {s}
    BY <2>3, SaidMore
  <2> HIDE DEF told, c
  <2>5. inbox' \in Seq(Message) /\ Said(inbox') = Said(told)
    BY <1>1, <2>1, <2>4, AnswerIs
  <2> QED
    BY <2>1, <2>4, <2>5
<1> QED
  BY <1>2, <1>3

\* Bootstrap waits for its list, for the answer of a page, or for nothing more.
LEMMA BootSteps ==
  ASSUME IInv, connected, connected' = TRUE, NEW f, NEW r, OnTop(f, r), f.kind = "boot",
         NEW S \in SUBSET Call, stack' \in Seq(Call), Frames(stack') = S, BootIsLast(stack'),
         \A x \in S : /\ x.kind = "boot" /\ CallRight(x)
                      /\ \A p \in ToAsk(x) : Unasked(<<p, "asked">>)',
         UNCHANGED <<page, auto>>, attached \subseteq attached', attached' \subseteq Session,
         inbox' \in Seq(Message), Said(inbox) \subseteq Said(inbox'),
         \A s \in Said(inbox') : s \in Said(inbox) \/ Real(s),
         UNCHANGED <<books, health, passed>>, answers' \subseteq answers
  PROVE  IInv'
<1>1. /\ f \in Call /\ r = <<>> /\ Frames(stack) = {f} /\ initializing = {} /\ initialized = {}
  BY BootAlone
<1>2. Fields /\ page \in [Page -> PageRow]
  BY DEF IInv, Fields
<1>3. Fields'
  BY <1>2 DEF Fields, books
<1>4. \A p \in Page : Keeps(p) /\ page'[p].at = page[p].at
  BY <1>2 DEF Keeps
<1>5. \A x \in S : CallRight(x)' /\ ~OfInit(x)
  BY DEF CallRight, OfInit, Real
<1>6. Booked'
  BY <1>1 DEF Booked, books
<1>7. Attended'
  BY <1>1 DEF IInv, Attended, OfInit
<1>8. OkIsOfThisConnection'
  BY DEF IInv, OkIsOfThisConnection
<1>9. \A s \in Said(inbox') : s \in Said(inbox) \/ Real(s)'
  BY DEF Real
<1> QED
  BY <1>1, <1>3, <1>4, <1>5, <1>6, <1>7, <1>8, <1>9, AgentMoves DEF OfInit

LEMMA NextPage ==
  ASSUME IInv, connected, connected' = TRUE, NEW f, NEW r, OnTop(f, r), f.kind = "boot",
         NEW g \in Call, g.kind = "boot",
         \A p \in g.left : page[p].at # "none" /\ Unasked(<<p, "asked">>),
         NextTarget(g, r), UNCHANGED <<books, health, passed>>, answers' \subseteq answers
  PROVE  IInv'
<1>1. /\ f \in Call /\ r = <<>> /\ Frames(r) = {} /\ Frames(stack) = {f}
      /\ initializing = {} /\ initialized = {}
  BY BootAlone
<1>2. /\ Fields /\ page \in [Page -> PageRow] /\ inbox \in Seq(Message) /\ attached \subseteq Session
      /\ r \in Seq(Call) /\ \A s \in Said(inbox) : Real(s)
  BY DEF IInv, Fields, OnTop
<1>3. CASE g.left = {}
  <2>1. stack' = <<>> /\ inbox' = inbox /\ UNCHANGED chrome
    BY <1>1, <1>3 DEF NextTarget, Returns
  <2>2. stack' \in Seq(Call) /\ Frames(stack') = {} /\ BootIsLast(stack')
    BY <2>1, NoFrames
  <2> QED
    BY <1>2, <2>1, <2>2, BootSteps DEF chrome
<1>4. CASE g.left # {}
  <2>1. PICK p \in g.left :
          Waits([g EXCEPT !.s = <<p, "asked">>, !.step = "attach", !.left = g.left \ {p}], r, inbox)
    BY <1>4 DEF NextTarget
  <2> DEFINE s == <<p, "asked">>
             x == [g EXCEPT !.s = s, !.step = "attach", !.left = g.left \ {p}]
  <2>2. p \in Page /\ s \in Session /\ s[1] = p /\ s[2] = "asked"
    BY DEF Call, Session
  <2>3. /\ x \in Call /\ x.kind = "boot" /\ x.s = s /\ x.step = "attach" /\ x.left = g.left \ {p}
    BY <2>2 DEF Call
  <2>4. stack' = <<x>> \o r /\ \E in : in = inbox /\ Carries(Id(x), in)
    BY <2>1 DEF Waits, Id, Carries
  <2> HIDE DEF x
  <2>5. PICK in \in Seq(Message) : in = inbox /\ Carries(Id(x), in)
    BY <1>2, <2>4
  <2>6. /\ UNCHANGED <<page, auto>> /\ attached \subseteq attached' /\ attached' \subseteq attached \cup {s}
        /\ inbox' \in Seq(Message) /\ Said(inbox) \subseteq Said(inbox') /\ Said(inbox') \subseteq Said(inbox) \cup {s}
    <3>1. /\ UNCHANGED <<page, auto>> /\ attached \subseteq attached' /\ attached' \subseteq attached \cup {x.s}
          /\ inbox' \in Seq(Message) /\ Said(in) \subseteq Said(inbox') /\ Said(inbox') \subseteq Said(in) \cup {x.s}
      BY <1>2, <2>2, <2>3, <2>5, AttachSent
    <3> QED
      BY <2>3, <2>5, <3>1
  <2>7. stack' \in Seq(Call) /\ Frames(stack') = {x} /\ BootIsLast(stack')
    <3>1. <<x>> \o r \in Seq(Call) /\ Frames(<<x>> \o r) = Frames(r) \cup {x} /\ BootIsLast(<<x>> \o r)
      BY <1>1, <1>2, <2>3, FramesPush, NoFrames
    <3> QED
      BY <1>1, <2>4, <3>1
  <2>8. Real(s)
    BY <2>2 DEF Real
  <2>9. CallRight(x)
    BY <2>2, <2>3, <2>8 DEF CallRight
  <2>10. ASSUME NEW q \in ToAsk(x) PROVE Unasked(<<q, "asked">>)'
    <3>1. q \in g.left /\ q # p
      BY <2>3, <2>10 DEF ToAsk
    <3>2. <<q, "asked">> # s /\ Unasked(<<q, "asked">>)
      BY <3>1
    <3>3. <<q, "asked">> \notin Said(inbox')
      BY <2>6, <3>2 DEF Unasked
    <3> QED
      BY <2>3, <2>7, <3>3 DEF Unasked, OfInit
  <2>11. attached' \subseteq Session
    BY <1>2, <2>2, <2>6
  <2>12. \A t \in Said(inbox') : t \in Said(inbox) \/ Real(t)
    BY <2>6, <2>8
  <2> QED
    BY <2>3, <2>6, <2>7, <2>9, <2>10, <2>11, <2>12, BootSteps
<1> QED
  BY <1>3, <1>4

\* The page bootstrap has attached to is initialised on top of it.
LEMMA AttachEnds ==
  ASSUME IInv, connected, connected' = TRUE, NEW f, NEW r, OnTop(f, r), f.kind = "boot", f.step = "attach",
         BootCall(f, r, TRUE), answers' \subseteq answers
  PROVE  IInv'
<1>1. /\ f \in Call /\ CallRight(f) /\ r = <<>> /\ Frames(r) = {} /\ Frames(stack) = {f}
      /\ initializing = {} /\ initialized = {}
      /\ \A p \in ToAsk(f) : Unasked(<<p, "asked">>)
  BY BootAlone
<1>2. /\ Fields /\ page \in [Page -> PageRow] /\ inbox \in Seq(Message) /\ attached \subseteq Session
      /\ r \in Seq(Call) /\ url \in [Session -> {"safe", "unsafe"}]
  BY DEF IInv, Fields, OnTop
<1>3. f.s \in Session /\ f.s[1] \in Page /\ Real(f.s) /\ f.s[2] = "asked" /\ f.s[1] \notin f.left
  BY <1>1 DEF CallRight, Real, Session
<1> DEFINE x == Frame("again", f.s, "install")
           y == [f EXCEPT !.step = "attached"]
<1>4. /\ x \in Call /\ x.kind = "again" /\ x.s = f.s /\ x.step = "install" /\ x.left = {}
      /\ y \in Call /\ y.kind = "boot" /\ y.s = f.s /\ y.step = "attached" /\ y.left = f.left
  BY <1>1, <1>3 DEF Call, Frame
<1>5. /\ stack' = <<x>> \o (<<y>> \o r) /\ \E in : in = inbox /\ Carries(Id(x), in)
      /\ initializing' = {f.s} /\ url' = [url EXCEPT ![f.s] = page[f.s[1]].url]
      /\ UNCHANGED <<initialized, health, passed>>
  <2>1. /\ Inits("again", f.s, <<y>> \o r, inbox) /\ url' = [url EXCEPT ![f.s] = page[f.s[1]].url]
        /\ UNCHANGED <<initialized, health, passed>>
    BY DEF BootCall
  <2>2. initializing' = {f.s} /\ Waits(x, <<y>> \o r, inbox)
    <3>1. initializing' = initializing \cup {f.s} /\ Waits(Frame("again", f.s, First[1]), <<y>> \o r, inbox)
      BY <1>1, <2>1 DEF Inits
    <3>2. First[1] = "install"
      BY DEF First
    <3> QED
      BY <1>1, <3>1, <3>2
  <2> HIDE DEF x, y
  <2>3. stack' = <<x>> \o (<<y>> \o r) /\ \E in : in = inbox /\ Carries(Id(x), in)
    BY <2>2 DEF Waits, Id, Carries
  <2> QED
    BY <2>1, <2>2, <2>3
<1> HIDE DEF x, y
<1>6. PICK in \in Seq(Message) : in = inbox /\ Carries(Id(x), in)
  BY <1>2, <1>5
<1>7. PICK s \in Session : s = f.s
  BY <1>3
<1>8. Commanded(x.s, x.step, in)
  BY <1>2, <1>3, <1>4, <1>6, PageWaits
<1>9. /\ page' \in [Page -> PageRow] /\ auto' = auto
      /\ inbox' \in Seq(Message) /\ Said(inbox') = Said(inbox) /\ attached' = attached
      /\ \A p \in Page : Keeps(p) /\ page'[p].at = page[p].at
      /\ s \in attached => page'[s[1]].script # "no"
  BY <1>4, <1>6, <1>7, <1>8 DEF Commanded
<1> DEFINE u == <<y>> \o r
<1>10. u \in Seq(Call) /\ Frames(u) = {y} /\ BootIsLast(u)
  <2>1. u \in Seq(Call) /\ Frames(u) = Frames(r) \cup {y} /\ BootIsLast(u)
    BY <1>1, <1>2, <1>4, FramesPush, NoFrames
  <2> QED
    BY <1>1, <2>1
<1> HIDE DEF u
<1>11. stack' \in Seq(Call) /\ Frames(stack') = {x, y} /\ BootIsLast(stack')
  <2>1. stack' = <<x>> \o u
    BY <1>5 DEF u
  <2>2. stack' \in Seq(Call) /\ Frames(stack') = Frames(u) \cup {x} /\ BootIsLast(stack')
    BY <1>4, <1>10, <2>1, FramesPush
  <2> QED
    BY <1>10, <2>2
<1>12. Fields'
  <2>1. url' \in [Session -> {"safe", "unsafe"}]
    BY <1>2, <1>3, <1>5 DEF PageRow
  <2> QED
    BY <1>2, <1>9, <1>11, <2>1 DEF Fields
<1>13. Real(f.s)' /\ \A p \in f.left : page'[p].at # "none"
  <2>1. \A p \in f.left : p \in Page /\ page[p].at # "none"
    BY <1>1 DEF Call, CallRight
  <2> QED
    BY <1>3, <1>9, <2>1 DEF Real
<1>14. CallRight(x)' /\ CallRight(y)'
  BY <1>3, <1>4, <1>13 DEF CallRight
<1>15. Installed(x)'
  BY <1>4, <1>7, <1>9 DEF Installed
<1>16. ASSUME NEW p \in ToAsk(y) PROVE Unasked(<<p, "asked">>)'
  <2>1. p \in f.left /\ p \in ToAsk(f)
    BY <1>1, <1>4, <1>16 DEF ToAsk
  <2>2. <<p, "asked">> \notin Said(inbox')
    BY <1>1, <1>9, <2>1 DEF Unasked
  <2>3. <<p, "asked">> # f.s
    BY <1>3, <2>1
  <2> QED
    BY <1>4, <1>11, <2>2, <2>3 DEF Unasked, OfInit
<1>17. OfInit(x) /\ ~OfInit(y) /\ ~OfInit(f)
  BY <1>4 DEF OfInit
<1>18. Booked'
  BY <1>1, <1>4, <1>5, <1>11, <1>17 DEF Booked
<1>19. Attended'
  <2>1. \A p \in Page : page[p].at = "waiting" => <<p, "auto">> \in attached /\ <<p, "auto">> \in Said(inbox)
    BY <1>1, <1>17 DEF IInv, Attended
  <2> QED
    BY <1>9, <2>1 DEF Attended
<1>20. OkIsOfThisConnection'
  BY <1>5 DEF IInv, OkIsOfThisConnection
<1>21. \A h \in Frames(stack') : h.kind = "boot" => \A p \in ToAsk(h) : Unasked(<<p, "asked">>)'
  BY <1>4, <1>11, <1>16
<1>22. \A h \in Frames(stack') : CallRight(h)' /\ (OfInit(h) => Installed(h)')
  BY <1>11, <1>14, <1>15, <1>17
<1> QED
  BY <1>1, <1>9, <1>11, <1>12, <1>17, <1>18, <1>19, <1>20, <1>21, <1>22, AgentMoves

LEMMA ListAsked ==
  ASSUME IInv, connected, connected' = TRUE, NEW f, NEW r, OnTop(f, r), f.kind = "boot", f.step = "auto",
         BootCall(f, r, TRUE), answers' \subseteq answers
  PROVE  IInv'
<1>1. /\ f \in Call /\ CallRight(f) /\ r = <<>> /\ Frames(r) = {} /\ Frames(stack) = {f}
      /\ \A p \in ToAsk(f) : Unasked(<<p, "asked">>)
  BY BootAlone
<1>2. Fields /\ inbox \in Seq(Message) /\ attached \subseteq Session /\ r \in Seq(Call)
  BY DEF IInv, Fields, OnTop
<1> DEFINE x == [f EXCEPT !.step = "list"]
<1>3. x \in Call /\ x.kind = "boot" /\ x.s = f.s /\ x.step = "list" /\ x.left = f.left
  BY <1>1 DEF Call
<1>4. /\ stack' = <<x>> \o r /\ UNCHANGED <<books, health, passed>>
      /\ \E in : in = inbox /\ Carries(Id(x), in)
  BY DEF BootCall, Waits, Id, Carries
<1> HIDE DEF x
<1>5. PICK in \in Seq(Message) : in = inbox /\ Carries(Id(x), in)
  BY <1>2, <1>4
<1>6. inbox' \in Seq(Message) /\ Said(inbox') = Said(inbox) /\ UNCHANGED chrome
  BY <1>3, <1>5, ListSent
<1>7. stack' \in Seq(Call) /\ Frames(stack') = {x} /\ BootIsLast(stack')
  <2>1. stack' \in Seq(Call) /\ Frames(stack') = Frames(r) \cup {x} /\ BootIsLast(stack')
    BY <1>1, <1>2, <1>3, <1>4, FramesPush, NoFrames
  <2> QED
    BY <1>1, <2>1
<1>8. CallRight(x)
  BY <1>1, <1>3 DEF CallRight
<1>9. ASSUME NEW p \in ToAsk(x) PROVE Unasked(<<p, "asked">>)'
  <2>1. Unasked(<<p, "asked">>)
    BY <1>1, <1>3, <1>9 DEF ToAsk
  <2> QED
    BY <1>3, <1>6, <1>7, <2>1 DEF Unasked, OfInit
<1> QED
  BY <1>2, <1>3, <1>4, <1>6, <1>7, <1>8, <1>9, BootSteps DEF chrome

LEMMA FailsKeeps ==
  ASSUME IInv, Fails, answers' \subseteq answers
  PROVE  IInv'
<1>1. /\ stack' = <<>> /\ initializing' = {} /\ initialized' = {} /\ url' = NotSeen /\ connected' = FALSE
      /\ page' = page /\ attached' = attached /\ auto' = auto /\ inbox' = inbox
  BY DEF Fails, chrome
<1>2. stack' \in Seq(Call) /\ Frames(stack') = {} /\ BootIsLast(stack')
  BY <1>1, NoFrames
<1>3. Fields'
  BY <1>1, <1>2 DEF IInv, Fields, NotSeen
<1>4. \A s \in Said(inbox') : Real(s)'
  BY <1>1 DEF IInv, Real
<1>5. Booked' /\ Attended' /\ ScriptBeforeRun' /\ OkIsOfThisConnection'
  BY <1>1 DEF Booked, Attended, ScriptBeforeRun, OkIsOfThisConnection
<1> QED
  BY <1>1, <1>2, <1>3, <1>4, <1>5 DEF IInv

LEMMA BootCallEnds ==
  ASSUME IInv, connected, NEW f, NEW r, OnTop(f, r), f.kind = "boot", f.step # "attached", NEW ok \in BOOLEAN,
         BootCall(f, r, ok), answers' \subseteq answers
  PROVE  IInv'
<1>1. /\ f \in Call /\ f.step \in {"auto", "list", "attach", "attached"} /\ CallRight(f)
      /\ \A p \in ToAsk(f) : Unasked(<<p, "asked">>)
  BY BootAlone
<1>2. connected \in BOOLEAN
  BY DEF IInv, Fields
<1>3. CASE f.step # "attach" /\ ~ok
  BY <1>3, FailsKeeps DEF BootCall
<1>4. CASE f.step = "auto" /\ ok
  <2>1. connected' = TRUE
    BY <1>2, <1>4 DEF BootCall
  <2>2. BootCall(f, r, TRUE)
    BY <1>4 DEF BootCall
  <2> QED
    BY <1>4, <2>1, <2>2, ListAsked
<1>5. CASE f.step = "list" /\ ok
  <2>1. connected' = TRUE /\ UNCHANGED <<books, health, passed>>
    BY <1>2, <1>5 DEF BootCall
  <2> DEFINE left == {p \in Page : page[p].at \in {"waiting", "running"}}
             y == [f EXCEPT !.left = left]
  <2>2. y \in Call /\ y.kind = "boot" /\ y.left = left
    BY <1>1 DEF Call
  <2>3. \E g \in Call : g = y /\ NextTarget(g, r)
    BY <1>5, <2>2 DEF BootCall, NextTarget, Returns, Waits, Carries, Id
  <2> HIDE DEF y
  <2>4. PICK g \in Call : g = y /\ NextTarget(g, r)
    BY <2>3
  <2>5. \A p \in g.left : page[p].at # "none" /\ Unasked(<<p, "asked">>)
    BY <1>1, <1>5, <2>2, <2>4 DEF ToAsk
  <2> QED
    BY <2>1, <2>2, <2>4, <2>5, NextPage
<1>6. CASE f.step = "attach" /\ ~ok
  <2>1. connected' = TRUE /\ UNCHANGED <<books, health, passed>> /\ NextTarget(f, r)
    BY <1>2, <1>6 DEF BootCall
  <2>2. \A p \in f.left : page[p].at # "none" /\ Unasked(<<p, "asked">>)
    BY <1>1, <1>6 DEF ToAsk, CallRight
  <2> QED
    BY <1>1, <2>1, <2>2, NextPage
<1>7. CASE f.step = "attach" /\ ok
  <2>1. connected' = TRUE
    BY <1>2, <1>7 DEF BootCall
  <2>2. BootCall(f, r, TRUE)
    BY <1>7 DEF BootCall
  <2> QED
    BY <1>7, <2>1, <2>2, AttachEnds
<1> QED
  BY <1>1, <1>3, <1>4, <1>5, <1>6, <1>7

LEMMA CallEnds ==
  ASSUME IInv, connected, NEW f, NEW r, OnTop(f, r), f.step # "attached", NEW ok \in BOOLEAN,
         Ended(f, r, ok), answers' \subseteq answers
  PROVE  IInv'
<1>1. CASE f.kind = "boot"
  BY <1>1, BootCallEnds DEF Ended
<1>2. CASE f.kind # "boot"
  <2>1. PageCall(f, r, ok) /\ connected' = TRUE
    BY <1>2 DEF Ended, IInv, Fields
  <2> QED
    BY <1>2, <2>1, PageCallEnds
<1> QED
  BY <1>1, <1>2

LEMMA AnsweredKeeps == ASSUME IInv, NEW ok \in BOOLEAN, Answered(ok) PROVE IInv'
<1>1. connected /\ stack # <<>> /\ answers' \subseteq answers
  BY DEF Answered
<1>2. OnTop(Head(stack), Tail(stack)) /\ <<Id(Head(stack)), ok>> \in answers
  BY <1>1, TopIs DEF Answered
<1>3. PICK f, r : OnTop(f, r) /\ <<Id(f), ok>> \in answers /\ Ended(f, r, ok)
  <2>1. CASE Head(stack).kind = "boot"
    <3>1. BootCall(Head(stack), Tail(stack), ok)
      BY <2>1 DEF Answered, Ended
    <3>2. \E f, r : f = Head(stack) /\ r = Tail(stack) /\ BootCall(f, r, ok)
      BY <3>1 DEF BootCall, Fails, NextTarget, Inits, Returns, Waits, Carries, Id, First
    <3> QED
      BY <1>2, <2>1, <3>2 DEF Ended
  <2>2. CASE Head(stack).kind # "boot"
    <3>1. PageCall(Head(stack), Tail(stack), ok) /\ UNCHANGED connected
      BY <2>2 DEF Answered, Ended
    <3>2. \E f, r : f = Head(stack) /\ r = Tail(stack) /\ PageCall(f, r, ok)
      BY <3>1 DEF PageCall, Returns, Waits, Carries, Forgets, Id, First
    <3> QED
      BY <1>2, <2>2, <3>1, <3>2 DEF Ended
  <2> QED
    BY <2>1, <2>2
<1>4. f.step # "attached"
  <2>1. Id(f) \in Calls \cup {<<>>}
    BY <1>3 DEF IInv, Fields
  <2>2. Id(f) = <<f.kind, f.s, f.step>>
    BY DEF Id
  <2> QED
    BY <2>1, <2>2 DEF Calls
<1> QED
  BY <1>1, <1>3, <1>4, CallEnds

LEMMA TimesOutKeeps == ASSUME IInv, TimesOut PROVE IInv'
<1>1. connected /\ stack # <<>> /\ answers' \subseteq answers
  BY DEF TimesOut
<1>2. \E f, r : f = Head(stack) /\ r = Tail(stack) /\ OnTop(f, r) /\ f.step # "attached" /\ Ended(f, r, FALSE)
  BY <1>1, TopIs, ZenonT(60) DEF TimesOut, Ended, BootCall, PageCall, Fails, NextTarget, Inits, Returns, Waits, Carries, Forgets
<1>3. PICK f, r : OnTop(f, r) /\ f.step # "attached" /\ Ended(f, r, FALSE)
  BY <1>2
<1> QED
  BY <1>1, <1>3, CallEnds

LEMMA NextAttachedKeeps == ASSUME IInv, NextAttached PROVE IInv'
<1>1. connected /\ stack # <<>> /\ UNCHANGED <<answers, books, health, passed>> /\ connected' = TRUE
  BY DEF NextAttached, IInv, Fields
<1>2. OnTop(Head(stack), Tail(stack)) /\ Head(stack).step = "attached"
  BY <1>1, TopIs DEF NextAttached
<1>3. PICK f, r : OnTop(f, r) /\ f.step = "attached" /\ NextTarget(f, r)
  <2>1. NextTarget(Head(stack), Tail(stack))
    BY DEF NextAttached
  <2>2. \E f, r : f = Head(stack) /\ r = Tail(stack) /\ NextTarget(f, r)
    BY <2>1 DEF NextTarget, Returns, Waits, Carries, Id
  <2> QED
    BY <1>2, <2>2
<1>4. f \in Call /\ CallRight(f)
  BY <1>3 DEF OnTop, IInv
<1>5. f.kind = "boot"
  BY <1>3, <1>4 DEF CallRight
<1>6. \A p \in f.left : page[p].at # "none" /\ Unasked(<<p, "asked">>)
  BY <1>3, <1>4, <1>5, BootAlone DEF ToAsk, CallRight
<1> QED
  BY <1>1, <1>3, <1>4, <1>5, <1>6, NextPage

-----------------------------------------------------------------------------
(* Messages. *)

LEMMA MessageIs ==
  ASSUME IInv, inbox # <<>>
  PROVE  /\ Head(inbox) \in Message /\ Tail(inbox) \in Seq(Message)
         /\ Said(inbox) = Said(Tail(inbox)) \cup (IF Head(inbox).type = "attached" THEN {Head(inbox).s} ELSE {})
BY SaidTail DEF IInv, Fields

\* A message that begins no call.
LEMMA Hears ==
  ASSUME IInv, connected, connected' = TRUE, stack' = stack, UNCHANGED chrome, inbox' \in Seq(Message),
         Said(inbox') \subseteq Said(inbox), url' \in [Session -> {"safe", "unsafe"}],
         answers' \subseteq (Calls \cup {<<>>}) \X BOOLEAN, Booked', Attended', UNCHANGED <<health, passed>>
  PROVE  IInv'
<1>1. page' = page /\ attached' = attached /\ auto' = auto
  BY DEF chrome
<1>2. Fields'
  BY <1>1 DEF IInv, Fields
<1>3. \A p \in Page : Keeps(p) /\ page'[p].at = page[p].at
  BY <1>1 DEF Keeps
<1>4. \A f \in Frames(stack') : f.kind = "boot" => \A p \in ToAsk(f) : Unasked(<<p, "asked">>)'
  BY UnaskedStays
<1>5. OkIsOfThisConnection'
  BY DEF IInv, OkIsOfThisConnection
<1>6. BootIsLast(stack')
  BY DEF IInv
<1> QED
  BY <1>1, <1>2, <1>3, <1>4, <1>5, <1>6, AgentMoves

\* A message that begins one, on top of the others.
LEMMA Pushes ==
  ASSUME IInv, connected, connected' = TRUE, NEW x \in Call, x.left = {}, Real(x.s),
         \/ x.kind = "nav" /\ x.step = "check"
         \/ x.kind = "init" /\ x.step = "install" /\ x.s \in Said(inbox),
         NEW in \in Seq(Message), Said(in) \subseteq Said(inbox),
         Said(inbox) \subseteq Said(in) \cup (IF x.kind = "init" THEN {x.s} ELSE {}),
         stack' = <<x>> \o stack, Carries(Id(x), in), url' \in [Session -> {"safe", "unsafe"}],
         answers' = answers, Booked', UNCHANGED <<health, passed>>
  PROVE  IInv'
<1>1. /\ Fields /\ stack \in Seq(Call) /\ BootIsLast(stack) /\ page \in [Page -> PageRow]
      /\ attached \subseteq Session
  BY DEF IInv, Fields
<1>2. PICK s \in Session : s = x.s /\ s[1] \in Page
  BY DEF Real, Session
<1>3. Commanded(x.s, x.step, in)
  BY <1>1, <1>2, PageWaits
<1>4. /\ page' \in [Page -> PageRow] /\ auto' = auto
      /\ inbox' \in Seq(Message) /\ Said(inbox') = Said(in) /\ attached' = attached
      /\ \A p \in Page : Keeps(p) /\ page'[p].at = page[p].at
      /\ x.step = "install" /\ s \in attached => page'[s[1]].script # "no"
  BY <1>2, <1>3 DEF Commanded
<1>5. /\ stack' \in Seq(Call) /\ BootIsLast(stack') /\ Frames(stack') = Frames(stack) \cup {x}
  BY <1>1, FramesPush
<1>6. Fields'
  BY <1>1, <1>4, <1>5 DEF Fields
<1>7. \A f \in Frames(stack') : f.kind = "boot" => \A p \in ToAsk(f) : Unasked(<<p, "asked">>)'
  <2>1. \A f \in Frames(stack') : /\ f.kind = "boot" => f \in Frames(stack)
                                  /\ OfInit(f) => \/ f.s \in Said(inbox)
                                                  \/ \E h \in Frames(stack) : OfInit(h) /\ h.s = f.s
    BY <1>5 DEF OfInit
  <2> QED
    BY <1>4, <2>1, UnaskedStays
<1>8. CallRight(x)'
  BY <1>2, <1>4 DEF CallRight, Real
<1>9. OfInit(x) => Installed(x)'
  BY <1>2, <1>4 DEF Installed, OfInit
<1>10. Attended'
  <2> SUFFICES ASSUME NEW p \in Page, page'[p].at = "waiting"
               PROVE  /\ <<p, "auto">> \in attached'
                      /\ \/ <<p, "auto">> \in Said(inbox')
                         \/ \E h \in Frames(stack') : OfInit(h) /\ h.s = <<p, "auto">> /\ h.step = "install"
    BY DEF Attended
  <2>1. page[p].at = "waiting"
    BY <1>4
  <2>2. /\ <<p, "auto">> \in attached
        /\ \/ <<p, "auto">> \in Said(inbox)
           \/ \E h \in Frames(stack) : OfInit(h) /\ h.s = <<p, "auto">> /\ h.step = "install"
    BY <2>1 DEF IInv, Attended
  <2> QED
    BY <1>4, <1>5, <2>2 DEF OfInit
<1>11. OkIsOfThisConnection'
  BY DEF IInv, OkIsOfThisConnection
<1>12. \A h \in Frames(stack') : h \in Frames(stack) \/ (CallRight(h)' /\ (OfInit(h) => Installed(h)'))
  BY <1>5, <1>8, <1>9
<1> QED
  BY <1>4, <1>5, <1>6, <1>7, <1>10, <1>11, <1>12, AgentMoves

LEMMA ReceiveAnswerKeeps == ASSUME IInv, ReceiveAnswer PROVE IInv'
<1>1. /\ connected /\ connected' = TRUE /\ inbox # <<>> /\ Head(inbox).type = "answer"
      /\ stack' = stack /\ inbox' = Tail(inbox) /\ UNCHANGED chrome /\ UNCHANGED <<books, health, passed>>
      /\ answers' = answers \cup {<<Head(inbox).id, Head(inbox).ok>>}
  BY DEF ReceiveAnswer, Receives, Returns, IInv, Fields
<1>2. Head(inbox) \in Message /\ inbox' \in Seq(Message) /\ Said(inbox') = Said(inbox)
  BY <1>1, MessageIs
<1>3. answers' \subseteq (Calls \cup {<<>>}) \X BOOLEAN
  BY <1>1, <1>2 DEF IInv, Fields, Message
<1>4. Booked'
  BY <1>1 DEF IInv, Booked, books
<1>5. Attended'
  BY <1>1, <1>2 DEF IInv, Attended, chrome
<1>6. url' \in [Session -> {"safe", "unsafe"}]
  BY <1>1 DEF IInv, Fields, books
<1> QED
  BY <1>1, <1>2, <1>3, <1>4, <1>5, <1>6, Hears

LEMMA ReceiveDetachedKeeps == ASSUME IInv, ReceiveDetached PROVE IInv'
<1>1. /\ connected /\ connected' = TRUE /\ inbox # <<>> /\ Head(inbox).type = "detached"
      /\ stack' = stack /\ inbox' = Tail(inbox) /\ UNCHANGED chrome /\ UNCHANGED <<answers, url, health, passed>>
      /\ initializing' \subseteq initializing /\ initialized' \subseteq initialized
  BY DEF ReceiveDetached, Receives, Returns, Forgets, IInv, Fields
<1>2. Head(inbox) \in Message /\ inbox' \in Seq(Message) /\ Said(inbox') = Said(inbox)
  BY <1>1, MessageIs
<1>3. Booked'
  BY <1>1 DEF IInv, Booked
<1>4. Attended'
  BY <1>1, <1>2 DEF IInv, Attended, chrome
<1> QED
  BY <1>1, <1>2, <1>3, <1>4, Hears DEF IInv, Fields

LEMMA ReceiveAttachedKeeps == ASSUME IInv, ReceiveAttached PROVE IInv'
<1>1. /\ connected /\ connected' = TRUE /\ inbox # <<>> /\ Head(inbox).type = "attached"
      /\ UNCHANGED <<answers, initialized, health, passed>>
      /\ url' = [url EXCEPT ![Head(inbox).s] = Head(inbox).url]
  BY DEF ReceiveAttached, Receives, IInv, Fields
<1>2. PICK s : s = Head(inbox).s
  OBVIOUS
<1>3. /\ Tail(inbox) \in Seq(Message) /\ Said(inbox) = Said(Tail(inbox)) \cup {s} /\ Head(inbox) \in Message
  BY <1>1, <1>2, MessageIs
<1>4. Real(s) /\ s \in Session /\ s[1] \in Page
  BY <1>3 DEF IInv, Real, Session
<1>5. url' \in [Session -> {"safe", "unsafe"}]
  BY <1>1, <1>3 DEF IInv, Fields, Message
<1>6. CASE s \in initialized \cup initializing
  <2>1. stack' = stack /\ inbox' = Tail(inbox) /\ UNCHANGED chrome /\ initializing' = initializing
    BY <1>2, <1>6 DEF ReceiveAttached, Inits, Returns
  <2>2. inbox' \in Seq(Message) /\ Said(inbox') \subseteq Said(inbox) /\ Said(inbox) = Said(inbox') \cup {s}
    BY <1>3, <2>1
  <2>3. Booked'
    BY <1>1, <2>1 DEF IInv, Booked
  <2>4. Attended'
    <3> SUFFICES ASSUME NEW p \in Page, page'[p].at = "waiting"
                 PROVE  /\ <<p, "auto">> \in attached'
                        /\ \/ <<p, "auto">> \in Said(inbox')
                           \/ \E h \in Frames(stack') : OfInit(h) /\ h.s = <<p, "auto">> /\ h.step = "install"
      BY DEF Attended
    <3>1. /\ page[p].at = "waiting" /\ <<p, "auto">> \in attached /\ <<p, "auto">> \in attached'
          /\ \/ <<p, "auto">> \in Said(inbox)
             \/ \E h \in Frames(stack) : OfInit(h) /\ h.s = <<p, "auto">> /\ h.step = "install"
      BY <1>1, <2>1 DEF IInv, Attended, chrome
    <3>2. ASSUME s = <<p, "auto">>
          PROVE  \E h \in Frames(stack) : OfInit(h) /\ h.s = <<p, "auto">> /\ h.step = "install"
      <4>1. PICK h \in Frames(stack) : OfInit(h) /\ h.s = s
        BY <1>6 DEF IInv, Booked
      <4>2. Installed(h) /\ s[1] = p /\ s \in attached
        BY <3>1, <3>2, <4>1 DEF IInv
      <4>3. h.step = "install"
        BY <3>1, <4>1, <4>2 DEF Installed
      <4> QED
        BY <3>2, <4>1, <4>3
    <3> QED
      BY <2>1, <2>2, <3>1, <3>2
  <2> QED
    BY <1>1, <1>5, <2>1, <2>2, <2>3, <2>4, Hears DEF IInv, Fields
<1>7. CASE s \notin initialized \cup initializing
  <2> DEFINE x == Frame("init", s, "install")
  <2>1. /\ x \in Call /\ x.kind = "init" /\ x.s = s /\ x.step = "install" /\ x.left = {}
    BY <1>4 DEF Call, Frame
  <2>2. initializing' = initializing \cup {s} /\ stack' = <<x>> \o stack
        /\ \E in : in = Tail(inbox) /\ Carries(Id(x), in)
    <3>1. First[1] = "install"
      BY DEF First
    <3>2. Inits("init", s, stack, Tail(inbox))
      BY <1>2 DEF ReceiveAttached, Inits, Returns, Waits, Carries, Id, Frame
    <3>3. initializing' = initializing \cup {s} /\ Waits(x, stack, Tail(inbox))
      BY <1>7, <3>1, <3>2 DEF Inits
    <3> HIDE DEF x
    <3> QED
      BY <3>3 DEF Waits, Id, Carries
  <2> HIDE DEF x
  <2>3. PICK in \in Seq(Message) : in = Tail(inbox) /\ Carries(Id(x), in)
    BY <1>3, <2>2
  <2>4. Frames(stack') = Frames(stack) \cup {x}
    BY <2>1, <2>2, FramesPush DEF IInv, Fields
  <2>5. Booked'
    BY <1>1, <2>1, <2>2, <2>4 DEF IInv, Booked, OfInit
  <2> QED
    BY <1>1, <1>3, <1>4, <1>5, <2>1, <2>2, <2>3, <2>5, Pushes
<1> QED
  BY <1>6, <1>7

LEMMA ReceiveNavigatedKeeps == ASSUME IInv, ReceiveNavigated PROVE IInv'
<1>1. /\ connected /\ connected' = TRUE /\ inbox # <<>> /\ Head(inbox).type = "navigated"
      /\ UNCHANGED <<answers, initializing, initialized, health, passed>>
      /\ url' = [url EXCEPT ![Head(inbox).s] = Head(inbox).url]
  BY DEF ReceiveNavigated, Receives, IInv, Fields
<1>2. PICK s : s = Head(inbox).s
  OBVIOUS
<1>3. Tail(inbox) \in Seq(Message) /\ Said(inbox) = Said(Tail(inbox)) /\ Head(inbox) \in Message
  BY <1>1, MessageIs
<1>4. url' \in [Session -> {"safe", "unsafe"}]
  BY <1>1, <1>3 DEF IInv, Fields, Message
<1>5. CASE ~(s \in initialized /\ url'[s] = "safe")
  <2>1. stack' = stack /\ inbox' = Tail(inbox) /\ UNCHANGED chrome
    BY <1>2, <1>5 DEF ReceiveNavigated, Returns
  <2>2. Booked' /\ Attended'
    BY <1>1, <1>3, <2>1 DEF IInv, Booked, Attended, chrome
  <2> QED
    BY <1>1, <1>3, <1>4, <2>1, <2>2, Hears DEF IInv, Fields
<1>6. CASE s \in initialized /\ url'[s] = "safe"
  <2> DEFINE x == Frame("nav", s, "check")
  <2>1. Real(s) /\ s \in Session
    <3>1. PICK h \in Frames(stack) : OfInit(h) /\ h.s = s
      BY <1>6 DEF IInv, Booked
    <3> QED
      BY <3>1 DEF IInv, CallRight, OfInit, Real
  <2>2. /\ x \in Call /\ x.kind = "nav" /\ x.s = s /\ x.step = "check" /\ x.left = {}
    BY <2>1 DEF Call, Frame
  <2>3. stack' = <<x>> \o stack /\ \E in : in = Tail(inbox) /\ Carries(Id(x), in)
    <3>1. Waits(x, stack, Tail(inbox))
      BY <1>2, <1>6 DEF ReceiveNavigated, Waits, Carries, Id, Frame
    <3> HIDE DEF x
    <3> QED
      BY <3>1 DEF Waits, Id, Carries
  <2> HIDE DEF x
  <2>4. PICK in \in Seq(Message) : in = Tail(inbox) /\ Carries(Id(x), in)
    BY <1>3, <2>3
  <2>5. Frames(stack') = Frames(stack) \cup {x}
    BY <2>2, <2>3, FramesPush DEF IInv, Fields
  <2>6. Booked'
    BY <1>1, <2>5 DEF IInv, Booked
  <2> QED
    BY <1>1, <1>3, <1>4, <2>1, <2>2, <2>3, <2>4, <2>6, Pushes
<1> QED
  BY <1>5, <1>6

-----------------------------------------------------------------------------
(* Chrome's pages, and connections. *)

\* A step of Chrome: the agent is where it was, and hears of it later.
LEMMA ChromeMoves ==
  ASSUME IInv, UNCHANGED <<auto, agent>>, page' \in [Page -> PageRow], attached' \subseteq Session,
         inbox' \in Seq(Message),
         \A p \in Page : page[p].at # "none" => page'[p].at # "none",
         \A s \in Said(inbox') : s \in Said(inbox) \/ (Real(s)' /\ s[2] = "auto"),
         \A s \in Session : s \in attached' /\ page[s[1]].at # "none" =>
           /\ s \in attached /\ page[s[1]].script # "no" => page'[s[1]].script # "no"
           /\ s \in attached
           /\ page'[s[1]].at = "waiting" => page[s[1]].at = "waiting",
         Attended', ScriptBeforeRun'
  PROVE  IInv'
<1>1. /\ stack' = stack /\ answers' = answers /\ url' = url /\ connected' = connected
      /\ initializing' = initializing /\ initialized' = initialized /\ health' = health /\ passed' = passed
  BY DEF agent, books
<1>2. Fields'
  BY <1>1 DEF IInv, Fields
<1>3. ASSUME NEW s, Real(s) PROVE Real(s)'
  BY <1>3 DEF Real, Session
<1>4. \A s \in Said(inbox') : Real(s)'
  BY <1>3 DEF IInv
<1>5. ASSUME NEW f \in Frames(stack)
      PROVE  /\ CallRight(f)'
             /\ OfInit(f) => Installed(f)'
             /\ f.kind = "boot" => \A p \in ToAsk(f) : Unasked(<<p, "asked">>)'
  <2>1. f \in Call /\ CallRight(f) /\ (OfInit(f) => Installed(f))
    BY <1>5 DEF IInv, Fields, Frames
  <2>2. CallRight(f)'
    <3>1. f.kind # "boot" \/ f.step \in {"attach", "attached"} => Real(f.s)'
      BY <1>3, <2>1 DEF CallRight
    <3>2. \A p \in f.left : page'[p].at # "none"
      BY <2>1 DEF CallRight, Call
    <3> QED
      BY <2>1, <3>1, <3>2 DEF CallRight
  <2>3. ASSUME OfInit(f) PROVE Installed(f)'
    <3>1. Real(f.s)
      BY <2>1, <2>3 DEF CallRight, OfInit
    <3>2. f.s \in Session /\ page[f.s[1]].at # "none"
      BY <3>1 DEF Real
    <3> QED
      BY <2>1, <2>3, <3>2 DEF Installed
  <2>4. ASSUME f.kind = "boot", NEW p \in ToAsk(f) PROVE Unasked(<<p, "asked">>)'
    <3>1. Unasked(<<p, "asked">>)
      BY <1>5, <2>4 DEF IInv
    <3>2. <<p, "asked">> \notin Said(inbox')
      BY <3>1 DEF Unasked
    <3> QED
      BY <1>1, <3>1, <3>2 DEF Unasked
  <2> QED
    BY <2>2, <2>3, <2>4
<1>6. Booked' /\ OkIsOfThisConnection' /\ BootIsLast(stack') /\ (connected' \/ stack' = <<>>)
  BY <1>1 DEF IInv, Booked, OkIsOfThisConnection
<1> QED
  BY <1>1, <1>2, <1>4, <1>5, <1>6 DEF IInv

LEMMA OpensKeeps == ASSUME IInv, NEW p \in Page, Opens(p) PROVE IInv'
<1>1. /\ Fields /\ page \in [Page -> PageRow] /\ attached \subseteq Session /\ inbox \in Seq(Message)
      /\ auto \in BOOLEAN
  BY DEF IInv, Fields
<1>2. PICK u \in {"safe", "unsafe"} :
        page' = [page EXCEPT ![p] = [NoPage EXCEPT !.at = IF auto THEN "waiting" ELSE "running",
                                                   !.url = u, !.held = auto]]
  BY DEF Opens
<1> DEFINE row == [NoPage EXCEPT !.at = IF auto THEN "waiting" ELSE "running", !.url = u, !.held = auto]
           s == <<p, "auto">>
<1>3. /\ row \in PageRow /\ row.at = (IF auto THEN "waiting" ELSE "running") /\ row.held = auto /\ row.url = u
  BY <1>1 DEF NoPage, PageRow
<1> HIDE DEF row
<1>4. /\ page' \in [Page -> PageRow] /\ page'[p] = row /\ \A q \in Page : q # p => page'[q] = page[q]
  BY <1>1, <1>2, <1>3 DEF row
<1>5. page[p].at = "none" /\ UNCHANGED <<auto, agent>>
  BY DEF Opens
<1>6. s \in Session /\ s[1] = p /\ s[2] = "auto" /\ Real(s)'
  BY <1>3, <1>4 DEF Session, Real
<1>7. /\ attached' = IF auto THEN attached \cup {s} ELSE attached
      /\ inbox' \in Seq(Message) /\ Said(inbox') = IF auto THEN Said(inbox) \cup {s} ELSE Said(inbox)
  <2>1. CASE auto
    <3> DEFINE e1 == Event("attached", s, row.url)
    <3>1. attached' = attached \cup {s} /\ inbox' = Append(inbox, e1)
      BY <1>4, <2>1 DEF Opens
    <3>2. e1 \in Message /\ e1.type = "attached" /\ e1.s = s
      BY <1>3, <1>6 DEF Event, Message
    <3> HIDE DEF e1
    <3>3. <<e1>> \in Seq(Message) /\ Said(<<e1>>) = {s}
      BY <3>2, SaidOne
    <3>4. inbox' = inbox \o <<e1>>
      BY <1>1, <3>1, <3>2
    <3> QED
      BY <1>1, <2>1, <3>1, <3>3, <3>4, SaidMore, ZenonT(60)
  <2>2. CASE ~auto
    BY <1>1, <2>2 DEF Opens
  <2> QED
    BY <2>1, <2>2
<1>8. connected' = connected /\ stack' = stack
  BY <1>5 DEF agent
<1>9. Attended'
  <2> SUFFICES ASSUME NEW q \in Page, connected', page'[q].at = "waiting"
               PROVE  /\ <<q, "auto">> \in attached'
                      /\ \/ <<q, "auto">> \in Said(inbox')
                         \/ \E h \in Frames(stack') : OfInit(h) /\ h.s = <<q, "auto">> /\ h.step = "install"
    BY DEF Attended
  <2>1. CASE q = p
    BY <1>3, <1>4, <1>7, <2>1
  <2>2. CASE q # p
    BY <1>4, <1>7, <1>8, <2>2 DEF IInv, Attended
  <2> QED
    BY <2>1, <2>2
<1>10. ScriptBeforeRun'
  BY <1>3, <1>4, <1>8 DEF IInv, ScriptBeforeRun
<1>11. attached' \subseteq Session /\ \A q \in Page : page[q].at # "none" => page'[q].at # "none"
  BY <1>1, <1>4, <1>5, <1>6, <1>7
<1>12. \A t \in Said(inbox') : t \in Said(inbox) \/ (Real(t)' /\ t[2] = "auto")
  BY <1>6, <1>7
<1>13. ASSUME NEW t \in Session, t \in attached', page[t[1]].at # "none"
       PROVE  t \in attached /\ page'[t[1]] = page[t[1]]
  <2>1. t # s /\ t[1] # p /\ t[1] \in Page
    BY <1>5, <1>6, <1>13 DEF Session
  <2> QED
    BY <1>4, <1>7, <1>13, <2>1
<1> QED
  BY <1>4, <1>5, <1>7, <1>9, <1>10, <1>11, <1>12, <1>13, ChromeMoves

LEMMA ClosesKeeps == ASSUME IInv, NEW p \in Page, Closes(p) PROVE IInv'
<1>1. /\ Fields /\ page \in [Page -> PageRow] /\ attached \subseteq Session /\ inbox \in Seq(Message)
  BY DEF IInv, Fields
<1> DEFINE row == [NoPage EXCEPT !.at = "closed", !.moved = page[p].moved]
<1>2. row \in PageRow /\ row.at = "closed"
  BY <1>1 DEF NoPage, PageRow
<1> HIDE DEF row
<1>3. /\ page' \in [Page -> PageRow] /\ page'[p] = row /\ \A q \in Page : q # p => page'[q] = page[q]
      /\ UNCHANGED <<auto, agent>> /\ page[p].at # "none"
  BY <1>1, <1>2 DEF Closes, row
<1>4. PICK S \in SUBSET Session, pages \in [Page -> PageRow] :
         S = OfPage(p) /\ pages = page /\ inbox' = inbox \o EventsTo(S, "detached", pages)
  BY <1>1 DEF Closes, OfPage
<1>5. inbox' \in Seq(Message) /\ Said(inbox') = Said(inbox)
  <2> DEFINE more == EventsTo(S, "detached", pages)
  <2>1. more \in Seq(Message) /\ Said(more) = {}
    BY PagesAssumption, EventsAre
  <2> HIDE DEF more
  <2>2. inbox' = inbox \o more
    BY <1>4 DEF more
  <2>3. inbox \o more \in Seq(Message) /\ Said(inbox \o more) = Said(inbox) \cup Said(more)
    BY <1>1, <2>1, SaidMore
  <2> QED
    BY <2>1, <2>2, <2>3
<1>6. attached' = {s \in attached : s[1] # p}
  BY DEF Closes, OfPage
<1>7. connected' = connected /\ stack' = stack
  BY <1>3 DEF agent
<1>8. Attended'
  <2> SUFFICES ASSUME NEW q \in Page, connected', page'[q].at = "waiting"
               PROVE  /\ <<q, "auto">> \in attached'
                      /\ \/ <<q, "auto">> \in Said(inbox')
                         \/ \E h \in Frames(stack') : OfInit(h) /\ h.s = <<q, "auto">> /\ h.step = "install"
    BY DEF Attended
  <2>1. q # p
    BY <1>2, <1>3
  <2> QED
    BY <1>3, <1>5, <1>6, <1>7, <2>1 DEF IInv, Attended
<1>9. ScriptBeforeRun'
  BY <1>2, <1>3, <1>7 DEF IInv, ScriptBeforeRun
<1>10. \A q \in Page : page[q].at # "none" => page'[q].at # "none"
  BY <1>2, <1>3
<1>11. \A t \in Session : t \in attached' => t \in attached /\ page'[t[1]] = page[t[1]]
  BY <1>3, <1>6 DEF Session
<1>12. attached' \subseteq Session
  BY <1>1, <1>6
<1> QED
  BY <1>3, <1>5, <1>8, <1>9, <1>10, <1>11, <1>12, ChromeMoves

LEMMA NavigatesKeeps == ASSUME IInv, NEW p \in Page, Navigates(p) PROVE IInv'
<1>1. /\ Fields /\ page \in [Page -> PageRow] /\ attached \subseteq Session /\ inbox \in Seq(Message)
  BY DEF IInv, Fields
<1> DEFINE row == [page[p] EXCEPT !.moved = TRUE, !.url = IF page[p].url = "safe" THEN "unsafe" ELSE "safe"]
<1>2. row \in PageRow /\ row.at = page[p].at /\ row.script = page[p].script /\ row.held = page[p].held
  BY <1>1 DEF PageRow
<1>3. page' = [page EXCEPT ![p] = row] /\ attached' = attached /\ UNCHANGED <<auto, agent>>
  BY <1>1 DEF Navigates
<1> HIDE DEF row
<1>4. /\ page' \in [Page -> PageRow]
      /\ \A q \in Page : /\ page'[q].at = page[q].at /\ page'[q].script = page[q].script
                         /\ page'[q].held = page[q].held
  BY <1>1, <1>2, <1>3
<1>5. PICK S \in SUBSET Session, pages \in [Page -> PageRow] :
         inbox' = inbox \o EventsTo(S, "navigated", pages)
  BY <1>1, <1>4 DEF Navigates, OfPage
<1>6. inbox' \in Seq(Message) /\ Said(inbox') = Said(inbox)
  <2> DEFINE more == EventsTo(S, "navigated", pages)
  <2>1. more \in Seq(Message) /\ Said(more) = {}
    BY PagesAssumption, EventsAre
  <2> HIDE DEF more
  <2>2. inbox' = inbox \o more
    BY <1>5 DEF more
  <2>3. inbox \o more \in Seq(Message) /\ Said(inbox \o more) = Said(inbox) \cup Said(more)
    BY <1>1, <2>1, SaidMore
  <2> QED
    BY <2>1, <2>2, <2>3
<1>7. connected' = connected /\ stack' = stack
  BY <1>3 DEF agent
<1>8. Attended' /\ ScriptBeforeRun'
  BY <1>3, <1>4, <1>6, <1>7, ZenonT(60) DEF IInv, Attended, ScriptBeforeRun
<1>9. \A t \in Session : t[1] \in Page
  BY DEF Session
<1> QED
  BY <1>1, <1>3, <1>4, <1>6, <1>8, <1>9, ChromeMoves

\* A connection that ends lets the pages run.
LEMMA AllReleased ==
  ASSUME Fields, NEW pages, pages = [p \in Page |-> Released(p)]
  PROVE  /\ pages \in [Page -> PageRow]
         /\ \A p \in Page : /\ pages[p].at # "waiting" /\ ~pages[p].held
                            /\ page[p].at # "none" => pages[p].at # "none"
<1> SUFFICES ASSUME NEW p \in Page
             PROVE  /\ Released(p) \in PageRow /\ Released(p).at # "waiting" /\ Released(p).held = FALSE
                    /\ page[p].at # "none" => Released(p).at # "none"
  OBVIOUS
<1>1. page[p] \in PageRow
  BY DEF Fields
<1> QED
  BY <1>1 DEF Released, PageRow

LEMMA ConnectKeeps == ASSUME IInv, Connect PROVE IInv'
<1>1. Fields /\ stack = <<>> /\ Frames(stack) = {} /\ initializing = {} /\ initialized = {}
  BY NoFrames DEF IInv, Connect, Booked
<1> DEFINE f == Frame("boot", Boot, "auto")
<1>2. PICK pages, new : /\ pages = [p \in Page |-> Released(p)]
                        /\ new = {<<p, "auto">> : p \in {p \in Page : pages[p].at = "running"}}
                        /\ page' = pages /\ attached' = new
                        /\ inbox' = EventsTo(new, "attached", pages) \o <<Answer(Id(f), TRUE)>>
  BY DEF Connect
<1>3. /\ connected' = TRUE /\ health' = "starting" /\ answers' = {} /\ stack' = <<f>> /\ auto' = TRUE
      /\ initializing' = initializing /\ initialized' = initialized /\ url' = url
  BY DEF Connect, Starting, books
<1>4. /\ f \in Call /\ f.kind = "boot" /\ f.step = "auto" /\ f.left = {} /\ Id(f) \in Calls
  BY DEF Frame, Call, Id, Calls
<1> HIDE DEF f
<1>5. /\ pages \in [Page -> PageRow]
      /\ \A p \in Page : pages[p].at # "waiting" /\ ~pages[p].held
  BY <1>1, <1>2, AllReleased
<1>6. new \in SUBSET Session /\ \A s \in new : s[2] = "auto" /\ pages[s[1]].at = "running"
  BY <1>2 DEF Session
<1>7. inbox' \in Seq(Message) /\ Said(inbox') \subseteq new
  <2> DEFINE more == EventsTo(new, "attached", pages)
  <2>1. more \in Seq(Message) /\ Said(more) \subseteq new
    BY <1>5, <1>6, PagesAssumption, EventsAre
  <2> HIDE DEF more
  <2>2. inbox' = more \o <<Answer(Id(f), TRUE)>>
    BY <1>2 DEF more
  <2> QED
    BY <1>4, <2>1, <2>2, AnswerIs
<1>8. stack' \in Seq(Call) /\ Frames(stack') = {f} /\ BootIsLast(stack')
  <2>1. stack' = <<f>> \o <<>>
    BY <1>3, <1>4
  <2>2. stack' \in Seq(Call) /\ Frames(stack') = Frames(<<>>) \cup {f} /\ BootIsLast(stack')
    BY <1>4, <2>1, FramesPush, NoFrames
  <2> QED
    BY <2>2, NoFrames
<1>9. Fields'
  BY <1>1, <1>2, <1>3, <1>5, <1>6, <1>7, <1>8 DEF Fields
<1>10. \A s \in Said(inbox') : Real(s)'
  BY <1>2, <1>6, <1>7 DEF Real
<1>11. CallRight(f)' /\ ~OfInit(f)
  BY <1>4 DEF CallRight, OfInit
<1>12. ASSUME NEW p \in ToAsk(f) PROVE Unasked(<<p, "asked">>)'
  <2>1. <<p, "asked">> \notin Said(inbox')
    BY <1>6, <1>7
  <2> QED
    BY <1>8, <1>11, <2>1 DEF Unasked
<1>13. Booked' /\ Attended' /\ ScriptBeforeRun' /\ OkIsOfThisConnection'
  BY <1>1, <1>2, <1>3, <1>5 DEF Booked, Attended, ScriptBeforeRun, OkIsOfThisConnection
<1> QED
  BY <1>3, <1>8, <1>9, <1>10, <1>11, <1>12, <1>13 DEF IInv

LEMMA DisconnectKeeps == ASSUME IInv, Disconnect PROVE IInv'
<1>1. Fields
  BY DEF IInv
<1>2. PICK pages : pages = [p \in Page |-> Released(p)] /\ page' = pages
  BY DEF Disconnect
<1>3. /\ connected' = FALSE /\ answers' = {} /\ stack' = <<>> /\ auto' = FALSE /\ inbox' = <<>>
      /\ attached' = {} /\ initializing' = {} /\ initialized' = {} /\ url' = NotSeen
  BY DEF Disconnect
<1>4. page' \in [Page -> PageRow]
  BY <1>1, <1>2, AllReleased
<1>5. stack' \in Seq(Call) /\ Frames(stack') = {} /\ BootIsLast(stack')
  BY <1>3, NoFrames
<1>6. inbox' \in Seq(Message) /\ Said(inbox') = {}
  <2>1. <<>> \in Seq(Message)
    OBVIOUS
  <2> QED
    BY <1>3, <2>1, NoFrames
<1>7. Fields'
  BY <1>3, <1>4, <1>5, <1>6 DEF Fields, NotSeen
<1>8. Booked' /\ Attended' /\ ScriptBeforeRun' /\ OkIsOfThisConnection'
  BY <1>3 DEF Booked, Attended, ScriptBeforeRun, OkIsOfThisConnection
<1> QED
  BY <1>3, <1>5, <1>6, <1>7, <1>8 DEF IInv

LEMMA AgentStarts == ASSUME Init PROVE IInv
<1>1. /\ stack = <<>> /\ inbox = <<>> /\ attached = {} /\ answers = {} /\ connected = FALSE /\ auto = FALSE
      /\ initializing = {} /\ initialized = {} /\ url = NotSeen /\ health = "none"
      /\ \A p \in Page : page[p] \in PageRow
      /\ page \in [Page -> PageRow]
  BY DEF Init, NoPage, PageRow
<1>2. stack \in Seq(Call) /\ Frames(stack) = {} /\ BootIsLast(stack)
  BY <1>1, NoFrames
<1>3. inbox \in Seq(Message) /\ Said(inbox) = {}
  <2>1. <<>> \in Seq(Message)
    OBVIOUS
  <2> QED
    BY <1>1, <2>1, NoFrames
<1>4. Fields
  BY <1>1, <1>2, <1>3 DEF Fields, NotSeen
<1>5. Booked /\ Attended /\ ScriptBeforeRun /\ OkIsOfThisConnection
  BY <1>1 DEF Booked, Attended, ScriptBeforeRun, OkIsOfThisConnection
<1> QED
  BY <1>1, <1>2, <1>3, <1>4, <1>5 DEF IInv

LEMMA AgentSteps == ASSUME IInv, Next PROVE IInv'
BY AnsweredKeeps, TimesOutKeeps, NextAttachedKeeps, ReceiveAnswerKeeps, ReceiveDetachedKeeps,
   ReceiveAttachedKeeps, ReceiveNavigatedKeeps, OpensKeeps, ClosesKeeps, NavigatesKeeps, ConnectKeeps,
   DisconnectKeeps DEF Next

LEMMA AgentRests == ASSUME IInv, UNCHANGED vars PROVE IInv'
<1>1. /\ page' = page /\ attached' = attached /\ auto' = auto /\ inbox' = inbox /\ stack' = stack
      /\ answers' = answers /\ url' = url /\ connected' = connected
      /\ initializing' = initializing /\ initialized' = initialized /\ health' = health /\ passed' = passed
  BY DEF vars, agent, books, chrome
<1>2. Fields' /\ Booked' /\ Attended' /\ ScriptBeforeRun' /\ OkIsOfThisConnection'
  BY <1>1 DEF IInv, Fields, Booked, Attended, ScriptBeforeRun, OkIsOfThisConnection
<1>3. \A s : (Real(s) <=> Real(s)') /\ (Unasked(s) <=> Unasked(s)')
  BY <1>1 DEF Real, Unasked
<1>4. \A f : (CallRight(f) <=> CallRight(f)') /\ (Installed(f) <=> Installed(f)')
  BY <1>1, <1>3 DEF CallRight, Installed
<1> QED
  BY <1>1, <1>2, <1>3, <1>4 DEF IInv

\* The inductive invariant of the agent's calls and books, of Chrome's pages and
\* of the messages between them, whatever Chrome does at each await.
THEOREM AgentInvariant == MCSpec => []IInv
<1>1. MCInit => IInv
  BY AgentStarts DEF MCInit
<1>2. IInv /\ [MCNext]_<<which, vars, Others>> => IInv'
  <2> SUFFICES ASSUME IInv, [MCNext]_<<which, vars, Others>> PROVE IInv'
    OBVIOUS
  <2>1. Next \/ UNCHANGED vars
    BY DEF MCNext
  <2> QED
    BY <2>1, AgentSteps, AgentRests
<1> QED
  BY <1>1, <1>2, PTL DEF MCSpec

\* AgentHolds: a page that Chrome has stopped runs with the script or after
\* Chrome has refused it; the agent that is idle knows of no session and leaves
\* no page stopped; a health that is ok was found by this connection.
THEOREM PagesAreCovered == MCSpec => []AgentHolds
<1>1. IInv => AgentHolds
  <2> SUFFICES ASSUME IInv PROVE AgentHolds
    OBVIOUS
  <2>1. IdleMeansDone
    <3> SUFFICES ASSUME connected, stack = <<>>
                 PROVE  /\ initializing = {} /\ initialized = {}
                        /\ inbox = <<>> => \A p \in Page : page[p].at # "waiting"
      BY DEF IdleMeansDone
    <3>1. Frames(stack) = {}
      BY NoFrames
    <3>2. initializing = {} /\ initialized = {}
      BY <3>1 DEF IInv, Booked
    <3>3. ASSUME inbox = <<>>, NEW p \in Page PROVE page[p].at # "waiting"
      BY <3>1, <3>3, NoFrames DEF IInv, Attended
    <3> QED
      BY <3>2, <3>3
  <2> QED
    BY <2>1 DEF IInv, AgentHolds
<1> QED
  BY <1>1, AgentInvariant, PTL
-----------------------------------------------------------------------------
(* WebDriver sessions: operations, and how a request moves.                *)

LEMMA WebRows ==
  ASSUME NEW op \in Ops, op # "change"
  PROVE  /\ Len(Web!Row(op).calls) \in 1..4 /\ DOMAIN Web!Row(op).calls = 1..Len(Web!Row(op).calls)
         /\ Web!Row(op).safe =>
              \A i \in DOMAIN Web!Row(op).calls : Web!Row(op).calls[i] \notin {"effect", "pick"}
<1> DEFINE Right(o) ==
      /\ Len(o.calls) \in 1..4 /\ DOMAIN o.calls = 1..Len(o.calls)
      /\ o.safe => \A i \in DOMAIN o.calls : o.calls[i] \notin {"effect", "pick"}
<1>1. Right(Web!Navigate) /\ Right(Web!Current) /\ Right(Web!Observe) /\ Right(Web!Click)
  BY DEF Web!Navigate, Web!Current, Web!Observe, Web!Click, Web!Operation
<1>2. Right(Web!ClickElement) /\ Right(Web!TypeText) /\ Right(Web!PressKey) /\ Right(Web!Scroll)
  BY DEF Web!ClickElement, Web!TypeText, Web!PressKey, Web!Scroll, Web!Operation
<1>3. Right(Web!Screenshot) /\ Right(Web!ExportImage) /\ Right(Web!Homepage)
  BY DEF Web!Screenshot, Web!ExportImage, Web!Homepage, Web!Operation
<1> HIDE DEF Right
<1>4. Right(Web!Row(op))
  BY <1>1, <1>2, <1>3, OpsAssumption DEF Web!Row
<1> QED
  BY <1>4 DEF Right

LEMMA WebCounts ==
  /\ 0..MaxFaults \subseteq Nat
  /\ \A r \in Web!Request : r.began \in Nat /\ r.attempt \in Nat /\ r.call \in Nat
  /\ Web!IInv => /\ mishaps \in Nat /\ Web!Fields
                 /\ \A q \in Process : proc[q] \in Web!Request /\ Web!Fits(proc[q])
<1>1. 0..MaxFaults \subseteq Nat
  BY FaultsAssumption
<1>2. ASSUME NEW r \in Web!Request PROVE r.began \in Nat /\ r.attempt \in Nat /\ r.call \in Nat
  <2>1. r.began \in 0..MaxFaults /\ r.attempt \in 0..Web!LastAttempt /\ r.call \in 0..4
    BY DEF Web!Request
  <2> QED
    BY <1>1, <2>1 DEF Web!LastAttempt
<1>3. ASSUME Web!IInv
      PROVE  /\ mishaps \in Nat /\ Web!Fields
             /\ \A q \in Process : proc[q] \in Web!Request /\ Web!Fits(proc[q])
  <2>1. Web!Fields /\ \A q \in Process : Web!Fits(proc[q])
    BY <1>3 DEF Web!IInv
  <2>2. mishaps \in 0..MaxFaults /\ proc \in [Process -> Web!Request]
    BY <2>1 DEF Web!Fields
  <2> QED
    BY <1>1, <2>1, <2>2
<1> QED
  BY <1>1, <1>2, <1>3

LEMMA WebSqueezed == \A a, m, n \in Nat : a <= m /\ n >= m /\ a = n => a = m /\ n = m
  OBVIOUS

LEMMA WebBegan ==
  ASSUME Web!IInv, NEW p \in Process, mishaps' \in 0..MaxFaults, mishaps' >= mishaps
  PROVE  proc[p].began <= mishaps'
<1>1. proc[p].began \in Nat /\ mishaps \in Nat /\ mishaps' \in Nat
  BY WebCounts
<1>2. proc[p].began <= mishaps
  BY DEF Web!IInv
<1> QED
  BY <1>1, <1>2

\* A request moves on, the others rest.
LEMMA WebMoves ==
  ASSUME Web!IInv, NEW p \in Process, proc[p].op # "none", proc' \in [Process -> Web!Request],
         \A q \in Process \ {p} : proc'[q] = proc[q],
         proc'[p].op = proc[p].op, proc'[p].alone = proc[p].alone, proc'[p].began = proc[p].began,
         mishaps' \in 0..MaxFaults, mishaps' >= mishaps, last' = last,
         cache' \in Objects \cup {None}, wd' \in [Objects -> Web!Id], running' \in BOOLEAN,
         live' \subseteq Wd, Web!OneLive',
         Web!Fits(proc[p])',
         proc'[p].alone /\ proc'[p].began = mishaps' => Web!OnCourse(proc[p])'
  PROVE  Web!IInv'
<1>1. Web!Fields'
  BY DEF Web!IInv, Web!Fields
<1>2. ASSUME NEW q \in Process
      PROVE  Web!Fits(proc[q])' /\ proc'[q].began <= mishaps' /\ Web!Undisturbed(q)'
  <2>1. CASE q = p
    <3>1. proc'[p].alone => \A o \in Process \ {p} : proc'[o].op = "none"
      BY DEF Web!IInv, Web!Undisturbed
    <3>2. proc'[p].began <= mishaps'
      BY WebBegan
    <3> QED
      BY <2>1, <3>1, <3>2 DEF Web!Undisturbed
  <2>2. CASE q # p
    <3>1. proc'[q] = proc[q] /\ Web!Fits(proc[q]) /\ ~(proc[q].op # "none" /\ proc[q].alone)
      BY <2>2 DEF Web!IInv, Web!Undisturbed
    <3>2. proc'[q].began <= mishaps'
      BY <3>1, WebBegan
    <3> QED
      BY <3>1, <3>2 DEF Web!Fits, Web!Undisturbed
  <2> QED
    BY <2>1, <2>2
<1>3. ~last'.alone
  BY DEF Web!IInv, Web!Busy
<1>4. Web!LoneOperations'
  BY <1>3 DEF Web!IInv, Web!LoneOperations, Web!LoneOperationSucceeds, Web!LoneOperationCleansUp,
             Web!SafeMeansNoEffect
<1> QED
  BY <1>1, <1>2, <1>3, <1>4 DEF Web!IInv

\* The same, for what the request becomes.
LEMMA WebGoes ==
  ASSUME Web!IInv, NEW p \in Process, proc[p].op # "none", NEW x \in Web!Request,
         Web!Becomes(p, x), Web!Fits(x),
         x.op = proc[p].op, x.alone = proc[p].alone, x.began = proc[p].began,
         mishaps' \in 0..MaxFaults, mishaps' >= mishaps, last' = last,
         cache' \in Objects \cup {None}, wd' \in [Objects -> Web!Id], running' \in BOOLEAN,
         live' \subseteq Wd, Web!OneLive',
         Web!OnCourse(proc[p]) /\ mishaps' = mishaps =>
           /\ x.error \in {"none", "not found"}
           /\ x.at \notin {"discard", "reset", "reset clear", "remove", "ensure"}
           /\ x.at \in {"container", "lock", "check", "find", "adopt", "create"} => x.entry = cache'
           /\ x.at \in {"lock", "check", "find", "adopt", "create"} => running'
           /\ x.at = "check" => x.sid = wd'[cache']
           /\ x.at \in {"adopt", "call"} => cache' # None /\ x.sid = wd'[cache']
           /\ x.at \in {"adopt", "call", "exit"} => x.sid \in live'
           /\ x.at \in {"create", "clear"} => live' = {}
  PROVE  Web!IInv'
<1>1. /\ proc' \in [Process -> Web!Request] /\ proc'[p] = x
      /\ \A q \in Process \ {p} : proc'[q] = proc[q]
  BY WebCounts DEF Web!Fields, Web!Becomes
<1>2. Web!Fits(proc[p])'
  BY <1>1 DEF Web!Fits
<1>3. proc'[p].alone /\ proc'[p].began = mishaps' => Web!OnCourse(proc[p]) /\ mishaps' = mishaps
  <2>1. proc[p].began <= mishaps /\ proc[p].began \in Nat /\ mishaps \in Nat /\ mishaps' \in Nat
    BY WebCounts DEF Web!IInv
  <2>2. proc[p].alone /\ proc[p].began = mishaps => Web!OnCourse(proc[p])
    BY DEF Web!IInv, Web!Undisturbed
  <2>3. proc[p].began = mishaps' => proc[p].began = mishaps /\ mishaps' = mishaps
    BY <2>1, WebSqueezed
  <2> QED
    BY <1>1, <2>2, <2>3
<1>4. proc'[p].alone /\ proc'[p].began = mishaps' => Web!OnCourse(proc[p])'
  BY <1>1, <1>3 DEF Web!OnCourse
<1> QED
  BY <1>1, <1>2, <1>4, WebMoves

\* The same of a request that was not alone or has met a fault.
LEMMA WebStrays ==
  ASSUME Web!IInv, NEW p \in Process, proc[p].op # "none", NEW x \in Web!Request,
         Web!Becomes(p, x), Web!Fits(x),
         x.op = proc[p].op, x.alone = proc[p].alone, x.began = proc[p].began,
         mishaps' \in 0..MaxFaults, mishaps' >= mishaps, last' = last,
         cache' \in Objects \cup {None}, wd' \in [Objects -> Web!Id], running' \in BOOLEAN,
         live' \subseteq Wd, Web!OneLive',
         ~(x.alone /\ x.began = mishaps')
  PROVE  Web!IInv'
<1>1. /\ proc' \in [Process -> Web!Request] /\ proc'[p] = x
      /\ \A q \in Process \ {p} : proc'[q] = proc[q]
  BY WebCounts DEF Web!Fields, Web!Becomes
<1>2. Web!Fits(proc[p])'
  BY <1>1 DEF Web!Fits
<1> QED
  BY <1>1, <1>2, WebMoves

LEMMA WebIdle ==
  /\ Web!Idle \in Web!Request /\ Web!Idle.op = "none" /\ Web!Idle.at = "idle"
  /\ Web!Idle.began = 0 /\ Web!Idle.error = "none" /\ Web!Idle.effect = FALSE
  BY FaultsAssumption DEF Web!Idle, Web!Request, Web!At, Web!Id, Web!LastAttempt

\* A request answers.
LEMMA WebEnds ==
  ASSUME Web!IInv, NEW p \in Process, proc[p].op # "none",
         proc' = [proc EXCEPT ![p] = Web!Idle],
         mishaps' \in 0..MaxFaults, mishaps' >= mishaps, last' \in Web!Ended,
         cache' \in Objects \cup {None}, wd' \in [Objects -> Web!Id], running' \in BOOLEAN,
         live' \subseteq Wd, Web!OneLive',
         last'.alone = proc[p].alone,
         last'.alone /\ last'.clean => last'.answer # "failed" /\ (last'.op = "home" \/ live' = {}),
         last'.answer = "failed" /\ Web!Row(last'.op).safe => ~last'.effect
  PROVE  Web!IInv'
<1>0. /\ Web!Idle \in Web!Request /\ Web!Idle.op = "none" /\ Web!Idle.at = "idle"
      /\ Web!Idle.began = 0
  BY WebIdle
<1>1. /\ proc' \in [Process -> Web!Request] /\ proc'[p] = Web!Idle
      /\ \A q \in Process \ {p} : proc'[q] = proc[q]
  BY <1>0 DEF Web!IInv, Web!Fields
<1>2. Web!Fields'
  BY <1>1 DEF Web!IInv, Web!Fields
<1>3. ASSUME NEW q \in Process
      PROVE  Web!Fits(proc[q])' /\ proc'[q].began <= mishaps' /\ Web!Undisturbed(q)'
  <2>1. CASE q = p
    <3>1. proc'[q] = Web!Idle /\ 0 <= mishaps'
      BY <1>1, <2>1, FaultsAssumption
    <3> QED
      BY <1>0, <3>1 DEF Web!Fits, Web!Undisturbed
  <2>2. CASE q # p
    <3>1. proc'[q] = proc[q] /\ Web!Fits(proc[q]) /\ ~(proc[q].op # "none" /\ proc[q].alone)
      BY <1>1, <2>2 DEF Web!IInv, Web!Undisturbed
    <3>2. proc'[q].began <= mishaps'
      BY <3>1, WebBegan
    <3> QED
      BY <3>1, <3>2 DEF Web!Fits, Web!Undisturbed
  <2> QED
    BY <2>1, <2>2
<1>4. last'.alone => Web!Busy' = {}
  BY <1>0, <1>1 DEF Web!IInv, Web!Undisturbed, Web!Busy
<1>5. Web!LoneOperations'
  BY DEF Web!LoneOperations, Web!LoneOperationSucceeds, Web!LoneOperationCleansUp,
         Web!SafeMeansNoEffect
<1> QED
  BY <1>2, <1>3, <1>4, <1>5 DEF Web!IInv

LEMMA WebAttempts == \A n \in 0..2 : n # 2 => n < 2
  OBVIOUS

\* A new entry is one that nothing refers to.
LEMMA WebEntries == ASSUME Web!IInv PROVE Web!NewEntry \in Objects
<1> DEFINE f == [q \in Process |-> proc[q].entry]
<1>1. cache \in Objects \cup {None} /\ f \in [Process -> Objects \cup {None}]
  BY WebCounts DEF Web!Fields, Web!Request
<1>2. \A q \in Process : f[q] = proc[q].entry
  OBVIOUS
<1> HIDE DEF f
<1>3. \E e \in Objects : e # cache /\ \A q \in Process : f[q] # e
  BY <1>1, ObjectsAssumption
<1> QED
  BY <1>2, <1>3 DEF Web!NewEntry

\* An attempt begins again with what the cache has, or with a new entry.
LEMMA WebEnters ==
  ASSUME Web!IInv, NEW p \in Process, proc[p].op \notin {"none", "change"},
         NEW r \in Web!Request, r.op = proc[p].op, r.alone = proc[p].alone, r.began = proc[p].began,
         NEW found \in Objects \cup {None}, NEW w \in [Objects -> Web!Id], Web!Enter(p, r, found, w),
         mishaps' \in 0..MaxFaults, mishaps' >= mishaps,
         running' \in BOOLEAN, live' \subseteq Wd, Web!OneLive',
         ~(r.alone /\ r.began = mishaps'), Web!Row(r.op).safe => ~r.effect
  PROVE  Web!IInv'
<1>1. Web!NewEntry \in Objects
  BY WebEntries
<1> DEFINE e == IF found = None THEN Web!NewEntry ELSE found
           x == [r EXCEPT !.at = "container", !.entry = e, !.sid = None, !.call = 1, !.error = "none"]
<1>2. e \in Objects
  BY <1>1
<1>3. /\ cache' = e /\ wd' \in [Objects -> Web!Id] /\ last' = last
      /\ proc' = [proc EXCEPT ![p] = x]
  BY <1>1 DEF Web!Enter, Web!Becomes, Web!Id
<1> HIDE DEF e
<1>4. /\ x \in Web!Request /\ x.op = r.op /\ x.alone = r.alone /\ x.began = r.began
      /\ x.at = "container" /\ x.entry = e /\ x.call = 1 /\ x.effect = r.effect
  <2>1. "container" \in Web!At /\ None \in Web!Id /\ 1 \in 0..4 /\ e \in Objects \cup {None}
    BY <1>2 DEF Web!At, Web!Id
  <2> QED
    BY <2>1 DEF Web!Request
<1> HIDE DEF x
<1>5. Web!Fits(x)
  <2>1. r.op \in Ops /\ r.op # "change"
    BY DEF Web!Request
  <2>2. 1 \in DOMAIN Web!Row(r.op).calls
    BY <2>1, WebRows
  <2> QED
    BY <1>2, <1>4, <2>1, <2>2 DEF Web!Fits
<1>6. Web!Becomes(p, x) /\ cache' \in Objects \cup {None}
  BY <1>2, <1>3 DEF Web!Becomes
<1> QED
  BY <1>3, <1>4, <1>5, <1>6, WebStrays

LEMMA WebResets ==
  ASSUME Web!IInv, NEW p \in Process, proc[p].op \notin {"none", "change"},
         NEW r \in Web!Request, r.op = proc[p].op, r.alone = proc[p].alone, r.began = proc[p].began,
         NEW w \in [Objects -> Web!Id], Web!AfterReset(p, r, w), r.attempt < Web!LastAttempt,
         r.call \in DOMAIN Web!Row(r.op).calls,
         mishaps' \in 0..MaxFaults, mishaps' >= mishaps,
         running' \in BOOLEAN, live' \subseteq Wd, Web!OneLive',
         ~(r.alone /\ r.began = mishaps'), Web!Row(r.op).safe => ~r.effect
  PROVE  Web!IInv'
<1>1. CASE r.attempt = Web!LastAttempt - 1
  <2> DEFINE x == [r EXCEPT !.at = "remove", !.entry = None, !.sid = None]
  <2>1. cache' = None /\ wd' = w /\ last' = last /\ proc' = [proc EXCEPT ![p] = x]
    BY <1>1 DEF Web!AfterReset, Web!Becomes
  <2>2. /\ x \in Web!Request /\ x.op = r.op /\ x.alone = r.alone /\ x.began = r.began
        /\ x.at = "remove" /\ x.call = r.call /\ x.effect = r.effect /\ x.attempt = r.attempt
    BY DEF Web!Request, Web!At, Web!Id
  <2> HIDE DEF x
  <2>3. Web!Fits(x) /\ Web!Becomes(p, x)
    BY <1>1, <2>1, <2>2 DEF Web!Fits, Web!Becomes
  <2> QED
    BY <2>1, <2>2, <2>3, WebStrays
<1>2. CASE r.attempt # Web!LastAttempt - 1
  <2> DEFINE x == [r EXCEPT !.attempt = @ + 1]
  <2>1. r.attempt + 1 \in 0..Web!LastAttempt
    BY WebCounts DEF Web!LastAttempt
  <2>2. /\ x \in Web!Request /\ x.op = r.op /\ x.alone = r.alone /\ x.began = r.began
        /\ x.effect = r.effect
    BY <2>1 DEF Web!Request
  <2>3. Web!Enter(p, x, None, w)
    BY <1>2 DEF Web!AfterReset
  <2> HIDE DEF x
  <2> QED
    BY <2>2, <2>3, WebEnters
<1> QED
  BY <1>1, <1>2

\* An attempt is over.
LEMMA WebDecides ==
  ASSUME Web!IInv, NEW p \in Process, proc[p].op \notin {"none", "change"},
         NEW r \in Web!Request, r.op = proc[p].op, r.alone = proc[p].alone, r.began = proc[p].began,
         NEW w \in [Objects -> Web!Id], Web!Decide(p, r, w),
         r.call \in DOMAIN Web!Row(r.op).calls,
         mishaps' \in 0..MaxFaults, mishaps' >= mishaps,
         running' \in BOOLEAN, live' \subseteq Wd, Web!OneLive',
         Web!Row(r.op).safe => ~r.effect,
         r.alone /\ r.began = mishaps' =>
           r.error \in {"none", "not found"} /\ (r.op = "home" \/ live' = {})
  PROVE  Web!IInv'
<1>1. ASSUME NEW answer \in {"ok", "not found", "failed"}, Web!Answer(p, r, answer),
             wd' = w, cache' = cache, answer = "failed" => ~(r.alone /\ r.began = mishaps')
      PROVE  Web!IInv'
  <2>1. /\ last' \in Web!Ended /\ last'.alone = r.alone /\ last'.clean = (r.began = mishaps')
        /\ last'.op = r.op /\ last'.answer = answer /\ last'.effect = r.effect
    BY <1>1 DEF Web!Answer, Web!Ended, Web!Request
  <2>2. proc' = [proc EXCEPT ![p] = Web!Idle]
    BY <1>1 DEF Web!Answer, Web!Becomes
  <2>3. cache' \in Objects \cup {None} /\ wd' \in [Objects -> Web!Id]
    BY <1>1, WebCounts DEF Web!Fields
  <2> QED
    BY <1>1, <2>1, <2>2, <2>3, WebEnds
<1>2. CASE r.error \in {"none", "not found"}
  <2>1. Web!Answer(p, r, IF r.error = "none" THEN "ok" ELSE "not found") /\ wd' = w /\ cache' = cache
    BY <1>2 DEF Web!Decide
  <2>2. CASE r.error = "none"
    BY <1>1, <2>1, <2>2
  <2>3. CASE r.error # "none"
    BY <1>1, <2>1, <2>3
  <2> QED
    BY <2>2, <2>3
<1>3. CASE r.error \notin {"none", "not found"}
  <2>1. CASE r.error = "final" \/ ~Web!Row(r.op).retried \/ r.attempt = Web!LastAttempt
    <3>1. Web!Answer(p, r, "failed") /\ wd' = w /\ cache' = cache
      BY <1>3, <2>1 DEF Web!Decide
    <3> QED
      BY <1>1, <1>3, <3>1
  <2>2. CASE ~(r.error = "final" \/ ~Web!Row(r.op).retried \/ r.attempt = Web!LastAttempt)
    <3>1. r.attempt < Web!LastAttempt
      <4>1. r.attempt \in 0..2 /\ r.attempt # 2
        BY <2>2 DEF Web!Request, Web!LastAttempt
      <4> QED
        BY <4>1, WebAttempts DEF Web!LastAttempt
    <3>2. CASE Web!Cached(w)
      <4> DEFINE x == [r EXCEPT !.at = "reset", !.entry = cache, !.sid = w[cache]]
      <4>1. /\ cache' = cache /\ wd' = w /\ last' = last /\ proc' = [proc EXCEPT ![p] = x]
        BY <1>3, <2>2, <3>2 DEF Web!Decide, Web!Cleanup, Web!Becomes
      <4>2. cache \in Objects /\ w[cache] \in Web!Id
        BY <3>2, WebCounts DEF Web!Cached, Web!Fields
      <4>3. /\ x \in Web!Request /\ x.op = r.op /\ x.alone = r.alone /\ x.began = r.began
            /\ x.at = "reset" /\ x.call = r.call /\ x.effect = r.effect /\ x.attempt = r.attempt
        BY <4>2 DEF Web!Request, Web!At
      <4> HIDE DEF x
      <4>4. Web!Fits(x) /\ Web!Becomes(p, x)
        BY <3>1, <4>1, <4>3 DEF Web!Fits, Web!Becomes
      <4>5. cache' \in Objects \cup {None}
        BY <4>1, <4>2
      <4> QED
        BY <1>3, <4>1, <4>3, <4>4, <4>5, WebStrays
    <3>3. CASE ~Web!Cached(w)
      <4>1. Web!AfterReset(p, r, w)
        BY <1>3, <2>2, <3>3 DEF Web!Decide
      <4> QED
        BY <1>3, <3>1, <4>1, WebResets
    <3> QED
      BY <3>2, <3>3
  <2> QED
    BY <2>1, <2>2
<1> QED
  BY <1>2, <1>3

LEMMA WebFault ==
  ASSUME Web!IInv, Web!Fault
  PROVE  /\ mishaps' \in 0..MaxFaults /\ mishaps' >= mishaps /\ mishaps' # mishaps
         /\ \A p \in Process : proc[p].began # mishaps'
<1>1. mishaps \in 0..MaxFaults /\ mishaps < MaxFaults /\ mishaps' = mishaps + 1
  BY WebCounts DEF Web!Fault, Web!Fields
<1>2. \A n, m \in Nat : n \in 0..m /\ n < m => n + 1 \in 0..m /\ n + 1 >= n /\ n + 1 # n
  OBVIOUS
<1>3. /\ mishaps' \in 0..MaxFaults /\ mishaps' >= mishaps /\ mishaps' # mishaps
  BY <1>1, <1>2, WebCounts, FaultsAssumption
<1>4. ASSUME NEW p \in Process PROVE proc[p].began # mishaps'
  <2>1. proc[p].began <= mishaps /\ proc[p].began \in Nat /\ mishaps \in Nat
    BY WebCounts DEF Web!IInv
  <2> QED
    BY <1>1, <2>1
<1> QED
  BY <1>3, <1>4

LEMMA WebNoFault ==
  ASSUME Web!IInv, Web!NoFault
  PROVE  mishaps' \in 0..MaxFaults /\ mishaps' >= mishaps /\ mishaps' = mishaps
  BY WebCounts DEF Web!NoFault, Web!Fields

\* What the steps of a request start from.
LEMMA WebHere ==
  ASSUME Web!IInv, NEW p \in Process, proc[p].at # "idle"
  PROVE  /\ proc[p].op # "none" /\ proc[p] \in Web!Request /\ Web!Fits(proc[p])
         /\ cache \in Objects \cup {None} /\ wd \in [Objects -> Web!Id] /\ running \in BOOLEAN
         /\ live \subseteq Wd /\ Web!OneLive
         /\ proc[p].at \notin {"invalidate", "replace"} =>
              /\ proc[p].op \notin {"none", "change"} /\ proc[p].op \in Ops
              /\ proc[p].call \in DOMAIN Web!Row(proc[p].op).calls
              /\ Web!Row(proc[p].op).safe => ~proc[p].effect
<1>1. proc[p] \in Web!Request /\ Web!Fits(proc[p]) /\ Web!Fields /\ Web!OneLive
  BY WebCounts DEF Web!IInv
<1>2. proc[p].op \in Ops \cup {"none"}
  BY <1>1 DEF Web!Request
<1> QED
  BY <1>1, <1>2 DEF Web!Fits, Web!Fields

-----------------------------------------------------------------------------
(* The steps of a request.                                                 *)

LEMMA WebContainerFails ==
  ASSUME Web!IInv, NEW p \in Process, Web!ContainerFails(p)
  PROVE  Web!IInv'
<1>1. proc[p].at = "container" /\ Web!Fault /\ UNCHANGED <<running, live>>
  BY DEF Web!ContainerFails
<1>2. PICK error \in {"transient", "final"} : Web!Decide(p, [proc[p] EXCEPT !.error = error], wd)
  BY DEF Web!ContainerFails
<1> DEFINE r == [proc[p] EXCEPT !.error = error]
<1>3. r \in Web!Request /\ r.op = proc[p].op /\ r.alone = proc[p].alone /\ r.began = proc[p].began
      /\ r.call = proc[p].call /\ r.effect = proc[p].effect
  BY <1>1, WebHere DEF Web!Request
<1>4. Web!Decide(p, r, wd)
  BY <1>2
<1> HIDE DEF r
<1>5. Web!OneLive'
  BY <1>1, WebHere DEF Web!OneLive
<1> QED
  BY <1>1, <1>3, <1>4, <1>5, WebHere, WebFault, WebDecides

LEMMA WebContainerRuns ==
  ASSUME Web!IInv, NEW p \in Process, Web!ContainerRuns(p)
  PROVE  Web!IInv'
<1> DEFINE x == [proc[p] EXCEPT !.at = "lock"]
<1>1. proc[p].at = "container" /\ Web!Becomes(p, x) /\ running' = TRUE
      /\ UNCHANGED <<cache, wd, live, mishaps, last>>
  BY DEF Web!ContainerRuns
<1>a. proc[p] \in Web!Request /\ "lock" \in Web!At
  BY <1>1, WebHere DEF Web!At
<1>3. /\ x \in Web!Request
      /\ x.op = proc[p].op /\ x.alone = proc[p].alone /\ x.began = proc[p].began /\ x.at = "lock"
      /\ x.entry = proc[p].entry /\ x.error = proc[p].error
      /\ x.call = proc[p].call /\ x.effect = proc[p].effect
  BY <1>a DEF Web!Request
<1> HIDE DEF x
<1>2. Web!Fits(x)
  BY <1>1, <1>3, WebHere DEF Web!Fits
<1>4. Web!OnCourse(proc[p]) => x.error \in {"none", "not found"} /\ x.entry = cache'
  BY <1>1, <1>3 DEF Web!OnCourse
<1>5. Web!OneLive' /\ Web!NoFault
  BY <1>1, WebHere DEF Web!OneLive, Web!NoFault
<1> QED
  BY <1>1, <1>2, <1>3, <1>4, <1>5, WebHere, WebNoFault, WebGoes

LEMMA WebLocked ==
  ASSUME Web!IInv, NEW p \in Process, Web!Locked(p)
  PROVE  Web!IInv'
<1> DEFINE next == IF wd[proc[p].entry] # None THEN "check" ELSE "find"
           x == [proc[p] EXCEPT !.at = next, !.sid = wd[proc[p].entry]]
<1>0. next \in {"check", "find"}
  OBVIOUS
<1>1. proc[p].at = "lock" /\ Web!Becomes(p, x)
      /\ UNCHANGED <<cache, wd, running, live, mishaps, last>>
  BY DEF Web!Locked
<1> HIDE DEF next
<1>2. proc[p].entry \in Objects /\ wd[proc[p].entry] \in Web!Id
  BY <1>1, WebHere DEF Web!Fits
<1>3. next \in Web!At /\ proc[p] \in Web!Request
  BY <1>0, <1>1, WebHere DEF Web!At
<1>4. /\ x \in Web!Request
      /\ x.op = proc[p].op /\ x.alone = proc[p].alone /\ x.began = proc[p].began
      /\ x.at \in {"check", "find"} /\ x.sid = wd[proc[p].entry]
      /\ x.entry = proc[p].entry /\ x.error = proc[p].error
      /\ x.call = proc[p].call /\ x.effect = proc[p].effect
  BY <1>0, <1>2, <1>3 DEF Web!Request
<1> HIDE DEF x
<1>7. Web!Fits(x)
  BY <1>1, <1>2, <1>4, WebHere DEF Web!Fits
<1>5. Web!OnCourse(proc[p]) => x.error \in {"none", "not found"} /\ x.entry = cache' /\ running'
                                /\ x.sid = wd'[cache']
  BY <1>1, <1>4 DEF Web!OnCourse
<1>6. Web!OneLive' /\ Web!NoFault
  BY <1>1, WebHere DEF Web!OneLive, Web!NoFault
<1> QED
  BY <1>1, <1>4, <1>5, <1>6, <1>7, WebHere, WebNoFault, WebGoes

\* The lock is left with an id.
LEMMA WebGot ==
  ASSUME Web!IInv, NEW p \in Process, proc[p].at \in {"check", "adopt", "create"},
         NEW s \in Web!Id, NEW w \in [Objects -> Web!Id], Web!Got(p, s, w), Web!NoFault,
         live' \subseteq Wd, Web!OneLive',
         Web!OnCourse(proc[p]) => s \in live' /\ s = w[cache]
  PROVE  Web!IInv'
<1> DEFINE x == [proc[p] EXCEPT !.at = "call", !.sid = s, !.entry = None]
<1>1. Web!Becomes(p, x) /\ wd' = w /\ UNCHANGED <<cache, running, last>>
  BY DEF Web!Got
<1>a. proc[p].at # "idle" /\ proc[p].at \notin {"invalidate", "replace"}
  OBVIOUS
<1>b. /\ proc[p].op \notin {"none", "change"} /\ proc[p].call \in DOMAIN Web!Row(proc[p].op).calls
      /\ Web!Row(proc[p].op).safe => ~proc[p].effect
      /\ proc[p] \in Web!Request /\ proc[p].entry \in Objects
  BY <1>a, WebHere DEF Web!Fits
<1>3. /\ x \in Web!Request /\ x.op = proc[p].op /\ x.alone = proc[p].alone /\ x.began = proc[p].began
      /\ x.at = "call" /\ x.sid = s /\ x.error = proc[p].error /\ x.call = proc[p].call
      /\ x.effect = proc[p].effect
  BY <1>b DEF Web!Request, Web!At
<1> HIDE DEF x
<1>2. x \in Web!Request /\ Web!Fits(x)
  BY <1>b, <1>3 DEF Web!Fits
<1>4. proc[p].entry \in Objects
  BY <1>b
<1>5. Web!OnCourse(proc[p]) => /\ x.error \in {"none", "not found"} /\ cache' # None
                               /\ x.sid = wd'[cache'] /\ x.sid \in live'
  BY <1>1, <1>3, <1>4, NoneAssumption DEF Web!OnCourse
<1> QED
  BY <1>1, <1>2, <1>3, <1>5, <1>a, WebHere, WebNoFault, WebGoes

LEMMA WebAlive ==
  ASSUME Web!IInv, NEW p \in Process, Web!Alive(p)
  PROVE  Web!IInv'
<1>1. /\ proc[p].at \in {"check", "adopt"} /\ proc[p].sid \in live
      /\ Web!Got(p, wd[proc[p].entry], wd) /\ live' = live
  BY DEF Web!Alive
<1>2. proc[p].entry \in Objects /\ wd[proc[p].entry] \in Web!Id
  BY <1>1, WebHere DEF Web!Fits
<1>3. Web!NoFault /\ Web!OneLive'
  BY <1>1, WebHere DEF Web!Got, Web!NoFault, Web!OneLive
<1>4. Web!OnCourse(proc[p]) => wd[proc[p].entry] \in live' /\ wd[proc[p].entry] = wd[cache]
  BY <1>1 DEF Web!OnCourse
<1> QED
  BY <1>1, <1>2, <1>3, <1>4, WebHere, WebGot

LEMMA WebDead ==
  ASSUME Web!IInv, NEW p \in Process, Web!Dead(p)
  PROVE  Web!IInv'
<1>1. /\ UNCHANGED <<cache, running, live, last>>
      /\ proc[p].sid \in live => Web!Fault
      /\ proc[p].sid \notin live => Web!NoFault
  BY DEF Web!Dead
<1>2. /\ mishaps' \in 0..MaxFaults /\ mishaps' >= mishaps
      /\ mishaps' = mishaps => proc[p].sid \notin live
  BY <1>1, WebFault, WebNoFault
<1>3. Web!OneLive' /\ live' \subseteq Wd /\ running' \in BOOLEAN /\ cache' \in Objects \cup {None}
  BY <1>1, WebCounts DEF Web!OneLive, Web!IInv, Web!Fields
<1>4. CASE proc[p].at = "check" /\ wd' = [wd EXCEPT ![proc[p].entry] = None]
           /\ Web!Becomes(p, [proc[p] EXCEPT !.at = "find", !.sid = None])
  <2> DEFINE x == [proc[p] EXCEPT !.at = "find", !.sid = None]
  <2>0. /\ proc[p] \in Web!Request /\ "find" \in Web!At /\ None \in Web!Id /\ Web!Becomes(p, x)
        /\ proc[p].entry \in Objects
    BY <1>4, WebHere DEF Web!At, Web!Fits, Web!Id
  <2>2. /\ x \in Web!Request
        /\ x.op = proc[p].op /\ x.alone = proc[p].alone /\ x.began = proc[p].began
        /\ x.at = "find" /\ x.entry = proc[p].entry /\ x.error = proc[p].error
        /\ x.call = proc[p].call /\ x.effect = proc[p].effect
    BY <2>0 DEF Web!Request
  <2> HIDE DEF x
  <2>1. Web!Fits(x) /\ Web!Becomes(p, x)
    BY <1>4, <2>0, <2>2, WebHere DEF Web!Fits
  <2>3. wd' \in [Objects -> Web!Id]
    BY <1>4, WebHere DEF Web!Id
  <2>4. Web!OnCourse(proc[p]) => x.error \in {"none", "not found"} /\ x.entry = cache' /\ running'
    BY <1>1, <1>4, <2>2 DEF Web!OnCourse
  <2> QED
    BY <1>1, <1>2, <1>3, <1>4, <2>1, <2>2, <2>3, <2>4, WebHere, WebGoes
<1>5. CASE proc[p].at = "adopt" /\ wd' = wd /\ Web!Becomes(p, [proc[p] EXCEPT !.at = "discard"])
  <2> DEFINE x == [proc[p] EXCEPT !.at = "discard"]
  <2>0. /\ proc[p] \in Web!Request /\ "discard" \in Web!At /\ Web!Becomes(p, x)
        /\ proc[p].entry \in Objects
    BY <1>5, WebHere DEF Web!At, Web!Fits
  <2>2. /\ x \in Web!Request
        /\ x.op = proc[p].op /\ x.alone = proc[p].alone /\ x.began = proc[p].began
        /\ x.at = "discard" /\ x.entry = proc[p].entry
        /\ x.call = proc[p].call /\ x.effect = proc[p].effect
    BY <2>0 DEF Web!Request
  <2> HIDE DEF x
  <2>1. Web!Fits(x) /\ Web!Becomes(p, x)
    BY <1>5, <2>0, <2>2, WebHere DEF Web!Fits
  <2>3. ~(Web!OnCourse(proc[p]) /\ mishaps' = mishaps)
    BY <1>2, <1>5 DEF Web!OnCourse
  <2> QED
    BY <1>1, <1>2, <1>3, <1>5, <2>1, <2>2, <2>3, WebHere, WebGoes
<1> QED
  BY <1>4, <1>5 DEF Web!Dead

LEMMA WebFind ==
  ASSUME Web!IInv, NEW p \in Process, Web!Find(p)
  PROVE  Web!IInv'
<1>1. proc[p].at = "find" /\ UNCHANGED <<cache, running, live, last>>
  BY DEF Web!Find
<1>2. Web!OneLive' /\ live' \subseteq Wd /\ running' \in BOOLEAN /\ cache' \in Objects \cup {None}
      /\ proc[p].entry \in Objects
  BY <1>1, WebHere DEF Web!OneLive, Web!Fits
<1>3. ASSUME NEW s \in live, wd' = [wd EXCEPT ![proc[p].entry] = s],
             Web!Becomes(p, [proc[p] EXCEPT !.at = "adopt", !.sid = s]), Web!NoFault
      PROVE  Web!IInv'
  <2> DEFINE x == [proc[p] EXCEPT !.at = "adopt", !.sid = s]
  <2>1. s \in Web!Id
    BY <1>1, WebHere DEF Web!Id
  <2>2. proc[p] \in Web!Request /\ "adopt" \in Web!At /\ Web!Becomes(p, x)
    BY <1>1, <1>3, WebHere DEF Web!At
  <2>3. /\ x \in Web!Request /\ x.call = proc[p].call /\ x.effect = proc[p].effect
        /\ x.op = proc[p].op /\ x.alone = proc[p].alone /\ x.began = proc[p].began
        /\ x.at = "adopt" /\ x.sid = s /\ x.entry = proc[p].entry /\ x.error = proc[p].error
    BY <2>1, <2>2 DEF Web!Request
  <2> HIDE DEF x
  <2>6. Web!Fits(x)
    BY <1>1, <1>2, <2>3, WebHere DEF Web!Fits
  <2>4. wd' \in [Objects -> Web!Id] /\ wd'[proc[p].entry] = s
    BY <1>1, <1>2, <1>3, <2>1, WebHere
  <2>5. Web!OnCourse(proc[p]) => /\ x.error \in {"none", "not found"} /\ x.entry = cache' /\ running'
                                 /\ cache' # None /\ x.sid = wd'[cache'] /\ x.sid \in live'
    BY <1>1, <1>2, <2>3, <2>4, NoneAssumption DEF Web!OnCourse
  <2> QED
    BY <1>1, <1>2, <1>3, <2>2, <2>3, <2>4, <2>5, <2>6, WebHere, WebNoFault, WebGoes
<1>4. CASE /\ IF live = {} THEN Web!NoFault ELSE Web!Fault
           /\ Web!Becomes(p, [proc[p] EXCEPT !.at = "create"]) /\ wd' = wd
  <2> DEFINE x == [proc[p] EXCEPT !.at = "create"]
  <2>0. proc[p] \in Web!Request /\ "create" \in Web!At /\ Web!Becomes(p, x)
    BY <1>1, <1>4, WebHere DEF Web!At
  <2>2. /\ x \in Web!Request
        /\ x.op = proc[p].op /\ x.alone = proc[p].alone /\ x.began = proc[p].began
        /\ x.at = "create" /\ x.entry = proc[p].entry /\ x.error = proc[p].error
        /\ x.call = proc[p].call /\ x.effect = proc[p].effect
    BY <2>0 DEF Web!Request
  <2> HIDE DEF x
  <2>1. Web!Fits(x) /\ Web!Becomes(p, x)
    BY <1>1, <1>2, <2>0, <2>2, WebHere DEF Web!Fits
  <2>3. /\ mishaps' \in 0..MaxFaults /\ mishaps' >= mishaps
        /\ mishaps' = mishaps => live' = {}
    BY <1>1, <1>4, WebFault, WebNoFault
  <2>4. Web!OnCourse(proc[p]) => x.error \in {"none", "not found"} /\ x.entry = cache' /\ running'
    BY <1>1, <2>2 DEF Web!OnCourse
  <2> QED
    BY <1>1, <1>2, <1>4, <2>1, <2>2, <2>3, <2>4, WebHere, WebGoes
<1> QED
  BY <1>3, <1>4 DEF Web!Find

LEMMA WebDiscard ==
  ASSUME Web!IInv, NEW p \in Process, Web!Discard(p)
  PROVE  Web!IInv'
<1> DEFINE x == [proc[p] EXCEPT !.at = "create", !.sid = None]
<1>1. /\ proc[p].at = "discard" /\ Web!Becomes(p, x) /\ wd' = [wd EXCEPT ![proc[p].entry] = None]
      /\ UNCHANGED <<cache, running, last>> /\ live' \subseteq live
      /\ Web!NoFault \/ Web!Fault
  BY DEF Web!Discard
<1>2. proc[p].entry \in Objects /\ proc[p] \in Web!Request
  BY <1>1, WebHere DEF Web!Fits
<1>3. /\ x \in Web!Request /\ x.op = proc[p].op /\ x.alone = proc[p].alone /\ x.began = proc[p].began
      /\ x.at = "create" /\ x.entry = proc[p].entry /\ x.call = proc[p].call
      /\ x.effect = proc[p].effect
  BY <1>2 DEF Web!Request, Web!At, Web!Id
<1> HIDE DEF x
<1>4. Web!Fits(x)
  BY <1>1, <1>2, <1>3, WebHere DEF Web!Fits
<1>5. /\ Web!OneLive' /\ live' \subseteq Wd /\ wd' \in [Objects -> Web!Id]
      /\ cache' \in Objects \cup {None} /\ running' \in BOOLEAN
  BY <1>1, WebHere DEF Web!OneLive, Web!Id
<1>6. mishaps' \in 0..MaxFaults /\ mishaps' >= mishaps
  BY <1>1, WebNoFault, WebFault
<1>7. ~Web!OnCourse(proc[p])
  BY <1>1 DEF Web!OnCourse
<1> QED
  BY <1>1, <1>3, <1>4, <1>5, <1>6, <1>7, WebHere, WebGoes

\* A new session has an id that nothing refers to.
LEMMA WebIds == ASSUME Web!IInv, live = {} PROVE Web!NewWd \in Wd
<1> DEFINE f == [q \in Process |-> proc[q].sid]
<1>1. wd \in [Objects -> Wd \cup {None}] /\ f \in [Process -> Wd \cup {None}]
  BY WebCounts DEF Web!Fields, Web!Request, Web!Id
<1>2. \A q \in Process : f[q] = proc[q].sid
  OBVIOUS
<1> HIDE DEF f
<1>3. \E s \in Wd : (\A e \in Objects : wd[e] # s) /\ \A q \in Process : f[q] # s
  BY <1>1, IdsAssumption
<1> DEFINE New(s) == /\ s \notin live
                     /\ \A e \in Objects : wd[e] # s
                     /\ \A q \in Process : proc[q].sid # s
<1>4. \E s \in Wd : New(s)
  BY <1>2, <1>3
<1>5. Web!NewWd = CHOOSE s \in Wd : New(s)
  BY DEF Web!NewWd
<1> HIDE DEF New
<1> QED
  BY <1>4, <1>5

LEMMA WebCreate ==
  ASSUME Web!IInv, NEW p \in Process, Web!Create(p)
  PROVE  Web!IInv'
<1> DEFINE s == Web!NewWd
           w == [wd EXCEPT ![proc[p].entry] = s]
<1>1. /\ proc[p].at = "create" /\ running /\ live = {} /\ live' = {s} /\ Web!Got(p, s, w)
  BY DEF Web!Create
<1>2. s \in Wd
  BY <1>1, WebIds
<1> HIDE DEF s
<1>3. proc[p].entry \in Objects /\ wd \in [Objects -> Web!Id]
  BY <1>1, WebHere DEF Web!Fits
<1>4. w \in [Objects -> Web!Id] /\ w[proc[p].entry] = s /\ s \in Web!Id
  BY <1>2, <1>3 DEF Web!Id
<1> HIDE DEF w
<1>5. Web!NoFault /\ Web!OneLive' /\ live' \subseteq Wd
  BY <1>1, <1>2 DEF Web!Got, Web!NoFault, Web!OneLive
<1>6. Web!OnCourse(proc[p]) => s \in live' /\ s = w[cache]
  BY <1>1, <1>4 DEF Web!OnCourse
<1> QED
  BY <1>1, <1>4, <1>5, <1>6, WebGot

LEMMA WebCreateFails ==
  ASSUME Web!IInv, NEW p \in Process, Web!CreateFails(p)
  PROVE  Web!IInv'
<1>1. /\ proc[p].at = "create" /\ UNCHANGED <<running, live>>
      /\ IF running /\ live = {} THEN Web!Fault ELSE Web!NoFault
  BY DEF Web!CreateFails
<1>2. PICK error \in {"transient", "final"} : Web!Decide(p, [proc[p] EXCEPT !.error = error], wd)
  BY DEF Web!CreateFails
<1> DEFINE r == [proc[p] EXCEPT !.error = error]
<1>3. r \in Web!Request /\ r.op = proc[p].op /\ r.alone = proc[p].alone /\ r.began = proc[p].began
      /\ r.call = proc[p].call /\ r.effect = proc[p].effect
  BY <1>1, WebHere DEF Web!Request
<1>4. Web!Decide(p, r, wd)
  BY <1>2
<1> HIDE DEF r
<1>5. Web!OneLive' /\ mishaps' \in 0..MaxFaults /\ mishaps' >= mishaps
  BY <1>1, WebHere, WebFault, WebNoFault DEF Web!OneLive
<1>6. ~(proc[p].alone /\ proc[p].began = mishaps')
  <2>1. CASE running /\ live = {}
    BY <1>1, <2>1, WebFault
  <2>2. CASE ~(running /\ live = {})
    <3>1. mishaps' = mishaps /\ ~Web!OnCourse(proc[p]) /\ proc[p].op # "none"
      BY <1>1, <2>2, WebNoFault, WebHere DEF Web!OnCourse
    <3> QED
      BY <3>1 DEF Web!IInv, Web!Undisturbed
  <2> QED
    BY <2>1, <2>2
<1> QED
  BY <1>1, <1>3, <1>4, <1>5, <1>6, WebHere, WebDecides

-----------------------------------------------------------------------------
(* Calls to the browser, and what ends them.                               *)

\* The operation leaves: a request that is alone and has met no fault deletes
\* its session first, unless it keeps it.
LEMMA WebLeaves ==
  ASSUME Web!IInv, NEW p \in Process, proc[p].at = "call",
         NEW r \in Web!Request, r.op = proc[p].op, r.alone = proc[p].alone, r.began = proc[p].began,
         r.call \in DOMAIN Web!Row(r.op).calls, Web!Leave(p, r), UNCHANGED <<running, live>>,
         mishaps' \in 0..MaxFaults, mishaps' >= mishaps,
         Web!Row(r.op).safe => ~r.effect,
         r.alone /\ r.began = mishaps' => r.error \in {"none", "not found"}
  PROVE  Web!IInv'
<1>1. /\ Web!OneLive' /\ live' \subseteq Wd /\ running' \in BOOLEAN /\ wd \in [Objects -> Web!Id]
      /\ proc[p].op \notin {"none", "change"}
  BY WebHere DEF Web!OneLive
<1>2. r.alone /\ r.began = mishaps' => Web!OnCourse(proc[p]) /\ mishaps' = mishaps
  <2>1. proc[p].began <= mishaps /\ proc[p].began \in Nat /\ mishaps \in Nat /\ mishaps' \in Nat
    BY WebCounts DEF Web!IInv
  <2>2. proc[p].began = mishaps' => proc[p].began = mishaps /\ mishaps' = mishaps
    BY <2>1, WebSqueezed
  <2> QED
    BY <1>1, <2>2 DEF Web!IInv, Web!Undisturbed
<1>3. Web!OnCourse(proc[p]) => cache # None /\ wd[cache] \in live
  BY DEF Web!OnCourse
<1>4. CASE Web!Cached(wd) /\ r.op # "home"
  <2> DEFINE x == [r EXCEPT !.at = "exit", !.entry = cache, !.sid = wd[cache]]
  <2>1. /\ cache' = cache /\ wd' = wd /\ last' = last /\ Web!Becomes(p, x)
    BY <1>4 DEF Web!Leave, Web!Cleanup
  <2>2. cache \in Objects /\ wd[cache] \in Web!Id /\ cache' \in Objects \cup {None}
    BY <1>1, <1>4, <2>1, WebCounts DEF Web!Cached, Web!Fields
  <2>3. /\ x \in Web!Request /\ x.op = r.op /\ x.alone = r.alone /\ x.began = r.began
        /\ x.at = "exit" /\ x.sid = wd[cache] /\ x.error = r.error /\ x.call = r.call
        /\ x.effect = r.effect
    BY <2>2 DEF Web!Request, Web!At
  <2> HIDE DEF x
  <2>4. Web!Fits(x)
    BY <1>1, <2>3 DEF Web!Fits
  <2>5. CASE r.alone /\ r.began = mishaps'
    <3>1. x.error \in {"none", "not found"} /\ x.sid \in live'
      BY <1>2, <1>3, <2>3, <2>5
    <3> QED
      BY <1>1, <2>1, <2>2, <2>3, <2>4, <3>1, WebGoes
  <2>6. CASE ~(r.alone /\ r.began = mishaps')
    BY <1>1, <2>1, <2>2, <2>3, <2>4, <2>6, WebStrays
  <2> QED
    BY <2>5, <2>6
<1>5. CASE ~(Web!Cached(wd) /\ r.op # "home")
  <2>1. Web!Decide(p, r, wd)
    BY <1>5 DEF Web!Leave
  <2>2. r.alone /\ r.began = mishaps' => r.op = "home"
    <3>1. live \subseteq Wd /\ None \notin Wd
      BY WebHere, NoneAssumption
    <3> QED
      BY <1>2, <1>3, <1>5, <3>1 DEF Web!Cached
  <2> QED
    BY <1>1, <2>1, <2>2, WebDecides
<1> QED
  BY <1>4, <1>5

LEMMA WebCallAnswered ==
  ASSUME Web!IInv, NEW p \in Process, Web!CallAnswered(p)
  PROVE  Web!IInv'
<1> DEFINE r == [proc[p] EXCEPT !.effect = @ \/ Web!Call(p) \in {"effect", "pick"}]
<1>1. proc[p].at = "call" /\ Web!NoFault /\ Web!Passes(p, r) /\ UNCHANGED <<lock, running, live>>
  BY DEF Web!CallAnswered
<1>2. /\ proc[p] \in Web!Request /\ proc[p].op \in Ops /\ proc[p].op \notin {"none", "change"}
      /\ proc[p].call \in DOMAIN Web!Row(proc[p].op).calls
      /\ Web!Row(proc[p].op).safe => ~proc[p].effect
  BY <1>1, WebHere
<1>3. r \in Web!Request
  BY <1>2 DEF Web!Request
<1>4. /\ r.op = proc[p].op /\ r.alone = proc[p].alone /\ r.began = proc[p].began
      /\ r.call = proc[p].call /\ r.error = proc[p].error /\ r.at = "call"
      /\ r.effect = (proc[p].effect \/ Web!Call(p) \in {"effect", "pick"})
      /\ r.sid = proc[p].sid
  BY <1>1, <1>2 DEF Web!Request
<1> HIDE DEF r
<1>5. Web!Row(r.op).safe => ~r.effect
  BY <1>2, <1>4, WebRows DEF Web!Call
<1>6. CASE r.call < Len(Web!Row(r.op).calls)
  <2> DEFINE x == [r EXCEPT !.call = @ + 1]
  <2>1. Web!Becomes(p, x) /\ UNCHANGED <<cache, wd, last>>
    BY <1>1, <1>6 DEF Web!Passes
  <2>2. r.call + 1 \in 0..4 /\ r.call + 1 \in DOMAIN Web!Row(r.op).calls
    <3>1. /\ Len(Web!Row(r.op).calls) \in 1..4 /\ r.call \in 1..Len(Web!Row(r.op).calls)
          /\ DOMAIN Web!Row(r.op).calls = 1..Len(Web!Row(r.op).calls)
      BY <1>2, <1>4, WebRows
    <3>2. \A n \in 1..4 : \A i \in 1..n : i < n => i + 1 \in 0..4 /\ i + 1 \in 1..n
      OBVIOUS
    <3> QED
      BY <1>6, <3>1, <3>2
  <2>3. /\ x \in Web!Request /\ x.op = r.op /\ x.alone = r.alone /\ x.began = r.began
        /\ x.at = "call" /\ x.sid = r.sid /\ x.error = r.error /\ x.call = r.call + 1
        /\ x.effect = r.effect
    BY <1>3, <1>4, <2>2 DEF Web!Request
  <2> HIDE DEF x
  <2>4. Web!Fits(x)
    BY <1>2, <1>4, <1>5, <2>2, <2>3 DEF Web!Fits
  <2>5. Web!OnCourse(proc[p]) => /\ x.error \in {"none", "not found"} /\ cache' # None
                                 /\ x.sid = wd'[cache'] /\ x.sid \in live'
    BY <1>1, <1>4, <2>1, <2>3 DEF Web!OnCourse
  <2>6. Web!OneLive'
    BY <1>1, WebHere DEF Web!OneLive
  <2>7. /\ x.op = proc[p].op /\ x.alone = proc[p].alone /\ x.began = proc[p].began
    BY <1>4, <2>3
  <2> QED
    BY <1>1, <2>1, <2>3, <2>4, <2>5, <2>6, <2>7, WebHere, WebNoFault, WebGoes
<1>7. CASE ~(r.call < Len(Web!Row(r.op).calls))
  <2>1. Web!Leave(p, r)
    BY <1>1, <1>7 DEF Web!Passes
  <2>2. r.alone /\ r.began = mishaps' => r.error \in {"none", "not found"}
    BY <1>1, <1>2, <1>4, WebNoFault DEF Web!IInv, Web!Undisturbed, Web!OnCourse
  <2>3. r.call \in DOMAIN Web!Row(r.op).calls
    BY <1>2, <1>4
  <2> QED
    BY <1>1, <1>3, <1>4, <1>5, <2>1, <2>2, <2>3, WebNoFault, WebLeaves
<1> QED
  BY <1>6, <1>7

LEMMA WebNotFound ==
  ASSUME Web!IInv, NEW p \in Process, Web!NotFound(p)
  PROVE  Web!IInv'
<1> DEFINE r == [proc[p] EXCEPT !.error = "not found"]
<1>1. proc[p].at = "call" /\ Web!NoFault /\ Web!Leave(p, r) /\ UNCHANGED <<running, live>>
  BY DEF Web!NotFound
<1>2. /\ proc[p] \in Web!Request
      /\ proc[p].call \in DOMAIN Web!Row(proc[p].op).calls
      /\ Web!Row(proc[p].op).safe => ~proc[p].effect
  BY <1>1, WebHere
<1>3. /\ r \in Web!Request /\ r.op = proc[p].op /\ r.alone = proc[p].alone /\ r.began = proc[p].began
      /\ r.call = proc[p].call /\ r.error = "not found" /\ r.effect = proc[p].effect
  BY <1>2 DEF Web!Request
<1> HIDE DEF r
<1> QED
  BY <1>1, <1>2, <1>3, WebNoFault, WebLeaves

LEMMA WebCallFails ==
  ASSUME Web!IInv, NEW p \in Process, Web!CallFails(p)
  PROVE  Web!IInv'
<1>1. proc[p].at = "call" /\ UNCHANGED <<running, live>>
  BY DEF Web!CallFails
<1>2. /\ proc[p] \in Web!Request /\ proc[p].op \in Ops /\ proc[p].op \notin {"none", "change"}
      /\ proc[p].call \in DOMAIN Web!Row(proc[p].op).calls
      /\ Web!Row(proc[p].op).safe => ~proc[p].effect
  BY <1>1, WebHere
<1>3. CASE proc[p].sid \notin live /\ Web!NoFault /\ Web!Leave(p, [proc[p] EXCEPT !.error = "transient"])
  <2> DEFINE r == [proc[p] EXCEPT !.error = "transient"]
  <2>1. /\ r \in Web!Request /\ r.op = proc[p].op /\ r.alone = proc[p].alone
        /\ r.began = proc[p].began /\ r.call = proc[p].call /\ r.effect = proc[p].effect
    BY <1>2 DEF Web!Request
  <2>2. Web!Leave(p, r)
    BY <1>3
  <2> HIDE DEF r
  <2>3. ~(r.alone /\ r.began = mishaps')
    <3>1. ~Web!OnCourse(proc[p]) /\ mishaps' = mishaps
      BY <1>1, <1>3, WebNoFault DEF Web!OnCourse
    <3> QED
      BY <1>2, <2>1, <3>1 DEF Web!IInv, Web!Undisturbed
  <2> QED
    BY <1>1, <1>2, <1>3, <2>1, <2>2, <2>3, WebNoFault, WebLeaves
<1>4. ASSUME Web!Fault, NEW error \in {"transient", "final"}, NEW done \in BOOLEAN,
             Web!Leave(p, [proc[p] EXCEPT !.error = error,
                                          !.effect = @ \/ (done /\ Web!Call(p) \in {"effect", "pick"})])
      PROVE  Web!IInv'
  <2> DEFINE r == [proc[p] EXCEPT !.error = error,
                                  !.effect = @ \/ (done /\ Web!Call(p) \in {"effect", "pick"})]
  <2>1. r \in Web!Request
    BY <1>2 DEF Web!Request
  <2>2. /\ r.op = proc[p].op /\ r.alone = proc[p].alone
        /\ r.began = proc[p].began /\ r.call = proc[p].call
        /\ r.effect = (proc[p].effect \/ (done /\ Web!Call(p) \in {"effect", "pick"}))
    BY <1>2 DEF Web!Request
  <2>3. Web!Leave(p, r)
    BY <1>4
  <2> HIDE DEF r
  <2>4. Web!Row(r.op).safe => ~r.effect
    BY <1>2, <2>2, WebRows DEF Web!Call
  <2>5. ~(r.alone /\ r.began = mishaps') /\ r.call \in DOMAIN Web!Row(r.op).calls
    BY <1>2, <1>4, <2>2, WebFault
  <2> QED
    BY <1>1, <1>4, <2>1, <2>2, <2>3, <2>4, <2>5, WebFault, WebLeaves
<1> QED
  BY <1>3, <1>4 DEF Web!CallFails

\* cleanup_session's DELETE.
LEMMA WebDelete ==
  ASSUME Web!IInv, NEW p \in Process, Web!Delete(p)
  PROVE  Web!IInv'
<1> DEFINE next == IF proc[p].at = "exit" THEN "clear" ELSE "reset clear"
           x == [proc[p] EXCEPT !.at = next, !.sid = None]
<1>1. /\ proc[p].at \in {"exit", "reset"} /\ Web!Becomes(p, x) /\ live' \subseteq live
      /\ UNCHANGED <<cache, wd, running, last>>
      /\ \/ live' = live \ {proc[p].sid} /\ Web!NoFault
         \/ Web!Fault
  BY DEF Web!Delete
<1>2. proc[p] \in Web!Request
  BY <1>1, WebHere
<1>3. next \in Web!At /\ None \in Web!Id
  BY DEF Web!At, Web!Id
<1>4. /\ proc[p].at = "exit" => next = "clear"
      /\ proc[p].at = "reset" => next = "reset clear"
  OBVIOUS
<1> HIDE DEF next
<1>5. /\ x \in Web!Request /\ x.op = proc[p].op /\ x.alone = proc[p].alone /\ x.began = proc[p].began
      /\ x.at = next /\ x.error = proc[p].error /\ x.call = proc[p].call
      /\ x.effect = proc[p].effect /\ x.attempt = proc[p].attempt
  BY <1>2, <1>3 DEF Web!Request
<1> HIDE DEF x
<1>6. Web!Fits(x)
  BY <1>1, <1>4, <1>5, WebHere DEF Web!Fits
<1>7. /\ mishaps' \in 0..MaxFaults /\ mishaps' >= mishaps
      /\ mishaps' = mishaps => live' = live \ {proc[p].sid}
  BY <1>1, WebNoFault, WebFault
<1>8. /\ Web!OneLive' /\ live' \subseteq Wd /\ cache' \in Objects \cup {None} /\ wd' \in [Objects -> Web!Id]
      /\ running' \in BOOLEAN
  BY <1>1, WebHere DEF Web!OneLive
<1>9. Web!OnCourse(proc[p]) /\ mishaps' = mishaps =>
        /\ proc[p].error \in {"none", "not found"} /\ next = "clear" /\ live' = {}
  BY <1>1, <1>4, <1>7, WebHere DEF Web!OnCourse, Web!OneLive
<1> QED
  BY <1>1, <1>5, <1>6, <1>7, <1>8, <1>9, WebHere, WebGoes

\* ... and what follows it.
LEMMA WebClear ==
  ASSUME Web!IInv, NEW p \in Process, Web!Clear(p)
  PROVE  Web!IInv'
<1> DEFINE w == [wd EXCEPT ![proc[p].entry] = None]
<1>1. /\ Web!NoFault /\ UNCHANGED <<running, live>> /\ proc[p].at \in {"clear", "reset clear"}
      /\ \/ proc[p].at = "clear" /\ Web!Decide(p, proc[p], w)
         \/ proc[p].at = "reset clear" /\ Web!AfterReset(p, proc[p], w)
  BY DEF Web!Clear
<1>2. /\ proc[p] \in Web!Request /\ proc[p].op \in Ops /\ proc[p].op \notin {"none", "change"}
      /\ proc[p].call \in DOMAIN Web!Row(proc[p].op).calls
      /\ Web!Row(proc[p].op).safe => ~proc[p].effect
      /\ wd \in [Objects -> Web!Id] /\ Web!OneLive' /\ live' \subseteq Wd /\ running' \in BOOLEAN
  BY <1>1, WebHere DEF Web!OneLive
<1>3. w \in [Objects -> Web!Id]
  BY <1>2 DEF Web!Id
<1> HIDE DEF w
<1>4. proc[p].alone /\ proc[p].began = mishaps' => Web!OnCourse(proc[p])
  BY <1>1, <1>2, WebNoFault DEF Web!IInv, Web!Undisturbed
<1>5. CASE proc[p].at = "clear" /\ Web!Decide(p, proc[p], w)
  <2>1. proc[p].alone /\ proc[p].began = mishaps' =>
          proc[p].error \in {"none", "not found"} /\ live' = {}
    BY <1>1, <1>4, <1>5 DEF Web!OnCourse
  <2> QED
    BY <1>1, <1>2, <1>3, <1>5, <2>1, WebNoFault, WebDecides
<1>6. CASE proc[p].at = "reset clear" /\ Web!AfterReset(p, proc[p], w)
  <2>1. ~(proc[p].alone /\ proc[p].began = mishaps')
    BY <1>4, <1>6 DEF Web!OnCourse
  <2>2. proc[p].attempt < Web!LastAttempt
    BY <1>6, WebHere DEF Web!Fits
  <2> QED
    BY <1>1, <1>2, <1>3, <1>6, <2>1, <2>2, WebNoFault, WebResets
<1> QED
  BY <1>1, <1>5, <1>6

\* A request that failed fails for good: its answer.
LEMMA WebGivesUp ==
  ASSUME Web!IInv, NEW p \in Process, proc[p].at \in {"remove", "ensure"},
         Web!Answer(p, proc[p], "failed"), Web!Fault, UNCHANGED <<cache, wd, running, live>>
  PROVE  Web!IInv'
<1>1. /\ proc[p] \in Web!Request /\ proc[p].op # "none"
      /\ Web!Row(proc[p].op).safe => ~proc[p].effect
      /\ wd' \in [Objects -> Web!Id] /\ Web!OneLive' /\ live' \subseteq Wd /\ running' \in BOOLEAN
      /\ cache' \in Objects \cup {None}
  BY WebHere DEF Web!OneLive
<1>2. /\ last' \in Web!Ended /\ last'.alone = proc[p].alone /\ last'.clean = (proc[p].began = mishaps')
      /\ last'.op = proc[p].op /\ last'.answer = "failed" /\ last'.effect = proc[p].effect
      /\ proc' = [proc EXCEPT ![p] = Web!Idle]
  BY <1>1 DEF Web!Answer, Web!Becomes, Web!Ended, Web!Request
<1> QED
  BY <1>1, <1>2, WebFault, WebEnds

LEMMA WebRemoves ==
  ASSUME Web!IInv, NEW p \in Process, Web!RemoveContainer(p)
  PROVE  Web!IInv'
<1>1. proc[p].at = "remove" /\ UNCHANGED <<cache, wd>>
  BY DEF Web!RemoveContainer
<1>2. CASE Web!Fault /\ Web!Answer(p, proc[p], "failed") /\ UNCHANGED <<running, live>>
  BY <1>1, <1>2, WebGivesUp
<1>3. CASE /\ running' = FALSE /\ live' = {} /\ Web!Becomes(p, [proc[p] EXCEPT !.at = "ensure"])
           /\ Web!NoFault /\ UNCHANGED last
  <2> DEFINE x == [proc[p] EXCEPT !.at = "ensure"]
  <2>1. proc[p] \in Web!Request
    BY <1>1, WebHere
  <2>2. /\ x \in Web!Request /\ x.op = proc[p].op /\ x.alone = proc[p].alone
        /\ x.began = proc[p].began /\ x.at = "ensure" /\ x.call = proc[p].call
        /\ x.effect = proc[p].effect /\ x.attempt = proc[p].attempt
    BY <2>1 DEF Web!Request, Web!At
  <2>3. Web!Becomes(p, x)
    BY <1>3
  <2> HIDE DEF x
  <2>4. Web!Fits(x)
    BY <1>1, <2>2, WebHere DEF Web!Fits
  <2>5. ~Web!OnCourse(proc[p]) /\ Web!OneLive' /\ live' \subseteq Wd /\ running' \in BOOLEAN
    BY <1>1, <1>3 DEF Web!OnCourse, Web!OneLive
  <2> QED
    BY <1>1, <1>3, <2>2, <2>3, <2>4, <2>5, WebHere, WebNoFault, WebGoes
<1> QED
  BY <1>2, <1>3 DEF Web!RemoveContainer

LEMMA WebEnsures ==
  ASSUME Web!IInv, NEW p \in Process, Web!EnsureContainer(p)
  PROVE  Web!IInv'
<1>1. proc[p].at = "ensure" /\ live' = live
  BY DEF Web!EnsureContainer
<1>2. CASE Web!Fault /\ Web!Answer(p, proc[p], "failed") /\ UNCHANGED <<running, cache, wd>>
  BY <1>1, <1>2, WebGivesUp
<1>3. CASE running' = TRUE /\ Web!NoFault /\ Web!Enter(p, [proc[p] EXCEPT !.attempt = @ + 1], cache, wd)
  <2> DEFINE r == [proc[p] EXCEPT !.attempt = @ + 1]
  <2>1. /\ proc[p] \in Web!Request /\ proc[p].op \notin {"none", "change"}
        /\ Web!Row(proc[p].op).safe => ~proc[p].effect
        /\ wd \in [Objects -> Web!Id] /\ cache \in Objects \cup {None} /\ Web!OneLive'
        /\ live' \subseteq Wd
    BY <1>1, WebHere DEF Web!OneLive
  <2>2. proc[p].attempt + 1 \in 0..Web!LastAttempt
    <3>1. proc[p].attempt = Web!LastAttempt - 1
      BY <1>1, WebHere DEF Web!Fits
    <3> QED
      BY <3>1 DEF Web!LastAttempt
  <2>3. /\ r \in Web!Request /\ r.op = proc[p].op /\ r.alone = proc[p].alone
        /\ r.began = proc[p].began /\ r.effect = proc[p].effect
    BY <2>1, <2>2 DEF Web!Request
  <2>4. Web!Enter(p, r, cache, wd)
    BY <1>3
  <2> HIDE DEF r
  <2>5. ~(r.alone /\ r.began = mishaps')
    <3>1. ~Web!OnCourse(proc[p]) /\ mishaps' = mishaps
      BY <1>1, <1>3, WebNoFault DEF Web!OnCourse
    <3> QED
      BY <2>1, <2>3, <3>1 DEF Web!IInv, Web!Undisturbed
  <2> QED
    BY <1>3, <2>1, <2>3, <2>4, <2>5, WebNoFault, WebEnters
<1> QED
  BY <1>2, <1>3 DEF Web!EnsureContainer

LEMMA WebInvalidate ==
  ASSUME Web!IInv, NEW p \in Process, Web!Invalidate(p)
  PROVE  Web!IInv'
<1> DEFINE x == [proc[p] EXCEPT !.at = "replace"]
<1>1. proc[p].at = "invalidate" /\ cache' = None /\ Web!Becomes(p, x)
      /\ UNCHANGED <<wd, running, live, mishaps, last>>
  BY DEF Web!Invalidate
<1>2. proc[p] \in Web!Request
  BY <1>1, WebHere
<1>3. /\ x \in Web!Request /\ x.op = proc[p].op /\ x.alone = proc[p].alone
      /\ x.began = proc[p].began /\ x.at = "replace" /\ x.error = proc[p].error
  BY <1>2 DEF Web!Request, Web!At
<1> HIDE DEF x
<1>4. Web!Fits(x)
  BY <1>1, <1>3, WebHere DEF Web!Fits
<1>5. Web!NoFault /\ Web!OneLive'
  BY <1>1, WebHere DEF Web!NoFault, Web!OneLive
<1>6. Web!OnCourse(proc[p]) => x.error \in {"none", "not found"}
  BY <1>3 DEF Web!OnCourse
<1> QED
  BY <1>1, <1>3, <1>4, <1>5, <1>6, WebHere, WebNoFault, WebGoes

LEMMA WebReplace ==
  ASSUME Web!IInv, NEW p \in Process, Web!Replace(p)
  PROVE  Web!IInv'
<1>1. /\ proc[p].at = "replace" /\ Web!NoFault /\ running' = TRUE /\ live' = {}
      /\ Web!Answer(p, proc[p], "ok") /\ UNCHANGED <<cache, wd>>
  BY DEF Web!Replace
<1>2. /\ proc[p] \in Web!Request /\ proc[p].op # "none"
      /\ wd' \in [Objects -> Web!Id] /\ cache' \in Objects \cup {None}
  BY <1>1, WebHere
<1>3. /\ last' \in Web!Ended /\ last'.alone = proc[p].alone
      /\ last'.answer = "ok" /\ proc' = [proc EXCEPT ![p] = Web!Idle]
  BY <1>1, <1>2 DEF Web!Answer, Web!Becomes, Web!Ended, Web!Request
<1>4. Web!OneLive' /\ live' \subseteq Wd /\ running' \in BOOLEAN
  BY <1>1 DEF Web!OneLive
<1> QED
  BY <1>1, <1>2, <1>3, <1>4, WebNoFault, WebEnds

LEMMA WebCrash ==
  ASSUME Web!IInv, Web!Crash
  PROVE  Web!IInv'
<1>1. Web!Fault /\ running' = FALSE /\ live' = {} /\ UNCHANGED <<cache, wd, proc, last>>
  BY DEF Web!Crash
<1>2. /\ mishaps' \in 0..MaxFaults /\ mishaps' >= mishaps
      /\ \A p \in Process : proc[p].began # mishaps'
  BY <1>1, WebFault
<1>3. Web!Fields' /\ Web!OneLive'
  BY <1>1, <1>2, WebCounts DEF Web!Fields, Web!OneLive
<1>4. ASSUME NEW p \in Process
      PROVE  Web!Fits(proc[p])' /\ proc'[p].began <= mishaps' /\ Web!Undisturbed(p)'
  <2>1. proc[p].began <= mishaps'
    BY <1>2, WebBegan
  <2>2. Web!Fits(proc[p]) /\ Web!Undisturbed(p)
    BY DEF Web!IInv
  <2> QED
    BY <1>1, <1>2, <2>1, <2>2 DEF Web!Fits, Web!Undisturbed
<1>5. last'.alone => Web!Busy' = {}
  BY <1>1 DEF Web!IInv, Web!Busy
<1>6. Web!LoneOperations'
  BY <1>1 DEF Web!IInv, Web!LoneOperations, Web!LoneOperationSucceeds, Web!LoneOperationCleansUp,
             Web!SafeMeansNoEffect
<1> QED
  BY <1>3, <1>4, <1>5, <1>6 DEF Web!IInv

\* A request begins, and disturbs the others.
LEMMA WebBegins ==
  ASSUME Web!IInv, NEW p \in Process, NEW op \in Ops, Web!Begin(p, op)
  PROVE  Web!IInv'
<1> DEFINE r == [Web!Idle EXCEPT !.op = op, !.alone = Web!Busy = {}, !.began = mishaps]
           others == [q \in Process |-> [proc[q] EXCEPT !.alone = @ /\ q \notin Web!Busy]]
           e == IF cache = None THEN Web!NewEntry ELSE cache
<1>1. /\ proc[p].op = "none" /\ last' = Web!NoAnswer /\ UNCHANGED <<running, live, mishaps>>
  BY DEF Web!Begin
<1>2. /\ Web!Fields /\ Web!OneLive /\ mishaps \in Nat /\ mishaps \in 0..MaxFaults
      /\ cache \in Objects \cup {None} /\ wd \in [Objects -> Web!Id]
  BY WebCounts DEF Web!IInv, Web!Fields
<1>3. e \in Objects
  BY <1>2, WebEntries
<1>4. /\ r \in Web!Request /\ r.op = op /\ r.alone = (Web!Busy = {}) /\ r.began = mishaps
      /\ r.error = "none" /\ r.effect = FALSE /\ r.at = "idle"
  <2>1. op \in Ops \cup {"none"} /\ (Web!Busy = {}) \in BOOLEAN
    OBVIOUS
  <2> QED
    BY <1>2, <2>1, WebIdle DEF Web!Request
<1> HIDE DEF r
<1>5. PICK x \in Web!Request :
        /\ proc' = [others EXCEPT ![p] = x]
        /\ x.op = op /\ x.alone = r.alone /\ x.began = r.began /\ x.error = "none"
        /\ x.effect = FALSE /\ Web!Fits(x)
        /\ cache' \in Objects \cup {None} /\ wd' \in [Objects -> Web!Id]
        /\ \/ x.at = "invalidate"
           \/ x.at = "container" /\ x.entry = cache'
  <2>1. CASE op = "change"
    <3> DEFINE x == [r EXCEPT !.at = "invalidate"]
    <3>1. proc' = [others EXCEPT ![p] = x] /\ UNCHANGED <<cache, wd>>
      BY <2>1 DEF Web!Begin, r
    <3>2. /\ x \in Web!Request /\ x.op = op /\ x.alone = r.alone /\ x.began = r.began
          /\ x.error = "none" /\ x.effect = FALSE /\ x.at = "invalidate"
      BY <1>4 DEF Web!Request, Web!At
    <3> HIDE DEF x
    <3>3. Web!Fits(x)
      BY <2>1, <3>2 DEF Web!Fits
    <3> HIDE DEF others
    <3> QED
      BY <1>2, <3>1, <3>2, <3>3
  <2>2. CASE op # "change"
    <3> DEFINE x == [r EXCEPT !.at = "container", !.entry = e, !.call = 1]
    <3>1. /\ proc' = [others EXCEPT ![p] = x] /\ cache' = e
          /\ wd' = IF cache = None THEN [wd EXCEPT ![e] = None] ELSE wd
      BY <2>2 DEF Web!Begin, r
    <3>2. wd' \in [Objects -> Web!Id]
      BY <1>2, <3>1 DEF Web!Id
    <3> HIDE DEF e
    <3>3. /\ x \in Web!Request /\ x.op = op /\ x.alone = r.alone /\ x.began = r.began
          /\ x.error = "none" /\ x.effect = FALSE /\ x.at = "container" /\ x.entry = e /\ x.call = 1
      <4>1. "container" \in Web!At /\ 1 \in 0..4 /\ e \in Objects \cup {None}
        BY <1>3 DEF Web!At
      <4> QED
        BY <1>4, <4>1 DEF Web!Request
    <3> HIDE DEF x
    <3>4. Web!Fits(x)
      <4>1. 1 \in DOMAIN Web!Row(op).calls /\ op \notin {"none", "change"}
        BY <2>2, WebRows, OpsAssumption
      <4> QED
        BY <1>3, <3>3, <4>1 DEF Web!Fits
    <3> HIDE DEF others
    <3> QED
      BY <1>3, <3>1, <3>2, <3>3, <3>4
  <2> QED
    BY <2>1, <2>2
<1>6. ASSUME NEW q \in Process
      PROVE  /\ proc[q] \in Web!Request /\ Web!Fits(proc[q]) /\ proc[q].began <= mishaps
             /\ others[q] \in Web!Request /\ Web!Fits(others[q])
             /\ others[q].began = proc[q].began /\ others[q].op = proc[q].op
             /\ others[q].alone => others[q].op = "none"
  <2>1. proc[q] \in Web!Request /\ Web!Fits(proc[q]) /\ proc[q].began <= mishaps
    BY WebCounts DEF Web!IInv
  <2>2. others[q] = [proc[q] EXCEPT !.alone = proc[q].alone /\ q \notin Web!Busy]
    OBVIOUS
  <2>3. others[q] \in Web!Request
    BY <2>1, <2>2 DEF Web!Request
  <2>4. /\ others[q].op = proc[q].op /\ others[q].at = proc[q].at /\ others[q].call = proc[q].call
        /\ others[q].effect = proc[q].effect /\ others[q].entry = proc[q].entry
        /\ others[q].attempt = proc[q].attempt /\ others[q].began = proc[q].began
        /\ others[q].alone = (proc[q].alone /\ q \notin Web!Busy)
    BY <2>1, <2>2 DEF Web!Request
  <2> HIDE DEF others
  <2>5. Web!Fits(others[q])
    BY <2>1, <2>4 DEF Web!Fits
  <2> QED
    BY <2>1, <2>3, <2>4, <2>5 DEF Web!Busy
<1>7. /\ proc' \in [Process -> Web!Request] /\ proc'[p] = x
      /\ \A q \in Process \ {p} : proc'[q] = others[q]
  <2>1. others \in [Process -> Web!Request]
    BY <1>6
  <2> HIDE DEF others
  <2> QED
    BY <1>5, <2>1
<1> HIDE DEF others
<1>8. Web!Fields'
  <2>1. Web!NoAnswer \in Web!Ended
    BY DEF Web!NoAnswer, Web!Ended
  <2> QED
    BY <1>1, <1>2, <1>5, <1>7, <2>1 DEF Web!Fields
<1>9. ASSUME NEW q \in Process
      PROVE  Web!Fits(proc[q])' /\ proc'[q].began <= mishaps' /\ Web!Undisturbed(q)'
  <2>1. CASE q = p
    <3>1. proc'[q] = x /\ x.began = mishaps /\ mishaps <= mishaps
      BY <1>2, <1>4, <1>5, <1>7, <2>1
    <3>2. ASSUME x.alone, NEW o \in Process \ {p} PROVE proc'[o].op = "none"
      <4>1. Web!Busy = {} /\ proc'[o] = others[o] /\ others[o].op = proc[o].op
        BY <1>4, <1>5, <1>6, <1>7, <3>2
      <4> QED
        BY <4>1 DEF Web!Busy
    <3>3. Web!OnCourse(proc[q])'
      BY <1>5, <3>1 DEF Web!OnCourse
    <3> QED
      BY <1>1, <1>5, <2>1, <3>1, <3>2, <3>3 DEF Web!Fits, Web!Undisturbed
  <2>2. CASE q # p
    <3>1. proc'[q] = others[q]
      BY <1>7, <2>2
    <3> QED
      BY <1>1, <1>6, <3>1 DEF Web!Fits, Web!Undisturbed
  <2> QED
    BY <2>1, <2>2
<1>10. Web!NoAnswer.alone = FALSE /\ Web!NoAnswer.answer = "ok"
  BY DEF Web!NoAnswer
<1>11. Web!LoneOperations'
  BY <1>1, <1>10 DEF Web!LoneOperations, Web!LoneOperationSucceeds, Web!LoneOperationCleansUp,
                    Web!SafeMeansNoEffect
<1>12. Web!OneLive'
  BY <1>1, <1>2 DEF Web!OneLive
<1> QED
  BY <1>1, <1>8, <1>9, <1>10, <1>11, <1>12 DEF Web!IInv

LEMMA WebInit == Web!Init => Web!IInv
<1> SUFFICES ASSUME Web!Init PROVE Web!IInv
  OBVIOUS
<1>1. /\ Web!Idle \in Web!Request /\ Web!Idle.op = "none" /\ Web!Idle.at = "idle"
      /\ Web!Idle.began = 0
  BY WebIdle
<1>2. /\ Web!NoAnswer \in Web!Ended /\ Web!NoAnswer.alone = FALSE /\ Web!NoAnswer.answer = "ok"
  BY DEF Web!NoAnswer, Web!Ended
<1>3. 0 \in 0..MaxFaults /\ 0 <= 0 /\ mishaps = 0
  BY FaultsAssumption DEF Web!Init
<1>4. /\ proc \in [Process -> Web!Request] /\ \A p \in Process : proc[p] = Web!Idle
  BY <1>1 DEF Web!Init
<1>5. Web!Fields /\ Web!OneLive
  BY <1>2, <1>3, <1>4 DEF Web!Init, Web!Fields, Web!OneLive, Web!Id
<1>6. \A p \in Process : Web!Fits(proc[p]) /\ proc[p].began <= mishaps /\ Web!Undisturbed(p)
  BY <1>1, <1>3, <1>4 DEF Web!Fits, Web!Undisturbed
<1>7. last = Web!NoAnswer
  BY DEF Web!Init
<1>8. Web!LoneOperations
  BY <1>2, <1>7 DEF Web!LoneOperations, Web!LoneOperationSucceeds, Web!LoneOperationCleansUp,
                    Web!SafeMeansNoEffect
<1> QED
  BY <1>2, <1>5, <1>6, <1>7, <1>8 DEF Web!IInv

LEMMA WebStep == ASSUME Web!IInv, [Web!Next]_WebVars PROVE Web!IInv'
<1>1. CASE Web!Next
  <2>1. CASE Web!Crash
    BY <2>1, WebCrash
  <2>2. ASSUME NEW p \in Process, Web!Advance(p) PROVE Web!IInv'
    BY <2>2, WebContainerFails, WebContainerRuns, WebLocked, WebAlive, WebDead, WebFind, WebDiscard,
       WebCreate, WebCreateFails, WebCallAnswered, WebNotFound, WebCallFails, WebDelete, WebClear,
       WebRemoves, WebEnsures, WebReplace, WebInvalidate
       DEF Web!Advance
  <2>3. ASSUME NEW p \in Process, NEW op \in Ops, Web!Begin(p, op) PROVE Web!IInv'
    BY <2>3, WebBegins
  <2> QED
    BY <1>1, <2>1, <2>2, <2>3 DEF Web!Next
<1>2. CASE UNCHANGED WebVars
  <2>1. /\ UNCHANGED <<cache, wd, running, live, proc, mishaps, last>>
    BY <1>2 DEF WebVars
  <2>2. Web!Fields' /\ Web!OneLive' /\ Web!LoneOperations' /\ (last'.alone => Web!Busy' = {})
    BY <2>1 DEF Web!IInv, Web!Fields, Web!OneLive, Web!LoneOperations, Web!LoneOperationSucceeds,
               Web!LoneOperationCleansUp, Web!SafeMeansNoEffect, Web!Busy
  <2>3. ASSUME NEW p \in Process
        PROVE  Web!Fits(proc[p])' /\ proc'[p].began <= mishaps' /\ Web!Undisturbed(p)'
    <3>1. Web!Fits(proc[p]) /\ proc[p].began <= mishaps /\ Web!Undisturbed(p)
      BY DEF Web!IInv
    <3>2. Web!Fits(proc[p])' /\ (Web!OnCourse(proc[p]) => Web!OnCourse(proc[p])')
      BY <2>1, <3>1 DEF Web!Fits, Web!OnCourse
    <3> QED
      BY <2>1, <3>1, <3>2 DEF Web!Undisturbed
  <2> QED
    BY <2>2, <2>3 DEF Web!IInv
<1> QED
  BY <1>1, <1>2

\* What an operation that has the browser to itself can rely on at every step:
\* the cache has the entry it works on, and Selenium, in a container that runs,
\* the session that the entry knows.
THEOREM WebInvariant == BrowsersSpec => [](Only("webdriver") => Web!IInv)
<1>1. BrowsersInit => (Only("webdriver") => Web!IInv)
  BY WebInit DEF BrowsersInit, Only
<1>2. (Only("webdriver") => Web!IInv) /\ [BrowsersNext]_<<which, Identity, WebVars, DriverVars>>
        => (Only("webdriver") => Web!IInv)'
  <2> SUFFICES ASSUME Only("webdriver") => Web!IInv,
                      [BrowsersNext]_<<which, Identity, WebVars, DriverVars>>, Only("webdriver")'
               PROVE  Web!IInv'
    OBVIOUS
  <2>1. Only("webdriver") /\ Web!IInv /\ [Web!Next]_WebVars
    BY DEF BrowsersNext, Only
  <2> QED
    BY <2>1, WebStep
<1> QED
  BY <1>1, <1>2, PTL DEF BrowsersSpec

\* LoneOperations: an operation of routes/browser.py that has the browser to
\* itself and meets no fault succeeds, whatever WebDriver sessions and ids
\* earlier ones have left in Selenium and in the cache, and deletes its own; a
\* failure that is reported as safe to retry has done nothing to the page.
THEOREM LoneOperationsHeal == BrowsersSpec => []LoneOperations
<1>1. (Only("webdriver") => Web!IInv) => LoneOperations
  BY DEF LoneOperations, Web!IInv
<1> QED
  BY <1>1, WebInvariant, PTL
-----------------------------------------------------------------------------
(***************************************************************************)
(* The Cloak driver.  Who launches the browser has the lock until the      *)
(* driver is started or the launch has failed, and every other step leaves *)
(* an operation where it launches nothing.                                 *)
(***************************************************************************)
Aside(p) ==
  \E r : /\ driving' = [driving EXCEPT ![p] = r]
        /\ "at" \in DOMAIN r /\ r.at \notin {"launch", "first", "session"}

\* The other operations keep their place when one takes a step.
LEMMA DriverOthers ==
  ASSUME Pair!LauncherHasLock, NEW p \in Process, NEW r, "at" \in DOMAIN r,
         driving' = [driving EXCEPT ![p] = r]
  PROVE  /\ DOMAIN driving' = Process /\ driving'[p] = r
         /\ \A q \in Process : "at" \in DOMAIN driving'[q]
         /\ \A q \in Process : q # p => driving'[q] = driving[q]
<1>1. DOMAIN driving = Process /\ \A q \in Process : "at" \in DOMAIN driving[q]
  BY DEF Pair!LauncherHasLock
<1>2. /\ DOMAIN driving' = Process /\ driving'[p] = r
      /\ \A q \in Process : q # p => driving'[q] = driving[q]
  BY <1>1
<1> QED
  BY <1>1, <1>2

LEMMA DriverAside ==
  ASSUME Pair!LauncherHasLock, NEW p \in Process, Aside(p), UNCHANGED <<started, launching>>
  PROVE  Pair!LauncherHasLock'
<1>1. PICK r : /\ driving' = [driving EXCEPT ![p] = r]
               /\ "at" \in DOMAIN r /\ r.at \notin {"launch", "first", "session"}
  BY DEF Aside
<1>2. /\ DOMAIN driving' = Process /\ driving'[p] = r
      /\ \A q \in Process : "at" \in DOMAIN driving'[q]
      /\ \A q \in Process : q # p => driving'[q] = driving[q]
  BY <1>1, DriverOthers
<1> QED
  BY <1>1, <1>2 DEF Pair!LauncherHasLock, Pair!Launching

LEMMA DriverAnswers ==
  ASSUME NEW p, NEW ok, Pair!Answer(p, ok)
  PROVE  Aside(p)
<1>1. driving' = [driving EXCEPT ![p] = Pair!Idle]
  BY DEF Pair!Answer, Pair!Becomes
<1>2. "at" \in DOMAIN Pair!Idle /\ Pair!Idle.at = "idle"
  BY DEF Pair!Idle
<1> QED
  BY <1>1, <1>2 DEF Aside

LEMMA DriverAnswered ==
  ASSUME NEW p, NEW r, NEW more, "at" \in DOMAIN r, Pair!Answered(p, r, more)
  PROVE  Aside(p)
<1>1. CASE Tail(r.todo) \o more = <<>>
  BY <1>1, DriverAnswers DEF Pair!Answered
<1>2. CASE Tail(r.todo) \o more # <<>>
  <2> DEFINE next == [r EXCEPT !.todo = Tail(@) \o more, !.at = "start", !.page = None, !.tried = FALSE]
  <2>1. driving' = [driving EXCEPT ![p] = next]
    BY <1>2 DEF Pair!Answered, Pair!Becomes
  <2>2. "at" \in DOMAIN next /\ next.at = "start"
    OBVIOUS
  <2> HIDE DEF next
  <2> QED
    BY <2>1, <2>2 DEF Aside
<1> QED
  BY <1>1, <1>2

LEMMA DriverBecomes ==
  ASSUME NEW p, NEW r, "at" \in DOMAIN r, r.at \notin {"launch", "first", "session"}, Pair!Becomes(p, r)
  PROVE  Aside(p)
BY DEF Aside, Pair!Becomes

LEMMA DriverRecovers ==
  ASSUME NEW p, NEW r, "at" \in DOMAIN r, Pair!Recover(p, r)
  PROVE  Aside(p) /\ UNCHANGED <<started, launching>>
<1> DEFINE list == Pair!OpenPages(marked \cup {shown})
           new == [r EXCEPT !.at = "new"]
           front(q) == [r EXCEPT !.at = "front", !.page = q]
<1>1. /\ UNCHANGED <<started, launching>>
      /\ Pair!Becomes(p, new) \/ Pair!Becomes(p, front(Head(list)))
  BY DEF Pair!Recover
<1>2. "at" \in DOMAIN new /\ new.at = "new"
  OBVIOUS
<1>3. "at" \in DOMAIN front(Head(list)) /\ front(Head(list)).at = "front"
  OBVIOUS
<1> HIDE DEF new, front
<1> QED
  BY <1>1, <1>2, <1>3, DriverBecomes

LEMMA DriverOnPage ==
  ASSUME NEW p, NEW r, "at" \in DOMAIN r, Pair!OnPage(p, r)
  PROVE  Aside(p) /\ UNCHANGED <<started, launching>>
<1>1. CASE Pair!Fails(p)
  BY <1>1, DriverAnswers DEF Pair!Fails, Pair!driver
<1>2. CASE Pair!Recover(p, [r EXCEPT !.tried = TRUE])
  BY <1>2, DriverRecovers
<1>3. CASE Pair!Answered(p, r, <<>>) /\ UNCHANGED <<Pair!driver, Pair!history>>
  BY <1>3, DriverAnswered DEF Pair!driver
<1> QED
  BY <1>1, <1>2, <1>3 DEF Pair!OnPage
-----------------------------------------------------------------------------
\* The steps that launch no browser.
LEMMA DriverLooks ==
  ASSUME Pair!LauncherHasLock, NEW p \in Process, Pair!Handles(p) \/ Pair!Window(p) \/ Pair!Select(p)
  PROVE  Aside(p) /\ UNCHANGED <<started, launching>>
<1>1. "at" \in DOMAIN driving[p]
  BY DEF Pair!LauncherHasLock
<1>2. CASE Pair!Handles(p)
  <2> DEFINE r == [driving[p] EXCEPT !.list = Pair!OpenPages(marked)]
  <2>1. "at" \in DOMAIN r
    BY <1>1
  <2>2. /\ UNCHANGED <<started, launching>>
        /\ Pair!Answered(p, r, Pair!SwitchOf(r)) \/ Pair!Answer(p, FALSE) \/ Pair!Answered(p, r, <<>>)
    BY <1>2 DEF Pair!Handles, Pair!driver
  <2> HIDE DEF r
  <2> QED
    BY <2>1, <2>2, DriverAnswers, DriverAnswered
<1>3. CASE Pair!Window(p)
  <2> DEFINE q == IF shown \in open THEN shown ELSE Head(Pair!OpenPages(marked))
             new == [driving[p] EXCEPT !.at = "new"]
             r == [driving[p] EXCEPT !.list = <<>>]
             tour == Pair!TourOf(driving[p].list, Pair!HandleOf(q))
  <2>1. /\ UNCHANGED <<started, launching>>
        /\ Pair!Becomes(p, new) \/ Pair!Answered(p, r, tour)
    BY <1>3 DEF Pair!Window
  <2>2. "at" \in DOMAIN new /\ new.at = "new" /\ "at" \in DOMAIN r
    BY <1>1
  <2> HIDE DEF new, r, tour
  <2> QED
    BY <2>1, <2>2, DriverBecomes, DriverAnswered
<1>4. CASE Pair!Select(p)
  <2>1. CASE Pair!Fails(p)
    BY <2>1, DriverAnswers DEF Pair!Fails, Pair!driver
  <2>2. CASE ~Pair!Fails(p)
    <3>1. PICK q : Pair!Becomes(p, [driving[p] EXCEPT !.at = "attach", !.page = q])
                   /\ UNCHANGED <<started, launching>>
      BY <1>4, <2>2 DEF Pair!Select
    <3> DEFINE r == [driving[p] EXCEPT !.at = "attach", !.page = q]
    <3>2. "at" \in DOMAIN r /\ r.at = "attach"
      BY <1>1
    <3> HIDE DEF r
    <3> QED
      BY <3>1, <3>2, DriverBecomes DEF r
  <2> QED
    BY <2>1, <2>2
<1> QED
  BY <1>2, <1>3, <1>4

LEMMA DriverTurns ==
  ASSUME Pair!LauncherHasLock, NEW p \in Process, Pair!ActivePage(p) \/ Pair!Front(p) \/ Pair!ActiveCdp(p)
  PROVE  Aside(p) /\ UNCHANGED <<started, launching>>
<1>1. "at" \in DOMAIN driving[p]
  BY DEF Pair!LauncherHasLock
<1> DEFINE use == [driving[p] EXCEPT !.at = "use", !.page = shown]
           attach == [driving[p] EXCEPT !.at = "attach", !.page = shown]
           send == [driving[p] EXCEPT !.at = "send", !.page = cdp]
<1>2. /\ "at" \in DOMAIN use /\ use.at = "use"
      /\ "at" \in DOMAIN attach /\ attach.at = "attach"
      /\ "at" \in DOMAIN send /\ send.at = "send"
  BY <1>1
<1>3. \/ Pair!Recover(p, driving[p])
      \/ /\ UNCHANGED <<started, launching>>
         /\ \/ Pair!Becomes(p, use) \/ Pair!Becomes(p, attach) \/ Pair!Becomes(p, send)
            \/ Pair!Answer(p, FALSE) \/ Pair!Answered(p, driving[p], <<>>)
  <2>1. CASE Pair!ActivePage(p)
    BY <2>1 DEF Pair!ActivePage, Pair!driver
  <2>2. CASE Pair!Front(p)
    BY <2>2 DEF Pair!Front, Pair!driver
  <2>3. CASE Pair!ActiveCdp(p)
    BY <2>3 DEF Pair!ActiveCdp, Pair!driver
  <2> QED
    BY <2>1, <2>2, <2>3
<1> HIDE DEF use, attach, send
<1> QED
  BY <1>1, <1>2, <1>3, DriverRecovers, DriverBecomes, DriverAnswers, DriverAnswered

LEMMA DriverOpens ==
  ASSUME Pair!LauncherHasLock, NEW p \in Process, Pair!Opens(p)
  PROVE  Aside(p) /\ UNCHANGED <<started, launching>>
<1>1. "at" \in DOMAIN driving[p]
  BY DEF Pair!LauncherHasLock
<1> DEFINE q == Pair!NewPage
           attach == [driving[p] EXCEPT !.at = "attach", !.page = q]
           front == [driving[p] EXCEPT !.at = "front", !.page = q]
           r == [driving[p] EXCEPT !.list = <<>>]
           tour == Pair!TourOf(driving[p].list, q)
<1>2. /\ "at" \in DOMAIN attach /\ attach.at = "attach"
      /\ "at" \in DOMAIN front /\ front.at = "front" /\ "at" \in DOMAIN r
  BY <1>1
<1>3. CASE ~alive
  BY <1>3, DriverAnswers DEF Pair!Opens, Pair!Fails, Pair!driver
<1>4. CASE alive
  <2>1. /\ UNCHANGED <<started, launching>>
        /\ Pair!Answered(p, r, tour) \/ Pair!Becomes(p, attach) \/ Pair!Becomes(p, front)
    BY <1>4, Zenon DEF Pair!Opens
  <2> HIDE DEF attach, front, r, tour
  <2> QED
    BY <1>2, <2>1, DriverBecomes, DriverAnswered
<1> QED
  BY <1>3, <1>4

LEMMA DriverUses ==
  ASSUME Pair!LauncherHasLock, NEW p \in Process, Pair!Drive(p) \/ Pair!Title(p) \/ Pair!Send(p)
  PROVE  Aside(p) /\ UNCHANGED <<started, launching>>
<1>1. "at" \in DOMAIN driving[p]
  BY DEF Pair!LauncherHasLock
<1> DEFINE r == [driving[p] EXCEPT !.tried = TRUE]
<1>2. "at" \in DOMAIN r
  BY <1>1
<1>3. Pair!OnPage(p, driving[p]) \/ Pair!OnPage(p, r)
  BY DEF Pair!Drive, Pair!Title, Pair!Send
<1> HIDE DEF r
<1> QED
  BY <1>1, <1>2, <1>3, DriverOnPage

LEMMA DriverAttaches ==
  ASSUME Pair!LauncherHasLock, NEW p \in Process, Pair!Attach(p) \/ Pair!CloseWindow(p)
  PROVE  Aside(p) /\ UNCHANGED <<started, launching>>
<1>1. "at" \in DOMAIN driving[p]
  BY DEF Pair!LauncherHasLock
<1> DEFINE send == [driving[p] EXCEPT !.at = "send"]
           front == [driving[p] EXCEPT !.at = "front"]
           new == [driving[p] EXCEPT !.at = "new", !.tried = TRUE]
           attach(q) == [driving[p] EXCEPT !.at = "attach", !.page = q]
<1>2. /\ "at" \in DOMAIN send /\ send.at = "send" /\ "at" \in DOMAIN front /\ front.at = "front"
      /\ "at" \in DOMAIN new /\ new.at = "new"
  BY <1>1
<1>3. \A q : "at" \in DOMAIN attach(q) /\ attach(q).at = "attach"
  BY <1>1
<1>4. CASE Pair!Attach(p)
  <2>1. CASE driving[p].page \notin open
    BY <1>4, <2>1, DriverAnswers DEF Pair!Attach, Pair!Fails, Pair!driver
  <2>2. CASE driving[p].page \in open
    <3>1. /\ UNCHANGED <<started, launching>>
          /\ \/ Pair!Becomes(p, send) \/ Pair!Becomes(p, front) \/ Pair!Answered(p, driving[p], <<>>)
      BY <1>4, <2>2, Zenon DEF Pair!Attach
    <3> HIDE DEF send, front
    <3> QED
      BY <1>1, <1>2, <3>1, DriverBecomes, DriverAnswered
  <2> QED
    BY <2>1, <2>2
<1>5. CASE Pair!CloseWindow(p)
  <2>1. /\ UNCHANGED <<started, launching>>
        /\ \/ Pair!Becomes(p, new) \/ \E q : Pair!Becomes(p, attach(q))
    BY <1>5 DEF Pair!CloseWindow
  <2> HIDE DEF new, attach
  <2> QED
    BY <1>2, <1>3, <2>1, DriverBecomes
<1> QED
  BY <1>4, <1>5
-----------------------------------------------------------------------------
\* Who launches has taken the lock before, and gives it back last.
LEMMA DriverLaunches ==
  ASSUME Pair!LauncherHasLock, NEW p \in Process,
         Pair!Launch(p) \/ Pair!Launched(p) \/ Pair!FirstPage(p)
  PROVE  Pair!LauncherHasLock'
<1>1. "at" \in DOMAIN driving[p]
  BY DEF Pair!LauncherHasLock
<1> DEFINE launch == [driving[p] EXCEPT !.at = "launch"]
           first == [driving[p] EXCEPT !.at = "first"]
           session == [driving[p] EXCEPT !.at = "session", !.page = Pair!NewPage]
<1>2. /\ "at" \in DOMAIN launch /\ "at" \in DOMAIN first /\ "at" \in DOMAIN session
  BY <1>1
<1>3. /\ ~started /\ started' = started /\ launching' = p
      /\ \A q \in Process : Pair!Launching(q) => q = p
      /\ Pair!Becomes(p, launch) \/ Pair!Becomes(p, first) \/ Pair!Becomes(p, session)
  <2>1. CASE Pair!Launch(p)
    <3>1. launching = None /\ ~started /\ started' = started /\ launching' = p /\ Pair!Becomes(p, launch)
      BY <2>1 DEF Pair!Launch, Pair!TakesLock
    <3> QED
      BY <3>1, NoneAssumption DEF Pair!LauncherHasLock
  <2>2. CASE Pair!Launched(p) \/ Pair!FirstPage(p)
    <3>1. /\ Pair!Launching(p) /\ UNCHANGED <<started, launching>>
          /\ Pair!Becomes(p, first) \/ Pair!Becomes(p, session)
      BY <2>2 DEF Pair!Launched, Pair!FirstPage, Pair!Launching
    <3> QED
      BY <3>1 DEF Pair!LauncherHasLock
  <2> QED
    BY <2>1, <2>2
<1> HIDE DEF launch, first, session
<1>4. PICK r : "at" \in DOMAIN r /\ driving' = [driving EXCEPT ![p] = r]
  BY <1>2, <1>3 DEF Pair!Becomes
<1>5. /\ DOMAIN driving' = Process
      /\ \A q \in Process : "at" \in DOMAIN driving'[q]
      /\ \A q \in Process : q # p => driving'[q] = driving[q]
  BY <1>4, DriverOthers
<1> QED
  BY <1>3, <1>5 DEF Pair!LauncherHasLock, Pair!Launching

LEMMA DriverGivesBack ==
  ASSUME Pair!LauncherHasLock, NEW p \in Process, Pair!Started(p) \/ Pair!LaunchFails(p)
  PROVE  Pair!LauncherHasLock'
<1>1. "at" \in DOMAIN driving[p]
  BY DEF Pair!LauncherHasLock
<1>2. Pair!Launching(p)
  BY DEF Pair!Started, Pair!LaunchFails, Pair!Launching
<1>3. Aside(p)
  <2>1. CASE Pair!Started(p)
    <3> DEFINE r == [driving[p] EXCEPT !.at = "start", !.page = None]
    <3>1. Pair!Becomes(p, r)
      BY <2>1 DEF Pair!Started
    <3>2. "at" \in DOMAIN r /\ r.at = "start"
      BY <1>1
    <3> HIDE DEF r
    <3> QED
      BY <3>1, <3>2, DriverBecomes
  <2>2. CASE Pair!LaunchFails(p)
    BY <2>2, DriverAnswers DEF Pair!LaunchFails
  <2> QED
    BY <2>1, <2>2
<1>4. PICK r : /\ driving' = [driving EXCEPT ![p] = r]
               /\ "at" \in DOMAIN r /\ r.at \notin {"launch", "first", "session"}
  BY <1>3 DEF Aside
<1>5. /\ DOMAIN driving' = Process /\ driving'[p] = r
      /\ \A q \in Process : "at" \in DOMAIN driving'[q]
      /\ \A q \in Process : q # p => driving'[q] = driving[q]
  BY <1>4, DriverOthers
<1>6. \A q \in Process : ~Pair!Launching(q)'
  BY <1>2, <1>4, <1>5 DEF Pair!LauncherHasLock, Pair!Launching
<1> QED
  BY <1>5, <1>6 DEF Pair!LauncherHasLock

\* What begins, and what happens to the browser, launches nothing.
LEMMA DriverBegins ==
  ASSUME Pair!LauncherHasLock, NEW p \in Process, NEW op, NEW target, NEW closes,
         Pair!Begin(p, op, target, closes)
  PROVE  Pair!LauncherHasLock'
<1>1. UNCHANGED <<started, launching>>
  BY DEF Pair!Begin, Pair!driver
<1> DEFINE r == [Pair!Idle EXCEPT !.op = op, !.todo = Pair!Commands(op), !.at = "start",
                   !.focus = IF Pair!Usable(shown) THEN shown ELSE None, !.target = target, !.closes = closes]
<1>2. "at" \in DOMAIN r /\ r.at = "start"
  BY DEF Pair!Idle
<1>3. driving' = [q \in Process |-> IF q # p THEN Pair!NotAlone(driving[q])
                                   ELSE IF Pair!Busy = {} THEN r ELSE Pair!NotAlone(r)]
  BY Zenon DEF Pair!Begin
<1> HIDE DEF r
<1>4. \A s : "at" \in DOMAIN s => "at" \in DOMAIN Pair!NotAlone(s) /\ Pair!NotAlone(s).at = s.at
  BY DEF Pair!NotAlone
<1>5. /\ DOMAIN driving' = Process /\ "at" \in DOMAIN driving'[p] /\ driving'[p].at = "start"
      /\ \A q \in Process \ {p} : driving'[q] = Pair!NotAlone(driving[q])
  BY <1>2, <1>3, <1>4
<1>6. \A q \in Process \ {p} : "at" \in DOMAIN driving'[q] /\ driving'[q].at = driving[q].at
  BY <1>4, <1>5 DEF Pair!LauncherHasLock
<1> QED
  BY <1>1, <1>5, <1>6 DEF Pair!LauncherHasLock, Pair!Launching

LEMMA DriverEvents ==
  ASSUME Pair!LauncherHasLock,
         \/ Pair!PageOpens \/ Pair!BrowserDies
         \/ \E q \in Pair!Tab : Pair!PageCloses(q) \/ Pair!PageCrashes(q)
  PROVE  Pair!LauncherHasLock'
<1>1. /\ UNCHANGED <<started, launching>>
      /\ \/ driving' = [p \in Process |-> Pair!NotAlone(driving[p])]
         \/ driving' = [p \in Process |-> IF p \in Pair!Busy /\ driving[p].alone
                                          THEN [driving[p] EXCEPT !.crashes = @ + 1] ELSE driving[p]]
  BY DEF Pair!PageOpens, Pair!BrowserDies, Pair!PageCloses, Pair!PageCrashes, Pair!Disturb
<1>2. ASSUME NEW p \in Process
      PROVE  "at" \in DOMAIN driving'[p] /\ driving'[p].at = driving[p].at
  <2>1. "at" \in DOMAIN driving[p]
    BY DEF Pair!LauncherHasLock
  <2>2. /\ "at" \in DOMAIN Pair!NotAlone(driving[p]) /\ Pair!NotAlone(driving[p]).at = driving[p].at
    BY <2>1 DEF Pair!NotAlone
  <2>3. \A n : /\ "at" \in DOMAIN [driving[p] EXCEPT !.crashes = n]
               /\ [driving[p] EXCEPT !.crashes = n].at = driving[p].at
    BY <2>1
  <2> QED
    BY <1>1, <2>1, <2>2, <2>3
<1>3. DOMAIN driving' = Process
  BY <1>1
<1> QED
  BY <1>1, <1>2, <1>3 DEF Pair!LauncherHasLock, Pair!Launching

LEMMA DriverInit == Pair!Init => Pair!LauncherHasLock
BY DEF Pair!Init, Pair!Idle, Pair!LauncherHasLock, Pair!Launching

LEMMA DriverStep == ASSUME Pair!LauncherHasLock, [Pair!Next]_DriverVars PROVE Pair!LauncherHasLock'
<1>1. CASE Pair!Next
  <2>1. ASSUME NEW p \in Process, Pair!Advance(p) PROVE Pair!LauncherHasLock'
    <3>1. CASE Aside(p) /\ UNCHANGED <<started, launching>>
      BY <3>1, DriverAside
    <3>2. CASE ~(Aside(p) /\ UNCHANGED <<started, launching>>)
      BY <2>1, <3>2, DriverLaunches, DriverGivesBack, DriverLooks, DriverTurns, DriverOpens, DriverUses, DriverAttaches
         DEF Pair!Advance
    <3> QED
      BY <3>1, <3>2
  <2>2. ASSUME NEW p \in Process, NEW op, NEW target, NEW closes, Pair!Begin(p, op, target, closes)
        PROVE  Pair!LauncherHasLock'
    BY <2>2, DriverBegins
  <2> QED
    BY <1>1, <2>1, <2>2, DriverEvents DEF Pair!Next
<1>2. CASE UNCHANGED DriverVars
  BY <1>2 DEF DriverVars, Pair!LauncherHasLock, Pair!Launching
<1> QED
  BY <1>1, <1>2

\* LaunchedOnce, for any number of operations: one at a time launches the
\* browser (bp_cloak_driver.py, ensure_started), though a launch may fail, or
\* be overtaken by events, at each of its awaits; none does once the driver
\* has been started.
THEOREM OneLaunchAtATime == BrowsersSpec => []LaunchedOnce
<1>1. BrowsersInit => (Only("cloak, two") => Pair!LauncherHasLock)
  BY DriverInit DEF BrowsersInit, Only
<1>2. (Only("cloak, two") => Pair!LauncherHasLock) /\ [BrowsersNext]_<<which, Identity, WebVars, DriverVars>>
        => (Only("cloak, two") => Pair!LauncherHasLock)'
  <2> SUFFICES ASSUME Only("cloak, two") => Pair!LauncherHasLock,
                      [BrowsersNext]_<<which, Identity, WebVars, DriverVars>>, Only("cloak, two")'
               PROVE  Pair!LauncherHasLock'
    OBVIOUS
  <2>1. Only("cloak, two") /\ Pair!LauncherHasLock /\ [Pair!Next]_DriverVars
    BY DEF BrowsersNext, Only
  <2> QED
    BY <2>1, DriverStep
<1>3. (Only("cloak, two") => Pair!LauncherHasLock) => LaunchedOnce
  BY DEF LaunchedOnce, Pair!LaunchedOnce, Pair!LauncherHasLock
<1> QED
  BY <1>1, <1>2, <1>3, PTL DEF BrowsersSpec
=============================================================================
