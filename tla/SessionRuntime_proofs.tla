------------------------ MODULE SessionRuntime_proofs ------------------------
(***************************************************************************)
(* Proofs about SessionRuntime and, after them, about FingerprintProfiles  *)
(* as the module that checks the two puts them together.                   *)
(* Most steps of a request move it on or end it and leave of the container *)
(* what the invariant speaks of: where none was there is none, and its     *)
(* token and its exit are the same.  A request that is alone may rely on   *)
(* what it has left behind; a token is claimed from the moment its request *)
(* is about to insert it.                                                  *)
(***************************************************************************)
EXTENDS MCSessionRuntime, FiniteSetTheorems, TLAPS

LEMMA NothingFacts ==
  /\ NoContainer \in Container
  /\ NoContainer.at = "none" /\ NoContainer.token = "none" /\ NoContainer.net = "direct"
BY DEF NoContainer, Container, Route, Net, Token

LEMMA IdleFacts ==
  Idle \in Request /\ Idle.op = "none" /\ Idle.at = "idle" /\ Idle.token = "none"
BY DEF Idle, Request, Place, Route, Token

\* A request that goes on keeps what it has.
LEMMA GoesFacts ==
  ASSUME TypeOK, NEW p \in Process, NEW at \in Place, Goes(p, at)
  PROVE  /\ proc' \in [Process -> Request]
         /\ \A q \in Process : q # p => proc'[q] = proc[q]
         /\ proc'[p].at = at /\ proc'[p].op = proc[p].op
         /\ proc'[p].via = proc[p].via /\ proc'[p].token = proc[p].token
<1>1. [proc[p] EXCEPT !.at = at] \in Request
  BY DEF TypeOK, Request
<1> QED
  BY <1>1 DEF TypeOK, Goes, Request

LEMMA EndsFacts ==
  ASSUME TypeOK, NEW p \in Process, proc' = [proc EXCEPT ![p] = Idle]
  PROVE  /\ proc' \in [Process -> Request]
         /\ \A q \in Process : q # p => proc'[q] = proc[q]
         /\ proc'[p] = Idle
BY IdleFacts DEF TypeOK

LEMMA OneFacts == \A token \in Token : One(token) \in 0..1
BY DEF One

LEMMA ContainerRow ==
  ASSUME TypeOK
  PROVE  /\ container.at \in {"none", "running", "paused", "exited"}
         /\ container.via \in Route /\ container.net \in Net /\ container.token \in Token
BY DEF TypeOK, Container

LEMMA RequestRow ==
  ASSUME TypeOK, NEW p \in Process
  PROVE  /\ proc[p] \in Request /\ proc[p].at \in Place
         /\ proc[p].via \in Route /\ proc[p].token \in Token
BY DEF TypeOK, Request

-----------------------------------------------------------------------------
(* What a step leaves of the container, and the type.                      *)

\* No container appears or goes, and the one there is keeps its token and its exit.
SameContainer ==
  /\ container' \in Container
  /\ container.at = "none" <=> container'.at = "none"
  /\ container.at = "none" => container' = container
  /\ container'.token = container.token /\ container'.via = container.via

LEMMA UnchangedContainer == TypeOK /\ UNCHANGED container => SameContainer
BY DEF TypeOK, SameContainer

LEMMA ContainerWithoutGateway ==
  ASSUME TypeOK, NothingOfNone, container' = WithoutGateway
  PROVE  SameContainer
<1>1. CASE container.net = "direct"
  <2>1. container' = container
    BY <1>1, ContainerRow DEF WithoutGateway, TypeOK, Container
  <2> QED
    BY <2>1, UnchangedContainer
<1>2. CASE container.net # "direct"
  <2>1. container.at # "none"
    BY <1>2, NothingFacts DEF NothingOfNone
  <2>2. container' = [container EXCEPT !.net = "lost"]
    BY <1>2 DEF WithoutGateway, TypeOK, Container
  <2> QED
    BY <2>1, <2>2 DEF SameContainer, TypeOK, Container, Net
<1> QED
  BY <1>1, <1>2

LEMMA ContainerGatewayStopped ==
  ASSUME TypeOK, NothingOfNone, container' = GatewayStopped
  PROVE  SameContainer
<1>1. CASE container.net = "gateway" /\ container.at # "exited"
  <2>1. container.at # "none"
    BY <1>1, NothingFacts DEF NothingOfNone
  <2>2. container' = [container EXCEPT !.net = "stale"]
    BY <1>1 DEF GatewayStopped, TypeOK, Container
  <2> QED
    BY <2>1, <2>2 DEF SameContainer, TypeOK, Container, Net
<1>2. CASE ~(container.net = "gateway" /\ container.at # "exited")
  <2>1. container' = container
    BY <1>2, ContainerRow DEF GatewayStopped, TypeOK, Container
  <2> QED
    BY <2>1, UnchangedContainer
<1> QED
  BY <1>1, <1>2

LEMMA ContainerAt ==
  ASSUME TypeOK, container.at # "none", NEW at \in {"running", "paused", "exited"}, NEW net \in Net,
         container' = [container EXCEPT !.at = at, !.net = net]
  PROVE  SameContainer
BY DEF SameContainer, TypeOK, Container

-----------------------------------------------------------------------------
(* Tokens: a request claims one from the step before it inserts it.        *)

Claim(p) == proc[p].token = "valid" \/ At(p, "insert")

LEMMA ClaimsFinite ==
  /\ IsFiniteSet(Claims) /\ Cardinality(Claims) \in Nat
  /\ Cardinality(Process) \in Nat /\ Cardinality(Claims) <= Cardinality(Process)
<1>1. Claims \subseteq Process
  BY DEF Claims
<1> QED
  BY <1>1, ProcessAssumption, FS_Subset, FS_CardinalityType

\* Nobody comes to claim a token, and those that nobody claims do not get more.
LEMMA ClaimsKept ==
  ASSUME TypeOK, TypeOK', ClaimsBounded, \A q \in Process : Claim(q)' => Claim(q),
         stray' + One(container'.token) <= stray + One(container.token)
  PROVE  ClaimsBounded'
<1> DEFINE B == {q \in Process : Claim(q)'}
<1>1. B \subseteq Claims /\ B = Claims'
  BY DEF Claims, Claim, At
<1>2. Cardinality(B) <= Cardinality(Claims) /\ Cardinality(B) \in Nat
  BY <1>1, ClaimsFinite, FS_Subset, FS_CardinalityType
<1>3. stray \in Nat /\ stray' \in Nat /\ One(container.token) \in 0..1 /\ One(container'.token) \in 0..1
  BY OneFacts, ContainerRow DEF TypeOK, Container
<1>4. ClaimsBounded' <=> stray' + One(container'.token) + Cardinality(B) <= Cardinality(Process)
  BY <1>1 DEF ClaimsBounded, One
<1> HIDE DEF B
<1> QED
  BY <1>2, <1>3, <1>4, ClaimsFinite DEF ClaimsBounded

\* A request lets go of the token it claims: nobody may hold it for now.
LEMMA ClaimsLeft ==
  ASSUME TypeOK, TypeOK', ClaimsBounded, NEW p \in Process, Claim(p), ~Claim(p)',
         \A q \in Process : Claim(q)' => Claim(q),
         stray' + One(container'.token) <= stray + One(container.token) + 1
  PROVE  ClaimsBounded'
<1> DEFINE B == {q \in Process : Claim(q)'}
<1>1. B \subseteq Claims \ {p} /\ B = Claims' /\ p \in Claims
  BY DEF Claims, Claim, At
<1>2. IsFiniteSet(Claims \ {p}) /\ Cardinality(Claims \ {p}) = Cardinality(Claims) - 1
  BY <1>1, ClaimsFinite, FS_RemoveElement
<1>3. Cardinality(B) <= Cardinality(Claims) - 1 /\ Cardinality(B) \in Nat
  BY <1>1, <1>2, FS_Subset, FS_CardinalityType
<1>4. stray \in Nat /\ stray' \in Nat /\ One(container.token) \in 0..1 /\ One(container'.token) \in 0..1
  BY OneFacts, ContainerRow DEF TypeOK, Container
<1>5. ClaimsBounded' <=> stray' + One(container'.token) + Cardinality(B) <= Cardinality(Process)
  BY <1>1 DEF ClaimsBounded, One
<1> HIDE DEF B
<1> QED
  BY <1>3, <1>4, <1>5, ClaimsFinite DEF ClaimsBounded

\* Every token is revoked: those who claim one are requests.
LEMMA ClaimsRevoked ==
  ASSUME TypeOK', stray' = 0, container'.token # "valid"
  PROVE  ClaimsBounded'
<1> DEFINE B == {q \in Process : Claim(q)'}
<1>1. B \subseteq Process /\ B = Claims'
  BY DEF Claims, Claim, At
<1>2. Cardinality(B) <= Cardinality(Process) /\ Cardinality(B) \in Nat
  BY <1>1, ProcessAssumption, FS_Subset, FS_CardinalityType
<1>3. One(container'.token) = 0
  BY DEF One
<1>4. ClaimsBounded' <=> stray' + One(container'.token) + Cardinality(B) <= Cardinality(Process)
  BY <1>1 DEF ClaimsBounded, One
<1> HIDE DEF B
<1> QED
  BY <1>2, <1>3, <1>4, ClaimsFinite

\* Whoever holds a valid token claims it.
LEMMA ClaimsBound == TypeOK /\ ClaimsBounded => TokensBounded
<1> SUFFICES ASSUME TypeOK, ClaimsBounded PROVE TokensBounded
  OBVIOUS
<1>1. Holding \subseteq Claims
  BY DEF Holding, Claims
<1>2. Cardinality(Holding) <= Cardinality(Claims) /\ Cardinality(Holding) \in Nat
  BY <1>1, ClaimsFinite, FS_Subset, FS_CardinalityType
<1>3. stray \in Nat /\ One(container.token) \in 0..1
  BY OneFacts, ContainerRow DEF TypeOK
<1> QED
  BY <1>2, <1>3, ClaimsFinite DEF ClaimsBounded, TokensBounded
-----------------------------------------------------------------------------
(* The two steps that most actions are.                                    *)

\* What the invariant says of one request, of the others when it is alone, and
\* of the session.
Sound(p) ==
  /\ proc[p].op = "none" => proc[p] = Idle
  /\ proc[p].token # "none" => proc[p].at \in Made \cup {"read"}
  /\ ~overlapped /\ ~kept /\ proc[p].at \in Leaving => container.at = "none"
  /\ ~overlapped /\ row.there => /\ proc[p].token # "revoked"
                                 /\ proc[p].at \in Made => proc[p].via = row.egress

LEMMA SoundEach ==
  (\A p \in Process : Sound(p)) <=> IdleRequests /\ IssuedLate /\ AloneLeaves /\ AloneCreates
BY DEF Sound, IdleRequests, IssuedLate, AloneLeaves, AloneCreates

LEMMA SoundIdle == ASSUME NEW p \in Process, proc[p] = Idle PROVE Sound(p)
BY IdleFacts DEF Sound, Made, Leaving

LEMMA SoundIdleNext == ASSUME NEW p \in Process, proc'[p] = Idle PROVE Sound(p)'
BY IdleFacts DEF Sound, Made, Leaving

\* A request that is under way is the only one, or requests have overlapped.
LEMMA OthersIdle ==
  ASSUME IInv, NEW p \in Process, proc[p].op # "none", ~overlapped
  PROVE  \A q \in Process : q # p => proc[q] = Idle
BY DEF IInv, Alone, IdleRequests

LEMMA UnderWay ==
  ASSUME IInv, NEW p \in Process, proc[p].at # "idle"
  PROVE  proc[p].op # "none"
BY IdleFacts DEF IInv, IdleRequests

\* A step of request p: the other requests are as sound as they were.
LEMMA SoundStep ==
  ASSUME IInv, NEW p \in Process, proc[p].op # "none", Sound(p)',
         \A q \in Process : q # p => proc'[q] = proc[q],
         proc'[p].op \in {proc[p].op, "none"}, overlapped' = overlapped
  PROVE  IdleRequests' /\ IssuedLate' /\ AloneLeaves' /\ AloneCreates' /\ Alone'
<1>1. ASSUME NEW q \in Process, q # p PROVE Sound(q)'
  <2>1. CASE ~overlapped
    BY <1>1, <2>1, OthersIdle, SoundIdleNext
  <2>2. CASE overlapped
    BY <1>1, <2>2 DEF IInv, Sound, IdleRequests, IssuedLate
  <2> QED
    BY <2>1, <2>2
<1>2. \A q \in Process : Sound(q)'
  BY <1>1
<1>3. IdleRequests' /\ IssuedLate' /\ AloneLeaves' /\ AloneCreates'
  BY <1>2 DEF Sound, IdleRequests, IssuedLate, AloneLeaves, AloneCreates
<1>4. Alone'
  BY DEF IInv, Alone
<1> QED
  BY <1>3, <1>4

\* A request that goes on: into the creation only from the creation, to a place
\* that relies on the container being gone only when it is.
LEMMA MovesOn ==
  ASSUME IInv, TypeOK', NEW p \in Process, NEW at \in Place \ {"insert", "read"}, Goes(p, at),
         proc[p].op # "none", SameContainer,
         UNCHANGED <<row, stray, history>>,
         at \in Made <=> proc[p].at \in Made, proc[p].at # "read",
         at \in Leaving => proc[p].at \in Leaving \/ container.at = "none"
  PROVE  IInv'
<1> USE DEF IInv
<1>1. /\ \A q \in Process : q # p => proc'[q] = proc[q]
      /\ proc'[p].at = at /\ proc'[p].op = proc[p].op
      /\ proc'[p].via = proc[p].via /\ proc'[p].token = proc[p].token
  BY GoesFacts
<1>2. /\ row' = row /\ stray' = stray /\ overlapped' = overlapped /\ kept' = kept /\ settled' = settled
  BY DEF history
<1>3. Sound(p)'
  BY <1>1, <1>2 DEF Sound, SameContainer, IdleRequests, IssuedLate, AloneLeaves, AloneCreates
<1>4. IdleRequests' /\ IssuedLate' /\ AloneLeaves' /\ AloneCreates' /\ Alone'
  BY <1>1, <1>2, <1>3, SoundStep
<1>5. \A q \in Process : Claim(q)' => Claim(q)
  BY <1>1 DEF Claim, At
<1>6. ClaimsBounded'
  <2>1. stray' + One(container'.token) <= stray + One(container.token)
    BY <1>2, OneFacts, ContainerRow DEF SameContainer, TypeOK
  <2> QED
    BY <1>5, <2>1, ClaimsKept
<1>7. TokenSafety'
  <2>1. TokensBounded'
    BY <1>6, ClaimsBound, PTL
  <2>2. NoTokenAfterDeletion'
    BY <1>1, <1>2 DEF TokenSafety, NoTokenAfterDeletion, Holding, SameContainer
  <2>3. CaptureTokenLives'
    BY <1>2 DEF TokenSafety, CaptureTokenLives, SameContainer
  <2> QED
    BY <2>1, <2>2, <2>3 DEF TokenSafety
<1>8. RoutedAsAsked' /\ NothingOfNone'
  BY <1>2 DEF RoutedAsAsked, NothingOfNone, SameContainer
<1> QED
  BY <1>4, <1>6, <1>7, <1>8

\* A request that ends.
LEMMA EndsStep ==
  ASSUME IInv, TypeOK', NEW p \in Process, Ends(p), proc[p].op # "none", SameContainer,
         UNCHANGED <<row, history>>
  PROVE  IInv'
<1> USE DEF IInv
<1>1. proc'[p] = Idle /\ \A q \in Process : q # p => proc'[q] = proc[q]
  BY EndsFacts DEF Ends
<1>2. /\ row' = row /\ stray' = stray + One(proc[p].token)
      /\ overlapped' = overlapped /\ kept' = kept /\ settled' = settled
  BY DEF history, Ends
<1>3. Sound(p)'
  BY <1>1, SoundIdleNext
<1>4. IdleRequests' /\ IssuedLate' /\ AloneLeaves' /\ AloneCreates' /\ Alone'
  BY <1>1, <1>2, <1>3, SoundStep, IdleFacts
<1>5. ~Claim(p)' /\ \A q \in Process : Claim(q)' => Claim(q)
  BY <1>1, IdleFacts DEF Claim, At
<1>6. ClaimsBounded'
  <2>1. stray \in Nat /\ One(container.token) \in 0..1 /\ container'.token = container.token
    BY OneFacts, ContainerRow DEF SameContainer, TypeOK
  <2>2. CASE proc[p].token = "valid"
    <3>1. Claim(p) /\ One(proc[p].token) = 1
      BY <2>2 DEF Claim, One
    <3>2. stray' + One(container'.token) <= stray + One(container.token) + 1
      BY <1>2, <2>1, <3>1
    <3> QED
      BY <1>5, <3>1, <3>2, ClaimsLeft
  <2>3. CASE proc[p].token # "valid"
    <3>1. stray' + One(container'.token) <= stray + One(container.token)
      BY <1>2, <2>1, <2>3 DEF One
    <3> QED
      BY <1>5, <3>1, ClaimsKept
  <2> QED
    BY <2>2, <2>3
<1>7. TokenSafety'
  <2>1. TokensBounded'
    BY <1>6, ClaimsBound, PTL
  <2>2. NoTokenAfterDeletion'
    <3> SUFFICES ASSUME ~row.there PROVE stray' = 0 /\ container'.token # "valid" /\ Holding' = {}
      BY <1>2 DEF NoTokenAfterDeletion
    <3>1. stray = 0 /\ container.token # "valid" /\ \A q \in Process : proc[q].token # "valid"
      BY DEF TokenSafety, NoTokenAfterDeletion, Holding
    <3>2. stray' = 0
      BY <1>2, <3>1 DEF One
    <3> QED
      BY <1>1, <3>1, <3>2, IdleFacts DEF Holding, SameContainer
  <2>3. CaptureTokenLives'
    BY <1>2 DEF TokenSafety, CaptureTokenLives, SameContainer
  <2> QED
    BY <2>1, <2>2, <2>3 DEF TokenSafety
<1>8. RoutedAsAsked' /\ NothingOfNone'
  BY <1>2 DEF RoutedAsAsked, NothingOfNone, SameContainer
<1> QED
  BY <1>4, <1>6, <1>7, <1>8
-----------------------------------------------------------------------------
(* The type, action by action.                                             *)

LEMMA TypeMoves ==
  ASSUME TypeOK, NEW p \in Process,
         (\E at \in Place : Goes(p, at) /\ UNCHANGED stray) \/ Ends(p),
         container' \in Container, row' \in [there : BOOLEAN, egress : Route],
         gateway' \in {"none", "running", "exited"},
         UNCHANGED <<disabled, overlapped>>, kept' \in BOOLEAN, settled' \in BOOLEAN
  PROVE  TypeOK'
<1>1. proc' \in [Process -> Request]
  BY GoesFacts, EndsFacts DEF Ends
<1>2. stray' \in Nat
  BY DEF TypeOK, Ends, One
<1> QED
  BY <1>1, <1>2 DEF TypeOK

LEMMA TypeBegin ==
  ASSUME TypeOK, NEW p \in Process, NEW via \in Route,
         NEW op \in {"ensure", "stop", "pause", "change", "preset", "delete"}, Begin(p, op, via)
  PROVE  TypeOK' /\ proc'[p].at \in {"inspect", "stop", "pause", "resolve", "remove"}
         /\ proc'[p].token = "none" /\ proc'[p].op # "none"
         /\ \A q \in Process : q # p => proc'[q] = proc[q]
<1> DEFINE at == CASE op = "ensure" -> "inspect"
                   [] op = "stop"   -> "stop"
                   [] op = "pause"  -> "pause"
                   [] op \in {"change", "preset"} -> "resolve"
                   [] op = "delete" -> "remove"
           r == [Idle EXCEPT !.op = op, !.via = via, !.at = at]
<1>1. proc' = [proc EXCEPT ![p] = r]
  BY DEF Begin
<1>2. at \in {"inspect", "stop", "pause", "resolve", "remove"}
  OBVIOUS
<1> HIDE DEF at
<1>3. r \in Request /\ r.at = at /\ r.token = "none" /\ r.op = op
  BY <1>2, IdleFacts DEF Request, Place
<1> HIDE DEF r
<1>4. proc' \in [Process -> Request] /\ proc'[p] = r /\ \A q \in Process : q # p => proc'[q] = proc[q]
  BY <1>1, <1>3 DEF TypeOK
<1> QED
  BY <1>2, <1>3, <1>4 DEF Begin, TypeOK

LEMMA RevokedFacts == \A token \in Token : Revoked(token) \in Token /\ Revoked(token) # "valid"
BY DEF Revoked, Token

LEMMA RevokeFacts ==
  ASSUME TypeOK, NEW requests \in [Process -> Request], RevokeAll(requests)
  PROVE  /\ proc' \in [Process -> Request] /\ container' \in Container /\ stray' = 0
         /\ container'.at = container.at /\ container'.via = container.via
         /\ container'.token = Revoked(container.token)
         /\ container.token = "none" => container' = container
         /\ \A q \in Process : /\ proc'[q].op = requests[q].op /\ proc'[q].at = requests[q].at
                               /\ proc'[q].via = requests[q].via
                               /\ proc'[q].token = Revoked(requests[q].token)
                               /\ requests[q].token = "none" => proc'[q] = requests[q]
<1>1. \A r \in Request : /\ [r EXCEPT !.token = Revoked(@)] \in Request
                         /\ r.token = "none" => [r EXCEPT !.token = Revoked(@)] = r
  <2> TAKE r \in Request
  <2>1. r.token \in Token
    BY DEF Request
  <2>2. Revoked(r.token) \in Token
    BY <2>1, RevokedFacts
  <2>3. r.token = "none" => Revoked(r.token) = r.token
    BY DEF Revoked
  <2> QED
    BY <2>1, <2>2, <2>3 DEF Request
<1>2. /\ [container EXCEPT !.token = Revoked(@)] \in Container
      /\ container.token = "none" => [container EXCEPT !.token = Revoked(@)] = container
  <2>1. Revoked(container.token) \in Token
    BY ContainerRow, RevokedFacts
  <2>2. container.token = "none" => Revoked(container.token) = container.token
    BY DEF Revoked
  <2> QED
    BY <2>1, <2>2 DEF TypeOK, Container
<1>3. /\ container' = [container EXCEPT !.token = Revoked(@)] /\ stray' = 0
      /\ proc' = [q \in Process |-> [requests[q] EXCEPT !.token = Revoked(@)]]
  BY DEF RevokeAll
<1>4. proc' \in [Process -> Request]
  BY <1>1, <1>3
<1>5. /\ container'.at = container.at /\ container'.via = container.via
      /\ container'.token = Revoked(container.token)
  BY <1>3 DEF TypeOK, Container
<1>6. ASSUME NEW q \in Process
      PROVE  /\ proc'[q].op = requests[q].op /\ proc'[q].at = requests[q].at
             /\ proc'[q].via = requests[q].via
             /\ proc'[q].token = Revoked(requests[q].token)
             /\ requests[q].token = "none" => proc'[q] = requests[q]
  <2>1. proc'[q] = [requests[q] EXCEPT !.token = Revoked(@)] /\ requests[q] \in Request
    BY <1>3
  <2>2. requests[q].token = "none" => proc'[q] = requests[q]
    BY <1>1, <2>1
  <2> QED
    BY <2>1, <2>2 DEF Request
<1> QED
  BY <1>2, <1>3, <1>4, <1>5, <1>6

\* A request whose record is known to be one.
LEMMA TypeSet ==
  ASSUME TypeOK, NEW p \in Process, NEW r \in Request, proc' = [proc EXCEPT ![p] = r]
  PROVE  proc' \in [Process -> Request] /\ proc'[p] = r /\ \A q \in Process : q # p => proc'[q] = proc[q]
BY DEF TypeOK

LEMMA InsertFacts ==
  ASSUME TypeOK, NEW p \in Process, proc' = [proc EXCEPT ![p].at = "read", ![p].token = "valid"]
  PROVE  /\ proc' \in [Process -> Request] /\ \A q \in Process : q # p => proc'[q] = proc[q]
         /\ proc'[p].at = "read" /\ proc'[p].token = "valid" /\ proc'[p].op = proc[p].op
<1>1. [proc[p] EXCEPT !.at = "read", !.token = "valid"] \in Request
  BY ZenonT(60) DEF TypeOK, Request, Place, Token
<1> QED
  BY <1>1 DEF TypeOK, Request

LEMMA ReadFacts ==
  ASSUME TypeOK, NEW p \in Process, NEW via \in Route, NEW at \in Place,
         proc' = [proc EXCEPT ![p].via = via, ![p].at = at]
  PROVE  /\ proc' \in [Process -> Request] /\ \A q \in Process : q # p => proc'[q] = proc[q]
         /\ proc'[p].at = at /\ proc'[p].token = proc[p].token /\ proc'[p].op = proc[p].op
         /\ proc'[p].via = via
<1>1. [proc[p] EXCEPT !.via = via, !.at = at] \in Request
  BY DEF TypeOK, Request
<1> QED
  BY <1>1 DEF TypeOK, Request

\* The container that docker run makes, started or not, and the request that
\* has handed it its token.
MadeBy(p, at) ==
  [at |-> at, via |-> proc[p].via, token |-> proc[p].token,
   net |-> IF proc[p].via = Direct THEN "direct" ELSE "gateway"]

LEMMA MadeFacts ==
  ASSUME TypeOK, NEW p \in Process, NEW at \in {"running", "exited"}
  PROVE  /\ MadeBy(p, at) \in Container /\ MadeBy(p, at).at = at
         /\ MadeBy(p, at).via = proc[p].via /\ MadeBy(p, at).token = proc[p].token
         /\ [MadeBy(p, "running") EXCEPT !.at = "exited"] = MadeBy(p, "exited")
<1>1. proc[p].via \in Route /\ proc[p].token \in Token
  BY RequestRow
<1> QED
  BY <1>1 DEF MadeBy, Container, Net

LEMMA HandedFacts ==
  ASSUME TypeOK, NEW p \in Process, proc' = [proc EXCEPT ![p].token = "none", ![p].at = "undo"]
  PROVE  /\ proc' \in [Process -> Request] /\ \A q \in Process : q # p => proc'[q] = proc[q]
         /\ proc'[p].at = "undo" /\ proc'[p].token = "none" /\ proc'[p].op = proc[p].op
         /\ proc'[p].via = proc[p].via
<1>1. [proc[p] EXCEPT !.token = "none", !.at = "undo"] \in Request
  BY ZenonT(60) DEF TypeOK, Request, Place, Token
<1> QED
  BY <1>1 DEF TypeOK, Request
-----------------------------------------------------------------------------
(* The invariant, action by action.  First those that move on or end.      *)

\* The places of the creation are entered and left in one go, and the container
\* is gone where that is relied upon.
MayGo(p, at) ==
  /\ proc[p].at # "read" /\ at \in Place \ {"insert", "read"}
  /\ at \in Made <=> proc[p].at \in Made
  /\ at \in Leaving => proc[p].at \in Leaving \/ container.at = "none"

LEMMA Ways ==
  ASSUME NEW p \in Process
  PROVE  /\ At(p, "inspect") => /\ MayGo(p, "unpause") /\ MayGo(p, "restart")
                                /\ container.at = "none" => MayGo(p, "new")
         /\ At(p, "new") => MayGo(p, "revoke")
         /\ At(p, "restart") => MayGo(p, "gateway start")
         /\ At(p, "gateway start") => MayGo(p, "start")
         /\ At(p, "resolve") => MayGo(p, "update")
         /\ At(p, "stop") => MayGo(p, "gateway stop") /\ MayGo(p, "remove")
         /\ At(p, "gateway stop") => MayGo(p, "remove")
         /\ At(p, "gateway remove") => MayGo(p, "revoke") /\ MayGo(p, "drop row")
         /\ At(p, "prepare") => MayGo(p, "gateway run")
         /\ At(p, "gateway run") => MayGo(p, "gateway wait")
         /\ At(p, "gateway wait") => MayGo(p, "run") /\ MayGo(p, "undo")
         /\ At(p, "undo") => MayGo(p, "prepare")
BY DEF MayGo, At, Made, Leaving, Place

LEMMA Quiet ==
  ASSUME IInv, NEW p \in Process, proc[p].at # "idle", SameContainer,
         UNCHANGED <<row, disabled, history>>, gateway' \in {"none", "running", "exited"},
         \/ Ends(p)
         \/ \E at : Goes(p, at) /\ UNCHANGED stray /\ MayGo(p, at)
  PROVE  IInv'
<1>1. proc[p].op # "none"
  BY UnderWay
<1>2. TypeOK'
  <2>1. /\ TypeOK /\ container' \in Container /\ row' \in [there : BOOLEAN, egress : Route]
        /\ kept' \in BOOLEAN /\ settled' \in BOOLEAN /\ UNCHANGED <<disabled, overlapped>>
    BY DEF IInv, SameContainer, history, TypeOK
  <2>2. (\E at \in Place : Goes(p, at) /\ UNCHANGED stray) \/ Ends(p)
    BY DEF MayGo
  <2> QED
    BY <2>1, <2>2, TypeMoves
<1>3. CASE Ends(p)
  BY <1>1, <1>2, <1>3, EndsStep
<1>4. CASE \E at : Goes(p, at) /\ UNCHANGED stray /\ MayGo(p, at)
  <2>1. PICK at : Goes(p, at) /\ UNCHANGED stray /\ MayGo(p, at)
    BY <1>4
  <2> QED
    BY <1>1, <1>2, <2>1, MovesOn DEF MayGo
<1> QED
  BY <1>3, <1>4

LEMMA StepEnsure ==
  ASSUME IInv, NEW p \in Process,
         Inspect(p) \/ ParamsOfNew(p) \/ ParamsOfRestart(p) \/ StartGateway(p)
  PROVE  IInv'
<1>1. TypeOK /\ container.at \in {"none", "running", "paused", "exited"} /\ SameContainer
  BY ContainerRow, UnchangedContainer
     DEF IInv, Inspect, ParamsOfNew, ParamsOfRestart, Params, StartGateway
<1>2. UNCHANGED <<row, disabled, history>> /\ proc[p].at # "idle"
  BY DEF Inspect, ParamsOfNew, ParamsOfRestart, Params, StartGateway, At
<1>3. gateway' \in {"none", "running", "exited"}
  BY <1>1 DEF Inspect, ParamsOfNew, ParamsOfRestart, Params, StartGateway, TypeOK
<1>4. \/ Ends(p)
      \/ \E at : Goes(p, at) /\ UNCHANGED stray /\ MayGo(p, at)
  <2>1. CASE Inspect(p)
    BY <1>1, <2>1, Ways DEF Inspect
  <2>2. CASE ParamsOfNew(p)
    BY <2>2, Ways DEF ParamsOfNew, Params
  <2>3. CASE ParamsOfRestart(p)
    BY <2>3, Ways DEF ParamsOfRestart, Params
  <2>4. CASE StartGateway(p)
    BY <2>4, Ways DEF StartGateway
  <2> QED
    BY <2>1, <2>2, <2>3, <2>4
<1> QED
  BY <1>1, <1>2, <1>3, <1>4, Quiet

LEMMA StepRuns ==
  ASSUME IInv, NEW p \in Process, StartContainer(p) \/ Unpause(p) \/ Pause(p)
  PROVE  IInv'
<1>1. TypeOK
  BY DEF IInv
<1>2. SameContainer
  <2>1. CASE container' = container
    BY <1>1, <2>1, UnchangedContainer
  <2>2. CASE container' # container
    <3>1. CASE StartContainer(p)
      <4> DEFINE at  == IF container.at = "exited" THEN "running" ELSE container.at
                 net == IF container.at = "exited" /\ container.net = "stale" THEN "gateway"
                        ELSE container.net
      <4>1. container.at # "none" /\ container' = [container EXCEPT !.at = at, !.net = net]
        BY <2>2, <3>1 DEF StartContainer
      <4>2. at \in {"running", "paused", "exited"} /\ net \in Net
        BY <1>1, <4>1, ContainerRow DEF Net
      <4> HIDE DEF at, net
      <4> QED
        BY <1>1, <4>1, <4>2, ContainerAt
    <3>2. CASE Unpause(p) \/ Pause(p)
      <4>1. PICK at \in {"running", "paused"} :
              container.at \in {"paused", "running"} /\ container' = [container EXCEPT !.at = at]
        BY <2>2, <3>2 DEF Unpause, Pause
      <4> QED
        BY <1>1, <4>1 DEF SameContainer, TypeOK, Container
    <3> QED
      BY <3>1, <3>2
  <2> QED
    BY <2>1, <2>2
<1>3. UNCHANGED <<row, disabled, gateway, history>> /\ proc[p].at # "idle" /\ Ends(p)
  BY DEF StartContainer, Unpause, Pause, At
<1> QED
  BY <1>1, <1>2, <1>3, Quiet DEF TypeOK

LEMMA StepStops ==
  ASSUME IInv, NEW p \in Process,
         \/ Resolve(p) \/ StopContainer(p) \/ StopGateway(p) \/ RemoveGateway(p)
         \/ Prepare(p) \/ RunGateway(p) \/ AwaitGateway(p) \/ Undo(p)
  PROVE  IInv'
<1>1. TypeOK /\ NothingOfNone
  BY DEF IInv
<1>2. UNCHANGED <<row, disabled, history>> /\ proc[p].at # "idle"
  BY DEF Resolve, StopContainer, StopGateway, RemoveGateway, Prepare, RunGateway, AwaitGateway, Undo, At
<1>3. gateway' \in {"none", "running", "exited"}
  BY <1>1 DEF Resolve, StopContainer, StopGateway, RemoveGateway, Prepare, RunGateway, AwaitGateway,
              Undo, TypeOK
<1>4. SameContainer
  <2>1. CASE container' = container
    BY <1>1, <2>1, UnchangedContainer
  <2>2. CASE container' = WithoutGateway
    BY <1>1, <2>2, ContainerWithoutGateway
  <2>3. CASE container' = GatewayStopped
    BY <1>1, <2>3, ContainerGatewayStopped
  <2>4. CASE container.at # "none" /\ container' = [container EXCEPT !.at = "exited"]
    BY <1>1, <2>4 DEF SameContainer, TypeOK, Container
  <2> QED
    BY <2>1, <2>2, <2>3, <2>4
       DEF Resolve, StopContainer, StopGateway, RemoveGateway, Prepare, RunGateway, AwaitGateway, Undo
<1>5. \/ Ends(p)
      \/ \E at : Goes(p, at) /\ UNCHANGED stray /\ MayGo(p, at)
  <2>1. CASE Resolve(p)
    BY <2>1, Ways DEF Resolve
  <2>2. CASE StopContainer(p)
    BY <2>2, Ways DEF StopContainer
  <2>3. CASE StopGateway(p)
    BY <2>3, Ways DEF StopGateway
  <2>4. CASE RemoveGateway(p)
    BY <2>4, Ways DEF RemoveGateway
  <2>5. CASE Prepare(p)
    BY <2>5, Ways DEF Prepare
  <2>6. CASE RunGateway(p)
    BY <2>6, Ways DEF RunGateway
  <2>7. CASE AwaitGateway(p)
    BY <2>7, Ways DEF AwaitGateway
  <2>8. CASE Undo(p)
    BY <2>8, Ways DEF Undo
  <2> QED
    BY <2>1, <2>2, <2>3, <2>4, <2>5, <2>6, <2>7, <2>8
<1> QED
  BY <1>2, <1>3, <1>4, <1>5, Quiet

LEMMA StepAbandons == ASSUME IInv, NEW p \in Process, Abandon(p) PROVE IInv'
<1>1. TypeOK /\ SameContainer
  BY UnchangedContainer DEF IInv, Abandon
<1>2. /\ container' \in Container /\ row' \in [there : BOOLEAN, egress : Route]
      /\ kept' \in BOOLEAN /\ settled' \in BOOLEAN /\ UNCHANGED <<disabled, overlapped>>
      /\ gateway' \in {"none", "running", "exited"} /\ Ends(p)
  BY <1>1 DEF Abandon, history, TypeOK
<1>3. TypeOK'
  BY <1>1, <1>2, TypeMoves
<1> QED
  BY <1>1, <1>3, EndsStep DEF Abandon
-----------------------------------------------------------------------------
(* The steps of a kind of their own.                                       *)

\* The first request, or one that overlaps with others.
LEMMA StepBegin ==
  ASSUME IInv, NEW p \in Process, NEW via \in Route,
         NEW op \in {"ensure", "stop", "pause", "change", "preset", "delete"}, Begin(p, op, via)
  PROVE  IInv'
<1> USE DEF IInv
<1>1. /\ TypeOK' /\ proc'[p].at \in {"inspect", "stop", "pause", "resolve", "remove"}
      /\ proc'[p].token = "none" /\ proc'[p].op # "none"
      /\ \A q \in Process : q # p => proc'[q] = proc[q]
  BY TypeBegin
<1>2. /\ row' = row /\ container' = container /\ stray' = stray /\ kept' = kept /\ settled' = settled
      /\ overlapped' = (overlapped \/ \E q \in Process : proc[q].op # "none")
  BY DEF Begin
<1>3. ASSUME NEW q \in Process PROVE Sound(q)'
  <2>1. CASE q = p
    BY <1>1, <2>1 DEF Sound, Made, Leaving
  <2>2. CASE q # p /\ overlapped
    BY <1>1, <1>2, <2>2 DEF Sound, IdleRequests, IssuedLate
  <2>3. CASE q # p /\ ~overlapped
    BY <1>1, <1>2, <2>3 DEF Sound, IdleRequests, IssuedLate, AloneLeaves, AloneCreates
  <2> QED
    BY <2>1, <2>2, <2>3
<1>4. IdleRequests' /\ IssuedLate' /\ AloneLeaves' /\ AloneCreates'
  BY <1>3 DEF Sound, IdleRequests, IssuedLate, AloneLeaves, AloneCreates
<1>5. Alone'
  BY <1>1, <1>2 DEF Alone
<1>6. ClaimsBounded'
  <2>1. \A q \in Process : Claim(q)' => Claim(q)
    BY <1>1 DEF Claim, At
  <2>2. stray' + One(container'.token) <= stray + One(container.token)
    BY <1>2, OneFacts, ContainerRow DEF TypeOK
  <2> QED
    BY <1>1, <2>1, <2>2, ClaimsKept
<1>7. TokenSafety'
  <2>1. TokensBounded'
    BY <1>1, <1>6, ClaimsBound, PTL
  <2>2. NoTokenAfterDeletion' /\ CaptureTokenLives'
    BY <1>1, <1>2 DEF TokenSafety, NoTokenAfterDeletion, CaptureTokenLives, Holding
  <2> QED
    BY <2>1, <2>2 DEF TokenSafety
<1>8. RoutedAsAsked' /\ NothingOfNone'
  BY <1>2 DEF RoutedAsAsked, NothingOfNone
<1> QED
  BY <1>1, <1>4, <1>5, <1>6, <1>7, <1>8

\* The row is written before anything of the container is touched: until the
\* container has been made again the change has not answered.
LEMMA StepUpdate == ASSUME IInv, NEW p \in Process, Update(p) PROVE IInv'
<1> USE DEF IInv
<1>1. proc[p].op # "none" /\ proc[p].at = "update"
  BY UnderWay DEF Update, At
<1>2. /\ proc' \in [Process -> Request] /\ \A q \in Process : q # p => proc'[q] = proc[q]
      /\ proc'[p].at = "stop" /\ proc'[p].op = proc[p].op
      /\ proc'[p].via = proc[p].via /\ proc'[p].token = proc[p].token
  BY GoesFacts DEF Update, Place
<1>3. /\ container' = container /\ stray' = stray /\ kept' = kept /\ overlapped' = overlapped
      /\ settled' = (settled /\ proc[p].op # "change")
  BY DEF Update
<1>4. /\ row' \in [there : BOOLEAN, egress : Route] /\ row'.there = row.there
      /\ row' = row \/ proc[p].op = "change"
  BY RequestRow DEF Update, TypeOK
<1>5. TypeOK'
  BY <1>2, <1>3, <1>4 DEF Update, TypeOK
<1>6. proc[p].token = "none"
  BY <1>1 DEF IssuedLate, Made
<1>7. Sound(p)'
  BY <1>1, <1>2, <1>6 DEF Sound, Made, Leaving
<1>8. IdleRequests' /\ IssuedLate' /\ AloneLeaves' /\ AloneCreates' /\ Alone'
  <2>1. ASSUME NEW q \in Process, q # p PROVE Sound(q)'
    <3>1. CASE ~overlapped
      BY <1>1, <1>2, <2>1, <3>1, OthersIdle, SoundIdleNext
    <3>2. CASE overlapped
      BY <1>2, <1>3, <2>1, <3>2 DEF Sound, IdleRequests, IssuedLate
    <3> QED
      BY <3>1, <3>2
  <2>2. IdleRequests' /\ IssuedLate' /\ AloneLeaves' /\ AloneCreates'
    BY <1>7, <2>1 DEF Sound, IdleRequests, IssuedLate, AloneLeaves, AloneCreates
  <2> QED
    BY <1>1, <1>2, <1>3, <2>2 DEF Alone
<1>9. ClaimsBounded'
  <2>1. \A q \in Process : Claim(q)' => Claim(q)
    BY <1>2 DEF Claim, At
  <2>2. stray' + One(container'.token) <= stray + One(container.token)
    BY <1>3, OneFacts, ContainerRow DEF TypeOK
  <2> QED
    BY <1>5, <2>1, <2>2, ClaimsKept
<1>10. TokenSafety'
  <2>1. TokensBounded'
    BY <1>5, <1>9, ClaimsBound, PTL
  <2>2. NoTokenAfterDeletion' /\ CaptureTokenLives'
    BY <1>2, <1>3, <1>4 DEF TokenSafety, NoTokenAfterDeletion, CaptureTokenLives, Holding
  <2> QED
    BY <2>1, <2>2 DEF TokenSafety
<1>11. RoutedAsAsked' /\ NothingOfNone'
  BY <1>3, <1>4 DEF RoutedAsAsked, NothingOfNone
<1> QED
  BY <1>5, <1>8, <1>9, <1>10, <1>11

\* A removal that fails is remembered; one that succeeds leaves the token of the
\* container with nobody.
LEMMA StepRemove == ASSUME IInv, NEW p \in Process, Remove(p) PROVE IInv'
<1> USE DEF IInv
<1>1. proc[p].op # "none" /\ proc[p].at = "remove"
  BY UnderWay DEF Remove, At
<1>2. /\ proc' \in [Process -> Request] /\ \A q \in Process : q # p => proc'[q] = proc[q]
      /\ proc'[p].at = "gateway remove" /\ proc'[p].op = proc[p].op
      /\ proc'[p].via = proc[p].via /\ proc'[p].token = proc[p].token
  BY GoesFacts DEF Remove, Place
<1>3. /\ row' = row /\ disabled' = disabled /\ gateway' = gateway
      /\ overlapped' = overlapped /\ settled' = settled
  BY DEF Remove
<1>4. /\ \/ container' = NoContainer /\ stray' = stray + One(container.token) /\ kept' = kept
         \/ container' = container /\ stray' = stray /\ kept' = (kept \/ container # NoContainer)
      /\ kept' \in BOOLEAN
  BY DEF Remove, TypeOK
<1>5. stray \in Nat /\ One(container.token) \in 0..1
  BY OneFacts, ContainerRow DEF TypeOK
<1>6. TypeOK'
  <2>1. stray' \in Nat /\ container' \in Container
    BY <1>4, <1>5, NothingFacts DEF TypeOK
  <2> QED
    BY <1>2, <1>3, <1>4, <2>1 DEF TypeOK
<1>7. proc[p].token = "none"
  BY <1>1 DEF IssuedLate, Made
<1>8. Sound(p)'
  BY <1>1, <1>2, <1>4, <1>7, NothingFacts DEF Sound, Made
<1>9. IdleRequests' /\ IssuedLate' /\ AloneLeaves' /\ AloneCreates' /\ Alone'
  BY <1>1, <1>2, <1>3, <1>8, SoundStep
<1>10. ClaimsBounded'
  <2>1. \A q \in Process : Claim(q)' => Claim(q)
    BY <1>2 DEF Claim, At
  <2>2. One("none") = 0
    BY DEF One
  <2>3. stray' + One(container'.token) <= stray + One(container.token)
    BY <1>4, <1>5, <2>2, NothingFacts
  <2> QED
    BY <1>6, <2>1, <2>3, ClaimsKept
<1>11. TokenSafety'
  <2>1. TokensBounded'
    BY <1>6, <1>10, ClaimsBound, PTL
  <2>2. NoTokenAfterDeletion'
    <3> SUFFICES ASSUME ~row.there PROVE stray' = 0 /\ container'.token # "valid" /\ Holding' = {}
      BY <1>3 DEF NoTokenAfterDeletion
    <3>1. stray = 0 /\ container.token # "valid" /\ \A q \in Process : proc[q].token # "valid"
      BY DEF TokenSafety, NoTokenAfterDeletion, Holding
    <3>2. stray' = 0
      BY <1>4, <3>1 DEF One
    <3> QED
      BY <1>2, <1>4, <3>1, <3>2, NothingFacts DEF Holding
  <2>3. CaptureTokenLives'
    BY <1>3, <1>4, NothingFacts DEF TokenSafety, CaptureTokenLives
  <2> QED
    BY <2>1, <2>2, <2>3 DEF TokenSafety
<1>12. RoutedAsAsked' /\ NothingOfNone'
  BY <1>3, <1>4, NothingFacts DEF RoutedAsAsked, NothingOfNone
<1> QED
  BY <1>6, <1>9, <1>10, <1>11, <1>12

\* A request that goes on, and leaves everything else as it is.
LEMMA StepKeeps ==
  ASSUME IInv, TypeOK', NEW p \in Process, proc[p].op # "none", Sound(p)',
         UNCHANGED <<row, container, stray, overlapped, kept, settled>>,
         \A q \in Process : q # p => proc'[q] = proc[q], proc'[p].op = proc[p].op,
         Claim(p)' => Claim(p), proc'[p].token = "valid" => row.there
  PROVE  IInv'
<1> USE DEF IInv
<1>1. IdleRequests' /\ IssuedLate' /\ AloneLeaves' /\ AloneCreates' /\ Alone'
  BY SoundStep
<1>2. ClaimsBounded'
  <2>1. \A q \in Process : Claim(q)' => Claim(q)
    BY DEF Claim, At
  <2>2. stray' + One(container'.token) <= stray + One(container.token)
    BY OneFacts, ContainerRow DEF TypeOK
  <2> QED
    BY <2>1, <2>2, ClaimsKept
<1>3. TokenSafety'
  <2>1. TokensBounded'
    BY <1>2, ClaimsBound, PTL
  <2>2. NoTokenAfterDeletion' /\ CaptureTokenLives'
    BY DEF TokenSafety, NoTokenAfterDeletion, CaptureTokenLives, Holding
  <2> QED
    BY <2>1, <2>2 DEF TokenSafety
<1>4. RoutedAsAsked' /\ NothingOfNone'
  BY DEF RoutedAsAsked, NothingOfNone
<1> QED
  BY <1>1, <1>2, <1>3, <1>4

\* Who revokes alone revokes for a container that has gone.
LEMMA StepRevoke == ASSUME IInv, NEW p \in Process, Revoke(p) PROVE IInv'
<1> USE DEF IInv
<1> DEFINE requests == [proc EXCEPT ![p].at = "insert"]
<1>1. proc[p].op # "none" /\ proc[p].at = "revoke" /\ proc[p].token = "none"
  BY UnderWay DEF Revoke, At, IssuedLate, Made
<1>2. /\ row' = row /\ disabled' = disabled /\ gateway' = gateway
      /\ overlapped' = overlapped /\ kept' = kept /\ settled' = settled
  BY DEF Revoke, history
<1>3. CASE Goes(p, "read") /\ UNCHANGED <<container, stray>>
  <2>1. /\ proc' \in [Process -> Request] /\ \A q \in Process : q # p => proc'[q] = proc[q]
        /\ proc'[p].at = "read" /\ proc'[p].op = proc[p].op /\ proc'[p].token = "none"
    BY <1>1, <1>3, GoesFacts DEF Place
  <2>2. TypeOK'
    BY <1>2, <1>3, <2>1 DEF TypeOK
  <2>3. Sound(p)' /\ ~Claim(p)'
    BY <1>1, <2>1 DEF Sound, Made, Leaving, Claim, At
  <2> QED
    BY <1>1, <1>2, <1>3, <2>1, <2>2, <2>3, StepKeeps
<1>4. CASE row.there /\ RevokeAll(requests)
  <2>1. /\ requests \in [Process -> Request] /\ \A q \in Process : q # p => requests[q] = proc[q]
        /\ requests[p].at = "insert" /\ requests[p].op = proc[p].op /\ requests[p].token = "none"
    <3>1. [proc[p] EXCEPT !.at = "insert"] \in Request
      BY DEF TypeOK, Request, Place
    <3> QED
      BY <1>1, <3>1 DEF TypeOK, Request
  <2> HIDE DEF requests
  <2>2. /\ proc' \in [Process -> Request] /\ container' \in Container /\ stray' = 0
        /\ container'.at = container.at /\ container'.via = container.via
        /\ container'.token = Revoked(container.token)
        /\ container.token = "none" => container' = container
        /\ \A q \in Process : /\ proc'[q].op = requests[q].op /\ proc'[q].at = requests[q].at
                              /\ proc'[q].via = requests[q].via
                              /\ proc'[q].token = Revoked(requests[q].token)
                              /\ requests[q].token = "none" => proc'[q] = requests[q]
    BY <1>4, <2>1, RevokeFacts
  <2>3. TypeOK'
    BY <1>2, <2>2 DEF TypeOK
  <2>4. ASSUME NEW q \in Process PROVE Sound(q)'
    <3>1. CASE q = p
      BY <1>1, <2>1, <2>2, <3>1 DEF Sound, Made, Leaving
    <3>2. CASE q # p /\ ~overlapped
      <4>1. proc[q] = Idle
        BY <1>1, <3>2, OthersIdle
      <4>2. proc'[q] = Idle
        BY <2>1, <2>2, <3>2, <4>1, IdleFacts
      <4> QED
        BY <4>2, SoundIdleNext
    <3>3. CASE q # p /\ overlapped
      <4>1. proc[q].op = "none" => proc'[q] = Idle
        BY <2>1, <2>2, <3>3, IdleFacts DEF IdleRequests
      <4>2. proc'[q].token # "none" => proc[q].token # "none"
        BY <2>1, <2>2, <3>3 DEF Revoked
      <4> QED
        BY <1>2, <2>1, <2>2, <3>3, <4>1, <4>2 DEF Sound, IssuedLate
    <3> QED
      BY <3>1, <3>2, <3>3
  <2>5. IdleRequests' /\ IssuedLate' /\ AloneLeaves' /\ AloneCreates'
    BY <2>4 DEF Sound, IdleRequests, IssuedLate, AloneLeaves, AloneCreates
  <2>6. Alone'
    BY <1>2, <2>1, <2>2 DEF Alone
  <2>7. container'.token # "valid"
    BY <2>2, RevokedFacts, ContainerRow
  <2>8. ClaimsBounded'
    BY <2>2, <2>3, <2>7, ClaimsRevoked
  <2>9. TokenSafety'
    <3>1. TokensBounded'
      BY <2>3, <2>8, ClaimsBound, PTL
    <3>2. NoTokenAfterDeletion'
      BY <1>2, <1>4 DEF NoTokenAfterDeletion
    <3>3. CaptureTokenLives'
      <4> SUFFICES ASSUME ~overlapped, ~kept PROVE container'.token # "revoked"
        BY <1>2 DEF CaptureTokenLives
      <4>1. container.at = "none"
        BY <1>1 DEF AloneLeaves, Leaving
      <4>2. container'.token = "none"
        BY <2>2, <4>1, NothingFacts DEF NothingOfNone
      <4> QED
        BY <4>2
    <3> QED
      BY <3>1, <3>2, <3>3 DEF TokenSafety
  <2>10. RoutedAsAsked' /\ NothingOfNone'
    BY <1>2, <2>2, NothingFacts DEF RoutedAsAsked, NothingOfNone
  <2> QED
    BY <2>3, <2>5, <2>6, <2>8, <2>9, <2>10
<1> QED
  BY <1>3, <1>4 DEF Revoke

LEMMA StepInsert == ASSUME IInv, NEW p \in Process, Insert(p) PROVE IInv'
<1> USE DEF IInv
<1>1. proc[p].op # "none" /\ proc[p].at = "insert" /\ proc[p].token = "none" /\ Claim(p)
  BY UnderWay DEF Insert, At, IssuedLate, Made, Claim
<1>2. /\ UNCHANGED <<row, disabled, container, gateway, stray>>
      /\ overlapped' = overlapped /\ kept' = kept /\ settled' = settled
  BY DEF Insert, history
<1>3. /\ proc' \in [Process -> Request] /\ \A q \in Process : q # p => proc'[q] = proc[q]
      /\ proc'[p].at = "read" /\ proc'[p].op = proc[p].op
      /\ proc'[p].token = "none" \/ (proc'[p].token = "valid" /\ row.there)
  <2>1. CASE Goes(p, "read")
    <3>1. /\ proc' \in [Process -> Request] /\ \A q \in Process : q # p => proc'[q] = proc[q]
          /\ proc'[p].at = "read" /\ proc'[p].op = proc[p].op /\ proc'[p].token = proc[p].token
      BY <2>1, GoesFacts DEF Place
    <3> QED
      BY <1>1, <3>1
  <2>2. CASE row.there /\ proc' = [proc EXCEPT ![p].at = "read", ![p].token = "valid"]
    BY <2>2, InsertFacts
  <2> QED
    BY <2>1, <2>2 DEF Insert
<1>4. TypeOK'
  BY <1>2, <1>3 DEF TypeOK
<1>5. Sound(p)'
  BY <1>1, <1>2, <1>3 DEF Sound, Made, Leaving
<1> QED
  BY <1>1, <1>2, <1>3, <1>4, <1>5, StepKeeps

\* The profile is the one the row names: nobody changes the row of a request
\* that is alone.
LEMMA StepRead == ASSUME IInv, NEW p \in Process, Read(p) PROVE IInv'
<1> USE DEF IInv
<1> DEFINE via == IF row.there THEN row.egress ELSE Direct
           at  == IF via = Direct THEN "run" ELSE "prepare"
<1>1. proc[p].op # "none" /\ proc[p].at = "read" /\ proc[p].at # "idle"
  BY UnderWay DEF Read, At
<1>2. /\ UNCHANGED <<row, disabled, container, gateway, history>>
      /\ overlapped' = overlapped /\ kept' = kept /\ settled' = settled
  BY DEF Read, history
<1>3. CASE Ends(p)
  BY <1>1, <1>2, <1>3, UnchangedContainer, Quiet DEF TypeOK
<1>4. CASE proc' = [proc EXCEPT ![p].via = via, ![p].at = at] /\ UNCHANGED stray
  <2>1. via \in Route /\ at \in Place /\ at \in {"run", "prepare"} /\ (row.there => via = row.egress)
    BY DEF TypeOK, Route, Place
  <2> HIDE DEF via, at
  <2>2. /\ proc' \in [Process -> Request] /\ \A q \in Process : q # p => proc'[q] = proc[q]
        /\ proc'[p].at = at /\ proc'[p].token = proc[p].token /\ proc'[p].op = proc[p].op
        /\ proc'[p].via = via
    BY <1>4, <2>1, ReadFacts
  <2>3. TypeOK'
    BY <1>2, <1>4, <2>2 DEF TypeOK
  <2>4. Sound(p)'
    BY <1>1, <1>2, <2>1, <2>2 DEF Sound, Made, Leaving, AloneCreates
  <2>5. Claim(p)' => Claim(p)
    BY <2>1, <2>2 DEF Claim, At
  <2>6. proc'[p].token = "valid" => row.there
    BY <2>2 DEF TokenSafety, NoTokenAfterDeletion, Holding
  <2> QED
    BY <1>1, <1>2, <1>4, <2>2, <2>3, <2>4, <2>5, <2>6, StepKeeps
<1> QED
  BY <1>3, <1>4 DEF Read

\* The container that has been made has the exit and the token of its request.
LEMMA StepRun == ASSUME IInv, NEW p \in Process, Run(p) PROVE IInv'
<1> USE DEF IInv
<1> DEFINE able == container.at = "none" /\ (proc[p].via = Direct \/ gateway = "running")
<1>1. proc[p].op # "none" /\ proc[p].at = "run" /\ proc[p].at # "idle"
  BY UnderWay DEF Run, At
<1>2. /\ UNCHANGED <<row, disabled, gateway>> /\ overlapped' = overlapped /\ kept' = kept
  BY DEF Run
<1>3. CASE /\ IF proc[p].via = Direct THEN Ends(p) ELSE Goes(p, "undo") /\ UNCHANGED stray
           /\ UNCHANGED <<container, settled>>
  <2>1. SameContainer /\ UNCHANGED <<row, disabled, history>> /\ gateway' \in {"none", "running", "exited"}
    BY <1>2, <1>3, UnchangedContainer DEF history, TypeOK
  <2>2. MayGo(p, "undo")
    BY <1>1 DEF MayGo, Made, Leaving, Place
  <2> QED
    BY <1>1, <1>3, <2>1, <2>2, Quiet
<1>4. CASE /\ able
           /\ \/ container' = MadeBy(p, "running") /\ proc' = [proc EXCEPT ![p] = Idle]
                 /\ settled' = (settled \/ proc[p].op = "change")
              \/ container' = MadeBy(p, "exited") /\ settled' = settled
                 /\ \/ proc' = [proc EXCEPT ![p] = Idle]
                    \/ proc' = [proc EXCEPT ![p].token = "none", ![p].at = "undo"]
           /\ UNCHANGED stray
  <2>1. /\ container' \in Container /\ container'.at # "none" /\ container'.via = proc[p].via
        /\ container'.token = proc[p].token /\ stray' = stray
    BY <1>4, MadeFacts
  <2>2. /\ proc' \in [Process -> Request] /\ \A q \in Process : q # p => proc'[q] = proc[q]
        /\ \/ proc'[p] = Idle
           \/ /\ proc'[p].at = "undo" /\ proc'[p].token = "none" /\ proc'[p].op = proc[p].op
              /\ proc'[p].via = proc[p].via
    BY <1>4, EndsFacts, HandedFacts
  <2>3. settled' \in BOOLEAN
    BY <1>4 DEF TypeOK
  <2>4. TypeOK'
    BY <1>2, <2>1, <2>2, <2>3 DEF TypeOK
  <2>5. Sound(p)'
    <3>1. CASE proc'[p] = Idle
      BY <3>1, SoundIdleNext
    <3>2. CASE proc'[p] # Idle
      BY <1>1, <1>2, <2>2, <3>2 DEF Sound, Made, Leaving, AloneCreates
    <3> QED
      BY <3>1, <3>2
  <2>6. IdleRequests' /\ IssuedLate' /\ AloneLeaves' /\ AloneCreates' /\ Alone'
    <3>1. ASSUME NEW q \in Process, q # p PROVE Sound(q)'
      <4>1. CASE ~overlapped
        BY <1>1, <2>2, <3>1, <4>1, OthersIdle, SoundIdleNext
      <4>2. CASE overlapped
        BY <1>2, <2>2, <3>1, <4>2 DEF Sound, IdleRequests, IssuedLate
      <4> QED
        BY <4>1, <4>2
    <3>2. IdleRequests' /\ IssuedLate' /\ AloneLeaves' /\ AloneCreates'
      BY <2>5, <3>1 DEF Sound, IdleRequests, IssuedLate, AloneLeaves, AloneCreates
    <3> QED
      BY <1>1, <1>2, <2>2, <3>2, IdleFacts DEF Alone
  <2>7. container.token = "none" /\ container.at = "none"
    BY <1>4, NothingFacts DEF NothingOfNone
  <2>8. \A q \in Process : Claim(q)' => Claim(q)
    BY <2>2, IdleFacts DEF Claim, At
  <2>9. ClaimsBounded'
    <3>1. stray \in Nat /\ One(container.token) = 0
      BY <2>7 DEF TypeOK, One
    <3>2. CASE proc[p].token = "valid"
      <4>1. Claim(p) /\ ~Claim(p)'
        BY <2>2, <3>2, IdleFacts DEF Claim, At
      <4>2. stray' + One(container'.token) <= stray + One(container.token) + 1
        BY <2>1, <3>1, <3>2 DEF One
      <4> QED
        BY <2>4, <2>8, <4>1, <4>2, ClaimsLeft
    <3>3. CASE proc[p].token # "valid"
      <4>1. stray' + One(container'.token) <= stray + One(container.token)
        BY <2>1, <3>1, <3>3 DEF One
      <4> QED
        BY <2>4, <2>8, <4>1, ClaimsKept
    <3> QED
      BY <3>2, <3>3
  <2>10. TokenSafety'
    <3>1. TokensBounded'
      BY <2>4, <2>9, ClaimsBound, PTL
    <3>2. NoTokenAfterDeletion'
      BY <1>2, <2>1, <2>2, IdleFacts DEF TokenSafety, NoTokenAfterDeletion, Holding
    <3>3. CaptureTokenLives'
      BY <1>2, <2>1 DEF CaptureTokenLives, AloneCreates
    <3> QED
      BY <3>1, <3>2, <3>3 DEF TokenSafety
  <2>11. RoutedAsAsked' /\ NothingOfNone'
    BY <1>1, <1>2, <2>1 DEF RoutedAsAsked, NothingOfNone, AloneCreates, Made
  <2> QED
    BY <2>4, <2>6, <2>9, <2>10, <2>11
<1> QED
  BY <1>3, <1>4, MadeFacts DEF Run, MadeBy

LEMMA StepDropRow == ASSUME IInv, NEW p \in Process, DropRow(p) PROVE IInv'
<1> USE DEF IInv
<1> DEFINE requests == [proc EXCEPT ![p] = Idle]
<1>1. proc[p].op # "none"
  BY UnderWay DEF DropRow, At
<1>2. /\ requests \in [Process -> Request] /\ requests[p] = Idle
      /\ \A q \in Process : q # p => requests[q] = proc[q]
  BY IdleFacts DEF TypeOK
<1>3. /\ RevokeAll(requests) /\ ~row'.there /\ row' \in [there : BOOLEAN, egress : Route]
      /\ disabled' = disabled /\ gateway' = gateway
      /\ overlapped' = overlapped /\ kept' = kept /\ settled' = settled
  BY DEF DropRow, history, TypeOK
<1> HIDE DEF requests
<1>4. /\ proc' \in [Process -> Request] /\ container' \in Container /\ stray' = 0
      /\ container'.at = container.at /\ container'.via = container.via
      /\ container'.token = Revoked(container.token)
      /\ container.token = "none" => container' = container
      /\ \A q \in Process : /\ proc'[q].op = requests[q].op /\ proc'[q].at = requests[q].at
                            /\ proc'[q].via = requests[q].via
                            /\ proc'[q].token = Revoked(requests[q].token)
                            /\ requests[q].token = "none" => proc'[q] = requests[q]
  BY <1>2, <1>3, RevokeFacts
<1>5. TypeOK'
  BY <1>3, <1>4 DEF TypeOK
<1>6. ASSUME NEW q \in Process PROVE Sound(q)'
  <2>1. CASE q = p
    BY <1>2, <1>4, <2>1, IdleFacts, SoundIdleNext
  <2>2. CASE q # p /\ ~overlapped
    <3>1. proc[q] = Idle
      BY <1>1, <2>2, OthersIdle
    <3>2. proc'[q] = Idle
      BY <1>2, <1>4, <2>2, <3>1, IdleFacts
    <3> QED
      BY <3>2, SoundIdleNext
  <2>3. CASE q # p /\ overlapped
    <3>1. proc[q].op = "none" => proc'[q] = Idle
      BY <1>2, <1>4, <2>3, IdleFacts DEF IdleRequests
    <3>2. proc'[q].token # "none" => proc[q].token # "none"
      BY <1>2, <1>4, <2>3 DEF Revoked
    <3> QED
      BY <1>2, <1>3, <1>4, <2>3, <3>1, <3>2 DEF Sound, IssuedLate
  <2> QED
    BY <2>1, <2>2, <2>3
<1>7. IdleRequests' /\ IssuedLate' /\ AloneLeaves' /\ AloneCreates'
  BY <1>6 DEF Sound, IdleRequests, IssuedLate, AloneLeaves, AloneCreates
<1>8. Alone'
  BY <1>2, <1>3, <1>4, IdleFacts DEF Alone
<1>9. container'.token # "valid" /\ \A q \in Process : proc'[q].token # "valid"
  BY <1>2, <1>4, RevokedFacts, ContainerRow DEF Request
<1>10. ClaimsBounded'
  BY <1>4, <1>5, <1>9, ClaimsRevoked
<1>11. TokenSafety'
  <2>1. TokensBounded'
    BY <1>5, <1>10, ClaimsBound, PTL
  <2>2. NoTokenAfterDeletion' /\ CaptureTokenLives'
    BY <1>3, <1>4, <1>9 DEF NoTokenAfterDeletion, CaptureTokenLives, Holding
  <2> QED
    BY <2>1, <2>2 DEF TokenSafety
<1>12. RoutedAsAsked' /\ NothingOfNone'
  BY <1>3, <1>4, NothingFacts DEF RoutedAsAsked, NothingOfNone
<1> QED
  BY <1>5, <1>7, <1>8, <1>10, <1>11, <1>12

\* Nobody asked: a container ends, an administrator changes a profile.
LEMMA StepOutside ==
  ASSUME IInv, \/ ContainerExits \/ GatewayExits
               \/ \E e \in Profile : SetDisabled(e)
  PROVE  IInv'
<1> USE DEF IInv
<1>1. UNCHANGED <<row, stray, proc>> /\ overlapped' = overlapped /\ kept' = kept /\ settled' = settled
  BY DEF ContainerExits, GatewayExits, SetDisabled, history
<1>2. SameContainer
  <2>1. CASE ContainerExits
    <3>1. container.at # "none" /\ container' = [container EXCEPT !.at = "exited"]
      BY <2>1 DEF ContainerExits
    <3> QED
      BY <3>1 DEF SameContainer, TypeOK, Container
  <2>2. CASE GatewayExits
    BY <2>2, ContainerGatewayStopped DEF GatewayExits
  <2>3. CASE \E e \in Profile : SetDisabled(e)
    BY <2>3, UnchangedContainer DEF SetDisabled
  <2> QED
    BY <2>1, <2>2, <2>3
<1>3. TypeOK'
  BY <1>1, <1>2 DEF ContainerExits, GatewayExits, SetDisabled, SameContainer, TypeOK
<1>4. IdleRequests' /\ IssuedLate' /\ AloneLeaves' /\ AloneCreates' /\ Alone'
  BY <1>1, <1>2 DEF IdleRequests, IssuedLate, AloneLeaves, AloneCreates, Alone, SameContainer
<1>5. ClaimsBounded'
  <2>1. \A q \in Process : Claim(q)' => Claim(q)
    BY <1>1 DEF Claim, At
  <2>2. stray' + One(container'.token) <= stray + One(container.token)
    BY <1>1, <1>2, OneFacts, ContainerRow DEF SameContainer, TypeOK
  <2> QED
    BY <1>3, <2>1, <2>2, ClaimsKept
<1>6. TokenSafety'
  <2>1. TokensBounded'
    BY <1>3, <1>5, ClaimsBound, PTL
  <2>2. NoTokenAfterDeletion' /\ CaptureTokenLives'
    BY <1>1, <1>2 DEF TokenSafety, NoTokenAfterDeletion, CaptureTokenLives, Holding, SameContainer
  <2> QED
    BY <2>1, <2>2 DEF TokenSafety
<1>7. RoutedAsAsked' /\ NothingOfNone'
  BY <1>1, <1>2 DEF RoutedAsAsked, NothingOfNone, SameContainer
<1> QED
  BY <1>3, <1>4, <1>5, <1>6, <1>7
-----------------------------------------------------------------------------
LEMMA InvInit == Init => IInv
<1> SUFFICES ASSUME Init PROVE IInv
  OBVIOUS
<1> USE NothingFacts, IdleFacts DEF Init
<1>1. TypeOK
  BY DEF TypeOK
<1>2. IdleRequests /\ IssuedLate /\ NothingOfNone /\ Alone /\ AloneLeaves /\ AloneCreates
  BY DEF IdleRequests, IssuedLate, NothingOfNone, Alone, AloneLeaves, AloneCreates, Leaving, Made
<1>3. ClaimsBounded
  <2>1. Claims = {} /\ One(container.token) = 0
    BY DEF Claims, At, One
  <2> QED
    BY <2>1, ClaimsFinite, FS_EmptySet DEF ClaimsBounded
<1>4. TokenSafety
  BY <1>1, <1>3, ClaimsBound DEF TokenSafety, NoTokenAfterDeletion, CaptureTokenLives
<1>5. RoutedAsAsked
  BY DEF RoutedAsAsked
<1> QED
  BY <1>1, <1>2, <1>3, <1>4, <1>5 DEF IInv

LEMMA InvNext == IInv /\ [Next]_vars => IInv'
<1> SUFFICES ASSUME IInv, [Next]_vars PROVE IInv'
  OBVIOUS
<1>1. ASSUME NEW p \in Process,
             \/ \E op \in {"ensure", "stop", "pause", "preset", "delete"} : Begin(p, op, Direct)
             \/ \E e \in Route : Begin(p, "change", e)
      PROVE  IInv'
  BY <1>1, StepBegin DEF Route
<1>2. ASSUME NEW p \in Process,
             \/ Abandon(p) \/ Inspect(p) \/ ParamsOfNew(p) \/ ParamsOfRestart(p)
             \/ StartGateway(p) \/ StartContainer(p) \/ Unpause(p) \/ Pause(p)
      PROVE  IInv'
  BY <1>2, StepAbandons, StepEnsure, StepRuns
<1>3. ASSUME NEW p \in Process,
             \/ Resolve(p) \/ Update(p) \/ StopContainer(p) \/ StopGateway(p)
             \/ Remove(p) \/ RemoveGateway(p) \/ DropRow(p)
      PROVE  IInv'
  BY <1>3, StepStops, StepUpdate, StepRemove, StepDropRow
<1>4. ASSUME NEW p \in Process, Creating(p) PROVE IInv'
  BY <1>4, StepRevoke, StepInsert, StepRead, StepStops, StepRun DEF Creating
<1>5. CASE ContainerExits \/ GatewayExits \/ \E e \in Profile : SetDisabled(e)
  BY <1>5, StepOutside
<1>6. CASE UNCHANGED vars
  BY <1>6 DEF vars, IInv, TypeOK, TokenSafety, TokensBounded, NoTokenAfterDeletion, CaptureTokenLives,
              Holding, RoutedAsAsked, ClaimsBounded, Claims, At, IdleRequests, IssuedLate,
              NothingOfNone, Alone, AloneLeaves, AloneCreates
<1> QED
  BY <1>1, <1>2, <1>3, <1>4, <1>5, <1>6 DEF Next
-----------------------------------------------------------------------------
\* The inductive invariant: what a request may rely on while it is alone, and
\* that a token is claimed before it is issued.
THEOREM InvHolds == Spec => []IInv
BY InvInit, InvNext, PTL DEF Spec

\* A session's container, gateway, requests and tokens stay what they are.
THEOREM TypeHolds == Spec => []TypeOK
BY InvHolds, PTL DEF IInv

\* Tokens for file capture: no more of them are valid than there are requests at
\* once, none outlives its session, and none is revoked while the container has
\* it, unless requests overlap or Docker refuses to remove the container.
THEOREM TokensAreSafe == Spec => []TokenSafety
BY InvHolds, PTL DEF IInv

\* A change of the network profile that has answered is what the container uses
\* until the next, as long as requests come one at a time.
THEOREM RoutesAreKept == Spec => []RoutedAsAsked
BY InvHolds, PTL DEF IInv
-----------------------------------------------------------------------------
(***************************************************************************)
(* FingerprintProfiles.  A request that no other overlaps finds the row as *)
(* it has read it; so what it writes is of one piece, and the container it *)
(* makes is the row's.                                                     *)
(***************************************************************************)
LEMMA ProfileIdle ==
  /\ Profiles!Idle \in Profiles!Request
  /\ Profiles!Idle.op = "none" /\ Profiles!Idle.at = "idle"
BY DEF Profiles!Idle, Profiles!Request, Profiles!Op, Profiles!Place, Profiles!Exit, Profiles!NoCopy

LEMMA ProfileRequest ==
  ASSUME Profiles!TypeOK, NEW p \in Process
  PROVE  /\ writes[p] \in Profiles!Request
         /\ writes[p].op \in Profiles!Op /\ writes[p].at \in Profiles!Place
         /\ writes[p].exit \in Profiles!Exit /\ writes[p].alone \in BOOLEAN
         /\ writes[p].profile \in Profiles!Fingerprint \cup {Profiles!NoProfile}
         /\ writes[p].made \in Profiles!Copies \cup {Profiles!NoCopy}
BY DEF Profiles!TypeOK, Profiles!Request

\* A request that has ended has read and makes nothing.
LEMMA ProfileEnded ==
  ASSUME NEW p \in Process, writes'[p].op = "none", writes'[p].at = "idle"
  PROVE  Profiles!Fits(p)' /\ ~Profiles!Undisturbed(p)'
BY DEF Profiles!Steps, Profiles!Recreating, Profiles!HasRead, Profiles!Makes, Profiles!Undisturbed,
  Profiles!Fits, Profiles!ReadIsRow, Profiles!MadeFromRow, Profiles!At

\* The others keep what they have read when the row stays, and are idle when it
\* is an undisturbed request that writes it or makes the container anew.
LEMMA ProfileOthers ==
  ASSUME Profiles!IInv, NEW p \in Process, NEW q \in Process, q # p, writes'[q] = writes[q],
         writes[p].op # "none",
         \/ UNCHANGED fingerprint /\ sound' \subseteq sound
         \/ UNCHANGED sound
         \/ Profiles!Undisturbed(p)
  PROVE  Profiles!Fits(q)'
<1>1. /\ writes[q].at \in Profiles!Steps(writes[q].op)
      /\ Profiles!HasRead(q) => writes[q].profile \in Profiles!Fingerprint
      /\ Profiles!Makes(q) => writes[q].made \in Profiles!Copies
      /\ Profiles!ReadIsRow(q) /\ Profiles!MadeFromRow(q)
  BY DEF Profiles!IInv, Profiles!Fits
<1>2. (Profiles!HasRead(q)' <=> Profiles!HasRead(q)) /\ (Profiles!Makes(q)' <=> Profiles!Makes(q))
  BY DEF Profiles!HasRead, Profiles!Makes, Profiles!At
<1>3. CASE writes[q].op = "none"
  BY <1>1, <1>3 DEF Profiles!Steps, Profiles!HasRead, Profiles!Makes, Profiles!Undisturbed,
    Profiles!Fits, Profiles!ReadIsRow, Profiles!MadeFromRow, Profiles!At
<1>4. ASSUME writes[q].op # "none" PROVE ~Profiles!Undisturbed(p) /\ ~Profiles!Undisturbed(q)
  BY <1>4 DEF Profiles!IInv, Profiles!SoundMeans
<1>5. CASE writes[q].op # "none"
  <2>1. ~Profiles!Undisturbed(q) /\ sound = {} /\ sound' = {}
    BY <1>4, <1>5 DEF Profiles!Undisturbed, Profiles!IInv, Profiles!TypeOK
  <2>2. ~Profiles!Undisturbed(q)'
    BY <2>1 DEF Profiles!Undisturbed
  <2> QED
    BY <1>1, <1>2, <2>1, <2>2 DEF Profiles!Fits, Profiles!ReadIsRow, Profiles!MadeFromRow, Profiles!At
<1> QED
  BY <1>3, <1>5

\* While p is the only request, and makes nothing anew, a container that is
\* there is the row's.
LEMMA ProfileMatches ==
  ASSUME Profiles!IInv, NEW p \in Process, writes[p].op \notin Profiles!Recreating,
         writes[p].op # "none", "container" \in sound, browser.at # "none"
  PROVE  Profiles!Matches
<1>1. \A q \in Process : writes[q].op \notin Profiles!Recreating
  BY DEF Profiles!IInv, Profiles!SoundMeans, Profiles!Undisturbed, Profiles!Recreating
<1> QED
  BY <1>1 DEF Profiles!IInv, Profiles!Repaired, Profiles!There

\* A step of p that leaves the row alone, or its end.
LEMMA ProfileStep ==
  ASSUME Profiles!IInv, NEW p \in Process, NEW r \in Profiles!Request, writes' = [writes EXCEPT ![p] = r],
         writes[p].op # "none", r.op = "none" \/ (r.op = writes[p].op /\ r.alone = writes[p].alone),
         UNCHANGED <<fingerprint, sound>>, browser' \in Profiles!Browser, Profiles!Fits(p)',
         "container" \in sound /\ r.op \notin Profiles!Recreating /\ browser'.at # "none" => Profiles!Matches'
  PROVE  Profiles!IInv'
<1>1. \A q \in Process : writes'[q] = IF q = p THEN r ELSE writes[q]
  BY DEF Profiles!IInv, Profiles!TypeOK
<1>2. Profiles!TypeOK'
  BY DEF Profiles!IInv, Profiles!TypeOK
<1>3. \A q \in Process : Profiles!Fits(q)'
  BY <1>1, ProfileOthers
<1>4. \A q \in Process : Profiles!Undisturbed(q)' =>
        /\ Profiles!Undisturbed(q) /\ writes'[q].op = writes[q].op /\ writes'[q].alone = writes[q].alone
  BY <1>1 DEF Profiles!Undisturbed
<1>5. Profiles!SoundMeans'
  BY <1>1, <1>4 DEF Profiles!IInv, Profiles!SoundMeans
<1>6. Profiles!Repaired'
  BY <1>1 DEF Profiles!Repaired, Profiles!There
<1>7. Profiles!Observed'
  BY DEF Profiles!IInv, Profiles!Observed
<1> QED
  BY <1>2, <1>3, <1>5, <1>6, <1>7 DEF Profiles!IInv

LEMMA ProfileAbandon ==
  ASSUME Profiles!IInv, NEW p \in Process, Profiles!Abandon(p)
  PROVE  Profiles!IInv'
<1>1. /\ UNCHANGED <<fingerprint, browser>> /\ sound' = {} /\ writes[p].op # "none"
      /\ writes' = [writes EXCEPT ![p] = Profiles!Idle]
  BY DEF Profiles!Abandon
<1>2. \A q \in Process : writes'[q] = IF q = p THEN Profiles!Idle ELSE writes[q]
  BY <1>1 DEF Profiles!IInv, Profiles!TypeOK
<1>3. Profiles!TypeOK'
  BY <1>1, ProfileIdle DEF Profiles!IInv, Profiles!TypeOK
<1>4. \A q \in Process : Profiles!Fits(q)'
  BY <1>1, <1>2, ProfileIdle, ProfileEnded, ProfileOthers
<1>5. \A q \in Process : Profiles!Undisturbed(q)' => Profiles!Undisturbed(q) /\ writes'[q] = writes[q]
  BY <1>1, <1>2, ProfileIdle DEF Profiles!Undisturbed
<1>6. Profiles!SoundMeans'
  BY <1>1, <1>2, <1>5, ProfileIdle DEF Profiles!IInv, Profiles!SoundMeans
<1> QED
  BY <1>1, <1>3, <1>4, <1>6 DEF Profiles!IInv, Profiles!Repaired, Profiles!Observed

\* A request that nothing has overlapped has made the container anew.
LEMMA ProfileAnew ==
  ASSUME Profiles!IInv, NEW p \in Process, Profiles!Undisturbed(p), writes' = [writes EXCEPT ![p] = Profiles!Idle],
         NEW anew \in {{"container"}, {"container", "observation"}}, sound' = sound \cup anew,
         "observation" \in anew => fingerprint.profile.observed = Profiles!Nothing,
         UNCHANGED fingerprint, browser' \in Profiles!Browser, Profiles!Matches'
  PROVE  Profiles!IInv'
<1>1. \A q \in Process : writes'[q] = IF q = p THEN Profiles!Idle ELSE writes[q]
  BY DEF Profiles!IInv, Profiles!TypeOK
<1>2. Profiles!TypeOK'
  BY ProfileIdle DEF Profiles!IInv, Profiles!TypeOK
<1>3. \A q \in Process : Profiles!Fits(q)'
  BY <1>1, ProfileIdle, ProfileEnded, ProfileOthers DEF Profiles!Undisturbed
<1>4. \A q \in Process : writes'[q].op = "none"
  BY <1>1, ProfileIdle DEF Profiles!IInv, Profiles!SoundMeans
<1>5. Profiles!SoundMeans'
  BY <1>4 DEF Profiles!IInv, Profiles!SoundMeans, Profiles!Undisturbed
<1>6. Profiles!Repaired' /\ Profiles!Observed'
  BY DEF Profiles!IInv, Profiles!Repaired, Profiles!Observed
<1> QED
  BY <1>2, <1>3, <1>5, <1>6 DEF Profiles!IInv
-----------------------------------------------------------------------------
\* The handler reads the row; what was overlapped counts no more.
LEMMA ProfileBegin ==
  ASSUME Profiles!IInv, NEW p \in Process, NEW op \in Profiles!Op \ {"none"}, NEW exit \in Profiles!Exit,
         Profiles!Begin(p, op, exit)
  PROVE  Profiles!IInv'
<1> DEFINE others == {q \in Process \ {p} : writes[q].op # "none"}
           read == CASE op = "egress" -> Profiles!Declared(fingerprint.profile)
                     [] op \in {"preset", "refresh", "dns"} -> fingerprint.profile
                     [] OTHER -> Profiles!NoProfile
           r == [op |-> op, at |-> IF op \in {"refresh", "start"} THEN "inspect" ELSE "write", profile |-> read,
                 made |-> Profiles!NoCopy, exit |-> exit,
                 alone |-> others = {} /\ op \in Profiles!Recreating]
           s(q) == [writes[q] EXCEPT !.alone = FALSE]
<1>1. /\ Profiles!TypeOK /\ fingerprint.profile \in Profiles!Fingerprint
      /\ UNCHANGED <<fingerprint, browser>> /\ writes[p].op = "none"
  BY DEF Profiles!IInv, Profiles!TypeOK, Profiles!Begin, Profiles!Row
<1>2. /\ writes' = [q \in Process |-> IF q = p THEN r ELSE s(q)]
      /\ sound' = IF others = {} THEN sound ELSE {}
  BY DEF Profiles!Begin
<1>3. /\ read \in Profiles!Fingerprint \cup {Profiles!NoProfile}
      /\ op \in {"preset", "egress", "refresh", "dns"} => read \in Profiles!Fingerprint
      /\ op \in {"preset", "refresh", "dns"} => read = fingerprint.profile
      /\ op = "egress" => read.observed = Profiles!Nothing
  BY <1>1 DEF Profiles!Declared, Profiles!Fingerprint, Profiles!Observation, Profiles!Dns
<1>4. /\ r \in Profiles!Request /\ r.op = op /\ r.profile = read
      /\ r.at = (IF op \in {"refresh", "start"} THEN "inspect" ELSE "write")
      /\ r.alone = (others = {} /\ op \in Profiles!Recreating)
  <2> HIDE DEF read, others
  <2> QED
    BY <1>3 DEF Profiles!Request, Profiles!Place
<1>5. \A q \in Process : /\ s(q) \in Profiles!Request /\ ~s(q).alone /\ s(q).op = writes[q].op
                         /\ s(q).at = writes[q].at /\ s(q).profile = writes[q].profile
                         /\ s(q).made = writes[q].made
  <2> TAKE q \in Process
  <2>1. writes[q] \in Profiles!Request
    BY <1>1, ProfileRequest
  <2> QED
    BY <2>1 DEF Profiles!Request
<1>6. \A q \in Process : writes[q].op # "none" => q \in others
  BY <1>1
<1> HIDE DEF read, r, s, others
<1>7. Profiles!TypeOK'
  <2>1. sound' \subseteq {"container", "observation"}
    BY <1>1, <1>2 DEF Profiles!TypeOK
  <2> QED
    BY <1>1, <1>2, <1>4, <1>5, <2>1 DEF Profiles!TypeOK
<1>8. \A q \in Process : Profiles!Undisturbed(q)' => q = p /\ others = {}
  BY <1>2, <1>4, <1>5, <1>6 DEF Profiles!Undisturbed
<1>9. Profiles!SoundMeans'
  <2>1. "observation" \in sound' => "container" \in sound'
    BY <1>2 DEF Profiles!IInv, Profiles!SoundMeans
  <2>2. \A q \in Process : Profiles!Undisturbed(q)' => (writes'[q].alone <=> writes'[q].op \in Profiles!Recreating)
    BY <1>2, <1>4, <1>8
  <2>3. ASSUME NEW a \in Process, NEW b \in Process, Profiles!Undisturbed(a)', writes'[b].op # "none"
        PROVE  a = b
    BY <1>2, <1>5, <1>6, <1>8, <2>3
  <2> QED
    BY <2>1, <2>2, <2>3 DEF Profiles!SoundMeans
<1>10. Profiles!Fits(p)'
  <2>1. writes'[p] = r
    BY <1>2
  <2>2. ~Profiles!Makes(p)' /\ writes'[p].at \in Profiles!Steps(op)
    BY <1>4, <2>1 DEF Profiles!Makes, Profiles!Steps, Profiles!Op, Profiles!Recreating
  <2>3. Profiles!HasRead(p)' => op \in {"preset", "egress", "refresh", "dns"}
    BY <1>4, <2>1 DEF Profiles!HasRead
  <2> QED
    BY <1>1, <1>3, <1>4, <2>1, <2>2, <2>3 DEF Profiles!Fits, Profiles!ReadIsRow, Profiles!MadeFromRow, Profiles!At
<1>11. ASSUME NEW q \in Process, q # p PROVE Profiles!Fits(q)'
  <2>1. writes'[q] = s(q)
    BY <1>2, <1>11
  <2>2. ~Profiles!Undisturbed(q)'
    BY <1>8, <1>11
  <2>3. Profiles!Fits(q) /\ sound' \subseteq sound
    BY <1>2 DEF Profiles!IInv
  <2>4. (Profiles!HasRead(q)' <=> Profiles!HasRead(q)) /\ (Profiles!Makes(q)' <=> Profiles!Makes(q))
    BY <1>5, <2>1 DEF Profiles!HasRead, Profiles!Makes, Profiles!At
  <2> QED
    BY <1>1, <1>5, <2>1, <2>2, <2>3, <2>4 DEF Profiles!Fits, Profiles!ReadIsRow, Profiles!MadeFromRow, Profiles!At
<1>12. Profiles!Repaired'
  <2> SUFFICES ASSUME "container" \in sound', browser.at # "none" PROVE Profiles!Matches'
    BY <1>1 DEF Profiles!Repaired, Profiles!There
  <2>1. "container" \in sound /\ \A q \in Process : writes[q].op \notin Profiles!Recreating
    BY <1>1, <1>2, <1>6 DEF Profiles!Recreating
  <2>2. Profiles!Matches
    BY <2>1 DEF Profiles!IInv, Profiles!Repaired, Profiles!There
  <2> QED
    BY <1>1, <2>2 DEF Profiles!Matches
<1>13. Profiles!Observed'
  BY <1>1, <1>2 DEF Profiles!IInv, Profiles!Observed
<1> QED
  BY <1>7, <1>9, <1>10, <1>11, <1>12, <1>13 DEF Profiles!IInv

\* What a request writes.  A re-creation goes on with the container; else the
\* container that is there still has what it had of the row.
LEMMA ProfileSaves ==
  ASSUME Profiles!IInv, NEW p \in Process, writes[p].op # "none",
         NEW profile \in Profiles!Fingerprint, NEW step \in {"remove", "sync"}, Profiles!Saves(p, profile, step),
         step \in Profiles!Steps(writes[p].op),
         step = "remove" <=> writes[p].op \in Profiles!Recreating,
         writes[p].op \in {"egress", "regenerate"} => profile.observed = Profiles!Nothing,
         "observation" \in sound /\ writes[p].op \notin {"egress", "regenerate"} =>
           profile.observed \in {Profiles!Nothing, fingerprint.exit},
         "container" \in sound /\ step = "sync" =>
           /\ profile.id = fingerprint.profile.id
           /\ fingerprint.profile.warned \/ profile.dns # fingerprint.profile.dns => profile.warned
  PROVE  Profiles!IInv'
<1> DEFINE exit == IF writes[p].op = "egress" THEN writes[p].exit ELSE fingerprint.exit
           r == [Profiles!Idle EXCEPT !.op = writes[p].op, !.at = step,
                   !.made = IF step = "sync" THEN Profiles!NoCopy ELSE Profiles!Copy(profile),
                   !.alone = writes[p].alone]
<1>1. /\ Profiles!TypeOK /\ fingerprint \in Profiles!Row /\ exit \in Profiles!Exit
      /\ UNCHANGED <<browser, sound>> /\ writes' = [writes EXCEPT ![p] = r]
      /\ fingerprint' = [profile |-> profile, exit |-> exit]
  BY ProfileRequest DEF Profiles!IInv, Profiles!TypeOK, Profiles!Row, Profiles!Saves
<1>2. Profiles!Copy(profile) \in Profiles!Copies
  BY DEF Profiles!Copies
<1>3. /\ r \in Profiles!Request /\ r.op = writes[p].op /\ r.at = step /\ r.alone = writes[p].alone
      /\ step = "remove" => r.made = Profiles!Copy(profile)
  <2>1. step \in Profiles!Place
    BY DEF Profiles!Place
  <2> QED
    BY <1>1, <1>2, <2>1, ProfileIdle, ProfileRequest DEF Profiles!Idle, Profiles!Request
<1>4. \A q \in Process : writes'[q] = IF q = p THEN r ELSE writes[q]
  BY <1>1 DEF Profiles!TypeOK
<1>5. fingerprint'.profile = profile /\ fingerprint'.exit = exit /\ fingerprint' \in Profiles!Row
  BY <1>1 DEF Profiles!Row
<1> HIDE DEF r
<1>6. Profiles!TypeOK'
  BY <1>1, <1>3, <1>5 DEF Profiles!TypeOK
<1>7. Profiles!Fits(p)'
  BY <1>2, <1>3, <1>4, <1>5
    DEF Profiles!Fits, Profiles!HasRead, Profiles!Makes, Profiles!ReadIsRow, Profiles!MadeFromRow, Profiles!At,
        Profiles!Recreating
<1>8. \A q \in Process : Profiles!Fits(q)'
  BY <1>1, <1>4, <1>7, ProfileOthers
<1>9. \A q \in Process : Profiles!Undisturbed(q)' =>
        /\ Profiles!Undisturbed(q) /\ writes'[q].op = writes[q].op /\ writes'[q].alone = writes[q].alone
  BY <1>1, <1>3, <1>4 DEF Profiles!Undisturbed
<1>10. Profiles!SoundMeans'
  BY <1>1, <1>3, <1>4, <1>9 DEF Profiles!IInv, Profiles!SoundMeans
<1>11. Profiles!Repaired'
  <2> SUFFICES ASSUME "container" \in sound, writes[p].op \notin Profiles!Recreating, browser.at # "none"
               PROVE  Profiles!Matches'
    BY <1>1, <1>3, <1>4 DEF Profiles!Repaired, Profiles!There
  <2>1. Profiles!Matches /\ exit = fingerprint.exit
    BY ProfileMatches DEF Profiles!Recreating
  <2> QED
    BY <1>1, <1>5, <2>1 DEF Profiles!Matches
<1>12. Profiles!Observed'
  BY <1>1, <1>5 DEF Profiles!Observed
<1> QED
  BY <1>6, <1>8, <1>10, <1>11, <1>12 DEF Profiles!IInv

\* What p has read is the row's as long as it counts.
LEMMA ProfileRead ==
  ASSUME Profiles!IInv, NEW p \in Process, Profiles!HasRead(p)
  PROVE  /\ writes[p].profile \in Profiles!Fingerprint
         /\ sound # {} /\ writes[p].op # "egress" =>
              /\ writes[p].profile.id = fingerprint.profile.id /\ writes[p].profile.dns = fingerprint.profile.dns
              /\ writes[p].profile.warned = fingerprint.profile.warned
              /\ writes[p].op # "refresh" => writes[p].profile.observed = fingerprint.profile.observed
<1>1. writes[p].profile \in Profiles!Fingerprint /\ fingerprint.profile \in Profiles!Fingerprint
  BY DEF Profiles!IInv, Profiles!Fits, Profiles!TypeOK, Profiles!Row
<1>2. ASSUME sound # {}, writes[p].op # "egress"
      PROVE  /\ writes[p].profile.id = fingerprint.profile.id /\ writes[p].profile.dns = fingerprint.profile.dns
             /\ writes[p].profile.warned = fingerprint.profile.warned
             /\ writes[p].op # "refresh" => writes[p].profile.observed = fingerprint.profile.observed
  <2>1. /\ [writes[p].profile EXCEPT !.observed = Profiles!Nothing]
             = [fingerprint.profile EXCEPT !.observed = Profiles!Nothing]
        /\ writes[p].op # "refresh" => writes[p].profile.observed = fingerprint.profile.observed
    BY <1>2 DEF Profiles!IInv, Profiles!Fits, Profiles!ReadIsRow
  <2> QED
    BY <1>1, <2>1 DEF Profiles!Fingerprint, Profiles!Observation
<1> QED
  BY <1>1, <1>2

LEMMA ProfileWrites ==
  ASSUME Profiles!IInv, NEW p \in Process,
         \/ Profiles!WriteAndRecreate(p) \/ Profiles!WriteNew(p)
         \/ Profiles!WriteObserved(p) \/ Profiles!WriteDns(p)
  PROVE  Profiles!IInv'
<1>1. /\ "remove" \in {"remove", "sync"} /\ "sync" \in {"remove", "sync"}
      /\ \A op \in Profiles!Recreating : "remove" \in Profiles!Steps(op)
      /\ \A op \in {"refresh", "dns"} : "sync" \in Profiles!Steps(op)
  BY DEF Profiles!Steps, Profiles!Recreating
<1>2. CASE Profiles!WriteAndRecreate(p)
  <2>1. /\ writes[p].op \in {"preset", "egress"} /\ Profiles!HasRead(p)
        /\ Profiles!Saves(p, writes[p].profile, "remove")
    BY <1>2 DEF Profiles!WriteAndRecreate, Profiles!HasRead
  <2>2. /\ writes[p].profile \in Profiles!Fingerprint
        /\ writes[p].op = "egress" => writes[p].profile.observed = Profiles!Nothing
    BY <2>1, ProfileRead DEF Profiles!IInv, Profiles!Fits, Profiles!ReadIsRow
  <2>3. "observation" \in sound /\ writes[p].op = "preset" =>
          writes[p].profile.observed \in {Profiles!Nothing, fingerprint.exit}
    BY <2>1, ProfileRead DEF Profiles!IInv, Profiles!Observed
  <2> QED
    BY <1>1, <2>1, <2>2, <2>3, ProfileSaves DEF Profiles!Recreating
<1>3. CASE Profiles!WriteNew(p)
  <2>1. PICK i \in Identity :
          Profiles!Saves(p, [id |-> i, dns |-> "declared", observed |-> Profiles!Nothing, warned |-> FALSE], "remove")
    BY <1>3 DEF Profiles!WriteNew
  <2>2. [id |-> i, dns |-> "declared", observed |-> Profiles!Nothing, warned |-> FALSE] \in Profiles!Fingerprint
    BY DEF Profiles!Fingerprint, Profiles!Observation, Profiles!Dns
  <2>3. writes[p].op = "regenerate" /\ "regenerate" \in Profiles!Recreating
    BY <1>3 DEF Profiles!WriteNew, Profiles!Recreating
  <2> QED
    BY <1>1, <2>1, <2>2, <2>3, ProfileSaves
<1>4. CASE Profiles!WriteObserved(p)
  <2>1. /\ writes[p].op = "refresh" /\ Profiles!HasRead(p) /\ Profiles!At(p, "write")
        /\ Profiles!Saves(p, writes[p].profile, "sync")
    BY <1>4 DEF Profiles!WriteObserved, Profiles!HasRead, Profiles!At
  <2>2. "observation" \in sound => writes[p].profile.observed \in {Profiles!Nothing, fingerprint.exit}
    BY <2>1 DEF Profiles!IInv, Profiles!Fits, Profiles!ReadIsRow
  <2> QED
    BY <1>1, <2>1, <2>2, ProfileRead, ProfileSaves DEF Profiles!Recreating
<1>5. CASE Profiles!WriteDns(p)
  <2>1. writes[p].op = "dns" /\ Profiles!HasRead(p) /\ writes[p].profile \in Profiles!Fingerprint
    BY <1>5, ProfileRead DEF Profiles!WriteDns, Profiles!HasRead
  <2>2. PICK dns \in Profiles!Dns : Profiles!Saves(p, Profiles!NewDns(writes[p].profile, dns), "sync")
    BY <1>5 DEF Profiles!WriteDns
  <2> DEFINE new == Profiles!NewDns(writes[p].profile, dns)
  <2>3. /\ new \in Profiles!Fingerprint /\ new.id = writes[p].profile.id /\ new.dns = dns
        /\ new.observed = writes[p].profile.observed
        /\ writes[p].profile.warned \/ dns # writes[p].profile.dns => new.warned
    BY <2>1 DEF Profiles!NewDns, Profiles!Fingerprint, Profiles!Observation
  <2> HIDE DEF new
  <2>4. "observation" \in sound => new.observed \in {Profiles!Nothing, fingerprint.exit}
    BY <2>1, <2>3, ProfileRead DEF Profiles!IInv, Profiles!Observed
  <2>5. Profiles!Saves(p, new, "sync")
    BY <2>2 DEF new
  <2> QED
    BY <1>1, <2>1, <2>3, <2>4, <2>5, ProfileRead, ProfileSaves DEF Profiles!Recreating
<1> QED
  BY <1>2, <1>3, <1>4, <1>5
-----------------------------------------------------------------------------
\* A step of a request that makes nothing anew, and of a container that keeps
\* what it was made with.
LEMMA ProfileMoves ==
  ASSUME Profiles!IInv, NEW p \in Process, NEW r \in Profiles!Request, writes' = [writes EXCEPT ![p] = r],
         writes[p].op \notin Profiles!Recreating \cup {"none"},
         r.op = "none" \/ (r.op = writes[p].op /\ r.alone = writes[p].alone),
         UNCHANGED <<fingerprint, sound>>, browser' \in Profiles!Browser, Profiles!Fits(p)',
         browser'.at # "none" =>
           browser.at # "none" /\ browser'.made = browser.made /\ browser'.exit = browser.exit
  PROVE  Profiles!IInv'
<1>1. "container" \in sound /\ browser'.at # "none" => Profiles!Matches'
  BY ProfileMatches DEF Profiles!Matches
<1> QED
  BY <1>1, ProfileStep

LEMMA ProfileLeaves ==
  ASSUME Profiles!IInv, NEW p \in Process, Profiles!Ends(p, {}),
         writes[p].op \notin Profiles!Recreating \cup {"none"}, UNCHANGED fingerprint,
         browser' \in Profiles!Browser,
         browser'.at # "none" =>
           browser.at # "none" /\ browser'.made = browser.made /\ browser'.exit = browser.exit
  PROVE  Profiles!IInv'
<1>1. writes' = [writes EXCEPT ![p] = Profiles!Idle] /\ sound' = sound
  BY DEF Profiles!Ends
<1>2. writes'[p] = Profiles!Idle
  BY <1>1 DEF Profiles!IInv, Profiles!TypeOK
<1>3. Profiles!Fits(p)'
  BY <1>2, ProfileIdle, ProfileEnded
<1> QED
  BY <1>1, <1>3, ProfileIdle, ProfileMoves

LEMMA ProfileGoes ==
  ASSUME Profiles!IInv, NEW p \in Process, NEW place \in {"params", "restart", "probe"},
         Profiles!Goes(p, place), place \in Profiles!Steps(writes[p].op),
         writes[p].op \in {"refresh", "start"}, writes[p].at # "sync",
         UNCHANGED <<fingerprint, sound>>, browser' \in Profiles!Browser,
         browser'.at # "none" =>
           browser.at # "none" /\ browser'.made = browser.made /\ browser'.exit = browser.exit
  PROVE  Profiles!IInv'
<1> DEFINE r == [writes[p] EXCEPT !.at = place]
<1>1. /\ writes' = [writes EXCEPT ![p] = r] /\ writes[p] \in Profiles!Request
      /\ writes'[p] = r
  BY ProfileRequest DEF Profiles!IInv, Profiles!TypeOK, Profiles!Goes
<1>2. /\ r \in Profiles!Request /\ r.op = writes[p].op /\ r.alone = writes[p].alone /\ r.at = place
      /\ r.profile = writes[p].profile
  BY <1>1 DEF Profiles!Request, Profiles!Place
<1> HIDE DEF r
<1>3. Profiles!Fits(p)
  BY DEF Profiles!IInv
<1>4. Profiles!Fits(p)'
  BY <1>1, <1>2, <1>3
    DEF Profiles!Fits, Profiles!HasRead, Profiles!Makes, Profiles!ReadIsRow, Profiles!MadeFromRow, Profiles!At
<1> QED
  BY <1>1, <1>2, <1>4, ProfileMoves DEF Profiles!Recreating

\* Where a request is says what it does.
LEMMA ProfileAt ==
  ASSUME Profiles!IInv, NEW p \in Process
  PROVE  /\ writes[p].at \in {"inspect", "params", "restart"} => writes[p].op \in {"refresh", "start"}
         /\ writes[p].at = "probe" => writes[p].op = "refresh"
         /\ writes[p].at = "sync" => writes[p].op \in {"refresh", "dns"}
         /\ writes[p].at = "remove" => writes[p].op \in Profiles!Recreating
         /\ writes[p].at = "create" => writes[p].op \in Profiles!Recreating \cup {"refresh", "start"}
<1>1. writes[p].at \in Profiles!Steps(writes[p].op) /\ writes[p].op \in Profiles!Op
  BY ProfileRequest DEF Profiles!IInv, Profiles!Fits
<1> QED
  BY <1>1 DEF Profiles!Steps, Profiles!Op, Profiles!Recreating

LEMMA ProfileSteps ==
  /\ {"params", "restart", "probe", "create"} \subseteq Profiles!Steps("refresh")
  /\ {"params", "restart", "create"} \subseteq Profiles!Steps("start")
  /\ \A op \in Profiles!Recreating : "create" \in Profiles!Steps(op)
  /\ "write" \in Profiles!Steps("refresh")
BY DEF Profiles!Steps, Profiles!Recreating

LEMMA ProfileContainer ==
  ASSUME Profiles!IInv
  PROVE  /\ browser \in Profiles!Browser /\ browser.at \in {"none", "running", "exited"}
         /\ browser.at = "none" => browser = Profiles!NoContainer
         /\ browser.at # "none" =>
              \A at \in {"running", "exited"}, files \in {"made", "synced"} :
                LET b == [browser EXCEPT !.at = at, !.files = files]
                IN  b \in Profiles!Browser /\ b.made = browser.made /\ b.exit = browser.exit /\ b.at = at
<1>1. browser \in Profiles!Browser /\ Profiles!NoContainer.at = "none"
  BY DEF Profiles!IInv, Profiles!TypeOK, Profiles!NoContainer
<1>2. CASE browser = Profiles!NoContainer
  BY <1>1, <1>2
<1>3. CASE browser # Profiles!NoContainer
  <2>1. browser \in [at : {"running", "exited"}, made : Profiles!Copies, files : {"made", "synced"},
                     exit : Profiles!Exit]
    BY <1>1, <1>3 DEF Profiles!Browser
  <2>2. ASSUME NEW at \in {"running", "exited"}, NEW files \in {"made", "synced"}
        PROVE  LET b == [browser EXCEPT !.at = at, !.files = files]
               IN  b \in Profiles!Browser /\ b.made = browser.made /\ b.exit = browser.exit /\ b.at = at
    BY <2>1 DEF Profiles!Browser
  <2> QED
    BY <1>1, <1>3, <2>1, <2>2
<1> QED
  BY <1>2, <1>3

LEMMA ProfileSync == ASSUME Profiles!IInv, NEW p \in Process, Profiles!Sync(p) PROVE Profiles!IInv'
<1>1. writes[p].op \in {"refresh", "dns"} /\ UNCHANGED fingerprint /\ Profiles!Ends(p, {})
  BY ProfileAt DEF Profiles!Sync, Profiles!At
<1>2. CASE UNCHANGED browser
  BY <1>1, <1>2, ProfileContainer, ProfileLeaves DEF Profiles!Recreating
<1>3. CASE browser.at = "running" /\ browser' = [browser EXCEPT !.files = "synced"]
  <2>1. browser' = [browser EXCEPT !.at = "running", !.files = "synced"]
    <3>1. browser \in [at : {"running", "exited"}, made : Profiles!Copies, files : {"made", "synced"},
                       exit : Profiles!Exit]
      BY <1>3, ProfileContainer DEF Profiles!Browser, Profiles!NoContainer
    <3> QED
      BY <1>3, <3>1
  <2>2. /\ browser' \in Profiles!Browser /\ browser'.made = browser.made /\ browser'.exit = browser.exit
        /\ browser.at # "none"
    BY <1>3, <2>1, ProfileContainer
  <2> QED
    BY <1>1, <2>2, ProfileLeaves DEF Profiles!Recreating
<1> QED
  BY <1>2, <1>3 DEF Profiles!Sync

LEMMA ProfileInspect == ASSUME Profiles!IInv, NEW p \in Process, Profiles!Inspect(p) PROVE Profiles!IInv'
<1>1. /\ writes[p].op \in {"refresh", "start"} /\ writes[p].at = "inspect"
      /\ UNCHANGED <<fingerprint, browser>>
  BY ProfileAt DEF Profiles!Inspect, Profiles!At
<1>2. \/ \E place \in {"params", "restart"} : Profiles!Goes(p, place) /\ UNCHANGED sound
      \/ writes[p].op = "refresh" /\ Profiles!Goes(p, "probe") /\ UNCHANGED sound
      \/ Profiles!Ends(p, {})
  BY ProfileContainer DEF Profiles!Inspect
<1>3. CASE Profiles!Ends(p, {})
  BY <1>1, <1>3, ProfileContainer, ProfileLeaves DEF Profiles!Recreating
<1>4. CASE \E place \in {"params", "restart"} : Profiles!Goes(p, place) /\ UNCHANGED sound
  BY <1>1, <1>4, ProfileContainer, ProfileGoes, ProfileSteps
<1>5. CASE writes[p].op = "refresh" /\ Profiles!Goes(p, "probe") /\ UNCHANGED sound
  BY <1>1, <1>5, ProfileContainer, ProfileGoes, ProfileSteps
<1> QED
  BY <1>2, <1>3, <1>4, <1>5

LEMMA ProfileRestart == ASSUME Profiles!IInv, NEW p \in Process, Profiles!Restart(p) PROVE Profiles!IInv'
<1>1. writes[p].op \in {"refresh", "start"} /\ writes[p].at = "restart"
  BY ProfileAt DEF Profiles!Restart, Profiles!At
<1>2. CASE browser.at = "none"
  BY <1>2, ProfileAbandon DEF Profiles!Restart
<1>3. CASE browser.at # "none"
  <2> DEFINE files == IF browser.at = "exited" THEN "made" ELSE browser.files
  <2>1. files \in {"made", "synced"}
    BY <1>3, ProfileContainer DEF Profiles!Browser, Profiles!NoContainer
  <2>2. UNCHANGED fingerprint /\ browser' = [browser EXCEPT !.at = "running", !.files = files]
    BY <1>3 DEF Profiles!Restart
  <2> HIDE DEF files
  <2>3. browser' \in Profiles!Browser /\ browser'.made = browser.made /\ browser'.exit = browser.exit
    BY <1>3, <2>1, <2>2, ProfileContainer
  <2>4. CASE writes[p].op = "refresh" /\ Profiles!Goes(p, "probe") /\ UNCHANGED sound
    BY <1>1, <1>3, <2>2, <2>3, <2>4, ProfileGoes, ProfileSteps
  <2>5. CASE Profiles!Ends(p, {})
    BY <1>1, <1>3, <2>2, <2>3, <2>5, ProfileLeaves DEF Profiles!Recreating
  <2> QED
    BY <1>3, <2>4, <2>5 DEF Profiles!Restart
<1> QED
  BY <1>2, <1>3

LEMMA ProfileParams == ASSUME Profiles!IInv, NEW p \in Process, Profiles!Params(p) PROVE Profiles!IInv'
<1> DEFINE r == [writes[p] EXCEPT !.at = "create", !.made = Profiles!Copy(fingerprint.profile)]
<1>1. /\ writes[p].op \in {"refresh", "start"} /\ writes[p].at = "params"
      /\ UNCHANGED <<fingerprint, browser, sound>> /\ writes' = [writes EXCEPT ![p] = r]
      /\ writes[p] \in Profiles!Request /\ writes'[p] = r
  BY ProfileAt, ProfileRequest DEF Profiles!Params, Profiles!At, Profiles!IInv, Profiles!TypeOK
<1>2. Profiles!Copy(fingerprint.profile) \in Profiles!Copies
  BY DEF Profiles!IInv, Profiles!TypeOK, Profiles!Row, Profiles!Copies
<1>3. /\ r \in Profiles!Request /\ r.op = writes[p].op /\ r.alone = writes[p].alone /\ r.at = "create"
      /\ r.profile = writes[p].profile /\ r.made = Profiles!Copy(fingerprint.profile)
  BY <1>1, <1>2 DEF Profiles!Request, Profiles!Place
<1> HIDE DEF r
<1>4. Profiles!Fits(p)
  BY DEF Profiles!IInv
<1>5. r.at \in Profiles!Steps(r.op)
  BY <1>1, <1>3, ProfileSteps
<1>6. Profiles!Fits(p)'
  BY <1>1, <1>2, <1>3, <1>4, <1>5
    DEF Profiles!Fits, Profiles!HasRead, Profiles!Makes, Profiles!ReadIsRow, Profiles!MadeFromRow, Profiles!At
<1> QED
  BY <1>1, <1>3, <1>6, ProfileContainer, ProfileMoves DEF Profiles!Recreating

\* What a probe sees it sees through the exit of the container.
LEMMA ProfileProbe == ASSUME Profiles!IInv, NEW p \in Process, Profiles!Probe(p) PROVE Profiles!IInv'
<1>1. PICK seen \in {Profiles!Nothing} \cup (IF browser.at = "running" THEN {browser.exit} ELSE {}) :
        writes' = [writes EXCEPT ![p].at = "write", ![p].profile.observed = seen, ![p].made = Profiles!NoCopy]
  BY DEF Profiles!Probe, Profiles!Answers
<1> DEFINE new == [writes[p].profile EXCEPT !.observed = seen]
           r == [writes[p] EXCEPT !.at = "write", !.profile = new, !.made = Profiles!NoCopy]
<1>2. /\ writes[p].op = "refresh" /\ writes[p].at = "probe" /\ writes[p] \in Profiles!Request
      /\ UNCHANGED <<fingerprint, browser, sound>> /\ writes' = [writes EXCEPT ![p] = r] /\ writes'[p] = r
  <2>1. writes \in [Process -> Profiles!Request] /\ writes[p] \in Profiles!Request
    BY ProfileRequest DEF Profiles!IInv, Profiles!TypeOK
  <2>2. /\ writes[p].op = "refresh" /\ writes[p].at = "probe"
        /\ UNCHANGED <<fingerprint, browser, sound>>
    BY ProfileAt DEF Profiles!Probe, Profiles!At
  <2>3. writes' = [writes EXCEPT ![p] = r]
    BY <1>1, <2>1
  <2> HIDE DEF r
  <2> QED
    BY <2>1, <2>2, <2>3
<1>3. seen \in Profiles!Exit \cup {Profiles!Nothing}
  BY ProfileContainer DEF Profiles!Browser
<1>4. Profiles!Fits(p) /\ Profiles!HasRead(p) /\ writes[p].profile \in Profiles!Fingerprint
  BY <1>2 DEF Profiles!IInv, Profiles!Fits, Profiles!HasRead, Profiles!At
<1>5. /\ new \in Profiles!Fingerprint /\ new.observed = seen
      /\ [new EXCEPT !.observed = Profiles!Nothing] = [writes[p].profile EXCEPT !.observed = Profiles!Nothing]
  BY <1>3, <1>4 DEF Profiles!Fingerprint, Profiles!Observation
<1> HIDE DEF new
<1>6. /\ r \in Profiles!Request /\ r.op = "refresh" /\ r.alone = writes[p].alone /\ r.at = "write"
      /\ r.profile = new
  BY <1>2, <1>5 DEF Profiles!Request, Profiles!Place
<1> HIDE DEF r
<1>7. "observation" \in sound => seen \in {Profiles!Nothing, fingerprint.exit}
  <2> SUFFICES ASSUME "observation" \in sound, browser.at = "running", seen = browser.exit
               PROVE  seen = fingerprint.exit
    OBVIOUS
  <2>1. Profiles!Matches
    BY <1>2, ProfileMatches DEF Profiles!IInv, Profiles!SoundMeans, Profiles!Recreating
  <2> QED
    BY <2>1 DEF Profiles!Matches
<1>8. sound # {} => [writes[p].profile EXCEPT !.observed = Profiles!Nothing]
                      = [fingerprint.profile EXCEPT !.observed = Profiles!Nothing]
  BY <1>2, <1>4 DEF Profiles!Fits, Profiles!ReadIsRow
<1>9. Profiles!Fits(p)'
  BY <1>2, <1>5, <1>6, <1>7, <1>8, ProfileSteps
    DEF Profiles!Fits, Profiles!HasRead, Profiles!Makes, Profiles!ReadIsRow, Profiles!MadeFromRow, Profiles!At
<1> QED
  BY <1>2, <1>6, <1>9, ProfileContainer, ProfileMoves DEF Profiles!Recreating

LEMMA ProfileRemove == ASSUME Profiles!IInv, NEW p \in Process, Profiles!Remove(p) PROVE Profiles!IInv'
<1> DEFINE r == [writes[p] EXCEPT !.at = "create"]
<1>1. /\ writes[p].op \in Profiles!Recreating /\ writes[p].at = "remove"
      /\ UNCHANGED <<fingerprint, sound>> /\ writes' = [writes EXCEPT ![p] = r]
      /\ writes[p] \in Profiles!Request /\ writes'[p] = r
      /\ browser' = Profiles!NoContainer
  BY ProfileAt, ProfileRequest
    DEF Profiles!Remove, Profiles!Goes, Profiles!At, Profiles!IInv, Profiles!TypeOK
<1>2. /\ r \in Profiles!Request /\ r.op = writes[p].op /\ r.alone = writes[p].alone /\ r.at = "create"
      /\ r.profile = writes[p].profile /\ r.made = writes[p].made
  BY <1>1 DEF Profiles!Request, Profiles!Place
<1> HIDE DEF r
<1>3. Profiles!Fits(p)
  BY DEF Profiles!IInv
<1>4. Profiles!Fits(p)'
  BY <1>1, <1>2, <1>3, ProfileSteps
    DEF Profiles!Fits, Profiles!HasRead, Profiles!Makes, Profiles!ReadIsRow, Profiles!MadeFromRow,
        Profiles!Undisturbed, Profiles!At, Profiles!Recreating
<1>5. browser' \in Profiles!Browser
  BY <1>1 DEF Profiles!Browser
<1> QED
  BY <1>1, <1>2, <1>4, <1>5, ProfileStep DEF Profiles!Recreating

\* The container of an undisturbed request is made from the row.
LEMMA ProfileCreate == ASSUME Profiles!IInv, NEW p \in Process, Profiles!Create(p) PROVE Profiles!IInv'
<1> DEFINE new == [at |-> "running", made |-> writes[p].made, files |-> "made", exit |-> fingerprint.exit]
<1>1. /\ writes[p].at = "create" /\ writes[p].op # "none" /\ Profiles!Makes(p)
      /\ writes[p] \in Profiles!Request /\ fingerprint \in Profiles!Row
  BY ProfileAt, ProfileRequest
    DEF Profiles!Create, Profiles!At, Profiles!Makes, Profiles!IInv, Profiles!TypeOK, Profiles!Recreating
<1>2. CASE browser.at # "none"
  BY <1>2, ProfileAbandon DEF Profiles!Create
<1>3. CASE browser.at = "none"
  <2>1. UNCHANGED fingerprint /\ browser' = new
    BY <1>3 DEF Profiles!Create
  <2>2. browser' \in Profiles!Browser
    BY <1>1, <2>1 DEF Profiles!IInv, Profiles!Fits, Profiles!Browser, Profiles!Row
  <2>3. Profiles!MadeFromRow(p)
    BY DEF Profiles!IInv, Profiles!Fits
  <2>4. Profiles!Undisturbed(p) => Profiles!Matches'
    BY <1>1, <2>1, <2>3 DEF Profiles!Matches, Profiles!MadeFromRow, Profiles!Copy
  <2>5. "container" \in sound => Profiles!Matches'
    BY <1>1, <2>4 DEF Profiles!Undisturbed
  <2>6. CASE writes[p].op = "refresh"
    <3> DEFINE r == [writes[p] EXCEPT !.at = "probe"]
    <3>1. UNCHANGED sound /\ writes' = [writes EXCEPT ![p] = r] /\ writes'[p] = r
      BY <1>3, <2>6 DEF Profiles!Create, Profiles!Goes, Profiles!IInv, Profiles!TypeOK
    <3>2. /\ r \in Profiles!Request /\ r.op = writes[p].op /\ r.alone = writes[p].alone /\ r.at = "probe"
          /\ r.profile = writes[p].profile
      BY <1>1 DEF Profiles!Request, Profiles!Place
    <3> HIDE DEF r
    <3>3. Profiles!Fits(p)
      BY DEF Profiles!IInv
    <3>4. Profiles!Fits(p)'
      BY <1>1, <2>1, <2>6, <3>1, <3>2, <3>3, ProfileSteps
        DEF Profiles!Fits, Profiles!HasRead, Profiles!Makes, Profiles!ReadIsRow, Profiles!MadeFromRow, Profiles!At
    <3> QED
      BY <1>1, <2>1, <2>2, <2>5, <3>1, <3>2, <3>4, ProfileStep
  <2>7. CASE writes[p].op # "refresh"
    <3> DEFINE anew == IF writes[p].op \in {"egress", "regenerate"} THEN {"container", "observation"}
                       ELSE {"container"}
    <3>1. /\ writes' = [writes EXCEPT ![p] = Profiles!Idle]
          /\ sound' = IF writes[p].alone THEN sound \cup anew ELSE sound
      BY <1>3, <2>7 DEF Profiles!Create, Profiles!Ends
    <3>2. CASE writes[p].alone
      <4>1. Profiles!Undisturbed(p)
        BY <1>1, <3>2 DEF Profiles!Undisturbed
      <4>2. "observation" \in anew => fingerprint.profile.observed = Profiles!Nothing
        BY <1>1, <2>3, <4>1 DEF Profiles!MadeFromRow
      <4>3. anew \in {{"container"}, {"container", "observation"}} /\ sound' = sound \cup anew
        BY <3>1, <3>2
      <4> HIDE DEF anew
      <4> QED
        BY <2>1, <2>2, <2>4, <3>1, <4>1, <4>2, <4>3, ProfileAnew
    <3>3. CASE ~writes[p].alone
      <4>1. UNCHANGED sound
        BY <3>1, <3>3
      <4>2. writes'[p] = Profiles!Idle
        BY <3>1 DEF Profiles!IInv, Profiles!TypeOK
      <4>3. Profiles!Fits(p)'
        BY <4>2, ProfileIdle, ProfileEnded
      <4> QED
        BY <1>1, <2>1, <2>2, <2>5, <3>1, <4>1, <4>3, ProfileIdle, ProfileStep
    <3> QED
      BY <3>2, <3>3
  <2> QED
    BY <2>6, <2>7
<1> QED
  BY <1>2, <1>3

\* The container stops, or its browser starts again.
LEMMA ProfileOutside ==
  ASSUME Profiles!IInv, Profiles!Stops \/ Profiles!BrowserRestarts PROVE Profiles!IInv'
<1>1. UNCHANGED <<fingerprint, writes, sound>> /\ browser.at # "none"
  BY DEF Profiles!Stops, Profiles!BrowserRestarts
<1>2. /\ browser \in [at : {"running", "exited"}, made : Profiles!Copies, files : {"made", "synced"},
                      exit : Profiles!Exit]
  BY <1>1, ProfileContainer DEF Profiles!Browser, Profiles!NoContainer
<1>3. browser' \in Profiles!Browser /\ browser'.made = browser.made /\ browser'.exit = browser.exit
  BY <1>2 DEF Profiles!Stops, Profiles!BrowserRestarts, Profiles!Browser
<1>4. Profiles!TypeOK'
  BY <1>1, <1>3 DEF Profiles!IInv, Profiles!TypeOK
<1>5. Profiles!SoundMeans' /\ Profiles!Observed'
  BY <1>1 DEF Profiles!IInv, Profiles!SoundMeans, Profiles!Undisturbed, Profiles!Observed
<1>6. \A q \in Process : Profiles!Fits(q)'
  BY <1>1 DEF Profiles!IInv, Profiles!Fits, Profiles!HasRead, Profiles!Makes, Profiles!ReadIsRow,
    Profiles!MadeFromRow, Profiles!Undisturbed, Profiles!At
<1>7. Profiles!Repaired'
  BY <1>1, <1>3 DEF Profiles!IInv, Profiles!Repaired, Profiles!There, Profiles!Matches
<1> QED
  BY <1>4, <1>5, <1>6, <1>7 DEF Profiles!IInv
-----------------------------------------------------------------------------
LEMMA ProfileInit == ASSUME Profiles!Init PROVE Profiles!IInv
<1>1. \A p \in Process : writes[p] = Profiles!Idle
  BY DEF Profiles!Init
<1>2. PICK i \in Identity, e \in Profiles!Exit :
        fingerprint = [profile |-> [id |-> i, dns |-> "declared", observed |-> Profiles!Nothing, warned |-> FALSE],
                       exit |-> e]
  BY DEF Profiles!Init
<1>3. Profiles!TypeOK
  BY <1>2, ProfileIdle
    DEF Profiles!Init, Profiles!TypeOK, Profiles!Row, Profiles!Fingerprint, Profiles!Observation, Profiles!Dns, Profiles!Browser
<1>4. \A p \in Process : Profiles!Fits(p) /\ ~Profiles!Undisturbed(p)
  BY <1>1, ProfileIdle
    DEF Profiles!Steps, Profiles!Recreating, Profiles!HasRead, Profiles!Makes, Profiles!Undisturbed,
        Profiles!Fits, Profiles!ReadIsRow, Profiles!MadeFromRow, Profiles!At
<1>5. Profiles!SoundMeans
  BY <1>4 DEF Profiles!SoundMeans, Profiles!Init
<1>6. Profiles!Repaired /\ Profiles!Observed
  BY <1>2 DEF Profiles!Init, Profiles!Repaired, Profiles!Observed, Profiles!There, Profiles!NoContainer
<1> QED
  BY <1>3, <1>4, <1>5, <1>6 DEF Profiles!IInv

LEMMA ProfileNext == ASSUME Profiles!IInv, Profiles!Next PROVE Profiles!IInv'
<1>1. ASSUME NEW p \in Process, NEW op \in {"preset", "regenerate", "refresh", "dns", "start"},
             Profiles!Begin(p, op, Profiles!Direct)
      PROVE  Profiles!IInv'
  BY <1>1, ProfileBegin DEF Profiles!Op, Profiles!Recreating, Profiles!Exit
<1>2. ASSUME NEW p \in Process, NEW e \in Profiles!Exit, Profiles!Begin(p, "egress", e) PROVE Profiles!IInv'
  BY <1>2, ProfileBegin DEF Profiles!Op, Profiles!Recreating
<1> QED
  BY <1>1, <1>2, ProfileAbandon, ProfileWrites, ProfileSync, ProfileRemove, ProfileCreate, ProfileInspect,
     ProfileParams, ProfileRestart, ProfileProbe, ProfileOutside DEF Profiles!Next

\* While which is "profiles" the variables move as FingerprintProfiles says.
LEMMA ProfileInv == MCSpec => [](Only("profiles") => Profiles!IInv)
<1>1. MCInit => (Only("profiles") => Profiles!IInv)
  BY ProfileInit DEF MCInit, Only
<1>2. (Only("profiles") => Profiles!IInv) /\ [MCNext]_<<which, vars, Others>> => (Only("profiles") => Profiles!IInv)'
  <2> SUFFICES ASSUME Only("profiles") => Profiles!IInv, [MCNext]_<<which, vars, Others>>, Only("profiles")'
               PROVE  Profiles!IInv'
    OBVIOUS
  <2>1. Profiles!IInv
    BY DEF MCNext, Only
  <2>2. CASE Profiles!Next
    BY <2>1, <2>2, ProfileNext
  <2>3. CASE UNCHANGED Others
    BY <2>1, <2>3
      DEF Others, Profiles!IInv, Profiles!TypeOK, Profiles!SoundMeans, Profiles!Undisturbed, Profiles!Observed,
          Profiles!Repaired, Profiles!There, Profiles!Matches, Profiles!Fits, Profiles!HasRead, Profiles!Makes,
          Profiles!ReadIsRow, Profiles!MadeFromRow, Profiles!At
  <2> QED
    BY <2>2, <2>3 DEF MCNext, Only
<1> QED
  BY <1>1, <1>2, PTL DEF MCSpec

\* A re-creation that no other request overlaps repairs what went wrong before it,
\* and what is shown as observed was observed through the session's exit
\* (change_device_preset, change_network_egress, regenerate_fingerprint,
\* refresh_network_profile).
THEOREM ProfilesAgree == MCSpec => []ProfileHolds
<1>1. (Only("profiles") => Profiles!IInv) => ProfileHolds
  <2> SUFFICES ASSUME Profiles!IInv PROVE Profiles!ProfileHolds
    BY DEF ProfileHolds
  <2>1. Profiles!Quiet => \A p \in Process : writes[p].op \notin Profiles!Recreating
    BY DEF Profiles!Quiet, Profiles!Recreating
  <2>2. Profiles!RecreationRepairs
    BY <2>1 DEF Profiles!IInv, Profiles!Repaired, Profiles!RecreationRepairs, Profiles!Matches
  <2>3. Profiles!ObservedThroughItsExit
    BY DEF Profiles!IInv, Profiles!Observed, Profiles!ObservedThroughItsExit
  <2> QED
    BY <2>2, <2>3 DEF Profiles!ProfileHolds
<1> QED
  BY <1>1, ProfileInv, PTL
=============================================================================
