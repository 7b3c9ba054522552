---------------------------- MODULE RememberTokens ----------------------------
(***************************************************************************)
(* auth/routes.py: signing in, the remember token that is replaced each    *)
(* time it is used, and signing out.                                       *)
(*                                                                         *)
(* The tabs of one browser share the cookie that holds the token.  Their   *)
(* calls, and those of one tab, which signs out without waiting for its    *)
(* refresh (useAuth.ts), interleave between their statements.  Abstracted: *)
(* passwords, the access tokens, which no row records, which tab a call    *)
(* comes from, and every user but one.                                     *)
(***************************************************************************)
EXTENDS Naturals, Sequences

CONSTANTS
  Call,       \* calls of the browser's tabs at a time
  Days,       \* REMEMBER_ME_DAYS, in the clock's unit
  MaxClock,
  MaxRows,    \* tokens ever made
  MaxFaults   \* requests that fail half-way, and times the user is disabled or enabled

VARIABLES
  rows,       \* remember_tokens, in the order they are made
  active,     \* users.is_active
  clock,
  cookie,     \* the row of the token in the cookie, or 0
  request,
  faults,
  began,      \* history: the time of each login
  overlapped, \* history: logins with two requests at a time
  failed,     \* history: logins with a request that failed half-way
  ended       \* history: logins that were signed out, or whose user was disabled

history == <<began, overlapped, failed, ended>>
vars == <<rows, active, clock, cookie, request, faults, history>>

Idle == [op |-> "none", at |-> "idle", row |-> 0]

Init ==
  /\ rows = <<>> /\ active = TRUE /\ clock = 0 /\ cookie = 0
  /\ request = [t \in Call |-> Idle] /\ faults = 0
  /\ began = <<>> /\ overlapped = {} /\ failed = {} /\ ended = {}

Logins == DOMAIN began
LoginOf(i) == IF i = 0 THEN 0 ELSE rows[i].login
UnderWay == {t \in Call : request[t].op # "none"}
Usable(i) == ~rows[i].revoked /\ rows[i].expires > clock /\ active
-----------------------------------------------------------------------------
Sends(t, op, at, row) ==
  /\ request[t].op = "none"
  /\ request' = [request EXCEPT ![t] = [op |-> op, at |-> at, row |-> row]]
  /\ overlapped' = IF UnderWay = {} THEN overlapped
                   ELSE overlapped \cup {LoginOf(request[u].row) : u \in UnderWay} \cup {LoginOf(row)}

Goes(t, from, to, row) ==
  /\ request[t].at = from
  /\ request' = [request EXCEPT ![t].at = to, ![t].row = row]
  /\ UNCHANGED overlapped

\* login with rememberMe; the user's row is read, and is active.
Login(t) ==
  /\ active /\ Sends(t, "login", "insert", 0)
  /\ UNCHANGED <<rows, active, clock, cookie, faults, began, failed, ended>>

\* refreshAuth: a tab that is opened, or whose access token has expired.
SendRefresh(t) ==
  /\ cookie # 0 /\ Sends(t, "refresh", "select", cookie)
  /\ UNCHANGED <<rows, active, clock, cookie, faults, began, failed, ended>>

Select(t) ==
  /\ Goes(t, "select", IF Usable(request[t].row) THEN "revoke" ELSE "refused", request[t].row)
  /\ UNCHANGED <<rows, active, clock, cookie, faults, began, failed, ended>>

Revoked(i) == [rows EXCEPT ![i].revoked = TRUE]

Revoke(t) ==
  /\ Goes(t, "revoke", "insert", request[t].row)
  /\ rows' = Revoked(request[t].row)
  /\ UNCHANGED <<active, clock, cookie, faults, began, failed, ended>>

\* Mutant of Expiry: each token has its own deadline.
ExpiryAnew(i) == clock + Days

\* A token that replaces another keeps its deadline.
Expiry(i) == IF i = 0 THEN clock + Days ELSE rows[i].expires

\* _create_remember_token.
Insert(t) ==
  LET i == request[t].row
      login == IF i = 0 THEN Len(began) + 1 ELSE rows[i].login
  IN /\ Len(rows) < MaxRows
     /\ Goes(t, "insert", "reply", Len(rows) + 1)
     /\ rows' = Append(rows, [login |-> login, expires |-> Expiry(i), revoked |-> FALSE])
     /\ began' = IF i = 0 THEN Append(began, clock) ELSE began
     /\ ended' = IF active THEN ended ELSE ended \cup {login}
     /\ UNCHANGED <<active, clock, cookie, faults, failed>>

\* The cookie an answer leaves.  That of a refusal leaves it alone: the header
\* is set on a response that the HTTPException replaces.
Cookie(t) ==
  CASE request[t].at = "refused" -> cookie
    [] request[t].op = "logout" -> 0
    [] OTHER -> request[t].row

Answer(t) ==
  /\ request[t].at \in {"reply", "refused"}
  /\ request' = [request EXCEPT ![t] = Idle]
  /\ cookie' = Cookie(t)
  /\ UNCHANGED <<rows, active, clock, faults, history>>

\* The tab has forgotten its user, and goes on with any refresh it has under way.
SendLogout(t) ==
  /\ Sends(t, "logout", "update", cookie)
  /\ UNCHANGED <<rows, active, clock, cookie, faults, began, failed, ended>>

LoggedOut(i) == IF i = 0 THEN rows ELSE [rows EXCEPT ![i].revoked = TRUE]

UpdateLogout(t) ==
  /\ Goes(t, "update", "reply", request[t].row)
  /\ rows' = LoggedOut(request[t].row)
  /\ ended' = ended \cup {LoginOf(request[t].row)}
  /\ UNCHANGED <<active, clock, cookie, faults, began, failed>>
-----------------------------------------------------------------------------
\* The backend stops, or the answer is lost.
Fails(t) ==
  /\ request[t].op # "none" /\ faults < MaxFaults
  /\ faults' = faults + 1
  /\ request' = [request EXCEPT ![t] = Idle]
  /\ failed' = failed \cup {LoginOf(request[t].row)}
  /\ UNCHANGED <<rows, active, clock, cookie, began, overlapped, ended>>

\* update_user, by an administrator.
SetActive ==
  /\ faults < MaxFaults /\ faults' = faults + 1
  /\ active' = ~active /\ ended' = ended \cup Logins
  /\ UNCHANGED <<rows, clock, cookie, request, began, overlapped, failed>>

Tick ==
  /\ clock < MaxClock /\ clock' = clock + 1
  /\ UNCHANGED <<rows, active, cookie, request, faults, history>>

Next ==
  \/ SetActive \/ Tick
  \/ \E t \in Call : \/ Login(t) \/ SendRefresh(t) \/ Select(t) \/ Revoke(t) \/ Insert(t) \/ Answer(t)
                    \/ SendLogout(t) \/ UpdateLogout(t) \/ Fails(t)

Spec == Init /\ [][Next]_vars
-----------------------------------------------------------------------------
Live(n) == {i \in DOMAIN rows : rows[i].login = n /\ ~rows[i].revoked}

\* However often it is replaced, one token of a login is good at a time, and it
\* ends when the login does; two refreshes at once may leave one each.
OneTokenPerLogin ==
  \A n \in Logins : /\ n \notin overlapped => \A i, j \in Live(n) : i = j
                    /\ \A i \in Live(n) : rows[i].expires <= began[n] + Days

\* A refresh is refused when the login is over, and for nothing else: its token
\* is not replaced behind the browser's back.
RefusedWithReason ==
  \A t \in Call : request[t].at = "refused" =>
    LET n == LoginOf(request[t].row)
    IN n \in overlapped \cup failed \cup ended \/ clock >= began[n] + Days

\* When a login is signed out and nothing else was under way, none of its
\* tokens is good.
LogoutEndsLogin ==
  \A t \in Call : request[t].op = "logout" /\ request[t].at = "reply" =>
    LET n == LoginOf(request[t].row)
    IN n \notin overlapped \cup failed => Live(n) = {}

\* What holds of the tokens of a login.
LoginsHold == OneTokenPerLogin /\ RefusedWithReason /\ LogoutEndsLogin

(* Why (the inductive invariant): a login that no two requests have met in has *)
(* at most one under way, which found in the cookie the one token it has.    *)
Request == [op : {"none", "login", "refresh", "logout"},
            at : {"idle", "select", "revoke", "refused", "insert", "update", "reply"}, row : Nat]

TypeOK ==
  /\ rows \in Seq([login : Nat, expires : Nat, revoked : BOOLEAN])
  /\ active \in BOOLEAN /\ clock \in Nat /\ cookie \in Nat /\ began \in Seq(Nat)
  /\ request \in [Call -> Request]

Steps(op) ==
  CASE op = "none"    -> {"idle"}
    [] op = "login"   -> {"insert", "reply"}
    [] op = "refresh" -> {"select", "revoke", "refused", "insert", "reply"}
    [] op = "logout"  -> {"update", "reply"}

\* A token is one of a login, and lasts as long.
OfLogin ==
  /\ cookie \in 0 .. Len(rows)
  /\ \A i \in 1 .. Len(rows) :
       rows[i].login \in 1 .. Len(began) /\ rows[i].expires = began[rows[i].login] + Days
  /\ \A t \in Call :
       /\ request[t].row \in 0 .. Len(rows) /\ request[t].at \in Steps(request[t].op)
       /\ request[t].op = "login" => (request[t].row = 0 <=> request[t].at = "insert")
       /\ request[t].op = "refresh" => request[t].row # 0
       /\ request[t].op = "none" => request[t].row = 0
  /\ ~active => \A n \in Logins : n \in ended

Has(t, n) == request[t].row # 0 /\ LoginOf(request[t].row) = n
Replaces(t) == request[t].op = "refresh" /\ request[t].at \in {"insert", "reply"}

\* t is the one request of login n, and what it has made of its tokens.
Sole(t, n) ==
  /\ request[t].op = "login" => (cookie = 0 \/ LoginOf(cookie) # n) /\ \A u \in Call : u # t => ~Has(u, n)
  /\ request[t].op # "login" => LoginOf(cookie) = n /\ \A u \in Call : u # t => request[u].op = "none"
  /\ request[t].at \in {"select", "revoke", "refused", "update"} => request[t].row = cookie
  /\ request[t].at = "revoke" => Live(n) \subseteq {cookie}
  /\ request[t].at = "insert" => Live(n) = {}
  /\ request[t].at = "reply" /\ request[t].op # "logout" =>
       ~rows[request[t].row].revoked /\ Live(n) \subseteq {request[t].row}
  /\ request[t].at = "reply" /\ request[t].op = "logout" /\ n \notin failed => Live(n) = {}
  /\ request[t].at = "refused" => n \in failed \cup ended \/ clock >= began[n] + Days

Alone(t) == \A n \in Logins \ overlapped : Has(t, n) => Sole(t, n)

\* The cookie has the token of login n, or a request is about to replace it.
Kept(n) ==
  \/ \E t \in Call : Has(t, n) /\ Replaces(t)
  \/ Live(n) \subseteq {cookie} /\ (rows[cookie].revoked => n \in ended)

InCookie ==
  \A n \in Logins \ (overlapped \cup failed) : cookie # 0 /\ LoginOf(cookie) = n => Kept(n)

OneEach == \A n \in Logins \ overlapped : \A i, j \in Live(n) : i = j

IInv == TypeOK /\ OfLogin /\ (\A t \in Call : Alone(t)) /\ InCookie /\ OneEach

\* A refresh that is refused leaves its token out of the cookie, unless another
\* call has put one there meanwhile.
RefusedClearsCookie ==
  [][\A t \in Call : request[t].at = "refused" /\ Answer(t) => cookie' # request[t].row]_vars
=============================================================================
