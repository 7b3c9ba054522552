------------------------------- MODULE Accounts -------------------------------
(***************************************************************************)
(* auth/routes.py, auth/dependencies.py and routes/users.py: how tenants   *)
(* and users come to be, are changed and go.  A request reads who asks,    *)
(* then what it is about, then writes, each a statement of its own that    *)
(* others come in between; it may stop after any of them.                  *)
(*                                                                         *)
(* A tenant is its slug, which is unique.  Abstracted: names, passwords    *)
(* and what only they change; the rate limit of registration; of a user's  *)
(* api_tokens, whether there are any.                                      *)
(***************************************************************************)
EXTENDS Naturals

CONSTANTS
  Process,
  MaxUser,    \* bound: users there ever are
  Slug,
  Email

VARIABLES
  tenants,
  user,       \* users, by id
  tokens,     \* users with api_tokens
  orphans,    \* there are sessions without a tenant, from before there were tenants
  request,
  overlapped  \* history: there have been two requests at a time

rows == <<tenants, user, tokens, orphans>>
vars == <<rows, request, overlapped>>

User == 1 .. MaxUser  \* in the order of their rows

NoUser == [tenant |-> "none", email |-> "none", role |-> "none", active |-> FALSE]
Deleted == [NoUser EXCEPT !.role = "deleted"]
Idle == [op |-> "none", at |-> "idle"]

IsNext(u) == user[u] = NoUser /\ \A v \in 1 .. u - 1 : user[v] # NoUser
There(u) == user[u] \notin {NoUser, Deleted}
InTenant(s) == {u \in User : There(u) /\ user[u].tenant = s}

Init ==
  /\ tenants = {} /\ user = [u \in User |-> NoUser] /\ tokens = {} /\ orphans = TRUE
  /\ request = [p \in Process |-> Idle] /\ overlapped = FALSE
-----------------------------------------------------------------------------
Begins(p, r) ==
  /\ request[p] = Idle
  /\ request' = [request EXCEPT ![p] = r]
  /\ overlapped' = (overlapped \/ \E q \in Process : request[q] # Idle)
  /\ UNCHANGED rows

Ends(p) == request' = [request EXCEPT ![p] = Idle]
Goes(p, to) == request' = [request EXCEPT ![p].at = to]
At(p, ops, at) == request[p].op \in ops /\ request[p].at = at /\ UNCHANGED overlapped

\* setup: refused once there are users; its slug is its name's.
BeginSetup(p) ==
  /\ \A u \in User : ~There(u)
  /\ \E s \in Slug, e \in Email : Begins(p, [op |-> "setup", at |-> "tenant", slug |-> s, email |-> e])

\* Mutant of Taken: only the users of a tenant count.
TakenAmong(e) == \A s \in Slug : \E u \in InTenant(s) : user[u].email = e

Taken(e) == \E u \in User : There(u) /\ user[u].email = e

BeginRegister(p) ==
  \E e \in Email : ~Taken(e) /\ Begins(p, [op |-> "register", at |-> "slug", email |-> e])

\* _unique_tenant_slug.
FindSlug(p) ==
  /\ At(p, {"register"}, "slug")
  /\ \E s \in Slug \ tenants :
       request' = [request EXCEPT ![p] = [op |-> "register", at |-> "tenant", slug |-> s, email |-> @.email]]
  /\ UNCHANGED rows

\* A slug that is there already is refused by the database.
InsertTenant(p) ==
  /\ At(p, {"setup", "register"}, "tenant")
  /\ IF request[p].slug \in tenants
     THEN Ends(p) /\ UNCHANGED tenants
     ELSE Goes(p, "user") /\ tenants' = tenants \cup {request[p].slug}
  /\ UNCHANGED <<user, tokens, orphans>>

Row(r) == [tenant |-> r.slug, email |-> r.email, role |-> IF r.op = "invite" THEN r.role ELSE "superadmin", active |-> TRUE]

\* So is an address that the tenant has already.
InsertUser(p) ==
  LET r == request[p] IN
  /\ At(p, {"setup", "register", "invite"}, "user")
  /\ IF \E u \in InTenant(r.slug) : user[u].email = r.email
     THEN UNCHANGED user
     ELSE \E u \in User : IsNext(u) /\ user' = [user EXCEPT ![u] = Row(r)]
  /\ IF r.op = "setup" THEN Goes(p, "adopt") ELSE Ends(p)
  /\ UNCHANGED <<tenants, tokens, orphans>>

\* The sessions without a tenant become the new tenant's.
Adopt(p) ==
  /\ At(p, {"setup"}, "adopt") /\ Ends(p)
  /\ orphans' = FALSE /\ UNCHANGED <<tenants, user, tokens>>
-----------------------------------------------------------------------------
\* get_current_user and require_role: the caller as its row is now, which the
\* request goes on with.
Caller(u, roles) == There(u) /\ user[u].active /\ user[u].role \in roles
Admins == {"superadmin", "admin"}

\* create_user, after its check of the address.
BeginInvite(p) ==
  \E u \in User, e \in Email, role \in {"admin", "member"} :
    /\ Caller(u, IF role = "admin" THEN {"superadmin"} ELSE Admins)
    /\ \A v \in InTenant(user[u].tenant) : user[v].email # e
    /\ Begins(p, [op |-> "invite", at |-> "user", slug |-> user[u].tenant, email |-> e, role |-> role])

BeginChange(p) ==
  \E u \in User, change \in {"member", "admin", "disable", "enable"}, whom \in User :
    /\ Caller(u, Admins)
    /\ Begins(p, [op |-> change, at |-> "select", slug |-> user[u].tenant, whom |-> whom])

BeginDelete(p) ==
  \E u \in User, whom \in User :
    /\ Caller(u, {"superadmin"})
    /\ Begins(p, [op |-> "delete", at |-> "select", slug |-> user[u].tenant, whom |-> whom])

Changes == {"member", "admin", "disable", "enable"}

\* Mutant of Protected: a superadmin may be disabled.
ProtectedRow(v, op) == user[v].role = "superadmin" /\ op # "disable"

\* The checks of update_user and of delete_user: a superadmin keeps its role,
\* its access and its row.  (Who deletes is one, and keeps its own.)
Protected(v, op) == user[v].role = "superadmin"

\* The target's row is read and checked.
SelectTarget(p) ==
  LET r == request[p] IN
  /\ At(p, Changes \cup {"delete"}, "select")
  /\ IF There(r.whom) /\ user[r.whom].tenant = r.slug /\ ~Protected(r.whom, r.op)
     THEN Goes(p, IF r.op = "delete" THEN "tokens" ELSE "write")
     ELSE Ends(p)
  /\ UNCHANGED rows

\* update_user's UPDATE, of a row that may have gone.
Write(p) ==
  LET r == request[p] IN
  /\ At(p, Changes, "write") /\ Ends(p)
  /\ user' = IF ~There(r.whom) THEN user
             ELSE [user EXCEPT ![r.whom] =
                     CASE r.op = "disable" -> [@ EXCEPT !.active = FALSE]
                       [] r.op = "enable"  -> [@ EXCEPT !.active = TRUE]
                       [] OTHER            -> [@ EXCEPT !.role = r.op]]
  /\ UNCHANGED <<tenants, tokens, orphans>>

DeleteTokens(p) ==
  /\ At(p, {"delete"}, "tokens") /\ Goes(p, "row")
  /\ tokens' = tokens \ {request[p].whom} /\ UNCHANGED <<tenants, user, orphans>>

\* A user with api_tokens again is kept by the database, and the request fails.
DeleteRow(p) ==
  /\ At(p, {"delete"}, "row") /\ Ends(p)
  /\ user' = IF request[p].whom \in tokens THEN user ELSE [user EXCEPT ![request[p].whom] = IF There(request[p].whom) THEN Deleted ELSE @]
  /\ UNCHANGED <<tenants, tokens, orphans>>

\* create_api_token.
BeginToken(p) ==
  \E u \in User \ tokens :
    /\ Caller(u, Admins \cup {"member"})
    /\ Begins(p, [op |-> "token", at |-> "write", whom |-> u])

InsertToken(p) ==
  /\ At(p, {"token"}, "write") /\ Ends(p)
  /\ tokens' = tokens \cup {u \in {request[p].whom} : There(u)} /\ UNCHANGED <<tenants, user, orphans>>

\* revoke_api_token, of a user's last one; what it does is one statement.
RevokeToken(u) ==
  /\ u \in tokens /\ Caller(u, Admins \cup {"member"})
  /\ tokens' = tokens \ {u}
  /\ UNCHANGED <<tenants, user, orphans, request, overlapped>>

\* The backend stops, or a statement fails.
Fails(p) ==
  /\ request[p] # Idle
  /\ Ends(p) /\ UNCHANGED <<rows, overlapped>>

Next ==
  \/ \E u \in User : RevokeToken(u)
  \/ \E p \in Process :
    \/ BeginSetup(p) \/ BeginRegister(p) \/ FindSlug(p) \/ InsertTenant(p) \/ InsertUser(p) \/ Adopt(p)
    \/ BeginInvite(p) \/ BeginChange(p) \/ BeginDelete(p) \/ SelectTarget(p) \/ Write(p)
    \/ DeleteTokens(p) \/ DeleteRow(p) \/ BeginToken(p) \/ InsertToken(p) \/ Fails(p)

Spec == Init /\ [][Next]_vars
-----------------------------------------------------------------------------
\* A tenant that has users has a superadmin who can sign in: whatever requests
\* change, disable and delete users between each other's statements.
Administered ==
  \A s \in Slug : InTenant(s) # {} =>
    \E u \in InTenant(s) : user[u].role = "superadmin" /\ user[u].active

\* An address registers one tenant, unless two requests came at once: one who
\* was invited, or has registered before, is refused.
RegisteredOnce ==
  LET superadmins == {u \in User : user[u].role = "superadmin"} IN
  ~overlapped => \A u, v \in superadmins : user[u].email = user[v].email => u = v
-----------------------------------------------------------------------------
(* The inductive invariant.                                                *)

Requests ==
  {Idle}
    \cup [op : {"setup"}, at : {"tenant", "user", "adopt"}, slug : Slug, email : Email]
    \cup [op : {"register"}, at : {"slug"}, email : Email]
    \cup [op : {"register"}, at : {"tenant", "user"}, slug : Slug, email : Email]
    \cup [op : {"invite"}, at : {"user"}, slug : Slug, email : Email, role : {"admin", "member"}]
    \cup [op : Changes, at : {"select", "write"}, slug : Slug, whom : User]
    \cup [op : {"delete"}, at : {"select", "tokens", "row"}, slug : Slug, whom : User]
    \cup [op : {"token"}, at : {"write"}, whom : User]

UserRow ==
  {NoUser, Deleted}
    \cup [tenant : Slug, email : Email, role : {"superadmin", "admin", "member"}, active : BOOLEAN]

TypeOK ==
  /\ tenants \subseteq Slug
  /\ user \in [User -> UserRow]
  /\ tokens \subseteq User
  /\ orphans \in BOOLEAN
  /\ request \in [Process -> Requests]
  /\ overlapped \in BOOLEAN

\* Whom a change or a deletion has checked is no superadmin, nor becomes one; who
\* invites belongs to a tenant that has one, and so will who is invited.
Checked(p) ==
  /\ request[p].op \in Changes \cup {"delete"} /\ request[p].at # "select" =>
       user[request[p].whom] # NoUser /\ user[request[p].whom].role # "superadmin"
  /\ request[p].op = "invite" =>
       \E u \in InTenant(request[p].slug) : user[u].role = "superadmin" /\ user[u].active

\* Of one request at a time, what it has read is still so.
Alone(p) ==
  /\ \A q \in Process : request[p] # Idle /\ request[q] # Idle => p = q
  /\ request[p].op = "register" => ~Taken(request[p].email)
  /\ request[p].op = "setup" /\ request[p].at # "adopt" => \A u \in User : ~There(u)

IInv ==
  /\ TypeOK
  /\ \A p \in Process : Checked(p)
  /\ Administered
  /\ ~overlapped => \A p \in Process : Alone(p)
  /\ RegisteredOnce
=============================================================================
