--------------------------- MODULE Accounts_proofs ---------------------------
(***************************************************************************)
(* Proofs about Accounts: a tenant with users has a superadmin who can     *)
(* sign in, and an address registers once, for any number of requests,     *)
(* users, tenants and addresses.                                           *)
(*                                                                         *)
(* The argument: a superadmin's row never changes (UserStep), because the  *)
(* check of a target is never stale: nobody who is not a superadmin        *)
(* becomes one, so whom SelectTarget let pass may be written and deleted   *)
(* however late (Checked).                                                 *)
(*                                                                         *)
(* After them proofs about RememberTokens, as the module they are checked  *)
(* in puts the two together.                                               *)
(***************************************************************************)
EXTENDS MCAccess, Sequences, SequenceTheorems, TLAPS

-----------------------------------------------------------------------------
(* Rows and requests.                                                      *)

\* A deleted row is neither one that is not there yet nor a superadmin's.
LEMMA DeletedRow == Deleted # NoUser /\ Deleted.role = "deleted"
  BY DEF Deleted, NoUser

LEMMA NoUserRow == NoUser.role = "none"
  BY DEF NoUser

\* What a user's row is.
LEMMA UserRowFacts ==
  ASSUME TypeOK, NEW u \in User
  PROVE  /\ There(u) => user[u] \in [tenant : Slug, email : Email,
                                     role : {"superadmin", "admin", "member"}, active : BOOLEAN]
         /\ user[u].role \in {"superadmin", "admin", "member"} => There(u)
  BY DeletedRow, NoUserRow DEF TypeOK, UserRow, There

\* A row that a request inserts.
LEMMA InsertedRow ==
  ASSUME TypeOK, NEW p \in Process, request[p].op \in {"setup", "register", "invite"},
         request[p].at = "user"
  PROVE  /\ Row(request[p]) \in [tenant : Slug, email : Email,
                                 role : {"superadmin", "admin", "member"}, active : BOOLEAN]
         /\ Row(request[p]).tenant = request[p].slug
         /\ Row(request[p]).email = request[p].email
         /\ request[p].op = "invite" => Row(request[p]).role # "superadmin"
         /\ request[p].op # "invite" => Row(request[p]).role = "superadmin" /\ Row(request[p]).active
<1>1. request[p] \in
        [op : {"setup"}, at : {"tenant", "user", "adopt"}, slug : Slug, email : Email]
          \cup [op : {"register"}, at : {"tenant", "user"}, slug : Slug, email : Email]
          \cup [op : {"invite"}, at : {"user"}, slug : Slug, email : Email, role : {"admin", "member"}]
  BY DEF TypeOK, Requests, Idle, Changes
<1> QED
  BY <1>1 DEF Row

LEMMA TargetType ==
  ASSUME TypeOK, NEW p \in Process, request[p].op \in Changes \cup {"delete"}
  PROVE  request[p].whom \in User /\ request[p].slug \in Slug
  BY DEF TypeOK, Requests, Idle, Changes

-----------------------------------------------------------------------------
(* What a step does to the users.                                          *)

\* The row of u is inserted by request p.
Inserts(p, u) ==
  /\ request[p].op \in {"setup", "register", "invite"} /\ request[p].at = "user"
  /\ user[u] = NoUser
  /\ user' = [user EXCEPT ![u] = Row(request[p])]
  /\ \A v \in InTenant(request[p].slug) : user[v].email # request[p].email

\* A step changes the rows of users by one of three statements, or not at all; that
\* of an UPDATE or a DELETE is the row of one who is no superadmin, and stays so.
UserUnchanged == user' = user
UserInserted == \E p \in Process, u \in User : Inserts(p, u)
UserWritten ==
  \E u \in User :
    /\ user[u] # NoUser /\ user[u].role # "superadmin"
    /\ \E row \in UserRow :
         /\ row # NoUser /\ row.role # "superadmin"
         /\ row # Deleted => row.email = user[u].email /\ row.tenant = user[u].tenant /\ There(u)
         /\ user' = [user EXCEPT ![u] = row]

LEMMA WriteEffect ==
  ASSUME IInv, NEW p \in Process, Write(p)
  PROVE  UserUnchanged \/ UserWritten
<1> DEFINE r == request[p]
           u == r.whom
<1>1. /\ r.op \in Changes /\ r.at = "write"
      /\ u \in User /\ user[u] # NoUser /\ user[u].role # "superadmin"
  <2>1. r.op \in Changes /\ r.at = "write"
    BY DEF Write, At
  <2> QED
    BY <2>1, TargetType DEF IInv, Checked
<1>2. CASE There(u)
  <2> DEFINE row == CASE r.op = "disable" -> [user[u] EXCEPT !.active = FALSE]
                      [] r.op = "enable"  -> [user[u] EXCEPT !.active = TRUE]
                      [] OTHER            -> [user[u] EXCEPT !.role = r.op]
  <2>1. user' = [user EXCEPT ![u] = row]
    BY <1>2 DEF Write
  <2>2. user[u] \in [tenant : Slug, email : Email, role : {"admin", "member"}, active : BOOLEAN]
    BY <1>1, <1>2, UserRowFacts DEF IInv
  <2>3. /\ row \in [tenant : Slug, email : Email, role : {"admin", "member"}, active : BOOLEAN]
        /\ row.email = user[u].email /\ row.tenant = user[u].tenant
    <3>1. CASE r.op = "disable"
      BY <2>2, <3>1
    <3>2. CASE r.op = "enable"
      BY <2>2, <3>2
    <3>3. CASE r.op \in {"admin", "member"}
      BY <2>2, <3>3
    <3> QED
      BY <1>1, <3>1, <3>2, <3>3 DEF Changes
  <2>4. row \in UserRow /\ row # NoUser /\ row.role # "superadmin"
    BY <2>3, NoUserRow DEF UserRow
  <2> HIDE DEF row
  <2> QED
    BY <1>1, <1>2, <2>1, <2>3, <2>4 DEF UserWritten
<1>3. CASE ~There(u)
  BY <1>3 DEF Write, UserUnchanged
<1> QED
  BY <1>2, <1>3

LEMMA DeleteEffect ==
  ASSUME IInv, NEW p \in Process, DeleteRow(p)
  PROVE  UserUnchanged \/ UserWritten
<1> DEFINE u == request[p].whom
<1>1. u \in User /\ user[u] # NoUser /\ user[u].role # "superadmin"
  <2>1. request[p].op = "delete" /\ request[p].at = "row"
    BY DEF DeleteRow, At
  <2> QED
    BY <2>1, TargetType DEF IInv, Checked
<1>2. CASE u \in tokens \/ ~There(u)
  BY <1>1, <1>2 DEF DeleteRow, UserUnchanged, IInv, TypeOK
<1>3. CASE u \notin tokens /\ There(u)
  <2>1. user' = [user EXCEPT ![u] = Deleted]
    BY <1>3 DEF DeleteRow
  <2>2. Deleted \in UserRow /\ Deleted # NoUser /\ Deleted.role # "superadmin"
    BY DeletedRow DEF UserRow
  <2> QED
    BY <1>1, <2>1, <2>2 DEF UserWritten
<1> QED
  BY <1>2, <1>3

LEMMA InsertEffect ==
  ASSUME NEW p \in Process, InsertUser(p)
  PROVE  \/ UserUnchanged /\ \E u \in InTenant(request[p].slug) : user[u].email = request[p].email
         \/ \E u \in User : Inserts(p, u)
<1>1. CASE \E u \in InTenant(request[p].slug) : user[u].email = request[p].email
  BY <1>1 DEF InsertUser, UserUnchanged
<1>2. CASE ~\E u \in InTenant(request[p].slug) : user[u].email = request[p].email
  BY <1>2 DEF InsertUser, Inserts, IsNext, At
<1> QED
  BY <1>1, <1>2

LEMMA OnlyInsertInserts ==
  ASSUME IInv, [Next]_vars, \A p \in Process : ~InsertUser(p)
  PROVE  UserUnchanged \/ UserWritten
<1>1. ASSUME NEW p \in Process, Write(p) \/ DeleteRow(p) PROVE UserUnchanged \/ UserWritten
  BY <1>1, WriteEffect, DeleteEffect
<1>2. CASE ~\E p \in Process : Write(p) \/ DeleteRow(p)
  BY <1>2 DEF Next, vars, rows, UserUnchanged, RevokeToken, BeginSetup, BeginRegister, FindSlug,
              InsertTenant, Adopt, BeginInvite, BeginChange, BeginDelete, SelectTarget,
              DeleteTokens, BeginToken, InsertToken, Fails, Begins
<1> QED
  BY <1>1, <1>2

LEMMA UserStep ==
  ASSUME IInv, [Next]_vars
  PROVE  UserUnchanged \/ UserInserted \/ UserWritten
  BY InsertEffect, OnlyInsertInserts DEF UserInserted

\* A superadmin's row stays as it is; who is not one, and is there, does not become one.
LEMMA SuperadminsStay ==
  ASSUME IInv, [Next]_vars
  PROVE  /\ user' \in [User -> UserRow]
         /\ \A u \in User : user[u].role = "superadmin" => user'[u] = user[u]
         /\ \A u \in User : user[u] # NoUser /\ user[u].role # "superadmin"
                              => user'[u] # NoUser /\ user'[u].role # "superadmin"
<1>1. CASE UserUnchanged
  BY <1>1 DEF UserUnchanged, IInv, TypeOK
<1>2. CASE UserInserted
  <2>1. PICK p \in Process, u \in User : Inserts(p, u)
    BY <1>2 DEF UserInserted
  <2>2. Row(request[p]) \in UserRow
    BY <2>1, InsertedRow DEF Inserts, IInv, UserRow
  <2>3. user[u] = NoUser /\ NoUser.role # "superadmin" /\ user' = [user EXCEPT ![u] = Row(request[p])]
    BY <2>1, NoUserRow DEF Inserts
  <2> QED
    BY <2>2, <2>3 DEF IInv, TypeOK
<1>3. CASE UserWritten
  BY <1>3 DEF UserWritten, IInv, TypeOK
<1> QED
  BY <1>1, <1>2, <1>3, UserStep

\* A tenant's superadmin is still there, and still a superadmin who can sign in.
LEMMA AdministratorStays ==
  ASSUME IInv, [Next]_vars, NEW s, NEW u \in InTenant(s),
         user[u].role = "superadmin", user[u].active
  PROVE  u \in InTenant(s)' /\ user'[u].role = "superadmin" /\ user'[u].active
  BY SuperadminsStay DEF InTenant, There

LEMMA AdministeredStep ==
  ASSUME IInv, [Next]_vars
  PROVE  Administered'
<1> SUFFICES ASSUME NEW s \in Slug, NEW x \in InTenant(s)'
             PROVE  \E u \in InTenant(s)' : user'[u].role = "superadmin" /\ user'[u].active
  BY DEF Administered
<1>1. CASE x \in InTenant(s)
  <2>1. PICK u \in InTenant(s) : user[u].role = "superadmin" /\ user[u].active
    BY <1>1 DEF IInv, Administered
  <2> QED
    BY <2>1, AdministratorStays
<1>2. CASE x \notin InTenant(s)
  <2>1. UserInserted
    <3>1. ~UserUnchanged
      BY <1>2 DEF UserUnchanged, InTenant, There
    <3>2. ASSUME UserWritten PROVE FALSE
      <4>1. PICK u \in User, row \in UserRow :
              /\ row # Deleted => row.tenant = user[u].tenant /\ There(u)
              /\ user' = [user EXCEPT ![u] = row]
        BY <3>2 DEF UserWritten
      <4> QED
        BY <1>2, <4>1 DEF InTenant, There, IInv, TypeOK
    <3> QED
      BY <3>1, <3>2, UserStep
  <2>2. PICK p \in Process, u \in User : Inserts(p, u)
    BY <2>1 DEF UserInserted
  <2>3. x = u /\ request[p].slug = s
    <3>1. user' = [user EXCEPT ![u] = Row(request[p])] /\ Row(request[p]).tenant = request[p].slug
      BY <2>2, InsertedRow DEF Inserts, IInv
    <3> QED
      BY <1>2, <3>1 DEF InTenant, There, IInv, TypeOK
  <2>4. CASE request[p].op = "invite"
    <3>1. PICK v \in InTenant(s) : user[v].role = "superadmin" /\ user[v].active
      BY <2>3, <2>4 DEF IInv, Checked
    <3> QED
      BY <3>1, AdministratorStays
  <2>5. CASE request[p].op # "invite"
    <3>1. user'[x].role = "superadmin" /\ user'[x].active
      BY <2>2, <2>3, <2>5, InsertedRow DEF Inserts, IInv, TypeOK
    <3> QED
      BY <3>1
  <2> QED
    BY <2>4, <2>5
<1> QED
  BY <1>1, <1>2

-----------------------------------------------------------------------------
(* What a step does to the requests.                                       *)

\* Every variable keeps its type.
LEMMA TypeStep ==
  ASSUME IInv, [Next]_vars
  PROVE  TypeOK'
<1> USE DEF IInv, TypeOK
<1>1. user' \in [User -> UserRow]
  BY SuperadminsStay
<1>2. /\ tenants' \subseteq Slug
      /\ tokens' \subseteq User
      /\ orphans' \in BOOLEAN
      /\ overlapped' \in BOOLEAN
  <2>1. ASSUME NEW p \in Process, InsertTenant(p)
        PROVE  /\ tenants' \subseteq Slug
               /\ UNCHANGED <<tokens, orphans, overlapped>>
    <3>1. request[p].slug \in Slug
      BY <2>1 DEF InsertTenant, At, Requests, Idle, Changes
    <3> QED
      BY <2>1, <3>1 DEF InsertTenant, At
  <2>2. ASSUME NEW p \in Process, InsertToken(p)
        PROVE  /\ tokens' \subseteq User
               /\ UNCHANGED <<tenants, orphans, overlapped>>
    <3>1. request[p].whom \in User
      BY <2>2 DEF InsertToken, At, Requests, Idle, Changes
    <3> QED
      BY <2>2, <3>1 DEF InsertToken, At
  <2>3. CASE ~\E p \in Process : InsertTenant(p) \/ InsertToken(p)
    BY <2>3, ZenonT(60) DEF Next, vars, rows, RevokeToken, BeginSetup, BeginRegister, FindSlug, InsertUser,
         Adopt, BeginInvite, BeginChange, BeginDelete, SelectTarget, Write, DeleteTokens, DeleteRow,
         BeginToken, Fails, Begins, At
  <2> QED
    BY <2>1, <2>2, <2>3
<1>3. request' \in [Process -> Requests]
  <2>1. ASSUME NEW p \in Process, NEW r \in Requests, request' = [request EXCEPT ![p] = r]
        PROVE  request' \in [Process -> Requests]
    BY <2>1
  <2>2. Idle \in Requests
    BY DEF Requests
  <2>3. ASSUME NEW p \in Process, Ends(p) PROVE request' \in [Process -> Requests]
    BY <2>1, <2>2, <2>3 DEF Ends
  <2>4. ASSUME NEW p \in Process, BeginSetup(p) \/ BeginRegister(p) PROVE request' \in [Process -> Requests]
    <3>1. PICK r \in Requests : request' = [request EXCEPT ![p] = r]
      BY <2>4 DEF BeginSetup, BeginRegister, Begins, Requests
    <3> QED
      BY <2>1, <3>1
  <2>5. ASSUME NEW p \in Process, BeginInvite(p) PROVE request' \in [Process -> Requests]
    <3>1. PICK u \in User, e \in Email, role \in {"admin", "member"} :
            /\ There(u)
            /\ Begins(p, [op |-> "invite", at |-> "user", slug |-> user[u].tenant, email |-> e, role |-> role])
      BY <2>5 DEF BeginInvite, Caller
    <3>2. [op |-> "invite", at |-> "user", slug |-> user[u].tenant, email |-> e, role |-> role] \in Requests
      BY <3>1, UserRowFacts DEF Requests
    <3> QED
      BY <2>1, <3>1, <3>2 DEF Begins
  <2>6. ASSUME NEW p \in Process, BeginChange(p) \/ BeginDelete(p) PROVE request' \in [Process -> Requests]
    <3>1. PICK u \in User, op \in Changes \cup {"delete"}, whom \in User :
            /\ There(u)
            /\ Begins(p, [op |-> op, at |-> "select", slug |-> user[u].tenant, whom |-> whom])
      BY <2>6 DEF BeginChange, BeginDelete, Caller, Changes
    <3>2. [op |-> op, at |-> "select", slug |-> user[u].tenant, whom |-> whom] \in Requests
      BY <3>1, UserRowFacts DEF Requests
    <3> QED
      BY <2>1, <3>1, <3>2 DEF Begins
  <2>7. ASSUME NEW p \in Process, BeginToken(p) PROVE request' \in [Process -> Requests]
    <3>1. PICK u \in User : Begins(p, [op |-> "token", at |-> "write", whom |-> u])
      BY <2>7 DEF BeginToken
    <3>2. [op |-> "token", at |-> "write", whom |-> u] \in Requests
      BY DEF Requests
    <3> QED
      BY <2>1, <3>1, <3>2 DEF Begins
  <2>8. ASSUME NEW p \in Process, FindSlug(p) PROVE request' \in [Process -> Requests]
    <3>1. PICK s \in Slug :
            request' = [request EXCEPT ![p] =
              [op |-> "register", at |-> "tenant", slug |-> s, email |-> request[p].email]]
      BY <2>8 DEF FindSlug
    <3>2. request[p].email \in Email
      BY <2>8 DEF FindSlug, At, Requests, Idle, Changes
    <3>3. [op |-> "register", at |-> "tenant", slug |-> s, email |-> request[p].email] \in Requests
      BY <3>2 DEF Requests
    <3> QED
      BY <2>1, <3>1, <3>3
  <2>9. ASSUME NEW p \in Process, InsertTenant(p) PROVE request' \in [Process -> Requests]
    <3>1. [request[p] EXCEPT !.at = "user"] \in Requests
      BY <2>9 DEF InsertTenant, At, Requests, Idle, Changes
    <3> QED
      BY <2>1, <2>3, <2>9, <3>1 DEF InsertTenant, Goes
  <2>10. ASSUME NEW p \in Process, InsertUser(p) PROVE request' \in [Process -> Requests]
    <3>1. request[p].op = "setup" => [request[p] EXCEPT !.at = "adopt"] \in Requests
      BY DEF Requests, Idle, Changes
    <3> QED
      BY <2>1, <2>3, <2>10, <3>1 DEF InsertUser, Goes
  <2>11. ASSUME NEW p \in Process, SelectTarget(p) PROVE request' \in [Process -> Requests]
    <3>1. /\ request[p].op = "delete" => [request[p] EXCEPT !.at = "tokens"] \in Requests
          /\ request[p].op \in Changes => [request[p] EXCEPT !.at = "write"] \in Requests
      BY DEF Requests, Idle, Changes
    <3> QED
      BY <2>1, <2>3, <2>11, <3>1 DEF SelectTarget, Goes, At, Changes
  <2>12. ASSUME NEW p \in Process, DeleteTokens(p) PROVE request' \in [Process -> Requests]
    <3>1. [request[p] EXCEPT !.at = "row"] \in Requests
      BY <2>12 DEF DeleteTokens, At, Requests, Idle, Changes
    <3> QED
      BY <2>1, <2>12, <3>1 DEF DeleteTokens, Goes
  <2>13. ASSUME NEW p \in Process, Adopt(p) \/ Write(p) \/ DeleteRow(p) \/ InsertToken(p) \/ Fails(p)
         PROVE  request' \in [Process -> Requests]
    BY <2>3, <2>13 DEF Adopt, Write, DeleteRow, InsertToken, Fails
  <2>14. CASE UNCHANGED vars \/ \E u \in User : RevokeToken(u)
    BY <2>14 DEF vars, RevokeToken
  <2> QED
    BY <2>4, <2>5, <2>6, <2>7, <2>8, <2>9, <2>10, <2>11, <2>12, <2>13, <2>14 DEF Next
<1> QED
  BY <1>1, <1>2, <1>3


\* What was checked stays so while the request waits for its next statement.
LEMMA CheckedWaits ==
  ASSUME IInv, [Next]_vars, NEW q \in Process, request'[q] = request[q]
  PROVE  Checked(q)'
<1>1. Checked(q)
  BY DEF IInv
<1>2. ASSUME request[q].op \in Changes \cup {"delete"}, request[q].at # "select"
      PROVE  user'[request[q].whom] # NoUser /\ user'[request[q].whom].role # "superadmin"
  BY <1>1, <1>2, TargetType, SuperadminsStay DEF Checked, IInv
<1>3. ASSUME request[q].op = "invite"
      PROVE  \E u \in InTenant(request[q].slug)' : user'[u].role = "superadmin" /\ user'[u].active
  <2>1. PICK u \in InTenant(request[q].slug) : user[u].role = "superadmin" /\ user[u].active
    BY <1>1, <1>3 DEF Checked
  <2>2. u \in InTenant(request[q].slug)' /\ user'[u].role = "superadmin" /\ user'[u].active
    BY <2>1, AdministratorStays
  <2> QED
    BY <2>2
<1> QED
  BY <1>2, <1>3 DEF Checked, InTenant

LEMMA CheckedIdle ==
  ASSUME NEW q \in Process, request'[q].op \in {"none", "setup", "register", "token"}
  PROVE  Checked(q)'
  BY DEF Checked, Changes

LEMMA CheckedStep ==
  ASSUME IInv, [Next]_vars, NEW q \in Process
  PROVE  Checked(q)'
<1> SUFFICES ASSUME request'[q] # request[q], request'[q] # Idle PROVE Checked(q)'
  BY CheckedWaits, CheckedIdle DEF Idle
<1> USE DEF IInv, TypeOK
<1>1. CASE UNCHANGED vars \/ \E u \in User : RevokeToken(u)
  BY <1>1 DEF vars, RevokeToken
<1>2. ASSUME NEW p \in Process, BeginSetup(p) \/ BeginRegister(p) \/ BeginToken(p) PROVE Checked(q)'
  BY <1>2, CheckedIdle DEF BeginSetup, BeginRegister, BeginToken, Begins
<1>3. ASSUME NEW p \in Process, FindSlug(p) \/ InsertTenant(p) \/ InsertUser(p) PROVE Checked(q)'
  <2>1. CASE FindSlug(p)
    BY <2>1, CheckedIdle DEF FindSlug
  <2>2. CASE InsertTenant(p)
    <3>1. p = q /\ request'[q] = [request[q] EXCEPT !.at = "user"] /\ request[q].op \in {"setup", "register"}
      BY <2>2 DEF InsertTenant, At, Ends, Goes
    <3>2. request'[q].op = request[q].op
      BY <3>1 DEF Requests, Idle
    <3> QED
      BY <3>1, <3>2, CheckedIdle
  <2>3. CASE InsertUser(p)
    <3>1. p = q /\ request'[q] = [request[q] EXCEPT !.at = "adopt"] /\ request[q].op = "setup"
      BY <2>3 DEF InsertUser, At, Ends, Goes
    <3>2. request'[q].op = request[q].op
      BY <3>1 DEF Requests, Idle
    <3> QED
      BY <3>1, <3>2, CheckedIdle
  <2> QED
    BY <1>3, <2>1, <2>2, <2>3
<1>4. ASSUME NEW p \in Process, BeginInvite(p) PROVE Checked(q)'
  <2>1. PICK u \in User, e \in Email, role \in {"admin", "member"} :
          /\ There(u)
          /\ Begins(p, [op |-> "invite", at |-> "user", slug |-> user[u].tenant, email |-> e, role |-> role])
    BY <1>4 DEF BeginInvite, Caller
  <2>2. /\ request'[q] = [op |-> "invite", at |-> "user", slug |-> user[u].tenant, email |-> e, role |-> role]
        /\ user' = user
    BY <2>1 DEF Begins, rows
  <2>3. user[u].tenant \in Slug /\ u \in InTenant(user[u].tenant)
    BY <2>1, UserRowFacts DEF InTenant
  <2>4. PICK v \in InTenant(user[u].tenant) : user[v].role = "superadmin" /\ user[v].active
    BY <2>3 DEF Administered
  <2> QED
    BY <2>2, <2>4 DEF Checked, InTenant, There, Changes
<1>5. ASSUME NEW p \in Process, BeginChange(p) \/ BeginDelete(p) PROVE Checked(q)'
  <2>1. request'[q].op \in Changes \cup {"delete"} /\ request'[q].at = "select"
    BY <1>5 DEF BeginChange, BeginDelete, Begins, Changes
  <2> QED
    BY <2>1 DEF Checked, Changes
<1>6. ASSUME NEW p \in Process, SelectTarget(p) PROVE Checked(q)'
  <2>1. /\ p = q /\ request[q].op \in Changes \cup {"delete"} /\ user' = user
        /\ There(request[q].whom) /\ user[request[q].whom].role # "superadmin"
        /\ \E to \in {"tokens", "write"} : request'[q] = [request[q] EXCEPT !.at = to]
    BY <1>6 DEF SelectTarget, At, Ends, Goes, Protected, rows
  <2>2. request'[q].op = request[q].op /\ request'[q].whom = request[q].whom
    BY <2>1 DEF Requests, Idle, Changes
  <2> QED
    BY <2>1, <2>2 DEF Checked, There, Changes
<1>7. ASSUME NEW p \in Process, DeleteTokens(p) PROVE Checked(q)'
  <2>1. /\ p = q /\ request[q].op = "delete" /\ request[q].at = "tokens" /\ user' = user
        /\ request'[q] = [request[q] EXCEPT !.at = "row"]
    BY <1>7 DEF DeleteTokens, At, Goes
  <2>2. request'[q].op = "delete" /\ request'[q].whom = request[q].whom
    BY <2>1 DEF Requests, Idle, Changes
  <2>3. user[request[q].whom] # NoUser /\ user[request[q].whom].role # "superadmin"
    BY <2>1 DEF Checked
  <2> QED
    BY <2>1, <2>2, <2>3 DEF Checked
<1>8. ASSUME NEW p \in Process,
             Adopt(p) \/ Write(p) \/ DeleteRow(p) \/ InsertToken(p) \/ Fails(p)
      PROVE  Checked(q)'
  BY <1>8 DEF Adopt, Write, DeleteRow, InsertToken, Fails, Ends
<1> QED
  BY <1>1, <1>2, <1>3, <1>4, <1>5, <1>6, <1>7, <1>8 DEF Next

\* Requests that come one at a time: what a step does to the one there is.
LEMMA Lonely ==
  ASSUME IInv, [Next]_vars, ~overlapped'
  PROVE  /\ ~overlapped
         /\ \A p, q \in Process : request'[p] # Idle /\ request'[q] # Idle => p = q
         /\ \A p \in Process : request[p] # Idle /\ request'[p] # Idle =>
              /\ request'[p].op = request[p].op
              /\ request[p].op \in {"setup", "register"} => request'[p].email = request[p].email
<1> USE DEF IInv, TypeOK
<1> DEFINE Same(p) == request[p] # Idle /\ request'[p] # Idle =>
              /\ request'[p].op = request[p].op
              /\ request[p].op \in {"setup", "register"} => request'[p].email = request[p].email
<1>1. CASE UNCHANGED vars \/ \E u \in User : RevokeToken(u)
  BY <1>1 DEF vars, rows, RevokeToken, Alone
<1>2. ASSUME NEW p \in Process, NEW r, Begins(p, r)
      PROVE  /\ ~overlapped
             /\ \A q \in Process \ {p} : request'[q] = Idle
             /\ request[p] = Idle
  BY <1>2 DEF Begins
<1>3. ASSUME NEW p \in Process,
             \/ Ends(p)
             \/ \E to : Goes(p, to) /\ request[p] # Idle
             \/ FindSlug(p),
             overlapped' = overlapped
      PROVE  /\ ~overlapped
             /\ \A q \in Process \ {p} : request'[q] # Idle => request[q] # Idle
             /\ request'[p] # Idle => request[p] # Idle
             /\ \A q \in Process : Same(q)
  <2>1. CASE Ends(p)
    BY <1>3, <2>1 DEF Ends
  <2>2. CASE \E to : Goes(p, to) /\ request[p] # Idle
    <3>1. PICK to : request' = [request EXCEPT ![p] = [@ EXCEPT !.at = to]]
      BY <2>2 DEF Goes
    <3>2. Same(p)
      BY <3>1 DEF Requests, Idle, Changes
    <3> QED
      BY <1>3, <2>2, <3>1, <3>2
  <2>3. CASE FindSlug(p)
    BY <1>3, <2>3 DEF FindSlug, At, Idle
  <2> QED
    BY <1>3, <2>1, <2>2, <2>3
<1>4. ASSUME NEW p \in Process,
             \/ Ends(p)
             \/ \E to : Goes(p, to) /\ request[p] # Idle
             \/ FindSlug(p),
             overlapped' = overlapped
      PROVE  /\ ~overlapped
             /\ \A a, b \in Process : request'[a] # Idle /\ request'[b] # Idle => a = b
             /\ \A a \in Process : Same(a)
  BY <1>3, <1>4 DEF Alone
<1>5. ASSUME NEW p \in Process,
             BeginSetup(p) \/ BeginRegister(p) \/ BeginInvite(p) \/ BeginChange(p)
             \/ BeginDelete(p) \/ BeginToken(p)
      PROVE  /\ ~overlapped
             /\ \A a, b \in Process : request'[a] # Idle /\ request'[b] # Idle => a = b
             /\ \A a \in Process : Same(a)
  <2>1. PICK r : Begins(p, r)
    BY <1>5 DEF BeginSetup, BeginRegister, BeginInvite, BeginChange, BeginDelete, BeginToken
  <2> QED
    BY <1>2, <2>1
<1>6. ASSUME NEW p \in Process,
             InsertTenant(p) \/ InsertUser(p) \/ Adopt(p) \/ SelectTarget(p) \/ Write(p)
             \/ DeleteTokens(p) \/ DeleteRow(p) \/ InsertToken(p) \/ Fails(p) \/ FindSlug(p)
      PROVE  /\ overlapped' = overlapped
             /\ \/ Ends(p)
                \/ \E to : Goes(p, to) /\ request[p] # Idle
                \/ FindSlug(p)
  BY <1>6 DEF InsertTenant, InsertUser, Adopt, SelectTarget, Write, DeleteTokens, DeleteRow,
              InsertToken, Fails, FindSlug, At, Idle, Changes
<1> QED
  BY <1>1, <1>4, <1>5, <1>6 DEF Next

\* Without an INSERT nobody new is there, and addresses stay.
LEMMA NobodyNew ==
  ASSUME IInv, UserUnchanged \/ UserWritten, NEW u \in User, There(u)'
  PROVE  There(u) /\ user'[u].email = user[u].email
<1>1. CASE UserUnchanged
  BY <1>1 DEF UserUnchanged, There
<1>2. CASE UserWritten
  BY <1>2 DEF UserWritten, There, IInv, TypeOK
<1> QED
  BY <1>1, <1>2

\* What a lone request has read of the users is so after its next step.
LEMMA AloneStep ==
  ASSUME IInv, [Next]_vars, ~overlapped', NEW p \in Process
  PROVE  Alone(p)'
<1> USE DEF IInv, TypeOK
<1>1. /\ Alone(p)
      /\ \A q \in Process : request'[p] # Idle /\ request'[q] # Idle => p = q
      /\ request'[p] \in Requests
  BY Lonely, TypeStep
<1>2. ASSUME request'[p].op \in {"register", "setup"}, request'[p].at # "adopt"
      PROVE  /\ request'[p].op = "register" => ~Taken(request[p].email)'
             /\ request'[p].op = "setup" => \A u \in User : ~There(u)'
  <2>1. request'[p] # Idle
    BY <1>2 DEF Idle
  <2>2. CASE request[p] = Idle
    <3>1. BeginSetup(p) \/ BeginRegister(p)
      <4>1. CASE UNCHANGED vars \/ \E u \in User : RevokeToken(u)
        BY <2>1, <2>2, <4>1 DEF vars, RevokeToken
      <4>2. ASSUME NEW q \in Process,
                   \/ FindSlug(q) \/ InsertTenant(q) \/ InsertUser(q) \/ Adopt(q) \/ SelectTarget(q)
                   \/ Write(q) \/ DeleteTokens(q) \/ DeleteRow(q) \/ InsertToken(q) \/ Fails(q)
            PROVE  FALSE
        BY <2>1, <2>2, <4>2 DEF FindSlug, InsertTenant, InsertUser, Adopt, SelectTarget, Write,
             DeleteTokens, DeleteRow, InsertToken, Fails, At, Ends, Goes, Idle, Changes
      <4>3. ASSUME NEW q \in Process,
                   BeginInvite(q) \/ BeginChange(q) \/ BeginDelete(q) \/ BeginToken(q)
            PROVE  FALSE
        BY <1>2, <2>2, <4>3 DEF BeginInvite, BeginChange, BeginDelete, BeginToken, Begins, Idle, Changes
      <4>4. ASSUME NEW q \in Process, BeginSetup(q) \/ BeginRegister(q) PROVE q = p
        BY <2>1, <2>2, <4>4 DEF BeginSetup, BeginRegister, Begins
      <4> QED
        BY <4>1, <4>2, <4>3, <4>4 DEF Next
    <3>2. CASE BeginSetup(p)
      BY <3>2 DEF BeginSetup, Begins, rows, There
    <3>3. CASE BeginRegister(p)
      <4>1. PICK e \in Email : ~Taken(e) /\ Begins(p, [op |-> "register", at |-> "slug", email |-> e])
        BY <3>3 DEF BeginRegister
      <4>2. /\ request'[p] = [op |-> "register", at |-> "slug", email |-> e]
            /\ user' = user
        BY <4>1 DEF Begins, rows
      <4>3. request'[p].email = e /\ request'[p].op = "register"
        BY <4>2
      <4> QED
        <5>1. \A u \in User : There(u)' <=> There(u)
          BY <4>2 DEF There
        <5>2. \A u \in User : There(u)' => user'[u].email # request'[p].email
          BY <4>1, <4>2, <4>3, <5>1 DEF Taken
        <5>3. ~Taken(request[p].email)'
          BY <5>2 DEF Taken
        <5> QED
          BY <4>3, <5>3
    <3> QED
      BY <3>1, <3>2, <3>3
  <2>3. CASE request[p] # Idle
    <3>1. /\ request'[p].op = request[p].op
          /\ request[p].op \in {"setup", "register"} => request'[p].email = request[p].email
      BY <2>1, <2>3, Lonely
    <3>2. ASSUME NEW q \in Process, InsertUser(q) PROVE FALSE
      <4>1. q = p
        BY <1>1, <2>3, <3>2 DEF Alone, InsertUser, At, Idle
      <4>2. request[p].op # "setup" => request'[p] = Idle
        BY <3>2, <4>1 DEF InsertUser, Ends
      <4>3. request[p].op = "setup" => request'[p] = [request[p] EXCEPT !.at = "adopt"]
        BY <3>2, <4>1 DEF InsertUser, Goes
      <4>4. request[p].op = "setup" => request'[p].at = "adopt"
        BY <4>3 DEF Requests, Idle, Changes
      <4> QED
        BY <1>2, <2>1, <3>1, <4>2, <4>4
    <3>3. UserUnchanged \/ UserWritten
      BY <3>2, OnlyInsertInserts
    <3>4. ASSUME request[p].op = "setup", request[p].at = "adopt" PROVE FALSE
      <4>1. request'[p] # request[p]
        BY <1>2, <3>4
      <4>2. ASSUME NEW q \in Process,
                   \/ BeginSetup(q) \/ BeginRegister(q) \/ BeginInvite(q) \/ BeginChange(q)
                   \/ BeginDelete(q) \/ BeginToken(q)
            PROVE  FALSE
        <5>1. PICK r : Begins(q, r)
          BY <4>2 DEF BeginSetup, BeginRegister, BeginInvite, BeginChange, BeginDelete, BeginToken
        <5> QED
          BY <2>3, <4>1, <5>1 DEF Begins
      <4>3. ASSUME NEW q \in Process,
                   \/ FindSlug(q) \/ InsertTenant(q) \/ InsertUser(q) \/ SelectTarget(q) \/ Write(q)
                   \/ DeleteTokens(q) \/ DeleteRow(q) \/ InsertToken(q)
            PROVE  FALSE
        BY <3>4, <4>1, <4>3 DEF FindSlug, InsertTenant, InsertUser, SelectTarget, Write,
             DeleteTokens, DeleteRow, InsertToken, At, Ends, Goes, Changes
      <4>4. ASSUME NEW q \in Process, Adopt(q) \/ Fails(q) PROVE FALSE
        BY <2>1, <4>1, <4>4 DEF Adopt, Fails, Ends
      <4>5. CASE UNCHANGED vars \/ \E u \in User : RevokeToken(u)
        BY <4>1, <4>5 DEF vars, RevokeToken
      <4> QED
        BY <4>2, <4>3, <4>4, <4>5 DEF Next
    <3>5. CASE request[p].op = "register"
      <4>1. ~Taken(request[p].email) /\ request'[p].email = request[p].email
        BY <1>1, <3>1, <3>5 DEF Alone
      <4>2. ~Taken(request[p].email)'
        <5>1. ASSUME NEW u \in User, There(u)' PROVE user'[u].email # request'[p].email
          <6>1. There(u) /\ user'[u].email = user[u].email
            BY <3>3, <5>1, NobodyNew
          <6> QED
            BY <4>1, <6>1 DEF Taken
        <5> QED
          BY <5>1 DEF Taken
      <4> QED
        BY <3>1, <3>5, <4>2
    <3>6. CASE request[p].op = "setup"
      <4>1. \A u \in User : ~There(u)
        BY <1>1, <3>4, <3>6 DEF Alone
      <4> QED
        BY <3>1, <3>3, <3>6, <4>1, NobodyNew
    <3> QED
      BY <1>2, <3>1, <3>5, <3>6
  <2> QED
    BY <2>2, <2>3
<1>3. request'[p].op = "register" => request'[p].at # "adopt"
  BY <1>1 DEF Requests, Idle, Changes
<1>4. request'[p].op = "register" => ~Taken(request[p].email)'
  BY <1>2, <1>3
<1>5. request'[p].op = "setup" /\ request'[p].at # "adopt" => \A u \in User : ~There(u)'
  BY <1>2
<1>6. (\A q \in Process : request[p] # Idle /\ request[q] # Idle => p = q)'
  BY <1>1
<1> QED
  BY <1>4, <1>5, <1>6 DEF Alone

\* The address of who registers is nobody's yet.
LEMMA RegisteredStep ==
  ASSUME IInv, [Next]_vars
  PROVE  RegisteredOnce'
<1> USE DEF IInv, TypeOK
<1> SUFFICES ASSUME ~overlapped', NEW u \in User, NEW v \in User,
                    user'[u].role = "superadmin", user'[v].role = "superadmin",
                    user'[u].email = user'[v].email
             PROVE  u = v
  BY DEF RegisteredOnce
<1>1. ~overlapped
  BY Lonely
<1>2. CASE user[u].role = "superadmin" /\ user[v].role = "superadmin"
  <2>1. user'[u] = user[u] /\ user'[v] = user[v]
    BY <1>2, SuperadminsStay
  <2> QED
    BY <1>1, <1>2, <2>1 DEF RegisteredOnce
<1>3. CASE ~(user[u].role = "superadmin" /\ user[v].role = "superadmin")
  <2>1. UserInserted
    BY <1>3, UserStep DEF UserUnchanged, UserWritten
  <2>2. PICK p \in Process, w \in User : Inserts(p, w)
    BY <2>1 DEF UserInserted
  <2>3. /\ user'[w] = Row(request[p]) /\ user[w] = NoUser /\ Alone(p)
        /\ \A x \in User \ {w} : user'[x] = user[x]
    BY <1>1, <2>2 DEF Inserts
  <2>4. w = u \/ w = v
    BY <1>3, <2>3
  <2>5. /\ request[p].op \in {"setup", "register"} /\ user'[w].email = request[p].email
    BY <2>2, <2>3, <2>4, InsertedRow DEF Inserts
  <2>6. ASSUME NEW x \in User \ {w}, user'[x].role = "superadmin", user'[x].email = request[p].email
        PROVE  FALSE
    <3>1. There(x) /\ user[x].email = request[p].email
      BY <2>3, <2>6, UserRowFacts
    <3> QED
      BY <2>2, <2>3, <2>5, <3>1 DEF Alone, Inserts, Taken
  <2> QED
    BY <2>4, <2>5, <2>6
<1> QED
  BY <1>2, <1>3

LEMMA InitIInv == Init => IInv
<1> SUFFICES ASSUME Init PROVE IInv
  OBVIOUS
<1> USE DEF Init
<1>1. TypeOK
  BY DEF TypeOK, UserRow, Requests
<1>2. ASSUME NEW p \in Process PROVE request[p] = Idle
  OBVIOUS
<1>3. \A u \in User : user[u] = NoUser /\ ~There(u)
  BY DEF There
<1>4. \A s \in Slug : InTenant(s) = {}
  BY <1>3 DEF InTenant
<1>5. ASSUME NEW p \in Process PROVE Checked(p) /\ Alone(p)
  <2>1. request[p].op = "none" /\ request[p] = Idle
    BY <1>2 DEF Idle
  <2> QED
    BY <1>2, <2>1 DEF Checked, Alone, Changes
<1>6. RegisteredOnce
  BY <1>3 DEF RegisteredOnce, NoUser
<1> QED
  BY <1>1, <1>4, <1>5, <1>6 DEF IInv, Administered

LEMMA IInvStep == IInv /\ [Next]_vars => IInv'
<1> SUFFICES ASSUME IInv, [Next]_vars PROVE IInv'
  OBVIOUS
<1>1. TypeOK' /\ (\A p \in Process : Checked(p)') /\ Administered' /\ RegisteredOnce'
  BY TypeStep, CheckedStep, AdministeredStep, RegisteredStep
<1>2. ~overlapped' => \A p \in Process : Alone(p)'
  BY AloneStep
<1> QED
  BY <1>1, <1>2 DEF IInv

LEMMA IInvHolds == Spec => []IInv
<1>1. Init => IInv
  BY InitIInv
<1>2. IInv /\ [Next]_vars => IInv'
  BY IInvStep
<1> QED
  BY <1>1, <1>2, PTL DEF Spec

\* Rows, references and requests are what the columns and the handlers of
\* auth/routes.py and routes/users.py make of them.
THEOREM AccountsTypeCorrect == Spec => []TypeOK
BY IInvHolds, PTL DEF IInv

\* However the statements of registrations, invitations, changes and deletions
\* interleave and whichever of them fail, a tenant that has users has a
\* superadmin who can sign in.
THEOREM TenantsAdministered == Spec => []Administered
BY IInvHolds, PTL DEF IInv

\* The check for a taken address comes statements before the INSERT, and no
\* constraint spans tenants: requests that never overlap register an address
\* once, whatever was invited, changed or deleted before.
THEOREM AddressesRegisterOnce == Spec => []RegisteredOnce
BY IInvHolds, PTL DEF IInv
-----------------------------------------------------------------------------
(***************************************************************************)
(* RememberTokens.  As long as no two requests have met in a login, it has *)
(* at most one under way, which found in the cookie the one token the      *)
(* login has; nobody else can revoke or replace that token meanwhile.      *)
(***************************************************************************)
LEMMA TabRequest ==
  ASSUME Remember!TypeOK, NEW t \in Process
  PROVE  /\ tabRequest[t] \in Remember!Request
         /\ tabRequest[t].row \in Nat
         /\ tabRequest[t].op \in {"none", "login", "refresh", "logout"}
         /\ tabRequest[t].at \in {"idle", "select", "revoke", "refused", "insert", "update", "reply"}
BY DEF Remember!TypeOK, Remember!Request

LEMMA TokenRows ==
  ASSUME Remember!TypeOK
  PROVE  /\ Len(rememberRows) \in Nat /\ Len(began) \in Nat
         /\ DOMAIN rememberRows = 1 .. Len(rememberRows) /\ DOMAIN began = 1 .. Len(began)
         /\ \A i \in 1 .. Len(rememberRows) :
              /\ rememberRows[i] \in [login : Nat, expires : Nat, revoked : BOOLEAN]
              /\ rememberRows[i].login \in Nat /\ rememberRows[i].expires \in Nat /\ rememberRows[i].revoked \in BOOLEAN
         /\ \A n \in 1 .. Len(began) : began[n] \in Nat
<1>1. /\ rememberRows \in Seq([login : Nat, expires : Nat, revoked : BOOLEAN])
      /\ began \in Seq(Nat)
  BY DEF Remember!TypeOK
<1>2. \A i \in 1 .. Len(rememberRows) : rememberRows[i] \in [login : Nat, expires : Nat, revoked : BOOLEAN]
  BY <1>1, ElementOfSeq
<1>3. \A i \in 1 .. Len(rememberRows) :
        rememberRows[i].login \in Nat /\ rememberRows[i].expires \in Nat /\ rememberRows[i].revoked \in BOOLEAN
  BY <1>2
<1>4. \A n \in 1 .. Len(began) : began[n] \in Nat
  BY <1>1
<1>5. /\ Len(rememberRows) \in Nat /\ Len(began) \in Nat
      /\ DOMAIN rememberRows = 1 .. Len(rememberRows) /\ DOMAIN began = 1 .. Len(began)
  BY <1>1
<1> QED
  BY <1>2, <1>3, <1>4, <1>5

\* A request that is sent: of a login in which it meets no other.
LEMMA Sent ==
  ASSUME Remember!TypeOK, NEW t \in Process, NEW op \in {"none", "login", "refresh", "logout"},
         NEW at \in {"idle", "select", "revoke", "refused", "insert", "update", "reply"}, NEW i \in Nat,
         Remember!Sends(t, op, at, i)
  PROVE  /\ tabRequest' \in [Process -> Remember!Request]
         /\ tabRequest[t].op = "none"
         /\ tabRequest'[t].op = op /\ tabRequest'[t].at = at /\ tabRequest'[t].row = i
         /\ \A u \in Process : u # t => tabRequest'[u] = tabRequest[u]
         /\ \A n : n \notin raced' =>
              /\ n \notin raced
              /\ \/ \A u \in Process : tabRequest[u].op = "none"
                 \/ n # Remember!LoginOf(i) /\ \A u \in Process : tabRequest[u].op # "none" => n # Remember!LoginOf(tabRequest[u].row)
<1>1. [op |-> op, at |-> at, row |-> i] \in Remember!Request
  BY DEF Remember!Request
<1>2. /\ tabRequest' \in [Process -> Remember!Request]
      /\ tabRequest'[t] = [op |-> op, at |-> at, row |-> i]
      /\ \A u \in Process : u # t => tabRequest'[u] = tabRequest[u]
  BY <1>1 DEF Remember!Sends, Remember!TypeOK
<1>3. ASSUME NEW n, n \notin raced'
      PROVE  /\ n \notin raced
             /\ \/ \A u \in Process : tabRequest[u].op = "none"
                \/ n # Remember!LoginOf(i) /\ \A u \in Process : tabRequest[u].op # "none" => n # Remember!LoginOf(tabRequest[u].row)
  BY <1>3 DEF Remember!Sends, Remember!UnderWay
<1> QED
  BY <1>2, <1>3 DEF Remember!Sends

\* A request that goes on.
LEMMA WentOn ==
  ASSUME Remember!TypeOK, NEW t \in Process,
         NEW at \in {"idle", "select", "revoke", "refused", "insert", "update", "reply"}, NEW i \in Nat,
         tabRequest' = [tabRequest EXCEPT ![t].at = at, ![t].row = i]
  PROVE  /\ tabRequest' \in [Process -> Remember!Request]
         /\ tabRequest'[t].op = tabRequest[t].op /\ tabRequest'[t].at = at /\ tabRequest'[t].row = i
         /\ \A u \in Process : u # t => tabRequest'[u] = tabRequest[u]
<1>1. tabRequest[t] \in Remember!Request
  BY TabRequest
<1>2. [tabRequest[t] EXCEPT !.at = at, !.row = i] \in Remember!Request
  BY <1>1 DEF Remember!Request
<1>3. /\ tabRequest' \in [Process -> Remember!Request]
      /\ tabRequest'[t] = [tabRequest[t] EXCEPT !.at = at, !.row = i]
      /\ \A u \in Process : u # t => tabRequest'[u] = tabRequest[u]
  BY <1>2 DEF Remember!TypeOK
<1> QED
  BY <1>1, <1>3 DEF Remember!Request

\* A request that has ended.
LEMMA Ended ==
  ASSUME Remember!TypeOK, NEW t \in Process, tabRequest' = [tabRequest EXCEPT ![t] = Remember!Idle]
  PROVE  /\ tabRequest' \in [Process -> Remember!Request]
         /\ tabRequest'[t].op = "none" /\ tabRequest'[t].at = "idle" /\ tabRequest'[t].row = 0
         /\ \A u \in Process : u # t => tabRequest'[u] = tabRequest[u]
<1>1. Remember!Idle \in Remember!Request
  BY DEF Remember!Idle, Remember!Request
<1> QED
  BY <1>1 DEF Remember!TypeOK, Remember!Idle

\* A token that is revoked, and a token that is made.
LEMMA RowRevoked ==
  ASSUME Remember!TypeOK, NEW i \in 1 .. Len(rememberRows),
         rememberRows' = [rememberRows EXCEPT ![i].revoked = TRUE]
  PROVE  /\ rememberRows' \in Seq([login : Nat, expires : Nat, revoked : BOOLEAN])
         /\ Len(rememberRows') = Len(rememberRows) /\ DOMAIN rememberRows' = 1 .. Len(rememberRows)
         /\ \A j \in 1 .. Len(rememberRows) :
              /\ rememberRows'[j].login = rememberRows[j].login
              /\ rememberRows'[j].expires = rememberRows[j].expires
              /\ rememberRows'[j].revoked = IF j = i THEN TRUE ELSE rememberRows[j].revoked
<1>1. [rememberRows[i] EXCEPT !.revoked = TRUE] \in [login : Nat, expires : Nat, revoked : BOOLEAN]
  BY TokenRows
<1>2. /\ rememberRows' \in Seq([login : Nat, expires : Nat, revoked : BOOLEAN])
      /\ Len(rememberRows') = Len(rememberRows) /\ DOMAIN rememberRows' = 1 .. Len(rememberRows)
  BY <1>1 DEF Remember!TypeOK
<1>3. \A j \in 1 .. Len(rememberRows) :
        rememberRows'[j] = IF j = i THEN [rememberRows[i] EXCEPT !.revoked = TRUE] ELSE rememberRows[j]
  BY DEF Remember!TypeOK
<1> QED
  BY <1>2, <1>3, TokenRows

LEMMA RowMade ==
  ASSUME Remember!TypeOK, NEW r \in [login : Nat, expires : Nat, revoked : BOOLEAN],
         rememberRows' = Append(rememberRows, r)
  PROVE  /\ rememberRows' \in Seq([login : Nat, expires : Nat, revoked : BOOLEAN])
         /\ Len(rememberRows') = Len(rememberRows) + 1 /\ DOMAIN rememberRows' = 1 .. Len(rememberRows) + 1
         /\ rememberRows'[Len(rememberRows) + 1] = r
         /\ \A j \in 1 .. Len(rememberRows) : rememberRows'[j] = rememberRows[j]
BY DEF Remember!TypeOK

LEMMA LiveTokens ==
  ASSUME Remember!TypeOK, NEW n
  PROVE  \A i : i \in Remember!Live(n) <=>
           i \in 1 .. Len(rememberRows) /\ rememberRows[i].login = n /\ ~rememberRows[i].revoked
BY TokenRows DEF Remember!Live

LEMMA LiveTokensThen ==
  ASSUME Remember!TypeOK', NEW n
  PROVE  \A i : i \in Remember!Live(n)' <=>
           i \in 1 .. Len(rememberRows') /\ rememberRows'[i].login = n /\ ~rememberRows'[i].revoked
<1>1. rememberRows' \in Seq([login : Nat, expires : Nat, revoked : BOOLEAN])
  BY DEF Remember!TypeOK
<1>2. DOMAIN rememberRows' = 1 .. Len(rememberRows')
  BY <1>1
<1> QED
  BY <1>2 DEF Remember!Live

\* A step of t is about the tokens of its own login, or makes one of a new login.
Mine(t, k) ==
  \/ tabRequest[t].row # 0 /\ rememberRows[tabRequest[t].row].login = k
  \/ k \notin 1 .. Len(began)

StepOf(t) ==
  /\ tabRequest[t].op # "none" /\ raced' = raced
  /\ \A u \in Process : u # t => tabRequest'[u] = tabRequest[u]
  /\ cookie' \in {cookie, tabRequest[t].row, 0} /\ cookie' \in 0 .. Len(rememberRows)
  /\ \A i \in 1 .. Len(rememberRows) :
       /\ i \in 1 .. Len(rememberRows') /\ rememberRows'[i].login = rememberRows[i].login
       /\ Mine(t, rememberRows[i].login) \/ rememberRows'[i].revoked = rememberRows[i].revoked
  /\ \A i \in 1 .. Len(rememberRows') : i \in 1 .. Len(rememberRows) \/ Mine(t, rememberRows'[i].login)
  /\ tabRequest'[t].row = 0 \/ Mine(t, rememberRows'[tabRequest'[t].row].login)
  /\ Len(began') = Len(began) \/ Len(began') = Len(began) + 1

\* Another request of a login that is its own is one that has just made it.
LEMMA OtherIsLogin ==
  ASSUME Remember!IInv, NEW t \in Process, NEW u \in Process, u # t, tabRequest[t].op # "none",
         NEW n \in 1 .. Len(began), n \notin raced, Remember!Has(u, n)
  PROVE  /\ tabRequest[u].op = "login" /\ tabRequest[u].at = "reply" /\ tabRequest[u].row \in 1 .. Len(rememberRows)
         /\ ~Remember!Has(t, n) /\ (cookie = 0 \/ Remember!LoginOf(cookie) # n)
         /\ \A v \in Process : v # u => ~Remember!Has(v, n)
         /\ ~rememberRows[tabRequest[u].row].revoked /\ Remember!Live(n) \subseteq {tabRequest[u].row}
<1>1. Remember!Sole(u, n)
  BY TokenRows DEF Remember!IInv, Remember!Alone, Remember!Logins
<1>2. tabRequest[u].op = "login"
  BY <1>1, TabRequest DEF Remember!IInv, Remember!Sole
<1>3. tabRequest[u].row # 0 /\ tabRequest[u].row \in 0 .. Len(rememberRows) /\ tabRequest[u].at = "reply"
  BY <1>2, TabRequest DEF Remember!IInv, Remember!OfLogin, Remember!Steps, Remember!Has
<1>4. tabRequest[u].row \in 1 .. Len(rememberRows)
  BY <1>3, TokenRows DEF Remember!IInv
<1> QED
  BY <1>1, <1>2, <1>3, <1>4 DEF Remember!Sole

LEMMA OthersAlone ==
  ASSUME Remember!IInv, Remember!TypeOK', NEW t \in Process, NEW u \in Process, u # t, StepOf(t)
  PROVE  Remember!Alone(u)'
<1> SUFFICES ASSUME NEW n, n \in Remember!Logins', n \notin raced, Remember!Has(u, n)'
             PROVE  Remember!Sole(u, n)'
  BY DEF Remember!Alone, StepOf
<1>1. tabRequest'[u] = tabRequest[u] /\ tabRequest[t].op # "none"
  BY DEF StepOf
<1>2. tabRequest[u].row \in 1 .. Len(rememberRows)
  BY <1>1, TokenRows, TabRequest DEF Remember!Has, Remember!IInv, Remember!OfLogin
<1>3. rememberRows[tabRequest[u].row].login = n /\ n \in 1 .. Len(began) /\ Remember!Has(u, n)
  BY <1>1, <1>2 DEF StepOf, Remember!Has, Remember!LoginOf, Remember!IInv, Remember!OfLogin
<1>4. /\ tabRequest[u].op = "login" /\ tabRequest[u].at = "reply"
      /\ ~Remember!Has(t, n) /\ (cookie = 0 \/ Remember!LoginOf(cookie) # n)
      /\ \A v \in Process : v # u => ~Remember!Has(v, n)
      /\ ~rememberRows[tabRequest[u].row].revoked /\ Remember!Live(n) \subseteq {tabRequest[u].row}
  BY <1>1, <1>3, OtherIsLogin
<1>5. ~Mine(t, n)
  BY <1>3, <1>4 DEF Mine, Remember!Has, Remember!LoginOf
<1>6. \A i \in Remember!Live(n)' : i \in Remember!Live(n)
  BY <1>5, LiveTokens, LiveTokensThen DEF StepOf, Remember!IInv
<1>7. ~rememberRows'[tabRequest[u].row].revoked
  BY <1>2, <1>3, <1>4, <1>5 DEF StepOf
<1>8. cookie' = 0 \/ Remember!LoginOf(cookie)' # n
  BY <1>4, <1>5, TokenRows DEF StepOf, Remember!LoginOf, Mine, Remember!IInv
<1>9. ASSUME NEW v \in Process, v # u PROVE ~Remember!Has(v, n)'
  <2>1. CASE v = t
    BY <2>1, <1>5 DEF StepOf, Remember!Has, Remember!LoginOf
  <2>2. CASE v # t
    <3>1. tabRequest'[v] = tabRequest[v] /\ tabRequest[v].row \in 0 .. Len(rememberRows) /\ ~Remember!Has(v, n)
      BY <2>2, <1>9, <1>4 DEF StepOf, Remember!IInv, Remember!OfLogin
    <3> QED
      BY <3>1, TokenRows DEF StepOf, Remember!Has, Remember!LoginOf, Remember!IInv
  <2> QED
    BY <2>1, <2>2
<1> QED
  BY <1>1, <1>4, <1>6, <1>7, <1>8, <1>9 DEF Remember!Sole

\* The cookie, when a step does not replace the token in it.
LEMMA CookieKept ==
  ASSUME Remember!IInv, Remember!TypeOK', NEW t \in Process, StepOf(t), cookie' = cookie,
         failed \subseteq failed', ended \subseteq ended',
         \A n \in 1 .. Len(began) :
           n \notin raced \cup failed' /\ Remember!Has(t, n) /\ tabRequest[t].op # "login" =>
             \/ Remember!Has(t, n)' /\ Remember!Replaces(t)'
             \/ ~Remember!Replaces(t) /\ UNCHANGED rememberRows
             \/ ~Remember!Replaces(t) /\ Remember!Live(n)' = {} /\ n \in ended'
  PROVE  Remember!InCookie'
<1> SUFFICES ASSUME NEW n, n \in Remember!Logins', n \notin raced \cup failed', cookie # 0,
                    Remember!LoginOf(cookie)' = n
             PROVE  Remember!Kept(n)'
  BY DEF Remember!InCookie, StepOf
<1>1. cookie \in 1 .. Len(rememberRows)
  BY TokenRows DEF Remember!IInv, Remember!OfLogin
<1>2. rememberRows[cookie].login = n /\ n \in 1 .. Len(began) /\ Remember!LoginOf(cookie) = n
  BY <1>1 DEF StepOf, Remember!LoginOf, Remember!IInv, Remember!OfLogin
<1>3. Remember!Kept(n)
  BY <1>2, TokenRows DEF Remember!IInv, Remember!InCookie, Remember!Logins
<1>4. CASE ~Remember!Has(t, n)
  <2>1. ~Mine(t, n)
    BY <1>2, <1>4, TabRequest DEF Mine, Remember!Has, Remember!LoginOf, Remember!IInv
  <2>2. \A s \in Process : ~(Remember!Has(s, n) /\ Remember!Replaces(s))
    BY <1>2, <1>4, OtherIsLogin DEF Remember!Replaces, StepOf
  <2>3. Remember!Live(n) \subseteq {cookie} /\ (rememberRows[cookie].revoked => n \in ended)
    BY <1>3, <2>2 DEF Remember!Kept
  <2>4. \A i \in Remember!Live(n)' : i \in Remember!Live(n)
    BY <2>1, LiveTokens, LiveTokensThen DEF StepOf, Remember!IInv
  <2>5. rememberRows'[cookie].revoked => n \in ended'
    BY <1>1, <1>2, <2>1, <2>3 DEF StepOf
  <2> QED
    BY <2>3, <2>4, <2>5 DEF Remember!Kept
<1>5. CASE Remember!Has(t, n)
  <2>1. Remember!Sole(t, n)
    BY <1>2, <1>5, TokenRows DEF Remember!IInv, Remember!Alone, Remember!Logins
  <2>2. tabRequest[t].op # "login" /\ \A s \in Process : s # t => tabRequest[s].op = "none"
    BY <1>2, <2>1 DEF Remember!Sole
  <2>3. CASE Remember!Has(t, n)' /\ Remember!Replaces(t)'
    BY <2>3 DEF Remember!Kept
  <2>4. CASE ~Remember!Replaces(t) /\ UNCHANGED rememberRows
    <3>1. Remember!Live(n) \subseteq {cookie} /\ (rememberRows[cookie].revoked => n \in ended)
      BY <1>3, <2>2, <2>4 DEF Remember!Kept, Remember!Replaces
    <3>2. Remember!Live(n)' = Remember!Live(n)
      BY <2>4 DEF Remember!Live
    <3> QED
      BY <3>1, <3>2, <2>4 DEF Remember!Kept
  <2>5. CASE Remember!Live(n)' = {} /\ n \in ended'
    BY <2>5 DEF Remember!Kept
  <2> QED
    BY <1>2, <1>5, <2>2, <2>3, <2>4, <2>5
<1> QED
  BY <1>4, <1>5

\* The other steps keep the tokens each login has at most one of.
LEMMA OneEachKept ==
  ASSUME Remember!IInv, Remember!TypeOK', raced \subseteq raced', began' = began,
         \A n \in 1 .. Len(began) : Remember!Live(n)' \subseteq Remember!Live(n)
  PROVE  Remember!OneEach'
<1>1. Remember!Logins' = Remember!Logins /\ Remember!Logins = 1 .. Len(began)
  BY TokenRows DEF Remember!Logins, Remember!IInv
<1>2. ASSUME NEW n \in 1 .. Len(began), n \notin raced', NEW i \in Remember!Live(n)', NEW j \in Remember!Live(n)'
      PROVE  i = j
  <2>1. i \in Remember!Live(n) /\ j \in Remember!Live(n) /\ n \notin raced
    BY <1>2
  <2> QED
    BY <1>1, <2>1 DEF Remember!IInv, Remember!OneEach
<1> QED
  BY <1>1, <1>2 DEF Remember!OneEach

LEMMA SendStep ==
  ASSUME Remember!IInv, NEW t \in Process, NEW op, NEW at, NEW i, Remember!Sends(t, op, at, i),
         \/ op = "login" /\ at = "insert" /\ i = 0
         \/ op = "refresh" /\ at = "select" /\ i = cookie /\ cookie # 0
         \/ op = "logout" /\ at = "update" /\ i = cookie,
         UNCHANGED <<rememberRows, active, clock, cookie, began, failed, ended>>
  PROVE  Remember!IInv'
<1> USE DEF Remember!IInv
<1>1. /\ op \in {"none", "login", "refresh", "logout"} /\ i \in Nat /\ i \in 0 .. Len(rememberRows)
      /\ at \in {"idle", "select", "revoke", "refused", "insert", "update", "reply"}
  BY TokenRows DEF Remember!TypeOK, Remember!OfLogin
<1>2. /\ tabRequest' \in [Process -> Remember!Request]
      /\ tabRequest[t].op = "none"
      /\ tabRequest'[t].op = op /\ tabRequest'[t].at = at /\ tabRequest'[t].row = i
      /\ \A u \in Process : u # t => tabRequest'[u] = tabRequest[u]
      /\ \A n : n \notin raced' =>
           /\ n \notin raced
           /\ \/ \A u \in Process : tabRequest[u].op = "none"
              \/ n # Remember!LoginOf(i) /\ \A u \in Process : tabRequest[u].op # "none" => n # Remember!LoginOf(tabRequest[u].row)
  BY <1>1, Sent
<1>3. Remember!TypeOK'
  BY <1>2 DEF Remember!TypeOK
<1>4. Remember!OfLogin'
  BY <1>1, <1>2, TokenRows, ZenonT(60) DEF Remember!OfLogin, Remember!Logins, Remember!Steps
<1>5. Remember!Logins' = Remember!Logins /\ \A n : Remember!Live(n)' = Remember!Live(n)
  BY DEF Remember!Logins, Remember!Live
<1>6. ASSUME NEW u \in Process, NEW n \in Remember!Logins, n \notin raced', Remember!Has(u, n)'
      PROVE  Remember!Sole(u, n)'
  <2>1. n \notin raced /\ n \in 1 .. Len(began)
    BY <1>2, <1>6, TokenRows DEF Remember!Logins
  <2>2. CASE u # t
    <3>1. Remember!Has(u, n) /\ tabRequest[u].op # "none"
      BY <1>2, <1>6, <2>2, TabRequest DEF Remember!Has, Remember!LoginOf, Remember!OfLogin
    <3> QED
      BY <1>2, <1>6, <2>2, <3>1 DEF Remember!Has
  <2>3. CASE u = t
    <3>1. i = cookie /\ cookie # 0 /\ Remember!LoginOf(cookie) = n /\ op # "login"
      BY <1>2, <1>6, <2>3, <2>1 DEF Remember!Has, Remember!LoginOf
    <3>2. \A v \in Process : tabRequest[v].op = "none"
      BY <1>2, <1>6, <3>1
    <3>3. \A v \in Process : v # t => tabRequest'[v].op = "none"
      BY <1>2, <3>2
    <3>4. /\ tabRequest'[t].op # "login" /\ tabRequest'[t].at \in {"select", "update"} /\ tabRequest'[t].row = cookie
          /\ Remember!LoginOf(cookie)' = n /\ cookie' = cookie
      BY <1>2, <3>1 DEF Remember!LoginOf
    <3> QED
      BY <2>3, <3>3, <3>4 DEF Remember!Sole
  <2> QED
    BY <2>2, <2>3
<1>7. Remember!InCookie'
  <2> SUFFICES ASSUME NEW n \in Remember!Logins, n \notin raced' \cup failed, cookie # 0, Remember!LoginOf(cookie) = n
               PROVE  Remember!Kept(n)'
    BY <1>5 DEF Remember!InCookie, Remember!LoginOf
  <2>1. Remember!Kept(n)
    BY <1>2 DEF Remember!InCookie
  <2>2. CASE \E s \in Process : Remember!Has(s, n) /\ Remember!Replaces(s)
    <3>1. PICK s \in Process : Remember!Has(s, n) /\ Remember!Replaces(s)
      BY <2>2
    <3>2. s # t /\ tabRequest[s].op # "none"
      BY <1>2, <3>1 DEF Remember!Replaces
    <3>3. FALSE
      BY <1>2, <3>1, <3>2 DEF Remember!Has
    <3> QED
      BY <3>3
  <2>3. CASE Remember!Live(n) \subseteq {cookie} /\ (rememberRows[cookie].revoked => n \in ended)
    BY <1>5, <2>3 DEF Remember!Kept
  <2> QED
    BY <2>1, <2>2, <2>3 DEF Remember!Kept
<1>8. Remember!OneEach'
  BY <1>2, <1>5 DEF Remember!OneEach
<1> QED
  BY <1>3, <1>4, <1>5, <1>6, <1>7, <1>8 DEF Remember!Alone

\* The token a refresh has found is good for it, or is refused for a reason.
LEMMA SelectStep ==
  ASSUME Remember!IInv, NEW t \in Process, Remember!Select(t)
  PROVE  Remember!IInv'
<1> USE DEF Remember!IInv
<1> DEFINE i == tabRequest[t].row
<1>1. UNCHANGED <<rememberRows, active, clock, cookie, faults, began, failed, ended>>
  BY DEF Remember!Select
<1>4. PICK at \in {"revoke", "refused"} :
        Remember!Goes(t, "select", at, i) /\ (at = "revoke" <=> Remember!Usable(i))
  BY DEF Remember!Select
<1>2. /\ tabRequest' \in [Process -> Remember!Request]
      /\ tabRequest[t].at = "select" /\ raced' = raced
      /\ tabRequest'[t].op = tabRequest[t].op /\ tabRequest'[t].at = at /\ tabRequest'[t].row = i
      /\ \A u \in Process : u # t => tabRequest'[u] = tabRequest[u]
  <2>1. at \in {"idle", "select", "revoke", "refused", "insert", "update", "reply"} /\ i \in Nat /\ Remember!TypeOK
    BY TabRequest
  <2>2. /\ tabRequest' = [tabRequest EXCEPT ![t].at = at, ![t].row = i]
        /\ tabRequest[t].at = "select" /\ raced' = raced
    BY <1>4 DEF Remember!Goes
  <2> QED
    BY <2>1, <2>2, WentOn
<1>3. /\ tabRequest[t].op = "refresh" /\ i \in 1 .. Len(rememberRows)
      /\ rememberRows[i].login \in 1 .. Len(began)
      /\ rememberRows[i].expires = began[rememberRows[i].login] + Days
  <2>1. tabRequest[t].op = "refresh"
    BY <1>2, TabRequest DEF Remember!OfLogin, Remember!Steps
  <2> QED
    BY <2>1, TabRequest, TokenRows DEF Remember!OfLogin
<1>5. Remember!TypeOK'
  BY <1>1, <1>2 DEF Remember!TypeOK
<1>6. Remember!OfLogin'
  BY <1>1, <1>2, <1>3, <1>4, TokenRows DEF Remember!OfLogin, Remember!Logins, Remember!Steps
<1>7. StepOf(t)
  BY <1>1, <1>2, <1>3, TokenRows DEF StepOf, Remember!OfLogin, Mine
<1>8. Remember!Alone(t)'
  <2> SUFFICES ASSUME NEW n \in 1 .. Len(began), n \notin raced, Remember!Has(t, n)
               PROVE  Remember!Sole(t, n)'
    BY <1>1, <1>2, TokenRows DEF Remember!Alone, Remember!Logins, Remember!Has, Remember!LoginOf
  <2>1. Remember!Sole(t, n) /\ n \in Remember!Logins
    BY TokenRows DEF Remember!Alone, Remember!Logins
  <2>2. /\ cookie = i /\ Remember!LoginOf(cookie) = n /\ rememberRows[i].login = n
        /\ \A u \in Process : u # t => tabRequest[u].op = "none"
    BY <1>2, <1>3, <2>1 DEF Remember!Sole, Remember!LoginOf
  <2>3. at = "revoke" => Remember!Live(n) \subseteq {cookie}
    <3>1. at = "revoke" => i \in Remember!Live(n)
      BY <1>3, <1>4, <2>2, LiveTokens DEF Remember!Usable
    <3> QED
      BY <2>1, <2>2, <3>1 DEF Remember!OneEach
  <2>4. at = "refused" => n \in failed \cup ended \/ clock >= began[n] + Days
    <3> SUFFICES ASSUME at = "refused", n \notin failed \cup ended
                 PROVE  clock >= began[n] + Days
      OBVIOUS
    <3>1. Remember!Kept(n)
      BY <1>3, <2>1, <2>2 DEF Remember!InCookie
    <3>2. ~rememberRows[i].revoked
      BY <1>2, <2>2, <3>1 DEF Remember!Kept, Remember!Replaces
    <3>3. active
      BY <2>1 DEF Remember!OfLogin
    <3>4. ~(began[n] + Days > clock)
      BY <1>3, <1>4, <2>2, <3>2, <3>3 DEF Remember!Usable
    <3> QED
      BY <3>4, TokenRows, RememberDays DEF Remember!TypeOK
  <2>5. Remember!Live(n)' = Remember!Live(n) /\ Remember!LoginOf(cookie)' = Remember!LoginOf(cookie)
    BY <1>1 DEF Remember!Live, Remember!LoginOf
  <2> QED
    BY <1>1, <1>2, <1>3, <1>4, <2>2, <2>3, <2>4, <2>5 DEF Remember!Sole
<1>9. Remember!InCookie'
  BY <1>1, <1>2, <1>5, <1>7, CookieKept DEF Remember!Replaces
<1>10. Remember!OneEach'
  BY <1>1, <1>2, <1>5, OneEachKept DEF Remember!Live
<1> QED
  BY <1>5, <1>6, <1>7, <1>8, <1>9, <1>10, OthersAlone

\* The token a refresh has found is revoked, and replaced next.
LEMMA RevokeStep ==
  ASSUME Remember!IInv, NEW t \in Process, Remember!Revoke(t)
  PROVE  Remember!IInv'
<1> USE DEF Remember!IInv
<1>1. /\ tabRequest[t].op = "refresh" /\ tabRequest[t].at = "revoke"
      /\ tabRequest[t].row \in 1 .. Len(rememberRows)
  BY TabRequest, TokenRows DEF Remember!Revoke, Remember!Goes, Remember!OfLogin, Remember!Steps
<1> PICK i \in 1 .. Len(rememberRows) : i = tabRequest[t].row
  BY <1>1
<1>2. /\ tabRequest' = [tabRequest EXCEPT ![t].at = "insert", ![t].row = i] /\ raced' = raced
      /\ rememberRows' = [rememberRows EXCEPT ![i].revoked = TRUE]
      /\ UNCHANGED <<active, clock, cookie, faults, began, failed, ended>>
  BY DEF Remember!Revoke, Remember!Goes, Remember!Revoked
<1>3. /\ tabRequest' \in [Process -> Remember!Request]
      /\ tabRequest'[t].op = "refresh" /\ tabRequest'[t].at = "insert" /\ tabRequest'[t].row = i
      /\ \A u \in Process : u # t => tabRequest'[u] = tabRequest[u]
  <2>1. i \in Nat
    BY TokenRows
  <2> QED
    BY <1>1, <1>2, <2>1, WentOn
<1>4. /\ rememberRows' \in Seq([login : Nat, expires : Nat, revoked : BOOLEAN])
      /\ Len(rememberRows') = Len(rememberRows) /\ DOMAIN rememberRows' = 1 .. Len(rememberRows)
      /\ \A j \in 1 .. Len(rememberRows) :
           /\ rememberRows'[j].login = rememberRows[j].login
           /\ rememberRows'[j].expires = rememberRows[j].expires
           /\ rememberRows'[j].revoked = IF j = i THEN TRUE ELSE rememberRows[j].revoked
  BY <1>2, RowRevoked
<1>5. Remember!TypeOK'
  BY <1>2, <1>3, <1>4 DEF Remember!TypeOK
<1>6. Remember!OfLogin'
  <2>1. /\ cookie' \in 0 .. Len(rememberRows') /\ Remember!Logins' = 1 .. Len(began)
        /\ Remember!Logins = 1 .. Len(began)
    BY <1>2, <1>4, TokenRows DEF Remember!OfLogin, Remember!Logins
  <2>2. \A j \in 1 .. Len(rememberRows') :
          /\ rememberRows'[j].login \in 1 .. Len(began')
          /\ rememberRows'[j].expires = began'[rememberRows'[j].login] + Days
    <3> SUFFICES ASSUME NEW j \in 1 .. Len(rememberRows)
                 PROVE  /\ rememberRows'[j].login \in 1 .. Len(began)
                        /\ rememberRows'[j].expires = began[rememberRows'[j].login] + Days
      BY <1>2, <1>4
    <3>1. /\ rememberRows[j].login \in 1 .. Len(began)
          /\ rememberRows[j].expires = began[rememberRows[j].login] + Days
      BY DEF Remember!OfLogin
    <3>2. rememberRows'[j].login = rememberRows[j].login /\ rememberRows'[j].expires = rememberRows[j].expires
      BY <1>4
    <3> QED
      BY <3>1, <3>2
  <2>3. ASSUME NEW u \in Process
        PROVE  /\ tabRequest'[u].row \in 0 .. Len(rememberRows') /\ tabRequest'[u].at \in Remember!Steps(tabRequest'[u].op)
               /\ tabRequest'[u].op = "login" => (tabRequest'[u].row = 0 <=> tabRequest'[u].at = "insert")
               /\ tabRequest'[u].op = "refresh" => tabRequest'[u].row # 0
               /\ tabRequest'[u].op = "none" => tabRequest'[u].row = 0
    <3>1. CASE u = t
      BY <1>3, <1>4, <3>1, TokenRows DEF Remember!Steps
    <3>2. CASE u # t
      BY <1>3, <1>4, <3>2 DEF Remember!OfLogin
    <3> QED
      BY <3>1, <3>2
  <2>4. ~active' => \A n \in Remember!Logins' : n \in ended'
    BY <1>2, <2>1 DEF Remember!OfLogin
  <2> QED
    BY <1>2, <2>1, <2>2, <2>3, <2>4 DEF Remember!OfLogin
<1>7. StepOf(t)
  BY <1>1, <1>2, <1>3, <1>4, TokenRows DEF StepOf, Remember!OfLogin, Mine
<1>8. \A n : Remember!Live(n)' \subseteq Remember!Live(n) /\ i \notin Remember!Live(n)'
  <2> SUFFICES ASSUME NEW n, NEW j \in Remember!Live(n)' PROVE j \in Remember!Live(n) /\ j # i
    OBVIOUS
  <2>1. j \in 1 .. Len(rememberRows) /\ rememberRows'[j].login = n /\ ~rememberRows'[j].revoked
    BY <1>4, <1>5, LiveTokensThen
  <2>2. rememberRows[j].login = n /\ ~rememberRows[j].revoked /\ j # i
    BY <1>4, <2>1
  <2> QED
    BY <2>1, <2>2, LiveTokens
<1>9. Remember!Alone(t)'
  <2> SUFFICES ASSUME NEW n \in 1 .. Len(began), n \notin raced, Remember!Has(t, n)'
               PROVE  Remember!Sole(t, n)'
    BY <1>2, TokenRows DEF Remember!Alone, Remember!Logins
  <2>1. Remember!Has(t, n) /\ Remember!LoginOf(cookie)' = Remember!LoginOf(cookie)
    BY <1>1, <1>2, <1>3, <1>4, TokenRows DEF Remember!Has, Remember!LoginOf, Remember!OfLogin
  <2>2. Remember!Sole(t, n)
    BY <2>1, TokenRows DEF Remember!Alone, Remember!Logins
  <2>3. Remember!LoginOf(cookie)' = n /\ \A u \in Process : u # t => tabRequest'[u].op = "none"
    BY <1>1, <1>3, <2>1, <2>2 DEF Remember!Sole
  <2>4. Remember!Live(n)' = {}
    BY <1>1, <1>8, <2>2 DEF Remember!Sole
  <2> QED
    BY <1>3, <2>3, <2>4 DEF Remember!Sole
<1>10. Remember!InCookie'
  <2>1. \A n : Remember!Has(t, n) => Remember!Has(t, n)' /\ Remember!Replaces(t)'
    BY <1>1, <1>3, <1>4 DEF Remember!Has, Remember!LoginOf, Remember!Replaces
  <2> QED
    BY <1>2, <1>5, <1>7, <2>1, CookieKept
<1>11. Remember!OneEach'
  BY <1>2, <1>5, <1>8, OneEachKept
<1> QED
  BY <1>5, <1>6, <1>7, <1>9, <1>10, <1>11, OthersAlone

\* The cookie's token is revoked, and the login has ended.
LEMMA UpdateLogoutStep ==
  ASSUME Remember!IInv, NEW t \in Process, Remember!UpdateLogout(t)
  PROVE  Remember!IInv'
<1> USE DEF Remember!IInv
<1>1. /\ tabRequest[t].op = "logout" /\ tabRequest[t].at = "update"
      /\ tabRequest[t].row \in 0 .. Len(rememberRows)
  BY TabRequest, TokenRows DEF Remember!UpdateLogout, Remember!Goes, Remember!OfLogin, Remember!Steps
<1> PICK i \in 0 .. Len(rememberRows) : i = tabRequest[t].row
  BY <1>1
<1>2. /\ tabRequest' = [tabRequest EXCEPT ![t].at = "reply", ![t].row = i] /\ raced' = raced
      /\ rememberRows' = IF i = 0 THEN rememberRows ELSE [rememberRows EXCEPT ![i].revoked = TRUE]
      /\ ended' = ended \cup {Remember!LoginOf(i)}
      /\ UNCHANGED <<active, clock, cookie, faults, began, failed>>
  BY DEF Remember!UpdateLogout, Remember!Goes, Remember!LoggedOut
<1>3. /\ tabRequest' \in [Process -> Remember!Request]
      /\ tabRequest'[t].op = "logout" /\ tabRequest'[t].at = "reply" /\ tabRequest'[t].row = i
      /\ \A u \in Process : u # t => tabRequest'[u] = tabRequest[u]
  <2>1. i \in Nat
    BY TokenRows
  <2> QED
    BY <1>1, <1>2, <2>1, WentOn
<1>4. /\ rememberRows' \in Seq([login : Nat, expires : Nat, revoked : BOOLEAN])
      /\ Len(rememberRows') = Len(rememberRows) /\ DOMAIN rememberRows' = 1 .. Len(rememberRows)
      /\ \A j \in 1 .. Len(rememberRows) :
           /\ rememberRows'[j].login = rememberRows[j].login
           /\ rememberRows'[j].expires = rememberRows[j].expires
           /\ rememberRows'[j].revoked = IF j = i THEN TRUE ELSE rememberRows[j].revoked
  <2>1. CASE i = 0
    <3>1. rememberRows' = rememberRows /\ \A j \in 1 .. Len(rememberRows) : j # i
      BY <1>2, <2>1
    <3> QED
      BY <3>1, TokenRows DEF Remember!TypeOK
  <2>2. CASE i # 0
    <3>1. i \in 1 .. Len(rememberRows)
      BY <2>2, TokenRows
    <3> QED
      BY <1>2, <2>2, <3>1, RowRevoked
  <2> QED
    BY <2>1, <2>2
<1>5. Remember!TypeOK'
  BY <1>2, <1>3, <1>4 DEF Remember!TypeOK
<1>6. Remember!OfLogin'
  <2>1. /\ cookie' \in 0 .. Len(rememberRows') /\ Remember!Logins' = 1 .. Len(began)
        /\ Remember!Logins = 1 .. Len(began)
    BY <1>2, <1>4, TokenRows DEF Remember!OfLogin, Remember!Logins
  <2>2. \A j \in 1 .. Len(rememberRows') :
          /\ rememberRows'[j].login \in 1 .. Len(began')
          /\ rememberRows'[j].expires = began'[rememberRows'[j].login] + Days
    <3> SUFFICES ASSUME NEW j \in 1 .. Len(rememberRows)
                 PROVE  /\ rememberRows'[j].login \in 1 .. Len(began)
                        /\ rememberRows'[j].expires = began[rememberRows'[j].login] + Days
      BY <1>2, <1>4, ZenonT(60)
    <3>1. /\ rememberRows[j].login \in 1 .. Len(began)
          /\ rememberRows[j].expires = began[rememberRows[j].login] + Days
      BY DEF Remember!OfLogin
    <3>2. rememberRows'[j].login = rememberRows[j].login /\ rememberRows'[j].expires = rememberRows[j].expires
      BY <1>4
    <3> QED
      BY <3>1, <3>2
  <2>3. ASSUME NEW u \in Process
        PROVE  /\ tabRequest'[u].row \in 0 .. Len(rememberRows') /\ tabRequest'[u].at \in Remember!Steps(tabRequest'[u].op)
               /\ tabRequest'[u].op = "login" => (tabRequest'[u].row = 0 <=> tabRequest'[u].at = "insert")
               /\ tabRequest'[u].op = "refresh" => tabRequest'[u].row # 0
               /\ tabRequest'[u].op = "none" => tabRequest'[u].row = 0
    <3>1. CASE u = t
      BY <1>3, <1>4, <3>1, TokenRows DEF Remember!Steps
    <3>2. CASE u # t
      BY <1>3, <1>4, <3>2 DEF Remember!OfLogin
    <3> QED
      BY <3>1, <3>2
  <2>4. ~active' => \A n \in Remember!Logins' : n \in ended'
    BY <1>2, <2>1 DEF Remember!OfLogin
  <2> QED
    BY <1>2, <2>1, <2>2, <2>3, <2>4 DEF Remember!OfLogin
<1>7. StepOf(t)
  <2>0. i # 0 => Mine(t, rememberRows[i].login) /\ rememberRows'[i].login = rememberRows[i].login
    <3>1. i # 0 => i \in 1 .. Len(rememberRows)
      BY TokenRows
    <3> QED
      BY <1>4, <3>1 DEF Mine
  <2>1. ASSUME NEW j \in 1 .. Len(rememberRows)
        PROVE  /\ j \in 1 .. Len(rememberRows') /\ rememberRows'[j].login = rememberRows[j].login
               /\ Mine(t, rememberRows[j].login) \/ rememberRows'[j].revoked = rememberRows[j].revoked
    <3>1. CASE j = i
      <4>1. i # 0
        BY <3>1, TokenRows
      <4> QED
        BY <1>4, <2>0, <3>1, <4>1
    <3>2. CASE j # i
      BY <1>4, <3>2
    <3> QED
      BY <3>1, <3>2
  <2>2. i = 0 \/ Mine(t, rememberRows'[i].login)
    BY <2>0
  <2> QED
    BY <1>1, <1>2, <1>3, <1>4, <2>1, <2>2, TokenRows DEF StepOf, Remember!OfLogin
<1>8. \A n : Remember!Live(n)' \subseteq Remember!Live(n) /\ i \notin Remember!Live(n)'
  <2> SUFFICES ASSUME NEW n, NEW j \in Remember!Live(n)' PROVE j \in Remember!Live(n) /\ j # i
    OBVIOUS
  <2>1. j \in 1 .. Len(rememberRows) /\ rememberRows'[j].login = n /\ ~rememberRows'[j].revoked
    BY <1>4, <1>5, LiveTokensThen
  <2>2. rememberRows[j].login = n /\ ~rememberRows[j].revoked /\ j # i
    BY <1>4, <2>1
  <2> QED
    BY <2>1, <2>2, LiveTokens
<1>9. ASSUME NEW n \in 1 .. Len(began), n \notin raced, Remember!Has(t, n)
      PROVE  /\ Remember!LoginOf(cookie)' = n /\ i = cookie
             /\ \A u \in Process : u # t => tabRequest'[u].op = "none"
             /\ n \in ended' /\ (n \notin failed => Remember!Live(n)' = {})
  <2>1. Remember!Sole(t, n)
    BY <1>9, TokenRows DEF Remember!Alone, Remember!Logins
  <2>2. /\ Remember!LoginOf(cookie) = n /\ i = cookie
        /\ \A u \in Process : u # t => tabRequest[u].op = "none"
    BY <1>1, <2>1 DEF Remember!Sole
  <2>3. Remember!LoginOf(cookie)' = n
    BY <1>2, <1>4, <2>2, TokenRows DEF Remember!LoginOf, Remember!OfLogin
  <2>4. n \in ended'
    BY <1>2, <2>2 DEF Remember!LoginOf
  <2>5. ASSUME n \notin failed PROVE Remember!Live(n)' = {}
    <3>1. cookie # 0 /\ Remember!Kept(n)
      BY <1>9, <2>2, <2>5, TokenRows DEF Remember!InCookie, Remember!Logins, Remember!Has
    <3>2. Remember!Live(n) \subseteq {cookie}
      BY <1>1, <2>2, <3>1 DEF Remember!Kept, Remember!Replaces
    <3> QED
      BY <1>8, <2>2, <3>2
  <2> QED
    BY <1>3, <2>2, <2>3, <2>4, <2>5
<1>10. Remember!Alone(t)'
  <2> SUFFICES ASSUME NEW n \in 1 .. Len(began), n \notin raced, Remember!Has(t, n)'
               PROVE  Remember!Sole(t, n)'
    BY <1>2, TokenRows DEF Remember!Alone, Remember!Logins
  <2>1. i # 0 /\ i \in 1 .. Len(rememberRows) /\ rememberRows'[i].login = n
    BY <1>3, TokenRows DEF Remember!Has, Remember!LoginOf
  <2>2. Remember!Has(t, n)
    BY <1>4, <2>1 DEF Remember!Has, Remember!LoginOf
  <2> QED
    BY <1>2, <1>3, <1>9, <2>2 DEF Remember!Sole
<1>11. Remember!InCookie'
  <2>1. \A n \in 1 .. Len(began) : n \notin raced \cup failed' /\ Remember!Has(t, n) =>
          ~Remember!Replaces(t) /\ Remember!Live(n)' = {} /\ n \in ended'
    BY <1>1, <1>2, <1>9 DEF Remember!Replaces
  <2> QED
    BY <1>2, <1>5, <1>7, <2>1, CookieKept
<1>12. Remember!OneEach'
  BY <1>2, <1>5, <1>8, OneEachKept
<1> QED
  BY <1>5, <1>6, <1>7, <1>10, <1>11, <1>12, OthersAlone

\* The token that a login makes, or that takes the place of the one revoked.
LEMMA InsertStep ==
  ASSUME Remember!IInv, NEW t \in Process, Remember!Insert(t)
  PROVE  Remember!IInv'
<1> USE DEF Remember!IInv
<1> PICK i \in 0 .. Len(rememberRows) : i = tabRequest[t].row
  BY DEF Remember!OfLogin
<1> DEFINE k == Len(rememberRows) + 1
<1> PICK m : m = IF i = 0 THEN Len(began) + 1 ELSE rememberRows[i].login
  OBVIOUS
<1>1. /\ tabRequest[t].at = "insert" /\ tabRequest[t].op \in {"login", "refresh"}
      /\ i = 0 <=> tabRequest[t].op = "login"
  BY TabRequest DEF Remember!Insert, Remember!Goes, Remember!OfLogin, Remember!Steps
<1>2. /\ tabRequest' = [tabRequest EXCEPT ![t].at = "reply", ![t].row = k] /\ raced' = raced
      /\ rememberRows' = Append(rememberRows, [login |-> m, expires |-> Remember!Expiry(i), revoked |-> FALSE])
      /\ began' = IF i = 0 THEN Append(began, clock) ELSE began
      /\ ended' = IF active THEN ended ELSE ended \cup {m}
      /\ UNCHANGED <<active, clock, cookie, faults, failed>>
  BY DEF Remember!Insert, Remember!Goes
<1>3. /\ began' \in Seq(Nat) /\ Len(began') = (IF i = 0 THEN Len(began) + 1 ELSE Len(began))
      /\ \A n \in 1 .. Len(began) : began'[n] = began[n]
      /\ i = 0 => began'[m] = clock
      /\ DOMAIN began' = 1 .. Len(began')
  BY <1>2 DEF Remember!TypeOK
<1>4. /\ m \in 1 .. Len(began') /\ m \in Nat /\ Len(began) \in Nat /\ (i = 0 => m \notin 1 .. Len(began))
      /\ i # 0 => m \in 1 .. Len(began) /\ i \in 1 .. Len(rememberRows)
  BY <1>3, TokenRows DEF Remember!OfLogin
<1>5. Remember!Expiry(i) \in Nat /\ Remember!Expiry(i) = began'[m] + Days
  <2>1. CASE i = 0
    BY <2>1, <1>3, RememberDays DEF Remember!Expiry, Remember!TypeOK
  <2>2. CASE i # 0
    BY <2>2, <1>3, <1>4, TokenRows DEF Remember!Expiry, Remember!OfLogin
  <2> QED
    BY <2>1, <2>2
<1>6. /\ tabRequest' \in [Process -> Remember!Request]
      /\ tabRequest'[t].op = tabRequest[t].op /\ tabRequest'[t].at = "reply" /\ tabRequest'[t].row = k
      /\ \A u \in Process : u # t => tabRequest'[u] = tabRequest[u]
  <2>1. k \in Nat
    BY TokenRows
  <2> QED
    BY <1>2, <2>1, WentOn
<1>7. /\ rememberRows' \in Seq([login : Nat, expires : Nat, revoked : BOOLEAN])
      /\ Len(rememberRows') = k /\ k \in Nat /\ k # 0 /\ Len(rememberRows) \in Nat
      /\ rememberRows'[k].login = m /\ rememberRows'[k].expires = began'[m] + Days /\ ~rememberRows'[k].revoked
      /\ \A j \in 1 .. Len(rememberRows) : rememberRows'[j] = rememberRows[j]
  <2>1. [login |-> m, expires |-> Remember!Expiry(i), revoked |-> FALSE] \in [login : Nat, expires : Nat, revoked : BOOLEAN]
    BY <1>4, <1>5
  <2>2. /\ rememberRows' \in Seq([login : Nat, expires : Nat, revoked : BOOLEAN])
        /\ Len(rememberRows') = k
        /\ rememberRows'[k] = [login |-> m, expires |-> Remember!Expiry(i), revoked |-> FALSE]
        /\ \A j \in 1 .. Len(rememberRows) : rememberRows'[j] = rememberRows[j]
    BY <1>2, <2>1, RowMade
  <2> QED
    BY <1>5, <2>2, TokenRows
<1> HIDE DEF k
<1>8. \A j \in 1 .. Len(rememberRows') : j \in 1 .. Len(rememberRows) \/ j = k
  BY <1>7 DEF k
<1>9. Remember!TypeOK'
  BY <1>2, <1>3, <1>6, <1>7 DEF Remember!TypeOK
<1>10. \A j \in 0 .. Len(rememberRows) : j \in 0 .. Len(rememberRows') /\ (j # 0 => j \in 1 .. Len(rememberRows))
  BY <1>7 DEF k
<1>11. \A n \in 1 .. Len(began) : n \in 1 .. Len(began')
  BY <1>3, <1>4
<1>12. Remember!OfLogin'
  <2>1. cookie' \in 0 .. Len(rememberRows')
    BY <1>2, <1>10 DEF Remember!OfLogin
  <2>2. ASSUME NEW j \in 1 .. Len(rememberRows')
        PROVE  /\ rememberRows'[j].login \in 1 .. Len(began')
               /\ rememberRows'[j].expires = began'[rememberRows'[j].login] + Days
    <3>1. CASE j = k
      BY <1>4, <1>7, <3>1
    <3>2. CASE j \in 1 .. Len(rememberRows)
      <4>1. rememberRows'[j] = rememberRows[j]
        BY <1>7, <3>2
      <4>2. /\ rememberRows[j].login \in 1 .. Len(began)
            /\ rememberRows[j].expires = began[rememberRows[j].login] + Days
        BY <3>2 DEF Remember!OfLogin
      <4> QED
        BY <1>3, <1>11, <4>1, <4>2
    <3> QED
      BY <1>8, <3>1, <3>2
  <2>3. ASSUME NEW u \in Process
        PROVE  /\ tabRequest'[u].row \in 0 .. Len(rememberRows') /\ tabRequest'[u].at \in Remember!Steps(tabRequest'[u].op)
               /\ tabRequest'[u].op = "login" => (tabRequest'[u].row = 0 <=> tabRequest'[u].at = "insert")
               /\ tabRequest'[u].op = "refresh" => tabRequest'[u].row # 0
               /\ tabRequest'[u].op = "none" => tabRequest'[u].row = 0
    <3>1. CASE u = t
      BY <1>1, <1>6, <1>7, <3>1 DEF Remember!Steps
    <3>2. CASE u # t
      BY <1>6, <1>10, <3>2 DEF Remember!OfLogin
    <3> QED
      BY <3>1, <3>2
  <2>4. ~active' => \A n \in Remember!Logins' : n \in ended'
    BY <1>2, <1>3, <1>4, TokenRows DEF Remember!OfLogin, Remember!Logins
  <2> QED
    BY <2>1, <2>2, <2>3, <2>4 DEF Remember!OfLogin
<1>13. Mine(t, m)
  BY <1>4 DEF Mine
<1>14. StepOf(t)
  <2>1. ASSUME NEW j \in 1 .. Len(rememberRows)
        PROVE  j \in 1 .. Len(rememberRows') /\ rememberRows'[j] = rememberRows[j]
    <3>1. Len(rememberRows') = Len(rememberRows) + 1 /\ Len(rememberRows) \in Nat
      BY <1>7 DEF k
    <3>2. j \in 1 .. Len(rememberRows')
      BY <3>1
    <3> QED
      BY <1>7, <3>2
  <2>2. \A j \in 1 .. Len(rememberRows') : j \in 1 .. Len(rememberRows) \/ Mine(t, rememberRows'[j].login)
    BY <1>7, <1>8, <1>13
  <2>3. Mine(t, rememberRows'[tabRequest'[t].row].login)
    BY <1>6, <1>7, <1>13
  <2>4. Len(began') = Len(began) \/ Len(began') = Len(began) + 1
    BY <1>3
  <2> QED
    BY <1>1, <1>2, <1>6, <2>1, <2>2, <2>3, <2>4 DEF StepOf, Remember!OfLogin
<1>15. ASSUME m \notin raced
       PROVE  \A j \in Remember!Live(m)' : j = k
  <2> SUFFICES ASSUME NEW j \in 1 .. Len(rememberRows), rememberRows[j].login = m, ~rememberRows[j].revoked
               PROVE  FALSE
    BY <1>7, <1>8, <1>9, LiveTokensThen
  <2>1. i # 0
    BY <1>4 DEF Remember!OfLogin
  <2>2. Remember!Has(t, m) /\ m \in Remember!Logins
    BY <1>4, <2>1, TokenRows DEF Remember!Has, Remember!LoginOf, Remember!Logins
  <2>3. Remember!Live(m) = {}
    BY <1>1, <1>15, <2>2 DEF Remember!Alone, Remember!Sole
  <2> QED
    BY <2>3, LiveTokens
<1>16. Remember!Alone(t)'
  <2> SUFFICES ASSUME m \notin raced
               PROVE  Remember!Sole(t, m)'
    BY <1>2, <1>6, <1>7 DEF Remember!Alone, Remember!Has, Remember!LoginOf
  <2>1. CASE i = 0
    <3>1. cookie = 0 \/ Remember!LoginOf(cookie)' # m
      BY <1>2, <1>4, <1>7, <1>10, <2>1 DEF Remember!LoginOf, Remember!OfLogin
    <3>2. ASSUME NEW u \in Process, u # t PROVE ~Remember!Has(u, m)'
      <4>1. tabRequest'[u].row = tabRequest[u].row /\ tabRequest[u].row \in 0 .. Len(rememberRows)
        BY <1>6, <3>2 DEF Remember!OfLogin
      <4>2. tabRequest[u].row # 0 => /\ tabRequest[u].row \in 1 .. Len(rememberRows)
                                     /\ rememberRows'[tabRequest[u].row] = rememberRows[tabRequest[u].row]
        BY <1>7, <1>10, <4>1
      <4>3. tabRequest[u].row # 0 => rememberRows[tabRequest[u].row].login \in 1 .. Len(began)
        BY <4>2 DEF Remember!OfLogin
      <4> QED
        BY <1>4, <2>1, <4>1, <4>2, <4>3 DEF Remember!Has, Remember!LoginOf
    <3> QED
      BY <1>1, <1>2, <1>6, <1>7, <1>15, <2>1, <3>1, <3>2 DEF Remember!Sole
  <2>2. CASE i # 0
    <3>1. Remember!Has(t, m) /\ m \in Remember!Logins
      BY <1>4, <2>2, TokenRows DEF Remember!Has, Remember!LoginOf, Remember!Logins
    <3>2. Remember!LoginOf(cookie) = m /\ \A u \in Process : u # t => tabRequest[u].op = "none"
      BY <1>1, <2>2, <3>1 DEF Remember!Alone, Remember!Sole
    <3>3. Remember!LoginOf(cookie)' = m
      BY <1>2, <1>7, <1>10, <3>2 DEF Remember!LoginOf, Remember!OfLogin
    <3> QED
      BY <1>1, <1>2, <1>6, <1>7, <1>15, <2>2, <3>2, <3>3 DEF Remember!Sole
  <2> QED
    BY <2>1, <2>2
<1>17. Remember!InCookie'
  <2>1. \A n : Remember!Has(t, n) => Remember!Has(t, n)' /\ (tabRequest[t].op # "login" => Remember!Replaces(t)')
    BY <1>1, <1>6, <1>7 DEF Remember!Has, Remember!LoginOf, Remember!Replaces
  <2>2. ended \subseteq ended'
    BY <1>2
  <2> QED
    BY <1>2, <1>9, <1>14, <2>1, <2>2, CookieKept
<1>18. Remember!OneEach'
  <2> SUFFICES ASSUME NEW n \in Remember!Logins', n \notin raced, NEW a \in Remember!Live(n)', NEW b \in Remember!Live(n)'
               PROVE  a = b
    BY <1>2 DEF Remember!OneEach
  <2>1. CASE n = m
    BY <1>15, <2>1
  <2>2. CASE n # m
    <3>1. a \in Remember!Live(n) /\ b \in Remember!Live(n)
      <4> SUFFICES ASSUME NEW j \in Remember!Live(n)' PROVE j \in Remember!Live(n)
        OBVIOUS
      <4>1. j \in 1 .. Len(rememberRows') /\ rememberRows'[j].login = n /\ ~rememberRows'[j].revoked
        BY <1>9, LiveTokensThen
      <4>2. j \in 1 .. Len(rememberRows) /\ rememberRows'[j] = rememberRows[j]
        BY <1>7, <1>8, <2>2, <4>1
      <4> QED
        BY <4>1, <4>2, LiveTokens
    <3>2. n \in Remember!Logins
      BY <1>3, <1>4, <2>2, TokenRows DEF Remember!Logins
    <3> QED
      BY <3>1, <3>2 DEF Remember!OneEach
  <2> QED
    BY <2>1, <2>2
<1> QED
  BY <1>9, <1>12, <1>14, <1>16, <1>17, <1>18, OthersAlone

\* A request ends: it has no row any more, and its cookie is as it says.
LEMMA EndStep ==
  ASSUME Remember!IInv, NEW t \in Process, tabRequest[t].op # "none",
         tabRequest' = [tabRequest EXCEPT ![t] = Remember!Idle],
         UNCHANGED <<rememberRows, active, clock, began, raced, ended>>,
         failed \subseteq failed', cookie' \in {cookie, 0, tabRequest[t].row},
         Remember!InCookie'
  PROVE  Remember!IInv'
<1> USE DEF Remember!IInv
<1>1. /\ tabRequest' \in [Process -> Remember!Request]
      /\ tabRequest'[t].op = "none" /\ tabRequest'[t].at = "idle" /\ tabRequest'[t].row = 0
      /\ \A u \in Process : u # t => tabRequest'[u] = tabRequest[u]
  BY Ended
<1>2. cookie' \in Nat /\ cookie' \in 0 .. Len(rememberRows)
  BY TabRequest, TokenRows DEF Remember!TypeOK, Remember!OfLogin
<1>3. Remember!TypeOK'
  BY <1>1, <1>2 DEF Remember!TypeOK
<1>4. Remember!OfLogin'
  <2>1. ASSUME NEW u \in Process
        PROVE  /\ tabRequest'[u].row \in 0 .. Len(rememberRows) /\ tabRequest'[u].at \in Remember!Steps(tabRequest'[u].op)
               /\ tabRequest'[u].op = "login" => (tabRequest'[u].row = 0 <=> tabRequest'[u].at = "insert")
               /\ tabRequest'[u].op = "refresh" => tabRequest'[u].row # 0
               /\ tabRequest'[u].op = "none" => tabRequest'[u].row = 0
    <3>1. CASE u = t
      BY <1>1, <3>1, TokenRows DEF Remember!Steps
    <3>2. CASE u # t
      BY <1>1, <3>2 DEF Remember!OfLogin
    <3> QED
      BY <3>1, <3>2
  <2> QED
    BY <1>2, <2>1 DEF Remember!OfLogin, Remember!Logins
<1>5. StepOf(t)
  BY <1>1, <1>2 DEF StepOf
<1>6. Remember!Alone(t)'
  BY <1>1 DEF Remember!Alone, Remember!Has
<1>7. Remember!OneEach'
  BY <1>3, OneEachKept DEF Remember!Live
<1> QED
  BY <1>3, <1>4, <1>5, <1>6, <1>7, OthersAlone

LEMMA FailsStep ==
  ASSUME Remember!IInv, NEW t \in Process, Remember!Fails(t)
  PROVE  Remember!IInv'
<1> USE DEF Remember!IInv
<1>1. /\ tabRequest[t].op # "none" /\ tabRequest' = [tabRequest EXCEPT ![t] = Remember!Idle]
      /\ failed' = failed \cup {Remember!LoginOf(tabRequest[t].row)}
      /\ UNCHANGED <<rememberRows, active, clock, cookie, began, raced, ended>>
  BY DEF Remember!Fails
<1>3. /\ tabRequest' \in [Process -> Remember!Request] /\ tabRequest'[t].row = 0
      /\ \A u \in Process : u # t => tabRequest'[u] = tabRequest[u]
  BY <1>1, Ended
<1>4. Remember!TypeOK'
  BY <1>1, <1>3 DEF Remember!TypeOK
<1>5. StepOf(t)
  BY <1>1, <1>3 DEF StepOf, Remember!OfLogin
<1>6. \A n \in 1 .. Len(began) : Remember!Has(t, n) => n \in failed'
  BY <1>1 DEF Remember!Has
<1>7. Remember!InCookie'
  BY <1>1, <1>4, <1>5, <1>6, CookieKept
<1> QED
  BY <1>1, <1>7, EndStep

\* An answer puts a token into the cookie that is the one of its login.
LEMMA AnswerStep ==
  ASSUME Remember!IInv, NEW t \in Process, Remember!Answer(t)
  PROVE  Remember!IInv'
<1> USE DEF Remember!IInv
<1>1. /\ tabRequest' = [tabRequest EXCEPT ![t] = Remember!Idle]
      /\ tabRequest[t].at \in {"reply", "refused"}
      /\ UNCHANGED <<rememberRows, active, clock, faults, began, raced, failed, ended>>
  BY DEF Remember!Answer, Remember!history
<1>3. cookie' = IF tabRequest[t].at = "refused" THEN cookie
                ELSE IF tabRequest[t].op = "logout" THEN 0 ELSE tabRequest[t].row
  <2>1. tabRequest[t].at = "refused" => tabRequest[t].op # "logout"
    BY DEF Remember!OfLogin, Remember!Steps
  <2> QED
    BY <2>1 DEF Remember!Answer, Remember!Cookie
<1>4. tabRequest[t].op # "none"
  BY <1>1 DEF Remember!OfLogin, Remember!Steps
<1>5. /\ tabRequest' \in [Process -> Remember!Request] /\ tabRequest'[t].row = 0
      /\ \A u \in Process : u # t => tabRequest'[u] = tabRequest[u]
  BY <1>1, Ended
<1>6. Remember!InCookie'
  <2>1. CASE tabRequest[t].at = "refused"
    <3>1. cookie' = cookie /\ cookie \in Nat
      BY <1>3, <2>1 DEF Remember!TypeOK
    <3>2. Remember!TypeOK'
      BY <1>1, <1>5, <3>1 DEF Remember!TypeOK
    <3>3. StepOf(t)
      BY <1>1, <1>4, <1>5, <3>1 DEF StepOf, Remember!OfLogin
    <3>4. ~Remember!Replaces(t)
      BY <2>1 DEF Remember!Replaces
    <3> QED
      BY <1>1, <3>1, <3>2, <3>3, <3>4, CookieKept
  <2>2. CASE tabRequest[t].at # "refused" /\ tabRequest[t].op = "logout"
    BY <1>3, <2>2 DEF Remember!InCookie
  <2>3. CASE tabRequest[t].at # "refused" /\ tabRequest[t].op # "logout"
    <3>1. cookie' = tabRequest[t].row /\ tabRequest[t].at = "reply"
      BY <1>1, <1>3, <2>3
    <3> SUFFICES ASSUME NEW n \in Remember!Logins, n \notin raced, cookie' # 0, Remember!LoginOf(cookie)' = n
                 PROVE  Remember!Kept(n)'
      BY <1>1 DEF Remember!InCookie, Remember!Logins
    <3>2. Remember!Has(t, n)
      BY <1>1, <3>1 DEF Remember!Has, Remember!LoginOf
    <3>3. ~rememberRows[tabRequest[t].row].revoked /\ Remember!Live(n) \subseteq {tabRequest[t].row}
      BY <2>3, <3>1, <3>2 DEF Remember!Alone, Remember!Sole
    <3>4. Remember!Live(n)' = Remember!Live(n)
      BY <1>1 DEF Remember!Live
    <3> QED
      BY <1>1, <3>1, <3>3, <3>4 DEF Remember!Kept
  <2> QED
    BY <2>1, <2>2, <2>3
<1> QED
  BY <1>1, <1>3, <1>4, <1>6, EndStep

\* Time passes, or an administrator disables or enables the user.
LEMMA OutsideStep ==
  ASSUME Remember!IInv, Remember!SetActive \/ Remember!Tick
  PROVE  Remember!IInv'
<1> USE DEF Remember!IInv
<1>1. /\ UNCHANGED <<rememberRows, cookie, tabRequest, began, raced, failed>>
      /\ ended \subseteq ended' /\ active' \in BOOLEAN /\ clock' \in Nat /\ clock' >= clock
      /\ ~active' => \A n \in Remember!Logins : n \in ended'
  <2>1. CASE Remember!SetActive
    BY <2>1 DEF Remember!SetActive, Remember!TypeOK
  <2>2. CASE Remember!Tick
    BY <2>2 DEF Remember!Tick, Remember!history, Remember!TypeOK, Remember!OfLogin
  <2> QED
    BY <2>1, <2>2
<1>2. Remember!TypeOK'
  BY <1>1 DEF Remember!TypeOK
<1>3. Remember!OfLogin'
  BY <1>1 DEF Remember!OfLogin, Remember!Logins
<1>4. Remember!Logins' = Remember!Logins /\ \A n : Remember!Live(n)' = Remember!Live(n)
  BY <1>1 DEF Remember!Logins, Remember!Live
<1>5. Remember!OneEach' /\ Remember!InCookie'
  BY <1>1, <1>4 DEF Remember!OneEach, Remember!InCookie, Remember!Kept, Remember!Has, Remember!Replaces, Remember!LoginOf
<1>6. ASSUME NEW t \in Process, NEW n \in Remember!Logins, n \notin raced, Remember!Has(t, n)
      PROVE  Remember!Sole(t, n)'
  <2>1. Remember!Sole(t, n)
    BY <1>6 DEF Remember!Alone
  <2>2. clock >= began[n] + Days => clock' >= began[n] + Days
    BY <1>1, TokenRows, RememberDays DEF Remember!TypeOK, Remember!Logins
  <2> QED
    BY <1>1, <1>4, <2>1, <2>2 DEF Remember!Sole, Remember!Has, Remember!LoginOf
<1>7. \A t \in Process : Remember!Alone(t)'
  BY <1>1, <1>4, <1>6 DEF Remember!Alone, Remember!Has, Remember!LoginOf
<1> QED
  BY <1>2, <1>3, <1>5, <1>7

LEMMA RememberInit ==
  ASSUME Remember!Init
  PROVE  Remember!IInv
<1>1. /\ rememberRows = <<>> /\ active /\ clock = 0 /\ cookie = 0 /\ began = <<>>
      /\ tabRequest = [t \in Process |-> Remember!Idle]
  BY DEF Remember!Init
<1>2. Remember!Idle \in Remember!Request /\ Remember!Idle.op = "none" /\ Remember!Idle.at = "idle" /\ Remember!Idle.row = 0
  BY DEF Remember!Idle, Remember!Request
<1>3. Remember!TypeOK
  BY <1>1, <1>2 DEF Remember!TypeOK, Remember!Init
<1>4. Len(rememberRows) = 0 /\ Remember!Logins = {}
  BY <1>1 DEF Remember!Logins
<1>5. Remember!OfLogin
  BY <1>1, <1>2, <1>4 DEF Remember!OfLogin, Remember!Steps
<1> QED
  BY <1>3, <1>4, <1>5 DEF Remember!IInv, Remember!Alone, Remember!InCookie, Remember!OneEach

LEMMA RememberNext ==
  ASSUME Remember!IInv, Remember!Next
  PROVE  Remember!IInv'
<1>1. ASSUME NEW t \in Process, Remember!Login(t) PROVE Remember!IInv'
  <2>1. /\ Remember!Sends(t, "login", "insert", 0)
        /\ UNCHANGED <<rememberRows, active, clock, cookie, began, failed, ended>>
    BY <1>1 DEF Remember!Login, Remember!IInv, Remember!TypeOK
  <2> QED
    BY <2>1, SendStep
<1>2. ASSUME NEW t \in Process, Remember!SendRefresh(t) PROVE Remember!IInv'
  <2> PICK i : i = cookie
    OBVIOUS
  <2>1. /\ Remember!Sends(t, "refresh", "select", i) /\ cookie # 0
        /\ UNCHANGED <<rememberRows, active, clock, cookie, began, failed, ended>>
    BY <1>2 DEF Remember!SendRefresh, Remember!Sends, Remember!IInv, Remember!TypeOK
  <2> QED
    BY <2>1, SendStep
<1>3. ASSUME NEW t \in Process, Remember!SendLogout(t) PROVE Remember!IInv'
  <2> PICK i : i = cookie
    OBVIOUS
  <2>1. /\ Remember!Sends(t, "logout", "update", i)
        /\ UNCHANGED <<rememberRows, active, clock, cookie, began, failed, ended>>
    BY <1>3 DEF Remember!SendLogout, Remember!Sends, Remember!IInv, Remember!TypeOK
  <2> QED
    BY <2>1, SendStep
<1> QED
  BY <1>1, <1>2, <1>3, SelectStep, RevokeStep, InsertStep, AnswerStep, UpdateLogoutStep, FailsStep, OutsideStep
    DEF Remember!Next

LEMMA RememberInv == MCSpec => [](Only("remember") => Remember!IInv)
<1>1. MCInit => (Only("remember") => Remember!IInv)
  BY RememberInit DEF MCInit, Only
<1>2. (Only("remember") => Remember!IInv) /\ [MCNext]_<<which, vars, Others>> => (Only("remember") => Remember!IInv)'
  <2> SUFFICES ASSUME Only("remember") => Remember!IInv, [MCNext]_<<which, vars, Others>>, Only("remember")'
               PROVE  Remember!IInv'
    OBVIOUS
  <2>1. which' = which
    BY DEF MCNext, Others
  <2>2. Remember!IInv
    BY <2>1 DEF Only
  <2>3. CASE Remember!Next
    BY <2>2, <2>3, RememberNext
  <2>4. CASE UNCHANGED Others
    BY <2>2, <2>4, SMTT(30)
      DEF Others, Remember!IInv, Remember!TypeOK, Remember!OfLogin, Remember!Alone, Remember!Sole, Remember!InCookie,
          Remember!Kept, Remember!Has, Remember!Replaces, Remember!LoginOf, Remember!Live, Remember!Logins, Remember!OneEach
  <2> QED
    BY <2>1, <2>3, <2>4 DEF MCNext, Only
<1> QED
  BY <1>1, <1>2, PTL DEF MCSpec

\* However the statements of two tabs interleave: one token of a login is good at a
\* time and ends when the login does, a refresh is refused when the login is over
\* and for nothing else, and none of its tokens is good when it has been signed
\* out, each unless two requests met or one failed half-way (auth/routes.py).
THEOREM TokensOfALogin == MCSpec => []LoginsHold
<1>1. (Only("remember") => Remember!IInv) => LoginsHold
  <2> SUFFICES ASSUME Remember!IInv PROVE Remember!LoginsHold
    BY DEF LoginsHold
  <2> USE DEF Remember!IInv
  <2>1. Remember!OneTokenPerLogin
    <3> SUFFICES ASSUME NEW n \in Remember!Logins
                 PROVE  /\ n \notin raced => \A i, j \in Remember!Live(n) : i = j
                        /\ \A i \in Remember!Live(n) : rememberRows[i].expires <= began[n] + Days
      BY DEF Remember!OneTokenPerLogin
    <3>1. ASSUME n \notin raced PROVE \A i, j \in Remember!Live(n) : i = j
      BY <3>1 DEF Remember!OneEach
    <3>2. ASSUME NEW i \in Remember!Live(n) PROVE rememberRows[i].expires <= began[n] + Days
      <4>1. i \in 1 .. Len(rememberRows) /\ rememberRows[i].login = n
        BY LiveTokens
      <4>2. rememberRows[i].expires = began[n] + Days /\ rememberRows[i].expires \in Nat
        BY <4>1, TokenRows DEF Remember!OfLogin
      <4> QED
        BY <4>2
    <3> QED
      BY <3>1, <3>2
  <2>2. ASSUME NEW t \in Process, NEW n, n = Remember!LoginOf(tabRequest[t].row), tabRequest[t].row # 0
        PROVE  /\ Remember!Has(t, n) /\ n \in Remember!Logins
               /\ n \in raced \/ Remember!Sole(t, n)
    <3>1. tabRequest[t].row \in 1 .. Len(rememberRows)
      BY <2>2, TokenRows DEF Remember!OfLogin
    <3>2. Remember!Has(t, n) /\ n \in Remember!Logins
      BY <2>2, <3>1, TokenRows DEF Remember!Has, Remember!LoginOf, Remember!OfLogin, Remember!Logins
    <3> QED
      BY <3>2 DEF Remember!Alone
  <2>3. Remember!RefusedWithReason
    <3> SUFFICES ASSUME NEW t \in Process, tabRequest[t].at = "refused",
                        NEW n, n = Remember!LoginOf(tabRequest[t].row)
                 PROVE  n \in raced \cup failed \cup ended \/ clock >= began[n] + Days
      BY DEF Remember!RefusedWithReason
    <3>1. tabRequest[t].row # 0
      BY TabRequest DEF Remember!OfLogin, Remember!Steps
    <3> QED
      BY <2>2, <3>1 DEF Remember!Sole
  <2>4. Remember!LogoutEndsLogin
    <3> SUFFICES ASSUME NEW t \in Process, tabRequest[t].op = "logout", tabRequest[t].at = "reply",
                        NEW n, n = Remember!LoginOf(tabRequest[t].row), n \notin raced \cup failed
                 PROVE  Remember!Live(n) = {}
      BY DEF Remember!LogoutEndsLogin
    <3>1. CASE tabRequest[t].row = 0
      <4>1. n = 0
        BY <3>1 DEF Remember!LoginOf
      <4>2. \A i \in 1 .. Len(rememberRows) : rememberRows[i].login # 0
        BY TokenRows DEF Remember!OfLogin
      <4> QED
        BY <4>1, <4>2, LiveTokens
    <3>2. CASE tabRequest[t].row # 0
      BY <2>2, <3>2 DEF Remember!Sole
    <3> QED
      BY <3>1, <3>2
  <2> QED
    BY <2>1, <2>3, <2>4 DEF Remember!LoginsHold
<1> QED
  BY <1>1, RememberInv, PTL
=============================================================================
