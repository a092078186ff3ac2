--------------------------- MODULE AccountsProofs ---------------------------
(***************************************************************************)
(* Theorems about Accounts, for every value of its constants.              *)
(***************************************************************************)
EXTENDS Accounts, TLAPS

-----------------------------------------------------------------------------
(***************************************************************************)
(* Types.                                                                  *)
(***************************************************************************)

\* A registration, with its keys folded and its password hashed, is a row, if that password
\* can be hashed.
LEMMA NewRowType ==
    ASSUME NEW c \in [kind : {"register"}, email : Emails, username : Names,
                      password : Passwords],
           c.password \notin Unhashable
    PROVE  NewRow(c) \in Rows
  BY LowerAssumption, DigestAssumption DEF NewRow, Rows, Roles

\* Going on to another stage keeps the types.
LEMMA GotoType ==
    ASSUME TypeOK, NEW r \in Requests, NEW stage \in Stages, Goto(r, stage)
    PROVE  TypeOK'
  BY DEF TypeOK, Goto

\* So does a SELECT that loads a row,
LEMMA LoadType ==
    ASSUME TypeOK, NEW r \in Requests, NEW i \in UserIds, NEW row \in Rows,
           NEW stage \in Stages, Load(r, i, row, stage)
    PROVE  TypeOK'
  BY DEF TypeOK, Load

\* a flush that writes one,
LEMMA WriteType ==
    ASSUME TypeOK, NEW r \in Requests, NEW i \in UserIds, NEW row \in Rows \cup {NoRow},
           NEW stage \in Stages, Write(r, i, row, stage)
    PROVE  TypeOK'
  BY DEF TypeOK, Write, Drafts

\* the end of a request,
LEMMA CloseType ==
    ASSUME TypeOK, NEW r \in Requests, NEW status \in Statuses, Close(r, status),
           users' \in [UserIds -> Rows \cup {NoRow}], born' \in SUBSET UserIds,
           tokens' \in SUBSET UserIds
    PROVE  TypeOK'
  BY DEF TypeOK, Close, EmptySession, Drafts, Stages

\* and an error response.
LEMMA FailType ==
    ASSUME TypeOK, NEW r \in Requests, NEW status \in Statuses, Fail(r, status)
    PROVE  TypeOK'
  BY CloseType DEF Fail, TypeOK

\* The kind of a call tells which fields it has.
LEMMA CallType ==
    ASSUME TypeOK, NEW r \in Requests
    PROVE  /\ call[r].kind = "register" =>
                 call[r] \in [kind : {"register"}, email : Emails, username : Names,
                              password : Passwords]
           /\ call[r].kind = "login" => call[r].email \in Emails
           /\ call[r].kind \in {"refresh", "me", "change_password"} \cup AdminKinds =>
                 call[r].token \in UserIds \cup {NoUser}
           /\ call[r].kind = "change_password" =>
                 call[r].current \in Passwords /\ call[r].new \in Passwords
           /\ call[r].kind \in AdminKinds => call[r].target \in UserIds
           /\ call[r].kind = "admin_update" => call[r].patch \in Patches
  <1>1. call[r] \in AllCalls \/ call[r] = NoCall
    BY DEF TypeOK
  <1>2. CASE call[r] = NoCall
    BY <1>2 DEF NoCall, AdminKinds
  <1>3. CASE call[r] \in AllCalls
    BY <1>3 DEF AllCalls, AdminKinds, Bearers
  <1>4. QED
    BY <1>1, <1>2, <1>3

-----------------------------------------------------------------------------
(***************************************************************************)
(* The forms that a step of a request takes.  Each action has one of them, *)
(* and the invariants are shown form by form.                              *)
(***************************************************************************)

KeyFree(r) ==
    LET k == KeyOf(draft[r].row, NextIndex(r))
    IN ~ Taken(draft[r].id, NextIndex(r), k) /\ Claims(r, NextIndex(r), k) = {}

\* The request reads, or passes a test, and goes on without writing.
Advance(r) ==
    \E stage \in Stages :
        /\ \/ /\ pc[r] \in {"start", "username", "handler"}
              /\ stage \in {"username", "handler", "flush", "commit"}
              /\ call[r].kind = "register" => stage # "commit"
           \/ /\ pc[r] = "flush" /\ call[r].kind # "register"
              /\ stage \in {"refresh", "commit"}
           \/ /\ pc[r] \in {"index1", "index2"} /\ KeyFree(r)
              /\ stage = IF pc[r] = "index1" THEN "index2" ELSE "refresh"
           \/ pc[r] = "refresh" /\ stage = "commit"
        /\ \/ Goto(r, stage)
           \/ \E i \in UserIds, row \in Rows : Load(r, i, row, stage)

Inserts(r) ==
    \E i \in UserIds \ born, row \in Rows :
        /\ pc[r] = "flush" /\ call[r].kind = "register"
        /\ ~ Locked(i) /\ FoldedRow(row)
        /\ Write(r, i, row, "index1")

Updates(r) ==
    \E i \in UserIds, row \in Rows, stage \in {"index1", "refresh", "commit"} :
        /\ pc[r] = "flush" /\ call[r].kind # "register"
        /\ users[i] # NoRow /\ Holders(r, i) = {}
        /\ row.email = users[i].email
        /\ row.username \in {users[i].username} \cup {Lower[n] : n \in Names}
        /\ row.username # users[i].username => stage = "index1"
        /\ Write(r, i, row, stage)

Deletes(r) ==
    \E i \in UserIds :
        /\ pc[r] = "flush" /\ call[r].kind # "register"
        /\ users[i] # NoRow /\ Holders(r, i) = {}
        /\ Write(r, i, NoRow, "commit")

Failures == {0, 400, 401, 403, 404, 409, 500}

Ends(r) ==
    /\ pc[r] \notin {"idle", "respond"}
    /\ \E status \in Failures : Fail(r, status)

\* A patch without nulls turns a row into a row with the same email, and with the
\* username it had or a folded one.
LEMMA PatchedKeys ==
    ASSUME NEW p \in Patches, ~ HasNull(p), NEW loaded, NEW row \in Rows
    PROVE  /\ Patched(p, loaded, row) \in Rows
           /\ Patched(p, loaded, row).email = row.email
           /\ Patched(p, loaded, row).username \in {row.username} \cup {Lower[n] : n \in Names}
  <1> DEFINE name == Assigned(Folded(p.username), loaded.username, row.username)
             role == Assigned(p.role, loaded.role, row.role)
             active == Assigned(p.is_active, loaded.is_active, row.is_active)
  <1>1. name \in {row.username} \cup {Lower[n] : n \in Names} /\ name \in Names
    BY SentinelAssumption, LowerAssumption
    DEF Patches, HasNull, Rows, Assigned, Folded
  <1>2. role \in Roles
    BY SentinelAssumption DEF Patches, HasNull, Rows, Assigned
  <1>3. active \in BOOLEAN
    BY SentinelAssumption DEF Patches, HasNull, Rows, Assigned
  <1>4. Patched(p, loaded, row) =
            [[[row EXCEPT !.username = name] EXCEPT !.role = role] EXCEPT !.is_active = active]
    BY DEF Patched
  <1> HIDE DEF name, role, active
  <1>5. QED
    BY <1>1, <1>2, <1>3, <1>4 DEF Rows

\* Every step that an endpoint of auth.py or admin.py takes has one of the forms.
LEMMA ProgressForms ==
    ASSUME TypeOK, Authorised, NEW r \in Requests, Progress(r)
    PROVE  Advance(r) \/ Inserts(r) \/ Updates(r) \/ Deletes(r) \/ Ends(r)
           \/ Commit(r) \/ Respond(r)
  <1> USE DEF At, Stages, Failures, IntegrityError
  <1>t. /\ users \in [UserIds -> Rows \cup {NoRow}]
        /\ session[r] \in [UserIds -> Rows \cup {NoRow}]
        /\ draft[r] \in Drafts
    BY DEF TypeOK
  <1>1. CASE RegisterCheckEmail(r)
    BY <1>1 DEF RegisterCheckEmail, Advance, Ends
  <1>2. CASE RegisterCheckUsername(r)
    BY <1>2 DEF RegisterCheckUsername, Advance, Ends
  <1>3. CASE CreateUser(r)
    <2>1. call[r].kind = "register" /\ pc[r] = "flush"
      BY <1>3 DEF CreateUser
    <2>2. call[r] \in [kind : {"register"}, email : Emails, username : Names,
                       password : Passwords]
      BY <2>1, CallType
    <2>3. CASE call[r].password \in Unhashable
      BY <1>3, <2>1, <2>3 DEF CreateUser, Ends
    <2>4. CASE call[r].password \notin Unhashable
      <3>1. NewRow(call[r]) \in Rows
        BY <2>2, <2>4, NewRowType
      <3>2. FoldedRow(NewRow(call[r]))
        BY <2>2, LowerAssumption DEF FoldedRow, NewRow
      <3>3. QED
        BY <1>3, <2>1, <2>4, <3>1, <3>2 DEF CreateUser, Inserts
    <2>5. QED
      BY <2>3, <2>4
  <1>4. CASE EnterIndex(r)
    BY <1>4 DEF EnterIndex, Advance, KeyFree, Ends
  <1>5. CASE AuthenticateUser(r)
    BY <1>5, <1>t, SentinelAssumption DEF AuthenticateUser, Advance, Ends, HasEmail
  <1>6. CASE UpdateLastLogin(r)
    <2> PICK i \in UserIds :
            UpdateRow(r, i, [users[i] EXCEPT !.last_login = TRUE], "commit")
      BY <1>6 DEF UpdateLastLogin
    <2>1. CASE users[i] = NoRow
      BY <1>6, <2>1 DEF UpdateLastLogin, UpdateRow, Ends
    <2>2. CASE users[i] # NoRow
      <3> DEFINE row == [users[i] EXCEPT !.last_login = TRUE]
      <3>1. users[i] \in Rows
        BY <2>2, <1>t
      <3>2. row \in Rows /\ row.email = users[i].email /\ row.username = users[i].username
        BY <3>1 DEF Rows
      <3>3. /\ pc[r] = "flush" /\ call[r].kind # "register"
            /\ Holders(r, i) = {} /\ Write(r, i, row, "commit")
        BY <1>6, <2>2 DEF UpdateLastLogin, UpdateRow
      <3> HIDE DEF row
      <3>4. QED
        BY <2>2, <3>2, <3>3 DEF Updates
    <2>3. QED
      BY <2>1, <2>2
  <1>7. CASE RefreshToken(r)
    <2>1. call[r].token \in UserIds \cup {NoUser}
      BY <1>7, CallType DEF RefreshToken
    <2>2. QED
      BY <1>7, <1>t, <2>1 DEF RefreshToken, Advance, Ends
  <1>8. CASE GetCurrentUser(r)
    <2>1. call[r].token \in UserIds \cup {NoUser}
      BY <1>8, CallType DEF GetCurrentUser
    <2>2. QED
      BY <1>8, <1>t, <2>1 DEF GetCurrentUser, AdminKinds, Advance, Ends
  <1>9. CASE ChangeMyPassword(r)
    BY <1>9 DEF ChangeMyPassword, Advance, Ends
  <1>10. CASE ChangePassword(r)
    <2> DEFINE i == call[r].token
               row == [users[i] EXCEPT !.hashed_password = Digest[call[r].new]]
    <2>1. i \in UserIds /\ pc[r] = "flush" /\ call[r].kind # "register"
      BY <1>10, CallType DEF ChangePassword, Authorised
    <2>n. CASE call[r].new \in Unhashable
      BY <1>10, <2>n, <2>1 DEF ChangePassword, Ends
    <2>2. CASE call[r].new \notin Unhashable
      <3>1. Digest[call[r].new] \in Digests
        BY <1>10, <2>2, CallType, DigestAssumption DEF ChangePassword
      <3>2. UpdateRow(r, i, row, "commit")
        BY <1>10, <2>2 DEF ChangePassword
      <3>3. CASE users[i] = NoRow
        BY <2>1, <3>2, <3>3 DEF UpdateRow, Ends
      <3>4. CASE users[i] # NoRow
        <4>1. users[i] \in Rows
          BY <3>4, <2>1, <1>t
        <4>2. row \in Rows /\ row.email = users[i].email /\ row.username = users[i].username
          BY <4>1, <3>1 DEF Rows
        <4>3. Holders(r, i) = {} /\ Write(r, i, row, "commit")
          BY <3>2, <3>4 DEF UpdateRow
        <4> HIDE DEF row, i
        <4>4. QED
          BY <2>1, <3>4, <4>2, <4>3 DEF Updates
      <3>5. QED
        BY <3>3, <3>4
    <2>3. QED
      BY <2>n, <2>2
  <1>11. CASE AdminGetUser(r)
    <2>1. call[r].target \in UserIds
      BY <1>11, CallType DEF AdminGetUser, AdminKinds
    <2>2. QED
      BY <1>11, <1>t, <2>1 DEF AdminGetUser, Fetched, Advance, Ends
  <1>12. CASE AdminUpdateCheck(r)
    <2>1. call[r].target \in UserIds
      BY <1>12, CallType DEF AdminUpdateCheck, AdminKinds
    <2>2. QED
      BY <1>12, <1>t, <2>1 DEF AdminUpdateCheck, Fetched, Advance, Ends
  <1>13. CASE AdminUpdateUser(r)
    <2> DEFINE i == call[r].target
               p == call[r].patch
               row == Patched(p, session[r][i], users[i])
               stage == IF row.username # users[i].username THEN "index1" ELSE "refresh"
    <2>1. i \in UserIds /\ p \in Patches /\ pc[r] = "flush" /\ call[r].kind # "register"
      BY <1>13, CallType DEF AdminUpdateUser, AdminKinds
    <2>2. CASE Goto(r, "refresh")
      BY <2>1, <2>2 DEF Advance
    <2>3. CASE Fail(r, 409)
      BY <2>1, <2>3 DEF Ends
    <2>4. CASE /\ HasNull(p) => users[i] = NoRow
               /\ UpdateRow(r, i, row, stage)
      <3>1. CASE users[i] = NoRow
        BY <2>1, <2>4, <3>1 DEF UpdateRow, Ends
      <3>2. CASE users[i] # NoRow
        <4>1. users[i] \in Rows /\ ~ HasNull(p)
          BY <2>1, <2>4, <3>2, <1>t
        <4>2. /\ row \in Rows /\ row.email = users[i].email
              /\ row.username \in {users[i].username} \cup {Lower[n] : n \in Names}
          BY <2>1, <4>1, PatchedKeys
        <4>3. Holders(r, i) = {} /\ Write(r, i, row, stage)
          BY <2>4, <3>2 DEF UpdateRow
        <4>4. /\ stage \in {"index1", "refresh", "commit"}
              /\ row.username # users[i].username => stage = "index1"
          OBVIOUS
        <4> HIDE DEF row, i, stage
        <4>5. QED
          BY <2>1, <3>2, <4>2, <4>3, <4>4 DEF Updates
      <3>3. QED
        BY <3>1, <3>2
    <2>5. QED
      BY <1>13, <2>2, <2>3, <2>4 DEF AdminUpdateUser
  <1>14. CASE AdminDeleteCheck(r)
    <2>1. call[r].target \in UserIds
      BY <1>14, CallType DEF AdminDeleteCheck, AdminKinds
    <2>2. QED
      BY <1>14, <1>t, <2>1 DEF AdminDeleteCheck, Fetched, Advance, Ends
  <1>15. CASE DeleteUser(r)
    <2>1. call[r].target \in UserIds
      BY <1>15, CallType DEF DeleteUser, AdminKinds
    <2>2. QED
      BY <1>15, <2>1 DEF DeleteUser, Advance, Deletes
  <1>16. CASE RefreshRow(r)
    <2>1. CASE draft[r].id # NoUser
      <3>1. draft[r].id \in UserIds /\ draft[r].row \in Rows \cup {NoRow}
        BY <2>1, <1>t DEF Drafts, NoDraft
      <3>2. QED
        BY <1>16, <2>1, <3>1 DEF RefreshRow, Advance, Ends
    <2>2. CASE draft[r].id = NoUser
      <3>1. call[r].target \in UserIds
        BY <1>16, <2>2, CallType DEF RefreshRow, Authorised, AdminKinds
      <3>2. QED
        BY <1>16, <2>2, <3>1, <1>t DEF RefreshRow, Advance, Ends
    <2>3. QED
      BY <2>1, <2>2
  <1>17. CASE AbortDeadlock(r)
    <2>1. pc[r] \in {"index1", "index2"}
      BY <1>17 DEF AbortDeadlock, Deadlocked
    <2>2. QED
      BY <1>17, <2>1 DEF AbortDeadlock, Ends
  <1>18. QED
    BY <1>1, <1>2, <1>3, <1>4, <1>5, <1>6, <1>7, <1>8, <1>9, <1>10, <1>11, <1>12, <1>13,
       <1>14, <1>15, <1>16, <1>17 DEF Progress

-----------------------------------------------------------------------------
(***************************************************************************)
(* The inductive invariant, form by form.                                  *)
(***************************************************************************)

IInv == TypeOK /\ Authorised /\ TransactionInv /\ UniqueKeys

\* An idle server over a table with unique, folded keys satisfies the invariant.
LEMMA InitIInv == Init => IInv
  <1> SUFFICES ASSUME Init PROVE IInv
    OBVIOUS
  <1> USE DEF Init
  <1>1. TypeOK
    BY InitialUsersAssumption DEF TypeOK, Stages, Statuses, Drafts, EmptySession
  <1>2. Authorised
    BY DEF Authorised
  <1>3. TransactionInv
    BY InitialUsersAssumption, SentinelAssumption
    DEF TransactionInv, DraftStages, DraftKinds, OneWriterPerRow, DraftsOfLiveRows,
        FoldedKeys, FoldedRow, ClaimedKeys, NoDraft, NoCall
  <1>4. UniqueKeys
    BY InitialUsersAssumption DEF UniqueKeys
  <1>5. QED
    BY <1>1, <1>2, <1>3, <1>4 DEF IInv

\* A request has no draft, or a version of one account.
LEMMA DraftTyped ==
    ASSUME TypeOK, NEW r \in Requests
    PROVE  /\ draft[r].id = NoUser => draft[r] = NoDraft
           /\ draft[r].id # NoUser =>
                 draft[r].id \in UserIds /\ draft[r].row \in Rows \cup {NoRow}
  BY SentinelAssumption DEF TypeOK, Drafts, NoDraft

\* The endpoints' own steps keep the types,
LEMMA ProgressTypeOK ==
    ASSUME TypeOK, Authorised, NEW r \in Requests, Progress(r)
    PROVE  TypeOK'
  <1>1. CASE Advance(r)
    <2> PICK stage \in Stages : \/ Goto(r, stage)
                                \/ \E i \in UserIds, row \in Rows : Load(r, i, row, stage)
      BY <1>1 DEF Advance
    <2>1. QED
      BY GotoType, LoadType
  <1>2. CASE Inserts(r)
    BY <1>2, WriteType DEF Inserts, Stages
  <1>3. CASE Updates(r)
    BY <1>3, WriteType DEF Updates, Stages
  <1>4. CASE Deletes(r)
    BY <1>4, WriteType DEF Deletes, Stages
  <1>5. CASE Ends(r)
    BY <1>5, FailType DEF Ends, Failures, Statuses
  <1>6. CASE Commit(r)
    BY <1>6, DraftTyped DEF Commit, Effect, TypeOK, Stages, Drafts
  <1>7. CASE Respond(r)
    BY <1>7, CloseType DEF Respond, TypeOK, Statuses
  <1>8. QED
    BY <1>1, <1>2, <1>3, <1>4, <1>5, <1>6, <1>7, ProgressForms

\* and so do arrivals and faults.
LEMMA EnvironmentTypeOK ==
    ASSUME TypeOK, NEW r \in Requests, Environment(r)
    PROVE  TypeOK'
  <1>1. CASE Receive(r)
    BY <1>1, CallsAssumption DEF Receive, TypeOK, Stages, Statuses
  <1>2. CASE ConnectionLost(r)
    BY <1>2, FailType DEF ConnectionLost, Statuses
  <1>3. CASE CommitUnacknowledged(r)
    <2>1. users' \in [UserIds -> Rows \cup {NoRow}] /\ born' \in SUBSET UserIds
      BY <1>3, DraftTyped DEF CommitUnacknowledged, Effect, TypeOK
    <2>2. QED
      BY <1>3, <2>1, CloseType DEF CommitUnacknowledged, TypeOK, Statuses
  <1>4. CASE WorkerCrash(r)
    BY <1>4, FailType DEF WorkerCrash, Statuses
  <1>5. QED
    BY <1>1, <1>2, <1>3, <1>4 DEF Environment

\* What Authorised says of one request.
AuthorisedAt(r) ==
    /\ pc[r] \in {"handler", "flush", "index1", "index2", "refresh"}
       /\ call[r].kind \in {"change_password"} \cup AdminKinds
          => /\ call[r].token \in UserIds
             /\ session[r][call[r].token] # NoRow
             /\ session[r][call[r].token].is_active
             /\ call[r].kind \in AdminKinds => session[r][call[r].token].role = "admin"
    /\ pc[r] = "refresh" /\ draft[r].id = NoUser => call[r].kind = "admin_update"

\* A step of one request leaves the others where they are.
LEMMA OthersUntouched ==
    ASSUME TypeOK, Authorised, NEW r \in Requests, Progress(r) \/ Environment(r),
           NEW q \in Requests \ {r}
    PROVE  pc'[q] = pc[q] /\ call'[q] = call[q] /\ session'[q] = session[q]
           /\ draft'[q] = draft[q] /\ reply'[q] = reply[q]
  <1> USE DEF TypeOK
  <1>1. CASE Progress(r)
    BY <1>1, ProgressForms DEF Advance, Inserts, Updates, Deletes, Ends, Commit, Respond,
       Goto, Load, Write, Fail, Close
  <1>2. CASE Environment(r)
    BY <1>2 DEF Environment, Receive, ConnectionLost, CommitUnacknowledged, WorkerCrash,
       Fail, Close
  <1>3. QED
    BY <1>1, <1>2

\* A caller past the dependencies of deps.py stays one that its transaction has
\* seen active, and an administrator where the endpoint asks for one.
LEMMA StepAuthorised ==
    ASSUME TypeOK, Authorised, DraftStages, NEW r \in Requests, Progress(r) \/ Environment(r)
    PROVE  Authorised'
  <1>a. \A q \in Requests : AuthorisedAt(q)
    BY DEF Authorised, AuthorisedAt
  <1> SUFFICES AuthorisedAt(r)'
    BY <1>a, OthersUntouched DEF Authorised, AuthorisedAt
  <1>b. ASSUME pc'[r] \notin {"handler", "flush", "index1", "index2", "refresh"}
        PROVE  AuthorisedAt(r)'
    BY <1>b DEF AuthorisedAt
  <1>c. ASSUME pc[r] \in {"handler", "flush", "index1", "index2", "refresh"},
               call' = call, session'[r] = session[r],
               pc'[r] = "refresh" /\ draft'[r].id = NoUser => call[r].kind = "admin_update"
        PROVE  AuthorisedAt(r)'
    BY <1>a, <1>c DEF AuthorisedAt
  <1>d. ASSUME call'[r].kind \notin {"change_password"} \cup AdminKinds, pc'[r] # "refresh"
        PROVE  AuthorisedAt(r)'
    BY <1>d DEF AuthorisedAt
  <1>f. \A status \in Statuses : Fail(r, status) => AuthorisedAt(r)'
    <2>1. ASSUME NEW status \in Statuses, Fail(r, status)  PROVE pc'[r] = "idle"
      BY <2>1 DEF Fail, Close, TypeOK
    <2>2. QED
      BY <2>1, <1>b
  <1>l. ASSUME NEW i, NEW row, NEW stage, Load(r, i, row, stage)
        PROVE  call' = call /\ pc'[r] = stage
    BY <1>l DEF Load, TypeOK
  <1>w. ASSUME NEW i, NEW row, NEW stage, Write(r, i, row, stage)
        PROVE  call' = call /\ session' = session /\ pc'[r] = stage /\ draft'[r].id = i
    BY <1>w DEF Write, TypeOK
  <1>g. ASSUME NEW stage, Goto(r, stage)
        PROVE  call' = call /\ session' = session /\ draft' = draft /\ pc'[r] = stage
    BY <1>g DEF Goto, TypeOK
  <1> USE DEF At, IntegrityError
  <1>1. CASE RegisterCheckEmail(r) \/ RegisterCheckUsername(r) \/ CreateUser(r)
    <2>1. call[r].kind = "register"
      BY <1>1 DEF RegisterCheckEmail, RegisterCheckUsername, CreateUser
    <2>2. \/ Fail(r, 409) \/ Fail(r, 500)
          \/ call' = call /\ pc'[r] \in {"username", "flush", "index1"}
      BY <1>1, <1>g, <1>w DEF RegisterCheckEmail, RegisterCheckUsername, CreateUser
    <2>3. QED
      BY <2>1, <2>2, <1>d, <1>f DEF Statuses, AdminKinds
  <1>2. CASE EnterIndex(r)
    <2>1. Fail(r, 409) \/ Goto(r, "index2") \/ Goto(r, "refresh")
      BY <1>2 DEF EnterIndex
    <2>2. pc[r] \in {"index1", "index2"} /\ draft[r].id # NoUser
      BY <1>2 DEF EnterIndex, DraftStages
    <2>3. QED
      BY <2>1, <2>2, <1>c, <1>f, <1>g DEF Statuses
  <1>3. CASE AuthenticateUser(r) \/ UpdateLastLogin(r) \/ RefreshToken(r)
    <2>1. call[r].kind \in {"login", "refresh"}
      BY <1>3 DEF AuthenticateUser, UpdateLastLogin, RefreshToken
    <2>2. CASE AuthenticateUser(r)
      BY <2>1, <2>2, <1>d, <1>f, <1>l DEF AuthenticateUser, Statuses, AdminKinds
    <2>3. CASE UpdateLastLogin(r)
      BY <2>1, <2>3, <1>d, <1>f, <1>w DEF UpdateLastLogin, UpdateRow, Statuses, AdminKinds
    <2>4. CASE RefreshToken(r)
      BY <2>1, <2>4, <1>d, <1>f, <1>l DEF RefreshToken, Statuses, AdminKinds
    <2>5. QED
      BY <1>3, <2>2, <2>3, <2>4
  <1>4. CASE GetCurrentUser(r)
    <2>1. call[r].token \in UserIds \cup {NoUser}
      BY <1>4, CallType DEF GetCurrentUser
    <2>2. QED
      <3> DEFINE u == call[r].token
      <3>1. ASSUME u \in UserIds, users[u] # NoRow, users[u].is_active,
                   call[r].kind \in AdminKinds => users[u].role = "admin",
                   NEW stage, Load(r, u, users[u], stage), stage # "refresh"
            PROVE  AuthorisedAt(r)'
        <4>1. call' = call /\ pc'[r] = stage
          BY <3>1, <1>l
        <4>2. session'[r][u] = users[u]
          BY <3>1 DEF Load, TypeOK
        <4>3. QED
          BY <3>1, <4>1, <4>2 DEF AuthorisedAt
      <3>2. QED
        BY <1>4, <1>f, <2>1, <3>1 DEF GetCurrentUser, Statuses
  <1>5. CASE ChangeMyPassword(r) \/ ChangePassword(r)
    <2>1. CASE ChangeMyPassword(r)
      <3>1. Fail(r, 400) \/ Fail(r, 500) \/ Goto(r, "flush")
        BY <2>1 DEF ChangeMyPassword
      <3>2. pc[r] = "handler"
        BY <2>1 DEF ChangeMyPassword
      <3>3. QED
        BY <3>1, <3>2, <1>c, <1>f, <1>g DEF Statuses
    <2>2. CASE ChangePassword(r)
      BY <2>2, <1>b, <1>f, <1>w DEF ChangePassword, UpdateRow, Statuses
    <2>3. QED
      BY <1>5, <2>1, <2>2
  <1>6. CASE AdminGetUser(r) \/ AdminUpdateCheck(r) \/ AdminDeleteCheck(r)
    <2>1. call[r].target \in UserIds /\ call[r].token \in UserIds
          /\ pc[r] = "handler" /\ call[r].kind \in AdminKinds
      BY <1>6, <1>a, CallType
      DEF AdminGetUser, AdminUpdateCheck, AdminDeleteCheck, AdminKinds, AuthorisedAt
    <2>2. CASE Load(r, call[r].target, Fetched(r, call[r].target), "flush")
               /\ Fetched(r, call[r].target) # NoRow
      <3>1. session'[r] = [session[r] EXCEPT ![call[r].target] = Fetched(r, call[r].target)]
            /\ call' = call /\ pc'[r] = "flush"
        BY <2>2 DEF Load, TypeOK
      <3>2. session'[r][call[r].token] = session[r][call[r].token]
        <4>1. session[r] \in [UserIds -> Rows \cup {NoRow}]
          BY DEF TypeOK
        <4>2. session[r][call[r].token] # NoRow
          BY <2>1, <1>a DEF AuthorisedAt
        <4>3. CASE call[r].token = call[r].target
          BY <4>1, <4>2, <4>3, <3>1, <2>1, <2>2 DEF Fetched
        <4>4. CASE call[r].token # call[r].target
          BY <4>1, <4>4, <3>1, <2>1
        <4>5. QED
          BY <4>3, <4>4
      <3>3. QED
        BY <3>1, <3>2, <2>1, <1>a DEF AuthorisedAt
    <2>3. CASE Load(r, call[r].target, Fetched(r, call[r].target), "commit")
      BY <2>3, <1>b, <1>l
    <2>4. CASE AdminGetUser(r)
      BY <2>3, <2>4, <1>f DEF AdminGetUser, Statuses
    <2>5. CASE AdminUpdateCheck(r)
      BY <2>2, <2>5, <1>f DEF AdminUpdateCheck, Statuses
    <2>6. CASE AdminDeleteCheck(r)
      BY <2>2, <2>6, <1>f DEF AdminDeleteCheck, Statuses
    <2>7. QED
      BY <1>6, <2>4, <2>5, <2>6
  <1>7. CASE AdminUpdateUser(r)
    <2>1. /\ call[r].kind = "admin_update" /\ pc[r] = "flush"
          /\ call[r].target \in UserIds
      BY <1>7, CallType DEF AdminUpdateUser, AdminKinds
    <2>2. CASE Goto(r, "refresh")
      BY <2>1, <2>2, <1>c, <1>g
    <2>3. ASSUME NEW row, NEW stage, UpdateRow(r, call[r].target, row, stage)
          PROVE  AuthorisedAt(r)'
      <3>1. CASE Write(r, call[r].target, row, stage)
        BY <2>1, <3>1, <1>c, <1>w
      <3>2. QED
        BY <2>3, <3>1, <1>f DEF UpdateRow, Statuses
    <2>4. QED
      BY <1>7, <2>2, <2>3, <1>f DEF AdminUpdateUser, Statuses
  <1>8. CASE DeleteUser(r)
    BY <1>8, <1>b, <1>g, <1>w DEF DeleteUser
  <1>9. CASE RefreshRow(r) \/ Commit(r) \/ Respond(r)
    <2>1. CASE RefreshRow(r)
      BY <2>1, <1>b, <1>f, <1>l DEF RefreshRow, Statuses
    <2>2. CASE Commit(r) \/ Respond(r)
      BY <2>2, <1>b DEF Commit, Respond, Close, TypeOK
    <2>3. QED
      BY <1>9, <2>1, <2>2
  <1>10. CASE AbortDeadlock(r)
    BY <1>10, <1>f DEF AbortDeadlock, Statuses
  <1>11. CASE Environment(r)
    <2>1. Receive(r) => pc'[r] = "start"
      BY DEF Receive, TypeOK
    <2>2. CommitUnacknowledged(r) => pc'[r] = "idle"
      BY DEF CommitUnacknowledged, Close, TypeOK
    <2>3. ConnectionLost(r) \/ WorkerCrash(r) => Fail(r, 500) \/ Fail(r, 0)
      BY DEF ConnectionLost, WorkerCrash
    <2>4. QED
      BY <1>11, <2>1, <2>2, <2>3, <1>b, <1>f DEF Environment, Statuses
  <1>12. QED
    BY <1>1, <1>2, <1>3, <1>4, <1>5, <1>6, <1>7, <1>8, <1>9, <1>10, <1>11 DEF Progress

\* Reading, and entering an index, keeps the invariant.
LEMMA AdvanceTransaction ==
    ASSUME TypeOK, TransactionInv, NEW r \in Requests, Advance(r)
    PROVE  TransactionInv'
  <1> USE DEF TransactionInv
  <1> PICK stage \in Stages :
          /\ \/ /\ pc[r] \in {"start", "username", "handler"}
                /\ stage \in {"username", "handler", "flush", "commit"}
                /\ call[r].kind = "register" => stage # "commit"
             \/ /\ pc[r] = "flush" /\ call[r].kind # "register"
                /\ stage \in {"refresh", "commit"}
             \/ /\ pc[r] \in {"index1", "index2"} /\ KeyFree(r)
                /\ stage = IF pc[r] = "index1" THEN "index2" ELSE "refresh"
             \/ pc[r] = "refresh" /\ stage = "commit"
          /\ \/ Goto(r, stage)
             \/ \E i \in UserIds, row \in Rows : Load(r, i, row, stage)
    BY DEF Advance
  <1>1. /\ users' = users /\ born' = born /\ draft' = draft /\ call' = call
        /\ pc' = [pc EXCEPT ![r] = stage]
    BY DEF Goto, Load
  <1>2. DraftStages'
    BY <1>1 DEF DraftStages, TypeOK
  <1>3. OneWriterPerRow' /\ DraftsOfLiveRows' /\ FoldedKeys'
    BY <1>1 DEF OneWriterPerRow, DraftsOfLiveRows, FoldedKeys
  <1>k. DraftKinds'
    BY <1>1 DEF DraftKinds, TypeOK
  <1>4. ClaimedKeys'
    <2>e. \A q \in Requests \ {r} : Entered(q)' = Entered(q)
      BY <1>1 DEF Entered, TypeOK
    <2>1. CASE draft[r].row = NoRow \/ pc[r] \notin {"index1", "index2"}
      <3>1. draft[r].row # NoRow => Entered(r)' = Entered(r)
        <4> SUFFICES ASSUME draft[r].row # NoRow PROVE Entered(r)' = Entered(r)
          OBVIOUS
        <4>1. pc[r] = "refresh" /\ pc'[r] = "commit"
          BY <1>1, <2>1, DraftTyped DEF DraftStages, NoDraft, TypeOK
        <4>2. QED
          BY <4>1 DEF Entered
      <3>2. \A q \in Requests : draft[q].row # NoRow => Entered(q)' = Entered(q)
        BY <2>e, <3>1
      <3>3. QED
        BY <1>1, <3>2 DEF ClaimedKeys, HasKey
    <2>2. CASE draft[r].row # NoRow /\ pc[r] \in {"index1", "index2"}
      <3> DEFINE key == NextIndex(r)
                 k == KeyOf(draft[r].row, key)
      <3>1. KeyFree(r) /\ draft[r].id \in UserIds
        BY <2>2, DraftTyped DEF DraftStages
      <3>2. Entered(r)' = Entered(r) \cup {key}
        <4>1. pc'[r] = IF pc[r] = "index1" THEN "index2" ELSE "refresh"
          BY <1>1, <2>2 DEF TypeOK
        <4>2. QED
          BY <2>2, <4>1 DEF Entered, NextIndex
      <3>3. \A j \in UserIds \ {draft[r].id} : ~ HasKey(users[j], key, k)
        <4> SUFFICES ASSUME NEW j \in UserIds \ {draft[r].id}, HasKey(users[j], key, k)
                     PROVE  FALSE
          OBVIOUS
        <4>1. PICK q \in Requests : draft[q].id = j
          BY <3>1 DEF KeyFree, Taken, Locked
        <4>2. q \in Claims(r, key, k)
          BY <4>1 DEF Claims
        <4>3. QED
          BY <4>2, <3>1 DEF KeyFree
      <3>4. \A q \in Requests \ {r} : key \in Entered(q) => ~ HasKey(draft[q].row, key, k)
        BY <3>1, DraftTyped DEF KeyFree, Claims, HasKey, NoDraft
      <3> HIDE DEF key
      <3>5. ASSUME NEW p \in Requests, draft[p].row # NoRow, NEW own \in Entered(p)'
            PROVE  /\ \A j \in UserIds \ {draft[p].id} :
                          ~ HasKey(users[j], own, KeyOf(draft[p].row, own))
                   /\ \A q \in Requests \ {p} : own \in Entered(q)' =>
                          ~ HasKey(draft[q].row, own, KeyOf(draft[p].row, own))
        <4>1. CASE own \in Entered(p)
          <5>1. \A q \in Requests \ {p} : own \in Entered(q) =>
                    ~ HasKey(draft[q].row, own, KeyOf(draft[p].row, own))
            BY <3>5, <4>1 DEF ClaimedKeys
          <5>2. p # r /\ own = key => ~ HasKey(draft[r].row, own, KeyOf(draft[p].row, own))
            BY <2>2, <3>4, <3>5, <4>1 DEF HasKey
          <5>3. QED
            BY <2>e, <3>2, <3>5, <4>1, <5>1, <5>2 DEF ClaimedKeys
        <4>2. CASE own \notin Entered(p)
          <5>1. p = r /\ own = key
            BY <2>e, <3>2, <3>5, <4>2
          <5>2. QED
            BY <2>e, <3>3, <3>4, <5>1
        <4>3. QED
          BY <4>1, <4>2
      <3>6. QED
        BY <1>1, <3>5 DEF ClaimedKeys, HasKey, KeyOf
    <2>3. QED
      BY <2>1, <2>2
  <1>5. QED
    BY <1>2, <1>3, <1>k, <1>4

\* The end of a request, with its draft rolled back, keeps the invariant.
LEMMA CloseTransaction ==
    ASSUME TypeOK, TransactionInv, NEW r \in Requests, NEW status, Close(r, status),
           UNCHANGED <<users, born>>
    PROVE  TransactionInv'
  <1>1. /\ \A q \in Requests : q # r => /\ draft'[q] = draft[q] /\ pc'[q] = pc[q]
                                        /\ call'[q] = call[q]
        /\ draft'[r] = NoDraft /\ pc'[r] = "idle" /\ call'[r] = NoCall
    BY DEF Close, TypeOK
  <1>2. NoDraft.id = NoUser /\ NoDraft.row = NoRow
    BY DEF NoDraft
  <1>3. DraftStages' /\ OneWriterPerRow'
    BY <1>1, <1>2 DEF TransactionInv, DraftStages, OneWriterPerRow
  <1>4. DraftsOfLiveRows'
    BY <1>1, <1>2, SentinelAssumption DEF TransactionInv, DraftsOfLiveRows, TypeOK
  <1>5. FoldedKeys'
    BY <1>1, <1>2 DEF TransactionInv, FoldedKeys, FoldedRow
  <1>6. ClaimedKeys'
    <2>1. \A q \in Requests : q # r => Entered(q)' = Entered(q)
      BY <1>1 DEF Entered
    <2>2. QED
      BY <1>1, <1>2, <2>1 DEF TransactionInv, ClaimedKeys, HasKey, KeyOf
  <1>7. DraftKinds'
    BY <1>1, <1>2 DEF TransactionInv, DraftKinds, NoCall
  <1>8. QED
    BY <1>3, <1>4, <1>5, <1>6, <1>7 DEF TransactionInv

\* What a write leaves as it was.
LEMMA WriteFrame ==
    ASSUME TypeOK, NEW r \in Requests, NEW i \in UserIds, NEW row, NEW stage \in Stages,
           Write(r, i, row, stage)
    PROVE  /\ users' = users /\ born' = born /\ call' = call
           /\ pc'[r] = stage /\ draft'[r].id = i /\ draft'[r].row = row
           /\ \A q \in Requests : q # r => draft'[q] = draft[q] /\ pc'[q] = pc[q]
  BY DEF Write, TypeOK

\* An INSERT claims a new id, and no key yet.
LEMMA InsertTransaction ==
    ASSUME TypeOK, TransactionInv, NEW r \in Requests, Inserts(r)
    PROVE  TransactionInv'
  <1> USE DEF TransactionInv
  <1> PICK i \in UserIds \ born, row \in Rows :
          /\ pc[r] = "flush" /\ call[r].kind = "register"
          /\ ~ Locked(i) /\ FoldedRow(row)
          /\ Write(r, i, row, "index1")
    BY DEF Inserts
  <1>1. /\ users' = users /\ born' = born /\ call' = call
        /\ pc'[r] = "index1" /\ draft'[r].id = i /\ draft'[r].row = row
        /\ \A q \in Requests : q # r => draft'[q] = draft[q] /\ pc'[q] = pc[q]
    BY WriteFrame DEF Stages
  <1>2. row # NoRow /\ i # NoUser /\ users[i] = NoRow
    BY SentinelAssumption DEF DraftsOfLiveRows
  <1>3. DraftStages' /\ DraftsOfLiveRows' /\ FoldedKeys'
    BY <1>1, <1>2 DEF DraftStages, DraftsOfLiveRows, FoldedKeys
  <1>4. OneWriterPerRow'
    BY <1>1, <1>2 DEF OneWriterPerRow, Locked
  <1>5. Entered(r)' = {} /\ \A q \in Requests : q # r => Entered(q)' = Entered(q)
    BY <1>1 DEF Entered
  <1>7. ClaimedKeys'
    BY <1>1, <1>5 DEF ClaimedKeys, HasKey, KeyOf
  <1>8. DraftKinds'
    BY <1>1, <1>2 DEF DraftKinds
  <1>9. QED
    BY <1>3, <1>4, <1>7, <1>8

\* An UPDATE takes the lock of its row and keeps the row's email.
LEMMA UpdateTransaction ==
    ASSUME TypeOK, TransactionInv, UniqueKeys, NEW r \in Requests, Updates(r)
    PROVE  TransactionInv'
  <1> USE DEF TransactionInv
  <1> PICK i \in UserIds, row \in Rows, stage \in {"index1", "refresh", "commit"} :
          /\ pc[r] = "flush" /\ call[r].kind # "register"
          /\ users[i] # NoRow /\ Holders(r, i) = {}
          /\ row.email = users[i].email
          /\ row.username \in {users[i].username} \cup {Lower[n] : n \in Names}
          /\ row.username # users[i].username => stage = "index1"
          /\ Write(r, i, row, stage)
    BY DEF Updates
  <1>1. /\ users' = users /\ born' = born /\ call' = call
        /\ pc'[r] = stage /\ draft'[r].id = i /\ draft'[r].row = row
        /\ \A q \in Requests : q # r => draft'[q] = draft[q] /\ pc'[q] = pc[q]
    BY WriteFrame DEF Stages
  <1>2. row # NoRow /\ i # NoUser
    BY SentinelAssumption
  <1>3. FoldedRow(row)
    BY <1>2, LowerAssumption DEF FoldedKeys, FoldedRow
  <1>4. DraftStages' /\ DraftsOfLiveRows' /\ FoldedKeys'
    BY <1>1, <1>2, <1>3 DEF DraftStages, DraftsOfLiveRows, FoldedKeys
  <1>5. \A q \in Requests : q # r => draft[q].id # i
    BY DEF Holders
  <1>6. OneWriterPerRow'
    BY <1>1, <1>2, <1>5 DEF OneWriterPerRow
  <1>e. \A q \in Requests : q # r => Entered(q)' = Entered(q)
    BY <1>1 DEF Entered
  <1>k. \A key \in {"email", "username"} : stage # "index1" =>
            KeyOf(row, key) = KeyOf(users[i], key)
    BY DEF KeyOf
  <1>7. \A key \in {"email", "username"}, j \in UserIds \ {i} :
            stage # "index1" => ~ HasKey(users[j], key, KeyOf(row, key))
    <2>1. \A key \in {"email", "username"}, j \in UserIds \ {i} :
              ~ HasKey(users[j], key, KeyOf(users[i], key))
      BY DEF UniqueKeys, UniqueRows, SameKeys, HasKey, KeyOf
    <2>2. QED
      BY <1>k, <2>1
  <1>8. \A key \in {"email", "username"}, q \in Requests \ {r} :
            stage # "index1" /\ key \in Entered(q)
                => ~ HasKey(draft[q].row, key, KeyOf(row, key))
    BY <1>5, <1>k DEF ClaimedKeys, HasKey
  <1>9. ClaimedKeys'
    <2>1. Entered(r)' = IF stage = "index1" THEN {} ELSE {"email", "username"}
      BY <1>1, IndexAssumption DEF Entered
    <2>2. \A q \in Requests : Entered(q) \subseteq {"email", "username"}
      BY IndexAssumption DEF Entered
    <2>3. QED
      BY <1>1, <1>e, <1>7, <1>8, <2>1, <2>2 DEF ClaimedKeys, HasKey
  <1>10. DraftKinds'
    BY <1>1 DEF DraftKinds, DraftsOfLiveRows
  <1>11. QED
    BY <1>4, <1>6, <1>9, <1>10

\* A DELETE takes the lock of its row and claims no key.
LEMMA DeleteTransaction ==
    ASSUME TypeOK, TransactionInv, NEW r \in Requests, Deletes(r)
    PROVE  TransactionInv'
  <1> USE DEF TransactionInv
  <1> PICK i \in UserIds :
          /\ pc[r] = "flush" /\ call[r].kind # "register"
          /\ users[i] # NoRow /\ Holders(r, i) = {}
          /\ Write(r, i, NoRow, "commit")
    BY DEF Deletes
  <1>1. /\ users' = users /\ born' = born /\ call' = call
        /\ pc'[r] = "commit" /\ draft'[r].id = i /\ draft'[r].row = NoRow
        /\ \A q \in Requests : q # r => draft'[q] = draft[q] /\ pc'[q] = pc[q]
    BY WriteFrame DEF Stages
  <1>2. DraftStages' /\ DraftsOfLiveRows' /\ FoldedKeys'
    BY <1>1 DEF DraftStages, DraftsOfLiveRows, FoldedKeys, FoldedRow
  <1>3. OneWriterPerRow'
    BY <1>1, SentinelAssumption DEF OneWriterPerRow, Holders
  <1>4. ClaimedKeys'
    <2>1. \A q \in Requests : q # r => Entered(q)' = Entered(q)
      BY <1>1 DEF Entered
    <2>2. QED
      BY <1>1, <2>1 DEF ClaimedKeys, HasKey
  <1>5. DraftKinds'
    BY <1>1 DEF DraftKinds, DraftsOfLiveRows
  <1>6. QED
    BY <1>2, <1>3, <1>4, <1>5

\* A commit publishes a draft whose keys nobody else has.
LEMMA EffectTransaction ==
    ASSUME TypeOK, TransactionInv, UniqueKeys, NEW r \in Requests, Effect(r),
           pc[r] = "commit",
           pc' = [pc EXCEPT ![r] = "respond"] \/ pc' = [pc EXCEPT ![r] = "idle"],
           draft' = [draft EXCEPT ![r] = NoDraft],
           call' = call \/ call' = [call EXCEPT ![r] = NoCall]
    PROVE  TransactionInv' /\ UniqueKeys'
  <1> USE DEF TransactionInv
  <1>1. /\ draft'[r] = NoDraft /\ pc'[r] \in {"respond", "idle"}
        /\ \A q \in Requests : q # r => /\ draft'[q] = draft[q] /\ pc'[q] = pc[q]
                                        /\ call'[q] = call[q]
    BY DEF TypeOK
  <1>e. \A q \in Requests : q # r => Entered(q)' = Entered(q)
    BY <1>1 DEF Entered
  <1>2. DraftStages' /\ OneWriterPerRow'
    BY <1>1, SentinelAssumption DEF DraftStages, OneWriterPerRow, NoDraft
  <1>3. CASE draft[r].id = NoUser
    <2>1. users' = users /\ born' = born
      BY <1>3 DEF Effect
    <2>2. DraftsOfLiveRows' /\ FoldedKeys' /\ ClaimedKeys'
      BY <1>1, <1>e, <2>1, SentinelAssumption
      DEF DraftsOfLiveRows, FoldedKeys, FoldedRow, ClaimedKeys, NoDraft, HasKey, TypeOK
    <2>3. UniqueKeys'
      BY <2>1 DEF UniqueKeys, UniqueRows
    <2>4. DraftKinds'
      BY <1>1, <2>1 DEF DraftKinds, NoDraft
    <2>5. QED
      BY <1>2, <2>2, <2>3, <2>4
  <1>4. CASE draft[r].id # NoUser
    <2> DEFINE i == draft[r].id
               row == draft[r].row
    <2>1. /\ i \in UserIds /\ born' = born \cup {i} /\ users'[i] = row
          /\ \A j \in UserIds : j # i => users'[j] = users[j]
      BY <1>4, DraftTyped DEF Effect, TypeOK
    <2>2. \A q \in Requests : q # r => draft[q].id # i
      BY <1>4 DEF OneWriterPerRow
    <2>3. DraftsOfLiveRows'
      BY <1>1, <2>1, <2>2, SentinelAssumption DEF DraftsOfLiveRows, NoDraft, TypeOK
    <2>4. FoldedKeys'
      BY <1>1, <2>1 DEF FoldedKeys, FoldedRow, NoDraft
    <2>k. Entered(r) = {"email", "username"}
      BY IndexAssumption DEF Entered
    <2>5. row # NoRow => \A j \in UserIds \ {i}, key \in {"email", "username"} :
              ~ HasKey(users[j], key, KeyOf(row, key))
      BY <2>k DEF ClaimedKeys
    <2>6. UniqueKeys'
      <3>1. row # NoRow => \A j \in UserIds \ {i} :
                users[j] # NoRow => ~ SameKeys(row, users[j]) /\ ~ SameKeys(users[j], row)
        <4>1. row # NoRow => \A j \in UserIds \ {i} : users[j] # NoRow =>
                  users[j].email # row.email /\ users[j].username # row.username
          BY <2>5 DEF HasKey, KeyOf
        <4>2. QED
          BY <4>1 DEF SameKeys, FoldedKeys, FoldedRow
      <3>2. QED
        BY <2>1, <3>1 DEF UniqueKeys, UniqueRows
    <2>7. row # NoRow => \A q \in Requests \ {r} : draft[q].row # NoRow =>
              \A key \in Entered(q) : ~ HasKey(row, key, KeyOf(draft[q].row, key))
      <3>1. \A q \in Requests : Entered(q) \subseteq Entered(r)
        BY <2>k, IndexAssumption DEF Entered
      <3>2. QED
        BY <3>1 DEF ClaimedKeys
    <2>8. ClaimedKeys'
      BY <1>1, <1>e, <2>1, <2>7 DEF ClaimedKeys, NoDraft, HasKey
    <2>9. DraftKinds'
      BY <1>1, <2>1, <2>2 DEF DraftKinds, NoDraft
    <2>10. QED
      BY <1>2, <2>3, <2>4, <2>6, <2>8, <2>9
  <1>5. QED
    BY <1>3, <1>4

\* Every step of every request keeps the invariant.
LEMMA StepIInv ==
    ASSUME IInv, NEW r \in Requests, Progress(r) \/ Environment(r)
    PROVE  IInv'
  <1> USE DEF IInv
  <1>1. TypeOK'
    BY ProgressTypeOK, EnvironmentTypeOK
  <1>2. Authorised'
    BY StepAuthorised DEF TransactionInv
  <1>k. ASSUME UNCHANGED users PROVE UniqueKeys'
    BY <1>k DEF UniqueKeys, UniqueRows
  <1>3. CASE Progress(r)
    <2>1. CASE Advance(r)
      BY <2>1, <1>1, <1>2, <1>k, AdvanceTransaction DEF Advance, Goto, Load
    <2>2. CASE Inserts(r)
      BY <2>2, <1>1, <1>2, <1>k, InsertTransaction DEF Inserts, Write
    <2>3. CASE Updates(r)
      BY <2>3, <1>1, <1>2, <1>k, UpdateTransaction DEF Updates, Write
    <2>4. CASE Deletes(r)
      BY <2>4, <1>1, <1>2, <1>k, DeleteTransaction DEF Deletes, Write
    <2>5. CASE Ends(r)
      BY <2>5, <1>1, <1>2, <1>k, CloseTransaction DEF Ends, Fail
    <2>6. CASE Commit(r)
      BY <2>6, <1>1, <1>2, EffectTransaction DEF Commit
    <2>7. CASE Respond(r)
      <3>1. PICK status : Close(r, status) /\ UNCHANGED <<users, born>>
        BY <2>7 DEF Respond
      <3>2. QED
        BY <3>1, <1>1, <1>2, <1>k, CloseTransaction
    <2>8. QED
      BY <1>3, <2>1, <2>2, <2>3, <2>4, <2>5, <2>6, <2>7, ProgressForms
  <1>4. CASE Environment(r)
    <2>1. CASE Receive(r)
      <3>1. /\ users' = users /\ born' = born /\ draft' = draft
            /\ pc' = [pc EXCEPT ![r] = "start"] /\ pc[r] = "idle"
        BY <2>1 DEF Receive
      <3>2. \A q \in Requests : /\ pc'[q] \in {"index1", "index2"} => pc'[q] = pc[q]
                                /\ draft[q].id # NoUser => pc'[q] = pc[q]
        BY <3>1 DEF TypeOK, TransactionInv, DraftStages
      <3>e. \A q \in Requests : draft[q].row # NoRow => Entered(q)' = Entered(q)
        BY <3>1, <3>2, DraftTyped DEF Entered, NoDraft
      <3>3. DraftStages' /\ OneWriterPerRow' /\ DraftsOfLiveRows' /\ FoldedKeys' /\ ClaimedKeys'
        BY <3>1, <3>2, <3>e DEF TransactionInv, DraftStages, OneWriterPerRow,
                                DraftsOfLiveRows, FoldedKeys, ClaimedKeys, HasKey
      <3>4. DraftKinds'
        <4>1. \A q \in Requests : q # r => call'[q] = call[q] /\ pc'[q] = pc[q]
          BY <2>1 DEF Receive, TypeOK
        <4>2. pc'[r] = "start" /\ draft[r].id = NoUser
          BY <3>1 DEF TypeOK, TransactionInv, DraftStages
        <4>3. QED
          BY <3>1, <4>1, <4>2 DEF TransactionInv, DraftKinds
      <3>5. QED
        BY <3>1, <3>3, <3>4, <1>1, <1>2, <1>k DEF TransactionInv
    <2>2. CASE ConnectionLost(r) \/ WorkerCrash(r)
      BY <2>2, <1>1, <1>2, <1>k, CloseTransaction DEF ConnectionLost, WorkerCrash, Fail
    <2>3. CASE CommitUnacknowledged(r)
      BY <2>3, <1>1, <1>2, EffectTransaction DEF CommitUnacknowledged, Close
    <2>4. QED
      BY <1>4, <2>1, <2>2, <2>3 DEF Environment
  <1>5. QED
    BY <1>3, <1>4

\* So does a step that changes nothing.
LEMMA StutterIInv == IInv /\ UNCHANGED vars => IInv'
  BY DEF IInv, vars, TypeOK, Authorised, TransactionInv, DraftStages, DraftKinds,
         OneWriterPerRow, DraftsOfLiveRows, FoldedKeys, FoldedRow, ClaimedKeys, Entered, HasKey,
         KeyOf, UniqueKeys, UniqueRows

\* The invariant holds in every reachable state, however requests interleave
\* and whatever fails.
THEOREM Invariance == Spec => []IInv
  <1>1. Init => IInv
    BY InitIInv
  <1>2. IInv /\ [Next]_vars => IInv'
    BY StepIInv, StutterIInv DEF Next
  <1>3. QED
    BY <1>1, <1>2, PTL DEF Spec

\* Every variable keeps its type.
THEOREM TypeCorrect == Spec => []TypeOK
  BY Invariance, PTL DEF IInv

\* Drafts never collide: the row locks and the unique indexes of user.py:22-23
\* leave one writer per account and one owner per key, uncommitted work included.
THEOREM TransactionsCorrect == Spec => []TransactionInv
  BY Invariance, PTL DEF IInv

\* No two accounts ever have the same email or username up to letter case,
\* although register tests both without a lock.
THEOREM KeysUnique == Spec => []UniqueKeys
  BY Invariance, PTL DEF IInv

-----------------------------------------------------------------------------
(***************************************************************************)
(* Deleted accounts, and the refinement of AccountDirectory.               *)
(***************************************************************************)

\* Only a commit changes the table, and only at the account of its draft.
LEMMA TableChange ==
    ASSUME IInv, NEW r \in Requests, Progress(r) \/ Environment(r)
    PROVE  \/ UNCHANGED <<users, born>>
           \/ /\ Effect(r) /\ draft[r].id # NoUser
              /\ Commit(r) \/ CommitUnacknowledged(r)
  <1>1. CASE Progress(r)
    BY <1>1, ProgressForms DEF IInv, Advance, Inserts, Updates, Deletes, Ends, Respond, Commit,
       Effect, Goto, Load, Write, Fail
  <1>2. CASE Environment(r)
    BY <1>2 DEF Environment, Receive, ConnectionLost, CommitUnacknowledged, WorkerCrash,
       Effect, Fail
  <1>3. QED
    BY <1>1, <1>2

\* A deleted account never comes back, although updates and logins that loaded
\* it before its deletion may flush and commit after it.
THEOREM DeletedStayDeleted == Spec => NoResurrection
  <1>1. IInv /\ [Next]_vars => [\A i \in born : users[i] = NoRow => users'[i] = NoRow]_vars
    <2> SUFFICES ASSUME IInv, Next, NEW i \in born, users[i] = NoRow
                 PROVE  users'[i] = NoRow
      BY DEF vars
    <2>1. PICK r \in Requests : Progress(r) \/ Environment(r)
      BY DEF Next
    <2>2. CASE UNCHANGED <<users, born>>
      BY <2>2
    <2>3. CASE Effect(r) /\ draft[r].id # NoUser
      <3>1. draft[r].id # i
        BY DEF IInv, TransactionInv, DraftsOfLiveRows
      <3>2. QED
        BY <2>3, <3>1 DEF Effect, IInv, TypeOK
    <2>4. QED
      BY <2>1, <2>2, <2>3, TableChange
  <1>2. QED
    BY <1>1, Invariance, PTL DEF Spec, NoResurrection

\* The stage at which the directory sees each request.
StageMap == [r \in Requests |-> StageOf(r)]

\* The stage it gives a request after its commit.
Committed(c) == IF c.kind = "register" THEN "created" ELSE "done"

\* How a step moves it.
LEMMA StageMoves ==
    ASSUME TypeOK, NEW r \in Requests, NEW stage \in Stages,
           pc' = [pc EXCEPT ![r] = stage],
           \A q \in Requests : q # r => call'[q] = call[q]
    PROVE  /\ stage = "idle" => StageMap' = [StageMap EXCEPT ![r] = "idle"]
           /\ stage = "respond" =>
                 StageMap' = [StageMap EXCEPT ![r] = Committed(call'[r])]
           /\ stage \notin {"idle", "respond"} => StageMap' = [StageMap EXCEPT ![r] = "working"]
  <1>1. \A q \in Requests : q # r => StageOf(q)' = StageOf(q)
    BY DEF TypeOK, StageOf
  <1>2. /\ stage = "idle" => StageOf(r)' = "idle"
        /\ stage = "respond" => StageOf(r)' = Committed(call'[r])
        /\ stage \notin {"idle", "respond"} => StageOf(r)' = "working"
    BY DEF TypeOK, StageOf, Committed
  <1>3. QED
    BY <1>1, <1>2 DEF StageMap

\* The model starts as the directory does.
LEMMA InitRefines == Init => Directory!Init
  <1> SUFFICES ASSUME Init PROVE Directory!Init
    OBVIOUS
  <1>1. Directory!Distinct(users)
    BY InitialUsersAssumption DEF Init, Directory!Distinct, UniqueRows
  <1>2. QED
    BY <1>1 DEF Init, Directory!Init, StageOf

\* What a commit does to the table is what the directory allows: a registration
\* adds an account, any other request changes or removes one at most.
LEMMA EffectRefines ==
    ASSUME IInv, UniqueKeys', NEW r \in Requests, pc[r] = "commit", Effect(r)
    PROVE  IF call[r].kind = "register" THEN Directory!Insert ELSE Directory!Change
  <1> USE DEF IInv, TransactionInv
  <1>1. CASE draft[r].id = NoUser
    <2>1. call[r].kind # "register"
      BY <1>1, SentinelAssumption DEF DraftKinds
    <2>2. QED
      BY <1>1, <2>1 DEF Effect, Directory!Change
  <1>2. CASE draft[r].id # NoUser
    <2> DEFINE i == draft[r].id
    <2>1. /\ i \in UserIds /\ born' = born \cup {i} /\ users'[i] = draft[r].row
          /\ \A j \in UserIds \ {i} : users'[j] = users[j]
      BY <1>2, DraftTyped DEF Effect, TypeOK
    <2>2. Directory!Distinct(users') /\ Directory!OnlyAt(i)
      BY <2>1 DEF UniqueKeys, UniqueRows, Directory!Distinct, Directory!OnlyAt
    <2>3. CASE call[r].kind = "register"
      <3>1. i \in UserIds \ born /\ users'[i] # NoRow
        BY <2>1, <2>3 DEF DraftKinds
      <3> HIDE DEF i
      <3>2. QED
        BY <2>1, <2>2, <2>3, <3>1 DEF Directory!Insert
    <2>4. CASE call[r].kind # "register"
      <3>1. i \in born /\ users[i] # NoRow
        BY <1>2, <2>4 DEF DraftKinds, DraftsOfLiveRows
      <3>2. born' = born
        BY <2>1, <3>1
      <3> HIDE DEF i
      <3>3. QED
        BY <2>2, <2>4, <3>1, <3>2 DEF Directory!Change
    <2>5. QED
      BY <2>3, <2>4
  <1>3. QED
    BY <1>1, <1>2

\* Every step of a request is a step of the directory, or invisible to it.
LEMMA StepRefines ==
    ASSUME IInv, IInv', NEW r \in Requests, Progress(r) \/ Environment(r)
    PROVE  Directory!Next \/ UNCHANGED Directory!vars
  <1> USE DEF IInv, Stages
  <1>w. pc[r] \notin {"idle", "respond"} => StageMap[r] = "working"
    BY DEF StageMap, StageOf
  <1>o. \A q \in Requests : q # r => call'[q] = call[q]
    BY OthersUntouched
  <1>c. pc[r] = "respond" => StageMap[r] = Committed(call[r])
    BY DEF StageMap, StageOf, Committed
  <1>f. ASSUME pc[r] \notin {"idle", "respond"},
               NEW sent \in Failures, Fail(r, sent)
        PROVE  Directory!Refuse(r) \/ Directory!Break(r)
    <2>1. StageMap[r] = "working" /\ StageMap' = [StageMap EXCEPT ![r] = "idle"]
      BY <1>f, <1>w, <1>o, StageMoves DEF Fail, Close
    <2>2. users' = users /\ born' = born /\ reply' = [reply EXCEPT ![r] = sent]
      BY <1>f DEF Fail, Close
    <2>3. Directory!Silent /\ Directory!Change
      BY <2>2 DEF Directory!Silent, Directory!Change
    <2>4. Directory!Move(r, "working", "idle")
      BY <2>1 DEF Directory!Move, StageMap
    <2>5. CASE sent \in {0, 500}
      <3>1. Directory!Tell(r, {0, 500})
        BY <2>2, <2>5, ZenonT(60) DEF Directory!Tell
      <3>2. QED
        BY <2>3, <2>4, <3>1 DEF Directory!Break
    <2>6. CASE sent \in {400, 401, 403, 404, 409}
      <3>1. Directory!Tell(r, Directory!Refusals)
        <4>1. sent \in Directory!Refusals
          BY <2>6 DEF Directory!Refusals
        <4>2. QED
          BY <2>2, <4>1, ZenonT(60) DEF Directory!Tell
      <3>2. QED
        BY <2>3, <2>4, <3>1 DEF Directory!Refuse
    <2>7. QED
      BY <2>5, <2>6 DEF Failures
  <1>1. CASE Advance(r) \/ Inserts(r) \/ Updates(r) \/ Deletes(r)
    <2>1. PICK stage \in Stages \ {"idle", "respond"} : pc' = [pc EXCEPT ![r] = stage]
      BY <1>1 DEF Advance, Inserts, Updates, Deletes, Goto, Load, Write
    <2>2. pc[r] \notin {"idle", "respond"}
      BY <1>1 DEF Advance, Inserts, Updates, Deletes
    <2>3. StageMap' = StageMap
      BY <2>1, <2>2, <1>w, <1>o, StageMoves DEF StageMap
    <2>4. users' = users /\ born' = born /\ reply' = reply
      BY <1>1 DEF Advance, Inserts, Updates, Deletes, Goto, Load, Write
    <2>5. QED
      BY <2>3, <2>4 DEF Directory!vars, StageMap
  <1>2. CASE Ends(r)
    BY <1>2, <1>f DEF Ends, Directory!Next
  <1>3. CASE Commit(r)
    <2>1. /\ StageMap[r] = "working"
          /\ StageMap' = [StageMap EXCEPT ![r] = Committed(call[r])]
      BY <1>3, <1>w, <1>o, StageMoves DEF Commit
    <2>2. /\ IF call[r].kind = "register" THEN Directory!Insert ELSE Directory!Change
          /\ reply' = reply
      BY <1>3, EffectRefines DEF Commit
    <2>3. Directory!Move(r, "working", Committed(call[r]))
      BY <2>1 DEF Directory!Move, StageMap
    <2>4. Directory!Create(r) \/ Directory!Apply(r)
      BY <2>2, <2>3 DEF Directory!Create, Directory!Apply, Committed
    <2>5. QED
      BY <2>4 DEF Directory!Next
  <1>4. CASE Respond(r)
    <2> DEFINE code == IF call[r].kind = "register" THEN 201 ELSE 200
    <2>1. /\ StageMap[r] = Committed(call[r])
          /\ StageMap' = [StageMap EXCEPT ![r] = "idle"]
      BY <1>4, <1>c, <1>o, StageMoves DEF Respond, Close
    <2>2. users' = users /\ born' = born /\ reply' = [reply EXCEPT ![r] = code]
      BY <1>4 DEF Respond, Close
    <2>3. Directory!Tell(r, {code})
      <3>1. code \in {code}
        OBVIOUS
      <3>2. QED
        BY <2>2, <3>1, ZenonT(60) DEF Directory!Tell
    <2>4. Directory!Move(r, Committed(call[r]), "idle")
      BY <2>1 DEF Directory!Move, StageMap
    <2>5. Directory!Succeed(r)
      BY <2>2, <2>3, <2>4 DEF Directory!Succeed, Directory!Silent, Committed
    <2>6. QED
      BY <2>5 DEF Directory!Next
  <1>5. CASE Receive(r)
    <2>1. StageMap[r] = "idle" /\ StageMap' = [StageMap EXCEPT ![r] = "working"]
      BY <1>5, <1>o, StageMoves DEF Receive, StageMap, StageOf
    <2>2. Directory!Arrive(r)
      BY <1>5, <2>1 DEF Receive, Directory!Arrive, Directory!Move, Directory!Tell,
                        Directory!Silent, StageMap
    <2>3. QED
      BY <2>2 DEF Directory!Next
  <1>6. CASE ConnectionLost(r)
    BY <1>6, <1>f DEF ConnectionLost, Failures, Directory!Next
  <1>7. CASE WorkerCrash(r)
    <2>1. CASE pc[r] = "respond"
      <3>1. /\ StageMap[r] = Committed(call[r])
            /\ StageMap' = [StageMap EXCEPT ![r] = "idle"]
        BY <1>7, <2>1, <1>c, <1>o, StageMoves DEF WorkerCrash, Fail, Close
      <3>2. Directory!Break(r)
        <4>1. Directory!Move(r, Committed(call[r]), "idle")
          BY <3>1 DEF Directory!Move, StageMap
        <4>2. reply' = [reply EXCEPT ![r] = 0] /\ Directory!Silent
          BY <1>7 DEF WorkerCrash, Fail, Close, Directory!Silent
        <4>3. QED
          BY <4>1, <4>2 DEF Directory!Break, Directory!Tell, Committed
      <3>3. QED
        BY <3>2 DEF Directory!Next
    <2>2. CASE pc[r] # "respond"
      BY <1>7, <2>2, <1>f DEF WorkerCrash, Failures, Directory!Next
    <2>3. QED
      BY <2>1, <2>2
  <1>8. CASE CommitUnacknowledged(r)
    <2>1. StageMap[r] = "working" /\ StageMap' = [StageMap EXCEPT ![r] = "idle"]
      BY <1>8, <1>w, <1>o, StageMoves DEF CommitUnacknowledged, Close
    <2>2. /\ Directory!Insert \/ Directory!Change
          /\ reply' = [reply EXCEPT ![r] = 500]
      BY <1>8, EffectRefines DEF CommitUnacknowledged, Close
    <2>3. Directory!Break(r)
      BY <2>1, <2>2 DEF Directory!Break, Directory!Move, Directory!Tell, StageMap
    <2>4. QED
      BY <2>3 DEF Directory!Next
  <1>9. QED
    BY <1>1, <1>2, <1>3, <1>4, <1>5, <1>6, <1>7, <1>8, ProgressForms DEF Environment

\* The endpoints implement the directory: each request takes effect at one
\* instant, its commit, and is answered with a success only after it.
THEOREM EndpointsImplementDirectory == Spec => ImplementsDirectory
  <1>1. Init => Directory!Init
    BY InitRefines
  <1>2. IInv /\ IInv' /\ [Next]_vars => [Directory!Next]_(Directory!vars)
    <2>1. ASSUME IInv, IInv', Next
          PROVE  Directory!Next \/ UNCHANGED Directory!vars
      BY <2>1, StepRefines DEF Next
    <2>2. ASSUME UNCHANGED vars
          PROVE  UNCHANGED Directory!vars
      BY <2>2 DEF vars, Directory!vars, StageOf
    <2>3. QED
      BY <2>1, <2>2
  <1>3. QED
    BY <1>1, <1>2, Invariance, PTL DEF Spec, ImplementsDirectory, Directory!Spec
=============================================================================
