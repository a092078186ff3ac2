------------------------ MODULE AccountsStepsProofs ------------------------
(***************************************************************************)
(* Theorems about what the steps of Accounts may do, for every value of    *)
(* its constants: the action properties of the account endpoints.          *)
(***************************************************************************)
EXTENDS AccountsProofs

-----------------------------------------------------------------------------
(***************************************************************************)
(* What IInv does not say: how the uncommitted version of a row follows    *)
(* from the call and the committed one.                                    *)
(***************************************************************************)

\* The stages that only some endpoints have.
Course(r) ==
    /\ pc[r] = "idle" => call[r] = NoCall
    /\ pc[r] \in {"index1", "index2", "refresh"} => call[r].kind \in {"register", "admin_update"}

Past == {"flush", "index1", "index2", "refresh", "commit"}

\* Past the checks of admin.py an administrator does not demote or delete himself, and
\* if he writes another's row his session still has his own as he was when admitted.
Vetted(r) ==
    /\ pc[r] \in Past /\ call[r].kind = "admin_delete" => call[r].target # call[r].token
    /\ pc[r] \in Past /\ call[r].kind = "admin_update" => ~ SelfDemotion(call[r])
    /\ pc[r] \in Past /\ call[r].kind \in {"admin_update", "admin_delete"}
       /\ call[r].target # call[r].token =>
           call[r].token \in UserIds /\ session[r][call[r].token].role = "admin"

\* A draft is what the call makes of the committed row, although it was computed from
\* a row that was loaded earlier.
Written(r) ==
    /\ draft[r].id # NoUser /\ call[r].kind = "register" => draft[r].row = NewRow(call[r])
    /\ draft[r].id # NoUser /\ call[r].kind \in {"admin_update", "admin_delete"} =>
           draft[r].id = call[r].target
    /\ draft[r].row # NoRow /\ call[r].kind # "register" =>
           Keeps(call[r], users[draft[r].id], draft[r].row)
    /\ draft[r].id # NoUser /\ draft[r].row = NoRow => call[r].kind = "admin_delete"

\* What was refreshed is the draft.
Refreshed(r) ==
    pc[r] = "commit" /\ call[r].kind \in {"register", "admin_update"} /\ draft[r].id # NoUser =>
        session[r][draft[r].id] = draft[r].row

Tracked(r) == Course(r) /\ Vetted(r) /\ Written(r) /\ Refreshed(r)

SInv == IInv /\ \A r \in Requests : Tracked(r)

-----------------------------------------------------------------------------
(***************************************************************************)
(* The invariant, form by form.                                            *)
(***************************************************************************)

\* Of a kind of call that never writes another's row, nothing is to be vetted.
LEMMA NothingToVet ==
    ASSUME NEW r \in Requests,
           pc'[r] \notin Past \/ call'[r].kind \notin {"admin_update", "admin_delete"}
    PROVE  Vetted(r)'
  BY DEF Vetted

\* A request that is over has nothing left.
LEMMA CloseTracked ==
    ASSUME TypeOK, NEW r \in Requests, NEW status, Close(r, status)
    PROVE  Tracked(r)'
  <1>1. pc'[r] = "idle" /\ call'[r] = NoCall /\ draft'[r] = NoDraft
    BY DEF Close, TypeOK
  <1>2. NoDraft.id = NoUser /\ NoDraft.row = NoRow
    BY DEF NoDraft
  <1>3. QED
    BY <1>1, <1>2 DEF Tracked, Course, Vetted, Written, Refreshed, Past

\* One that reads before its first write has written nothing.
LEMMA ReadTracked ==
    ASSUME IInv, NEW r \in Requests, pc[r] \notin {"index1", "index2", "refresh", "commit"},
           pc'[r] \notin {"idle", "index1", "index2", "refresh"}, draft' = draft, Vetted(r)'
    PROVE  Tracked(r)'
  <1>1. draft[r].id = NoUser /\ draft[r].row = NoRow
    BY DraftTyped DEF IInv, TransactionInv, DraftStages, NoDraft
  <1>2. QED
    BY <1>1 DEF Tracked, Course, Written, Refreshed

\* A flush writes what the call makes of the row.
LEMMA WriteTracked ==
    ASSUME IInv, NEW r \in Requests, Vetted(r), pc[r] = "flush",
           NEW i \in UserIds, NEW row, NEW stage \in {"index1", "refresh", "commit"},
           Write(r, i, row, stage),
           stage = "commit" <=> call[r].kind \notin {"register", "admin_update"},
           call[r].kind = "register" => row = NewRow(call[r]),
           call[r].kind \in {"admin_update", "admin_delete"} => i = call[r].target,
           row # NoRow /\ call[r].kind # "register" => Keeps(call[r], users[i], row),
           row = NoRow => call[r].kind = "admin_delete"
    PROVE  Tracked(r)'
  <1>1. /\ pc'[r] = stage /\ draft'[r].id = i /\ draft'[r].row = row
        /\ call' = call /\ session' = session /\ users' = users
    BY DEF Write, IInv, TypeOK
  <1>2. Course(r)'
    BY <1>1 DEF Course
  <1>3. Vetted(r)'
    BY <1>1 DEF Vetted, Past
  <1>4. Written(r)'
    BY <1>1 DEF Written, Keeps
  <1>5. Refreshed(r)'
    BY <1>1 DEF Refreshed
  <1>6. QED
    BY <1>2, <1>3, <1>4, <1>5 DEF Tracked

\* Nobody else's commit touches the row under a draft.
LEMMA OthersTracked ==
    ASSUME SInv, NEW r \in Requests, Progress(r) \/ Environment(r),
           NEW q \in Requests \ {r}
    PROVE  Tracked(q)'
  <1> USE DEF SInv, IInv
  <1>1. pc'[q] = pc[q] /\ call'[q] = call[q] /\ session'[q] = session[q]
        /\ draft'[q] = draft[q]
    BY OthersUntouched
  <1>2. draft[q].id # NoUser => users'[draft[q].id] = users[draft[q].id]
    <2> SUFFICES ASSUME draft[q].id # NoUser
                 PROVE  users'[draft[q].id] = users[draft[q].id]
      OBVIOUS
    <2>1. CASE UNCHANGED <<users, born>>
      BY <2>1
    <2>2. CASE Effect(r) /\ draft[r].id # NoUser
      <3>1. draft[r].id # draft[q].id
        BY DEF TransactionInv, OneWriterPerRow
      <3>2. draft[q].id \in UserIds
        BY DraftTyped
      <3>3. QED
        BY <2>2, <3>1, <3>2 DEF Effect, TypeOK
    <2>3. QED
      BY <2>1, <2>2, TableChange
  <1>3. draft[q].row # NoRow => draft[q].id # NoUser
    BY DraftTyped DEF NoDraft
  <1>4. Course(q) /\ Vetted(q) /\ Written(q) /\ Refreshed(q)
    BY DEF Tracked
  <1>5. Course(q)' /\ Vetted(q)' /\ Refreshed(q)'
    BY <1>1, <1>4 DEF Course, Vetted, Refreshed
  <1>6. Written(q)'
    BY <1>1, <1>2, <1>3, <1>4 DEF Written, Keeps
  <1>7. QED
    BY <1>5, <1>6 DEF Tracked

\* A patch without nulls changes only the columns it names.
LEMMA PatchKeeps ==
    ASSUME NEW c, c.kind = "admin_update", c.patch \in Patches, ~ HasNull(c.patch),
           NEW loaded, NEW old \in Rows
    PROVE  Keeps(c, old, Patched(c.patch, loaded, old))
  <1> DEFINE p == c.patch
             name == Assigned(Folded(p.username), loaded.username, old.username)
             role == Assigned(p.role, loaded.role, old.role)
             active == Assigned(p.is_active, loaded.is_active, old.is_active)
             new == Patched(p, loaded, old)
  <1>1. name \in {old.username, Folded(p.username)} /\ role \in {old.role, p.role}
        /\ (p.is_active = Unset => active = old.is_active)
    BY DEF Assigned
  <1>2. new = [[[old EXCEPT !.username = name] EXCEPT !.role = role] EXCEPT !.is_active = active]
    BY DEF Patched
  <1> HIDE DEF name, role, active, new
  <1>3. /\ new.email = old.email /\ new.hashed_password = old.hashed_password
        /\ new.last_login = old.last_login
        /\ new.username = name /\ new.role = role /\ new.is_active = active
    BY <1>2 DEF Rows
  <1>4. Keeps(c, old, new)
    BY <1>1, <1>3 DEF Keeps
  <1>5. QED
    BY <1>4 DEF new

-----------------------------------------------------------------------------
(***************************************************************************)
(* The invariant, step by step.                                            *)
(***************************************************************************)

\* What Goto and Load do to the request.
LEMMA GoneOn ==
    ASSUME TypeOK, NEW r \in Requests, NEW stage, NEW i, NEW row,
           Goto(r, stage) \/ Load(r, i, row, stage)
    PROVE  /\ pc'[r] = stage /\ call' = call /\ draft' = draft
           /\ Goto(r, stage) => session' = session
           /\ Load(r, i, row, stage) => session'[r] = [session[r] EXCEPT ![i] = row]
  BY DEF Goto, Load, TypeOK

\* Registration, login, refresh and profile vet nothing.
LEMMA OwnAccountTracked ==
    ASSUME SInv, NEW r \in Requests,
           \/ RegisterCheckEmail(r) \/ RegisterCheckUsername(r) \/ CreateUser(r)
           \/ AuthenticateUser(r) \/ UpdateLastLogin(r) \/ RefreshToken(r)
    PROVE  Tracked(r)'
  <1> USE DEF SInv, IInv, At
  <1>1. call[r].kind \in {"register", "login", "refresh"}
    BY DEF RegisterCheckEmail, RegisterCheckUsername, CreateUser, AuthenticateUser,
           UpdateLastLogin, RefreshToken
  <1>2. \A status : Fail(r, status) => Tracked(r)'
    BY CloseTracked DEF Fail
  <1>3. ASSUME NEW stage \in {"username", "flush", "commit"}, NEW i, NEW row,
               Goto(r, stage) \/ Load(r, i, row, stage),
               pc[r] \in {"start", "username"}
        PROVE  Tracked(r)'
    <2>1. pc'[r] = stage /\ call' = call /\ draft' = draft
      BY <1>3, GoneOn
    <2>2. Vetted(r)'
      BY <1>1, <2>1, NothingToVet
    <2>3. QED
      BY <1>3, <2>1, <2>2, ReadTracked
  <1>4. CASE RegisterCheckEmail(r)
    BY <1>2, <1>3, <1>4 DEF RegisterCheckEmail
  <1>5. CASE RegisterCheckUsername(r)
    BY <1>2, <1>3, <1>5 DEF RegisterCheckUsername
  <1>6. CASE CreateUser(r)
    <2>1. CASE Fail(r, 500)
      BY <2>1, <1>2
    <2>2. CASE /\ call[r].password \notin Unhashable
               /\ \E i \in UserIds \ born : Write(r, i, NewRow(call[r]), "index1")
      <3>1. PICK i \in UserIds : Write(r, i, NewRow(call[r]), "index1")
        BY <2>2
      <3>2. pc[r] = "flush" /\ call[r].kind = "register" /\ Vetted(r)
        BY <1>6 DEF CreateUser, Vetted
      <3>3. NewRow(call[r]) # NoRow
        BY <2>2, <3>2, CallType, NewRowType, SentinelAssumption
      <3>4. QED
        BY <3>1, <3>2, <3>3, WriteTracked
    <2>3. QED
      BY <1>6, <2>1, <2>2 DEF CreateUser
  <1>7. CASE AuthenticateUser(r)
    BY <1>2, <1>3, <1>7 DEF AuthenticateUser
  <1>8. CASE UpdateLastLogin(r)
    <2> PICK i \in UserIds :
            UpdateRow(r, i, [users[i] EXCEPT !.last_login = TRUE], "commit")
      BY <1>8 DEF UpdateLastLogin
    <2> DEFINE row == [users[i] EXCEPT !.last_login = TRUE]
    <2>1. pc[r] = "flush" /\ call[r].kind = "login" /\ Vetted(r)
      BY <1>8 DEF UpdateLastLogin, Vetted
    <2>2. CASE Fail(r, 500)
      BY <2>2, <1>2
    <2>3. CASE users[i] # NoRow /\ Write(r, i, row, "commit")
      <3>1. users[i] \in Rows
        BY <2>3 DEF TypeOK
      <3>2. row \in Rows
        BY <3>1 DEF Rows
      <3>3. row # NoRow
        BY <3>2, SentinelAssumption
      <3>4. Keeps(call[r], users[i], row)
        BY <2>1 DEF Keeps
      <3> HIDE DEF row
      <3>5. QED
        BY <2>1, <2>3, <3>3, <3>4, WriteTracked
    <2>4. QED
      BY <2>2, <2>3 DEF UpdateRow
  <1>9. CASE RefreshToken(r)
    BY <1>2, <1>3, <1>9 DEF RefreshToken
  <1>10. QED
    BY <1>4, <1>5, <1>6, <1>7, <1>8, <1>9

\* The indexes, and the refresh: what was written is read back.
LEMMA RefreshTracked ==
    ASSUME SInv, NEW r \in Requests, EnterIndex(r) \/ RefreshRow(r)
    PROVE  Tracked(r)'
  <1> USE DEF SInv, IInv
  <1>1. \A status : Fail(r, status) => Tracked(r)'
    BY CloseTracked DEF Fail
  <1>2. Course(r) /\ Vetted(r) /\ Written(r)
    BY DEF Tracked
  <1>3. CASE EnterIndex(r)
    <2>1. CASE IntegrityError(r)
      BY <2>1, <1>1 DEF IntegrityError
    <2>2. ASSUME NEW stage \in {"index2", "refresh"}, Goto(r, stage)
          PROVE  Tracked(r)'
      <3>1. /\ pc'[r] = stage /\ call' = call /\ draft' = draft /\ session' = session
            /\ users' = users /\ pc[r] \in {"index1", "index2"}
        BY <1>3, <2>2 DEF Goto, TypeOK, EnterIndex
      <3>2. Course(r)' /\ Vetted(r)' /\ Refreshed(r)'
        BY <1>2, <3>1 DEF Course, Vetted, Refreshed, Past
      <3>3. Written(r)'
        BY <1>2, <3>1 DEF Written, Keeps
      <3>4. QED
        BY <3>2, <3>3 DEF Tracked
    <2>3. QED
      BY <1>3, <2>1, <2>2 DEF EnterIndex
  <1>4. CASE RefreshRow(r)
    <2> DEFINE i == IF draft[r].id # NoUser THEN draft[r].id ELSE call[r].target
               row == IF draft[r].id # NoUser THEN draft[r].row ELSE users[i]
    <2>1. CASE Fail(r, 500)
      BY <2>1, <1>1
    <2>2. CASE Load(r, i, row, "commit")
      <3>1. /\ pc'[r] = "commit" /\ call' = call /\ draft' = draft /\ users' = users
            /\ session'[r] = [session[r] EXCEPT ![i] = row] /\ pc[r] = "refresh"
        BY <1>4, <2>2 DEF Load, TypeOK, RefreshRow
      <3>2. call[r].kind \in {"register", "admin_update"}
        BY <1>2, <3>1 DEF Course
      <3>3. session[r] \in [UserIds -> Rows \cup {NoRow}]
        BY DEF TypeOK
      <3>4. Course(r)'
        BY <3>1 DEF Course
      <3>5. Vetted(r)'
        <4>1. call[r].kind = "admin_update" => i = call[r].target
          BY <1>2 DEF Written
        <4> HIDE DEF i, row
        <4>2. QED
          BY <1>2, <3>1, <3>2, <3>3, <4>1 DEF Vetted, Past
      <3>6. Refreshed(r)'
        BY <3>1, <3>3, DraftTyped DEF Refreshed
      <3>7. Written(r)'
        BY <1>2, <3>1 DEF Written, Keeps
      <3>8. QED
        BY <3>4, <3>5, <3>6, <3>7 DEF Tracked
    <2>3. QED
      BY <1>4, <2>1, <2>2 DEF RefreshRow
  <1>5. QED
    BY <1>3, <1>4

\* The dependency chain, the password change and the three administrator's endpoints.
LEMMA BearerTracked ==
    ASSUME SInv, NEW r \in Requests,
           \/ GetCurrentUser(r) \/ ChangeMyPassword(r) \/ ChangePassword(r)
           \/ AdminGetUser(r) \/ AdminUpdateCheck(r) \/ AdminDeleteCheck(r)
    PROVE  Tracked(r)'
  <1> USE DEF SInv, IInv, At
  <1>1. \A status : Fail(r, status) => Tracked(r)'
    BY CloseTracked DEF Fail
  <1>2. ASSUME NEW stage \in {"handler", "flush", "commit"}, NEW i, NEW row,
               Goto(r, stage) \/ Load(r, i, row, stage),
               pc[r] \in {"start", "handler"},
               stage = "handler" \/ call[r].kind \notin {"admin_update", "admin_delete"}
        PROVE  Tracked(r)'
    <2>1. pc'[r] = stage /\ call' = call /\ draft' = draft
      BY <1>2, GoneOn
    <2>2. Vetted(r)'
      BY <1>2, <2>1, NothingToVet DEF Past
    <2>3. QED
      BY <1>2, <2>1, <2>2, ReadTracked
  <1>3. CASE GetCurrentUser(r)
    BY <1>1, <1>2, <1>3 DEF GetCurrentUser, AdminKinds
  <1>4. CASE ChangeMyPassword(r)
    BY <1>1, <1>2, <1>4 DEF ChangeMyPassword
  <1>5. CASE ChangePassword(r)
    <2> DEFINE i == call[r].token
               row == [users[i] EXCEPT !.hashed_password = Digest[call[r].new]]
    <2>1. pc[r] = "flush" /\ call[r].kind = "change_password" /\ Vetted(r)
      BY <1>5 DEF ChangePassword, Vetted
    <2>2. i \in UserIds
      BY <2>1 DEF Authorised
    <2>3. CASE Fail(r, 500)
      BY <2>3, <1>1
    <2>4. CASE /\ call[r].new \notin Unhashable
               /\ users[i] # NoRow /\ Write(r, i, row, "commit")
      <3>0. Digest[call[r].new] \in Digests
        BY <2>1, <2>4, CallType, DigestAssumption
      <3>1. users[i] \in Rows
        BY <2>2, <2>4 DEF TypeOK
      <3>2. row \in Rows
        BY <3>0, <3>1 DEF Rows
      <3>3. row # NoRow
        BY <3>2, SentinelAssumption
      <3>4. Keeps(call[r], users[i], row)
        BY <2>1 DEF Keeps
      <3> HIDE DEF row, i
      <3>5. QED
        BY <2>1, <2>2, <2>4, <3>3, <3>4, WriteTracked
    <2>5. QED
      BY <1>5, <2>3, <2>4 DEF ChangePassword, UpdateRow
  <1>6. CASE AdminGetUser(r)
    BY <1>1, <1>2, <1>6 DEF AdminGetUser
  <1>7. ASSUME call[r].kind \in {"admin_update", "admin_delete"}, pc[r] = "handler",
               call[r].kind = "admin_delete" => call[r].target # call[r].token,
               call[r].kind = "admin_update" => ~ SelfDemotion(call[r]),
               Load(r, call[r].target, Fetched(r, call[r].target), "flush")
        PROVE  Tracked(r)'
    <2>1. /\ pc'[r] = "flush" /\ call' = call /\ draft' = draft
          /\ session'[r] = [session[r] EXCEPT ![call[r].target] = Fetched(r, call[r].target)]
      BY <1>7 DEF Load, TypeOK
    <2>2. call[r].token \in UserIds /\ session[r][call[r].token].role = "admin"
      BY <1>7 DEF Authorised, AdminKinds
    <2>3. session[r] \in [UserIds -> Rows \cup {NoRow}]
      BY DEF TypeOK
    <2>4. Vetted(r)'
      BY <1>7, <2>1, <2>2, <2>3 DEF Vetted
    <2>5. QED
      BY <1>7, <2>1, <2>4, ReadTracked
  <1>8. CASE AdminUpdateCheck(r)
    BY <1>1, <1>7, <1>8 DEF AdminUpdateCheck
  <1>9. CASE AdminDeleteCheck(r)
    BY <1>1, <1>7, <1>9 DEF AdminDeleteCheck
  <1>10. QED
    BY <1>3, <1>4, <1>5, <1>6, <1>8, <1>9

\* The flushes of an administrator.
LEMMA AdminTracked ==
    ASSUME SInv, NEW r \in Requests, AdminUpdateUser(r) \/ DeleteUser(r)
    PROVE  Tracked(r)'
  <1> USE DEF SInv, IInv, At
  <1>1. \A status : Fail(r, status) => Tracked(r)'
    BY CloseTracked DEF Fail
  <1>2. Vetted(r) /\ pc[r] = "flush" /\ call[r].target \in UserIds
        /\ call[r].kind \in {"admin_update", "admin_delete"}
    BY CallType DEF Tracked, AdminUpdateUser, DeleteUser, AdminKinds
  <1>3. ASSUME NEW stage \in {"refresh", "commit"}, Goto(r, stage),
               stage = "refresh" <=> call[r].kind = "admin_update"
        PROVE  Tracked(r)'
    <2>1. pc'[r] = stage /\ call' = call /\ draft' = draft /\ session' = session
      BY <1>3, GoneOn
    <2>2. draft[r].id = NoUser /\ draft[r].row = NoRow
      BY <1>2, DraftTyped DEF TransactionInv, DraftStages, NoDraft
    <2>3. QED
      BY <1>2, <1>3, <2>1, <2>2 DEF Tracked, Course, Vetted, Written, Refreshed, Past
  <1>4. CASE AdminUpdateUser(r)
    <2> DEFINE i == call[r].target
               p == call[r].patch
               row == Patched(p, session[r][i], users[i])
               stage == IF row.username # users[i].username THEN "index1" ELSE "refresh"
    <2>1. call[r].kind = "admin_update" /\ p \in Patches
      BY <1>4, CallType DEF AdminUpdateUser
    <2>2. CASE Goto(r, "refresh")
      BY <2>1, <2>2, <1>3
    <2>3. CASE IntegrityError(r) \/ Fail(r, 500)
      BY <2>3, <1>1 DEF IntegrityError
    <2>4. CASE (HasNull(p) => users[i] = NoRow) /\ users[i] # NoRow /\ Write(r, i, row, stage)
      <3>1. users[i] \in Rows /\ ~ HasNull(p)
        BY <1>2, <2>4 DEF TypeOK
      <3>2. row \in Rows
        BY <2>1, <3>1, PatchedKeys
      <3>3. row # NoRow
        BY <3>2, SentinelAssumption
      <3>4. Keeps(call[r], users[i], row)
        BY <2>1, <3>1, PatchKeeps
      <3>5. stage \in {"index1", "refresh"}
        OBVIOUS
      <3> HIDE DEF row, stage
      <3>6. QED
        BY <1>2, <2>1, <2>4, <3>3, <3>4, <3>5, WriteTracked
    <2>5. QED
      BY <1>4, <2>2, <2>3, <2>4 DEF AdminUpdateUser, UpdateRow
  <1>5. CASE DeleteUser(r)
    <2>1. call[r].kind = "admin_delete"
      BY <1>5 DEF DeleteUser
    <2>2. CASE Goto(r, "commit")
      BY <2>1, <2>2, <1>3
    <2>3. CASE Write(r, call[r].target, NoRow, "commit")
      BY <1>2, <2>1, <2>3, WriteTracked
    <2>4. QED
      BY <1>5, <2>2, <2>3 DEF DeleteUser
  <1>6. QED
    BY <1>4, <1>5

\* Every step keeps the invariant.
LEMMA StepSInv ==
    ASSUME SInv, NEW r \in Requests, Progress(r) \/ Environment(r)
    PROVE  SInv'
  <1> USE DEF SInv
  <1>1. IInv'
    BY StepIInv
  <1>2. \A q \in Requests \ {r} : Tracked(q)'
    BY OthersTracked
  <1>t. TypeOK
    BY DEF IInv
  <1>3. Tracked(r)'
    <2>1. CASE \/ RegisterCheckEmail(r) \/ RegisterCheckUsername(r) \/ CreateUser(r)
               \/ AuthenticateUser(r) \/ UpdateLastLogin(r) \/ RefreshToken(r)
      BY <2>1, OwnAccountTracked
    <2>2. CASE EnterIndex(r) \/ RefreshRow(r)
      BY <2>2, RefreshTracked
    <2>3. CASE \/ GetCurrentUser(r) \/ ChangeMyPassword(r) \/ ChangePassword(r)
               \/ AdminGetUser(r) \/ AdminUpdateCheck(r) \/ AdminDeleteCheck(r)
      BY <2>3, BearerTracked
    <2>4. CASE AdminUpdateUser(r) \/ DeleteUser(r)
      BY <2>4, AdminTracked
    <2>5. CASE Commit(r)
      <3>1. pc'[r] = "respond" /\ draft'[r] = NoDraft
        BY <2>5, <1>t DEF Commit, TypeOK
      <3>2. QED
        BY <3>1 DEF NoDraft, Tracked, Course, Vetted, Written, Refreshed, Past
    <2>6. CASE \/ Respond(r) \/ AbortDeadlock(r) \/ ConnectionLost(r) \/ WorkerCrash(r)
               \/ CommitUnacknowledged(r)
      <3>1. PICK status : Close(r, status)
        BY <2>6 DEF Respond, AbortDeadlock, ConnectionLost, WorkerCrash,
                    CommitUnacknowledged, Fail
      <3>2. QED
        BY <3>1, <1>t, CloseTracked
    <2>7. CASE Receive(r)
      <3>1. pc[r] = "idle" /\ pc'[r] = "start" /\ draft' = draft
        BY <2>7, <1>t DEF Receive, TypeOK
      <3>2. QED
        BY <3>1, NothingToVet, ReadTracked DEF Past
    <2>8. QED
      BY <2>1, <2>2, <2>3, <2>4, <2>5, <2>6, <2>7 DEF Progress, Environment
  <1>4. QED
    BY <1>1, <1>2, <1>3

\* Every draft follows from its call and the committed row, whatever interleaves.
THEOREM DraftsTracked == Spec => []SInv
  <1>1. Init => SInv
    <2> SUFFICES ASSUME Init PROVE SInv
      OBVIOUS
    <2>1. \A r \in Requests : pc[r] = "idle" /\ call[r] = NoCall /\ draft[r] = NoDraft
      BY DEF Init
    <2>2. QED
      BY <2>1, InitIInv
      DEF SInv, NoDraft, Tracked, Course, Vetted, Written, Refreshed, Past
  <1>2. SInv /\ [Next]_vars => SInv'
    <2>1. SInv /\ Next => SInv'
      BY StepSInv DEF Next
    <2>2. SInv /\ UNCHANGED vars => SInv'
      <3> SUFFICES ASSUME SInv, UNCHANGED vars PROVE SInv'
        OBVIOUS
      <3>1. UNCHANGED <<users, pc, call, session, draft>>
        BY DEF vars
      <3>2. ASSUME NEW r \in Requests PROVE Tracked(r)'
        <4>1. Tracked(r)
          BY DEF SInv
        <4>2. Course(r)' /\ Vetted(r)' /\ Refreshed(r)'
          BY <3>1, <4>1 DEF Tracked, Course, Vetted, Refreshed
        <4>3. Written(r)'
          BY <3>1, <4>1 DEF Tracked, Written, Keeps
        <4>4. QED
          BY <4>2, <4>3 DEF Tracked
      <3>3. QED
        BY <3>2, StutterIInv DEF SInv
    <2>3. QED
      BY <2>1, <2>2
  <1>3. QED
    BY <1>1, <1>2, PTL DEF Spec

-----------------------------------------------------------------------------
(***************************************************************************)
(* What a commit does to a row.                                            *)
(***************************************************************************)

\* A row that changes is that of a draft, and its request is at its commit.
LEMMA RowChange ==
    ASSUME SInv, NEW r \in Requests, Progress(r) \/ Environment(r),
           NEW i \in UserIds, users'[i] # users[i]
    PROVE  /\ pc[r] = "commit" /\ draft[r].id = i /\ users'[i] = draft[r].row
           /\ \A j \in UserIds \ {i} : users'[j] = users[j]
  <1> USE DEF SInv, IInv
  <1>1. Effect(r) /\ draft[r].id # NoUser /\ pc[r] = "commit"
    BY TableChange DEF Commit, CommitUnacknowledged
  <1>2. users' = [users EXCEPT ![draft[r].id] = draft[r].row]
    BY <1>1 DEF Effect
  <1>3. QED
    BY <1>1, <1>2, DraftTyped DEF TypeOK

\* Updates of one account never undo each other's columns, although each was computed
\* from a row loaded earlier (user_service.py:110-139).
THEOREM ColumnsIsolated == Spec => ColumnIsolation
  <1> DEFINE Isolated ==
        \A i \in UserIds : users[i] # NoRow /\ users'[i] \notin {NoRow, users[i]} =>
            \E r \in Requests : pc[r] = "commit" /\ Keeps(call[r], users[i], users'[i])
  <1>1. SInv /\ [Next]_vars => [Isolated]_vars
    <2> SUFFICES ASSUME SInv, Next, NEW i \in UserIds, users[i] # NoRow,
                        users'[i] \notin {NoRow, users[i]}
                 PROVE  \E r \in Requests :
                            pc[r] = "commit" /\ Keeps(call[r], users[i], users'[i])
      BY DEF vars
    <2>1. PICK r \in Requests : Progress(r) \/ Environment(r)
      BY DEF Next
    <2>2. pc[r] = "commit" /\ draft[r].id = i /\ users'[i] = draft[r].row
      BY <2>1, RowChange
    <2>3. i \in born
      BY DEF SInv, IInv, TransactionInv, DraftsOfLiveRows
    <2>4. call[r].kind # "register"
      BY <2>2, <2>3 DEF SInv, IInv, TransactionInv, DraftKinds
    <2>5. Keeps(call[r], users[i], users'[i])
      BY <2>2, <2>4 DEF SInv, Tracked, Written
    <2>6. QED
      BY <2>2, <2>5
  <1>2. QED
    BY <1>1, DraftsTracked, PTL DEF Spec, ColumnIsolation

\* What a registration or a patch answers with is what its commit leaves in the table,
\* with the columns others had changed (user_service.py:73 and 133).
THEOREM CommittedReported == Spec => ReportsCommittedRow
  <1> DEFINE Reported ==
        \A r \in Requests :
            /\ pc[r] = "commit" /\ pc'[r] = "respond"
            /\ call[r].kind \in {"register", "admin_update"} /\ draft[r] # NoDraft
            => session[r][draft[r].id] = users'[draft[r].id]
  <1>1. SInv /\ [Next]_vars => [Reported]_vars
    <2> SUFFICES ASSUME SInv, Next, NEW r \in Requests,
                        pc[r] = "commit", pc'[r] = "respond",
                        call[r].kind \in {"register", "admin_update"}, draft[r] # NoDraft
                 PROVE  session[r][draft[r].id] = users'[draft[r].id]
      BY DEF vars
    <2> USE DEF SInv, IInv
    <2>1. PICK q \in Requests : Progress(q) \/ Environment(q)
      BY DEF Next
    <2>2. q = r
      BY <2>1, OthersUntouched
    <2>3. Commit(r)
      <3>1. CASE Progress(r)
        BY <3>1, ProgressForms
        DEF Advance, Inserts, Updates, Deletes, Ends, Respond, Fail, Close, TypeOK
      <3>2. CASE Environment(r)
        BY <3>2 DEF Environment, Receive, ConnectionLost, CommitUnacknowledged,
                    WorkerCrash, Fail, Close, TypeOK
      <3>3. QED
        BY <2>1, <2>2, <3>1, <3>2
    <2>4. draft[r].id \in UserIds
      BY DraftTyped
    <2>5. users'[draft[r].id] = draft[r].row
      BY <2>3, <2>4, SentinelAssumption DEF Commit, Effect, TypeOK
    <2>6. session[r][draft[r].id] = draft[r].row
      BY <2>4, SentinelAssumption DEF Tracked, Refreshed
    <2>7. QED
      BY <2>5, <2>6
  <1>2. QED
    BY <1>1, DraftsTracked, PTL DEF Spec, ReportsCommittedRow

\* Nobody demotes or deletes himself, so only an administrator who was demoted or
\* deleted since his row was read can take away the last one (admin.py:81-86, 105-110).
THEOREM LastAdminRaced == Spec => LastAdminLostInRaces
  <1> DEFINE Raced ==
        SomeAdmin /\ ~ SomeAdmin' =>
          \E r \in Requests :
              LET caller == call[r].token
              IN /\ pc[r] = "commit" /\ call[r].kind \in AdminKinds
                 /\ session[r][caller].role = "admin"
                 /\ users[caller] = NoRow \/ users[caller].role = "user"
  <1>1. SInv /\ [Next]_vars => [Raced]_vars
    <2> SUFFICES ASSUME SInv, SInv', Next, SomeAdmin, ~ SomeAdmin'
                 PROVE  \E r \in Requests :
                            /\ pc[r] = "commit" /\ call[r].kind \in AdminKinds
                            /\ session[r][call[r].token].role = "admin"
                            /\ \/ users[call[r].token] = NoRow
                               \/ users[call[r].token].role = "user"
      BY StepSInv DEF vars, Next
    <2> USE DEF SInv, IInv
    <2>1. PICK r \in Requests : Progress(r) \/ Environment(r)
      BY DEF Next
    <2>2. PICK i \in UserIds : users[i] # NoRow /\ users[i].role = "admin"
      BY DEF SomeAdmin
    <2>3. users'[i] = NoRow \/ users'[i].role # "admin"
      BY DEF SomeAdmin
    <2>4. users'[i] # users[i]
      BY <2>2, <2>3
    <2>5. /\ pc[r] = "commit" /\ draft[r].id = i /\ users'[i] = draft[r].row
          /\ \A j \in UserIds \ {i} : users'[j] = users[j]
      BY <2>1, <2>4, RowChange
    <2>6. draft[r].id # NoUser
      BY <2>5, SentinelAssumption
    <2>7. call[r].kind # "register"
      BY <2>2, <2>5 DEF TransactionInv, DraftsOfLiveRows, DraftKinds
    <2>8. Vetted(r) /\ Written(r)
      BY DEF Tracked
    <2>9. users[i] \in Rows
      BY <2>2 DEF TypeOK
    <2>10. /\ call[r].kind \in {"admin_update", "admin_delete"}
           /\ call[r].target = i /\ call[r].token # i
      <3>1. CASE draft[r].row = NoRow
        BY <2>5, <2>6, <2>8, <3>1 DEF Written, Vetted, Past
      <3>2. CASE draft[r].row # NoRow
        <4>1. Keeps(call[r], users[i], users'[i])
          BY <2>5, <2>7, <2>8, <3>2 DEF Written
        <4>2. users'[i].role # users[i].role
          BY <2>2, <2>3, <2>5, <3>2
        <4>3. call[r].kind = "admin_update"
          BY <2>9, <4>1, <4>2 DEF Keeps, Rows
        <4>4. call[r].target = i
          BY <2>5, <2>6, <2>8, <4>3 DEF Written
        <4>5. users'[i].role = "user" /\ call[r].patch.role = "user"
          <5>1. users'[i] \in Rows
            BY <2>5, <3>2 DEF TypeOK
          <5>2. users'[i].role = "user"
            BY <5>1, <2>2, <4>2 DEF Rows, Roles
          <5>3. QED
            BY <5>2, <2>2, <4>1, <4>2, <4>3 DEF Keeps
        <4>6. call[r].token # i
          BY <2>5, <2>8, <4>3, <4>4, <4>5 DEF Vetted, Past, SelfDemotion
        <4>7. QED
          BY <4>3, <4>4, <4>6
      <3>3. QED
        BY <3>1, <3>2
    <2> DEFINE caller == call[r].token
    <2>11. caller \in UserIds /\ session[r][caller].role = "admin"
      BY <2>5, <2>8, <2>10 DEF Vetted, Past
    <2>12. users[caller] = NoRow \/ users[caller].role = "user"
      <3>1. users'[caller] = users[caller]
        BY <2>5, <2>10, <2>11
      <3>2. users[caller] = NoRow \/ users[caller].role # "admin"
        BY <2>11, <3>1 DEF SomeAdmin
      <3>3. QED
        BY <2>11, <3>2 DEF TypeOK, Rows, Roles
    <2>13. QED
      BY <2>5, <2>10, <2>11, <2>12 DEF AdminKinds
  <1>2. QED
    BY <1>1, DraftsTracked, PTL DEF Spec, LastAdminLostInRaces

-----------------------------------------------------------------------------
(***************************************************************************)
(* What a refusal means.                                                   *)
(***************************************************************************)

\* The keys of an uncommitted row, as its call gives them.
LEMMA ContendedKey ==
    ASSUME SInv, NEW r \in Requests, pc[r] \in {"index1", "index2"},
           Taken(draft[r].id, NextIndex(r), KeyOf(draft[r].row, NextIndex(r)))
    PROVE  \/ /\ call[r].kind = "register"
              /\ \E j \in UserIds : \/ HasEmail(users[j], Lower[call[r].email])
                                    \/ HasName(users[j], Lower[call[r].username])
           \/ /\ call[r].kind = "admin_update"
              /\ \E j \in UserIds \ {call[r].target} :
                    HasName(users[j], Folded(call[r].patch.username))
  <1> USE DEF SInv, IInv
  <1> DEFINE i == draft[r].id
             key == NextIndex(r)
             k == KeyOf(draft[r].row, key)
  <1>1. /\ i # NoUser /\ draft[r].row # NoRow
        /\ call[r].kind \in {"register", "admin_update"} /\ Written(r)
    BY DEF TransactionInv, DraftStages, Tracked, Course
  <1>2. PICK j \in UserIds \ {i} : HasKey(users[j], key, k)
    BY DEF Taken
  <1>3. CASE call[r].kind = "register"
    <2>1. draft[r].row.email = Lower[call[r].email]
          /\ draft[r].row.username = Lower[call[r].username]
      BY <1>1, <1>3 DEF Written, NewRow
    <2>2. HasEmail(users[j], Lower[call[r].email]) \/ HasName(users[j], Lower[call[r].username])
      BY <1>2, <2>1 DEF HasKey, KeyOf, HasEmail, HasName
    <2>3. QED
      BY <1>3, <2>2
  <1>4. CASE call[r].kind = "admin_update"
    <2>1. i = call[r].target /\ Keeps(call[r], users[i], draft[r].row)
      BY <1>1, <1>4 DEF Written
    <2>2. /\ draft[r].row.email = users[i].email
          /\ draft[r].row.username \in {users[i].username, Folded(call[r].patch.username)}
      BY <1>4, <2>1 DEF Keeps
    <2>3. i \in UserIds /\ users[i] # NoRow
      BY <1>1, <1>4, DraftTyped DEF TransactionInv, DraftKinds, DraftsOfLiveRows
    <2>4. users[j] # NoRow /\ users[j].email # users[i].email
          /\ users[j].username # users[i].username
      BY <1>2, <2>3 DEF UniqueKeys, UniqueRows, SameKeys, HasKey
    <2>5. HasName(users[j], draft[r].row.username)
      BY <1>2, <2>2, <2>4 DEF HasKey, KeyOf, HasName
    <2>6. HasName(users[j], Folded(call[r].patch.username))
      BY <2>2, <2>4, <2>5 DEF HasName
    <2> HIDE DEF i
    <2>7. QED
      BY <1>2, <1>4, <2>1, <2>6
  <1>5. QED
    BY <1>1, <1>3, <1>4

\* A conflict is answered for a committed key or a null only
\* (exception_handler.py:28-38).
THEOREM ConflictsJustified == Spec => ConflictJustified
  <1> DEFINE Cause(r) ==
        LET c == call[r]
        IN \/ /\ c.kind = "register"
              /\ \E j \in UserIds : \/ HasEmail(users[j], Lower[c.email])
                                    \/ HasName(users[j], Lower[c.username])
           \/ /\ c.kind = "admin_update"
              /\ \/ HasNull(c.patch)
                 \/ \E j \in UserIds \ {c.target} :
                       HasName(users[j], Folded(c.patch.username))
      Justified == \A r \in Requests : reply[r] # 409 /\ reply'[r] = 409 => Cause(r)
  <1>1. SInv /\ [Next]_vars => [Justified]_vars
    <2> SUFFICES ASSUME SInv, Next, NEW r \in Requests, reply[r] # 409, reply'[r] = 409
                 PROVE  Cause(r)
      BY DEF vars
    <2> USE DEF SInv, IInv, At
    <2>1. PICK q \in Requests : Progress(q) \/ Environment(q)
      BY DEF Next
    <2>2. q = r
      BY <2>1, OthersUntouched
    <2>c. \A status : Close(r, status) => status = 409
      BY DEF Close, TypeOK
    <2>f. \A status : Fail(r, status) => status = 409
      BY <2>c DEF Fail
    <2>k. ~ UNCHANGED reply
      OBVIOUS
    <2>3. CASE RegisterCheckEmail(r)
      BY <2>3, <2>k DEF RegisterCheckEmail, Goto
    <2>4. CASE RegisterCheckUsername(r)
      BY <2>4, <2>k DEF RegisterCheckUsername, Goto
    <2>5. ~ CreateUser(r)
      BY <2>f, <2>k DEF CreateUser, Write
    <2>6. CASE EnterIndex(r)
      <3>1. /\ pc[r] \in {"index1", "index2"}
            /\ Taken(draft[r].id, NextIndex(r), KeyOf(draft[r].row, NextIndex(r)))
        BY <2>6, <2>k DEF EnterIndex, Goto
      <3>2. QED
        BY <3>1, ContendedKey
    <2>7. CASE AdminUpdateUser(r)
      <3>1. call[r].kind = "admin_update"
        BY <2>7 DEF AdminUpdateUser
      <3>2. HasNull(call[r].patch)
        BY <2>7, <2>f, <2>k DEF AdminUpdateUser, UpdateRow, Goto, Write
      <3>3. QED
        BY <3>1, <3>2
    <2>8. ~ Respond(r)
      BY <2>c DEF Respond
    <2>9. ~ (AuthenticateUser(r) \/ UpdateLastLogin(r) \/ RefreshToken(r)
             \/ GetCurrentUser(r) \/ ChangeMyPassword(r) \/ ChangePassword(r))
      BY <2>f, <2>k DEF AuthenticateUser, UpdateLastLogin, RefreshToken, GetCurrentUser,
                        ChangeMyPassword, ChangePassword, UpdateRow, Goto, Load, Write
    <2>10. ~ (AdminGetUser(r) \/ AdminUpdateCheck(r) \/ AdminDeleteCheck(r)
              \/ DeleteUser(r) \/ RefreshRow(r) \/ Commit(r) \/ AbortDeadlock(r))
      BY <2>f, <2>k DEF AdminGetUser, AdminUpdateCheck, AdminDeleteCheck, DeleteUser,
                        RefreshRow, Commit, AbortDeadlock, Goto, Load, Write
    <2>11. ~ Environment(r)
      <3>1. ~ Receive(r)
        BY DEF Receive, TypeOK
      <3>2. QED
        BY <3>1, <2>c, <2>f DEF Environment, ConnectionLost, CommitUnacknowledged,
                                WorkerCrash
    <2>12. QED
      BY <2>1, <2>2, <2>3, <2>4, <2>5, <2>6, <2>7, <2>8, <2>9, <2>10, <2>11 DEF Progress
  <1>2. QED
    BY <1>1, DraftsTracked, PTL DEF Spec, ConflictJustified

\* Of a transaction that another waits for, and that waits itself: a registration has
\* entered its first index and is waited for there,
LEMMA RegistrationWaitedFor ==
    ASSUME SInv, NEW r \in Requests, NEW key, NEW k, NEW q \in Requests,
           call[r].kind = "register", pc[r] \in {"index1", "index2"}, r \in Claims(q, key, k)
    PROVE  pc[r] = "index2" /\ key = Index1 /\ HasKey(draft[r].row, key, k)
  <1> USE DEF SInv, IInv
  <1>1. draft[r].id \in UserIds \ born
    BY DEF TransactionInv, DraftKinds
  <1>2. users[draft[r].id] = NoRow
    BY <1>1 DEF TransactionInv, DraftsOfLiveRows
  <1>3. key \in Entered(r) /\ HasKey(draft[r].row, key, k)
    BY <1>2 DEF Claims, HasKey
  <1>4. QED
    BY <1>3 DEF Entered

\* and an update keeps the email of its row.
LEMMA UpdateKeepsEmail ==
    ASSUME SInv, NEW r \in Requests, pc[r] \in {"index1", "index2"},
           call[r].kind = "admin_update"
    PROVE  /\ draft[r].id \in UserIds /\ draft[r].row # NoRow
           /\ users[draft[r].id] # NoRow
           /\ draft[r].row.email = users[draft[r].id].email
  <1> USE DEF SInv, IInv
  <1>1. draft[r].id # NoUser /\ draft[r].row # NoRow
    BY DEF TransactionInv, DraftStages
  <1>2. draft[r].id \in UserIds /\ users[draft[r].id] # NoRow
    BY <1>1, DraftTyped DEF TransactionInv, DraftKinds, DraftsOfLiveRows
  <1>3. Keeps(call[r], users[draft[r].id], draft[r].row)
    BY <1>1 DEF Tracked, Written
  <1>4. QED
    BY <1>1, <1>2, <1>3 DEF Keeps

\* A registration that is rolled back to break a deadlock has entered its username; a
\* rename to it waits, and another holds the row with the email it waits for.
LEMMA RegistrationDeadlocks ==
    ASSUME SInv, NEW r \in Requests, call[r].kind = "register", Deadlocked(r)
    PROVE  /\ Index1 = "username"
           /\ RenamesCross(Lower[call[r].email], Lower[call[r].username])
  <1> USE DEF SInv, IInv
  <1> DEFINE Waits(q) == IF pc[q] \in {"index1", "index2"}
                         THEN Claims(q, NextIndex(q), KeyOf(draft[q].row, NextIndex(q)))
                         ELSE {}
  <1>1. PICK C \in SUBSET Requests :
            /\ r \in C
            /\ \A q \in C : Waits(q) \cap C # {} /\ \E p \in C : q \in Waits(p)
    BY DEF Deadlocked
  <1>2. \A q \in C : pc[q] \in {"index1", "index2"}
    BY <1>1
  <1>3. \A q \in C : call[q].kind \in {"register", "admin_update"}
    BY <1>2 DEF Tracked, Course
  <1>4. \A q \in C : \E p \in C :
            q \in Claims(p, NextIndex(p), KeyOf(draft[p].row, NextIndex(p)))
    BY <1>1, <1>2
  <1>5. PICK q \in C : r \in Claims(q, NextIndex(q), KeyOf(draft[q].row, NextIndex(q)))
    BY <1>1, <1>4
  <1>6. PICK p \in C : p \in Claims(r, NextIndex(r), KeyOf(draft[r].row, NextIndex(r)))
    BY <1>1, <1>2
  <1> HIDE DEF Waits
  <1>7. /\ pc[r] = "index2" /\ NextIndex(q) = Index1
        /\ HasKey(draft[r].row, Index1, KeyOf(draft[q].row, Index1))
    BY <1>1, <1>2, <1>5, RegistrationWaitedFor
  <1>8. pc[q] = "index1" /\ NextIndex(r) = Index2 /\ Index1 # Index2
    BY <1>2, <1>7, IndexAssumption DEF NextIndex
  <1>9. call[q].kind = "admin_update"
    <2> SUFFICES ASSUME call[q].kind = "register" PROVE FALSE
      BY <1>3
    <2>1. pc[q] = "index2"
      BY <1>2, <1>4, RegistrationWaitedFor
    <2>2. QED
      BY <1>8, <2>1
  <1>10. call[p].kind = "admin_update"
    <2> SUFFICES ASSUME call[p].kind = "register" PROVE FALSE
      BY <1>3
    <2>1. NextIndex(r) = Index1
      BY <1>1, <1>2, <1>6, RegistrationWaitedFor
    <2>2. QED
      BY <1>8, <2>1
  <1>11. draft[r].row = NewRow(call[r]) /\ draft[r].row # NoRow
    BY <1>1, <1>2 DEF TransactionInv, DraftStages, Tracked, Written
  <1>12. Index1 = "username" /\ Index2 = "email"
    <2> SUFFICES ASSUME Index1 = "email" PROVE FALSE
      BY IndexAssumption
    <2>1. draft[q].id \in UserIds /\ HasKey(users[draft[q].id], "email", draft[r].row.email)
      BY <1>2, <1>7, <1>9, UpdateKeepsEmail DEF HasKey, KeyOf
    <2>2. draft[q].id # draft[r].id
      BY <1>1, <1>2, <1>8, <1>7, <2>1, SentinelAssumption
      DEF TransactionInv, OneWriterPerRow, DraftStages
    <2>3. "email" \in Entered(r) /\ KeyOf(draft[r].row, "email") = draft[r].row.email
      BY <1>7 DEF Entered, KeyOf
    <2>4. QED
      BY <1>11, <2>1, <2>2, <2>3 DEF TransactionInv, ClaimedKeys
  <1>13. HasName(draft[q].row, Lower[call[r].username])
    BY <1>2, <1>7, <1>9, <1>11, <1>12, UpdateKeepsEmail DEF HasKey, KeyOf, HasName, NewRow
  <1>14. HasEmail(draft[p].row, Lower[call[r].email])
    <2>1. draft[r].row.email = Lower[call[r].email]
      BY <1>11 DEF NewRow
    <2>2. /\ draft[p].row # NoRow
          /\ draft[p].row.email = users[draft[p].id].email
      BY <1>2, <1>10, UpdateKeepsEmail
    <2>3. \/ HasKey(users[draft[p].id], "email", Lower[call[r].email])
          \/ HasKey(draft[p].row, "email", Lower[call[r].email])
      BY <1>6, <1>8, <1>12, <2>1 DEF Claims, KeyOf
    <2>4. QED
      BY <2>2, <2>3 DEF HasKey, KeyOf, HasEmail
  <1>15. QED
    BY <1>9, <1>10, <1>12, <1>13, <1>14 DEF RenamesCross

\* Registration answers 201 or 409, but for a fault, a password that cannot be hashed, and
\* its deadlock with two crossing renames where the index of usernames is the first
\* (auth.py:44-69, user_service.py:61-74).
THEOREM RegistrationErrorsJustified == Spec => RegisterErrorJustified
  <1> DEFINE Cause(r) ==
        \/ reply'[r] \in {201, 409}
        \/ reply'[r] = 0 /\ "crash" \in Faults
        \/ reply'[r] = 500 /\ \/ "connection" \in Faults
                              \/ call[r].password \in Unhashable
                              \/ /\ Index1 = "username"
                                 /\ RenamesCross(Lower[call[r].email], Lower[call[r].username])
      Causes == \A r \in Requests : call[r].kind = "register" /\ pc'[r] = "idle" => Cause(r)
  <1>1. SInv /\ [Next]_vars => [Causes]_vars
    <2> SUFFICES ASSUME SInv, Next, NEW r \in Requests, call[r].kind = "register",
                        pc'[r] = "idle"
                 PROVE  Cause(r)
      BY DEF vars
    <2> USE DEF SInv, IInv, At
    <2>1. PICK q \in Requests : Progress(q) \/ Environment(q)
      BY DEF Next
    <2>2. pc[r] # "idle"
      BY DEF Tracked, Course, NoCall
    <2>3. q = r
      BY <2>1, <2>2, OthersUntouched
    <2>c. \A status : Close(r, status) => reply'[r] = status
      BY DEF Close, TypeOK
    <2>f. \A status : Fail(r, status) => reply'[r] = status
      BY <2>c DEF Fail
    <2>g. \A stage \in Stages \ {"idle"} : pc' # [pc EXCEPT ![r] = stage]
      BY DEF TypeOK
    <2>4. CASE RegisterCheckEmail(r) \/ RegisterCheckUsername(r) \/ CreateUser(r)
               \/ EnterIndex(r)
      <3>1. Fail(r, 409) \/ (call[r].password \in Unhashable /\ Fail(r, 500))
        BY <2>4, <2>g DEF RegisterCheckEmail, RegisterCheckUsername, CreateUser,
                          EnterIndex, IntegrityError, Goto, Write, Stages
      <3>2. QED
        BY <3>1, <2>f
    <2>5. ~ RefreshRow(r)
      <3> SUFFICES ASSUME RefreshRow(r) PROVE FALSE
        OBVIOUS
      <3>1. draft[r].id # NoUser /\ draft[r].row # NoRow
        BY SentinelAssumption DEF RefreshRow, TransactionInv, DraftKinds
      <3>2. QED
        BY <3>1, <2>g DEF RefreshRow, Load, Stages
    <2>6. CASE AbortDeadlock(r)
      BY <2>6, <2>f, RegistrationDeadlocks DEF AbortDeadlock
    <2>7. CASE Respond(r)
      BY <2>7, <2>c DEF Respond
    <2>8. ~ Commit(r)
      BY <2>g DEF Commit, Stages
    <2>9. CASE Environment(r)
      <3>1. ~ Receive(r)
        BY <2>2 DEF Receive
      <3>2. QED
        BY <2>9, <3>1, <2>c, <2>f DEF Environment, ConnectionLost, CommitUnacknowledged,
                                      WorkerCrash
    <2>10. QED
      BY <2>1, <2>3, <2>4, <2>5, <2>6, <2>7, <2>8, <2>9
      DEF Progress, AuthenticateUser, UpdateLastLogin, RefreshToken, GetCurrentUser,
          ChangeMyPassword, ChangePassword, AdminGetUser, AdminUpdateCheck,
          AdminUpdateUser, AdminDeleteCheck, DeleteUser, AdminKinds
  <1>2. QED
    BY <1>1, DraftsTracked, PTL DEF Spec, RegisterErrorJustified

=============================================================================
