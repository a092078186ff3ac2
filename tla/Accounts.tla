------------------------------ MODULE Accounts ------------------------------
(***************************************************************************)
(* The account endpoints of the API (app/api/v1/endpoints/auth.py and      *)
(* admin.py) over the users table: registration, login, token refresh,     *)
(* profile, password change, and the administrator's read, update and      *)
(* delete of a user.                                                       *)
(*                                                                         *)
(* Several uvicorn workers serve requests at once.  A request owns one     *)
(* SQLAlchemy session (app/db/session.py, get_db) and hence one PostgreSQL *)
(* transaction at READ COMMITTED.  A step of the model is one statement    *)
(* that the request sends to the database, with the Python that runs up to *)
(* the next one; the statements of other requests interleave anywhere.     *)
(* Exceptions roll the transaction back; otherwise get_db commits it after *)
(* the endpoint has returned and before the response is sent.              *)
(***************************************************************************)
EXTENDS Integers, FiniteSets

CONSTANTS
    UserIds,      \* the UUIDs accounts may get
    Requests,     \* the requests that may be in flight together
    Emails, Names,\* the email addresses and usernames, in any letter case
    Lower,        \* str.lower on both
    Passwords, Digests,
    Unhashable,   \* the passwords for which passlib or bcrypt raises an exception
    Digest,       \* what bcrypt keeps of any other; need not be injective
    Dummy,        \* the password "dummy" of authenticate_user
    Index1, Index2, \* the columns of the two unique indexes, in the order of creation
    Calls,        \* the calls the clients of this instance make
    InitialUsers, \* the users table when the model starts
    Faults,       \* which of "connection" and "crash" may strike
    NoRow, NoUser, Unset, Null

Roles == {"user", "admin"}

Rows == [email : Emails, username : Names, hashed_password : Digests,
         role : Roles, is_active : BOOLEAN, last_login : BOOLEAN]

(***************************************************************************)
(* Calls.  A bearer token is the account it was issued to; NoUser stands   *)
(* for a missing, forged or expired one.  A field of an administrator's    *)
(* patch is absent (Unset), an explicit null (Null), or a value.           *)
(***************************************************************************)
Bearers == UserIds \cup {NoUser}

Patches == [username : Names \cup {Unset, Null}, role : Roles \cup {Unset, Null},
            is_active : BOOLEAN \cup {Unset, Null}]

AllCalls ==
    [kind : {"register"}, email : Emails, username : Names, password : Passwords]
    \cup [kind : {"login"}, email : Emails, password : Passwords]
    \cup [kind : {"refresh", "me"}, token : Bearers]
    \cup [kind : {"change_password"}, token : Bearers,
          current : Passwords, new : Passwords]
    \cup [kind : {"admin_get", "admin_delete"}, token : Bearers, target : UserIds]
    \cup [kind : {"admin_update"}, token : Bearers, target : UserIds, patch : Patches]

NoCall == [kind |-> "none"]

SameKeys(a, b) ==
    Lower[a.email] = Lower[b.email] \/ Lower[a.username] = Lower[b.username]

UniqueRows(table) ==
    \A i, j \in UserIds :
        i # j /\ table[i] # NoRow /\ table[j] # NoRow => ~ SameKeys(table[i], table[j])

ASSUME SentinelAssumption ==
    /\ NoRow \notin Rows
    /\ NoUser \notin UserIds
    /\ Unset # Null
    /\ \A m \in {Unset, Null} : m \notin Names /\ m \notin Roles /\ m \notin BOOLEAN

ASSUME LowerAssumption ==
    /\ \A e \in Emails : Lower[e] \in Emails /\ Lower[Lower[e]] = Lower[e]
    /\ \A n \in Names : Lower[n] \in Names /\ Lower[Lower[n]] = Lower[n]

\* Which passwords raise depends on the release of bcrypt, which requirements.txt does not
\* pin: those with a NUL, those longer than 72 bytes, or, since passlib tries a long one
\* first, all of them.
ASSUME DigestAssumption ==
    /\ Unhashable \subseteq Passwords
    /\ Digest \in [Passwords \ Unhashable -> Digests]
    /\ Dummy \in Passwords

\* A table's indexes are a set to SQLAlchemy, so either may have been created first.
ASSUME IndexAssumption == {Index1, Index2} = {"email", "username"}

ASSUME CallsAssumption == Calls \subseteq AllCalls

ASSUME FaultsAssumption == Faults \subseteq {"connection", "crash"}

\* The table at the start: what earlier registrations and updates can have left.
ASSUME InitialUsersAssumption ==
    /\ InitialUsers \in [UserIds -> Rows \cup {NoRow}]
    /\ \A i \in UserIds : InitialUsers[i] # NoRow =>
           /\ InitialUsers[i].email = Lower[InitialUsers[i].email]
           /\ InitialUsers[i].username = Lower[InitialUsers[i].username]
    /\ UniqueRows(InitialUsers)

VARIABLES
    users,    \* the committed rows of the users table
    born,     \* the ids that have had a committed row
    tokens,   \* the accounts that tokens have been issued to
    pc,       \* where a request stands
    call,     \* what it asked for
    session,  \* the rows its ORM session has loaded (the identity map)
    draft,    \* the row version its transaction has written and holds locked
    reply     \* the status of its last response, 0 when none was sent

vars == <<users, born, tokens, pc, call, session, draft, reply>>

Stages == {"idle", "start", "username", "handler", "flush", "index1", "index2",
           "refresh", "commit", "respond"}

Statuses == {0, 200, 201, 400, 401, 403, 404, 409, 500}

NoDraft == [id |-> NoUser, row |-> NoRow]

Drafts == [id : UserIds, row : Rows \cup {NoRow}] \cup {NoDraft}

EmptySession == [i \in UserIds |-> NoRow]

TypeOK ==
    /\ users \in [UserIds -> Rows \cup {NoRow}]
    /\ born \in SUBSET UserIds
    /\ tokens \in SUBSET UserIds
    /\ pc \in [Requests -> Stages]
    /\ call \in [Requests -> AllCalls \cup {NoCall}]
    /\ session \in [Requests -> [UserIds -> Rows \cup {NoRow}]]
    /\ draft \in [Requests -> Drafts]
    /\ reply \in [Requests -> Statuses]

\* Whoever had logged in before the model starts still holds a token.
Init ==
    /\ users = InitialUsers
    /\ born = {i \in UserIds : InitialUsers[i] # NoRow}
    /\ tokens = {i \in born : InitialUsers[i].last_login}
    /\ pc = [r \in Requests |-> "idle"]
    /\ call = [r \in Requests |-> NoCall]
    /\ session = [r \in Requests |-> EmptySession]
    /\ draft = [r \in Requests |-> NoDraft]
    /\ reply = [r \in Requests |-> 0]

-----------------------------------------------------------------------------
(***************************************************************************)
(* The database, as one transaction sees it.                               *)
(***************************************************************************)

\* Transactions other than r's that hold the row lock of i.
Holders(r, i) == {q \in Requests \ {r} : draft[q].id = i}

Locked(i) == \E q \in Requests : draft[q].id = i

HasEmail(row, e) == row # NoRow /\ row.email = e

HasName(row, n) == row # NoRow /\ row.username = n

\* The two unique columns alike.
KeyOf(row, key) == IF key = "email" THEN row.email ELSE row.username

HasKey(row, key, k) == row # NoRow /\ KeyOf(row, key) = k

\* The index that the draft of r is about to enter, and those it is in.
NextIndex(r) == IF pc[r] = "index1" THEN Index1 ELSE Index2

Entered(r) ==
    CASE pc[r] = "index1" -> {}
      [] pc[r] = "index2" -> {Index1}
      [] OTHER -> {Index1, Index2}

\* Mutation: an uncommitted registration counts as taken.
TakenOrDrafted(i, key, k) ==
    \/ \E j \in UserIds \ {i} : HasKey(users[j], key, k)
    \/ \E q \in Requests : draft[q].id # i /\ HasKey(draft[q].row, key, k)

\* Mutation: email is not declared unique.
EmailNotUnique(i, key, k) ==
    key = "username" /\ \E j \in UserIds \ {i} : HasKey(users[j], key, k) /\ ~ Locked(j)

\* A unique index rejects a key of account i that another committed row has and nobody
\* is changing.
Taken(i, key, k) == \E j \in UserIds \ {i} : HasKey(users[j], key, k) /\ ~ Locked(j)

\* It makes the transaction wait for those that might still free or take the key.
Claims(r, key, k) ==
    {q \in Requests \ {r} : \E i \in UserIds :
        /\ draft[q].id = i
        /\ HasKey(users[i], key, k) \/ (key \in Entered(q) /\ HasKey(draft[q].row, key, k))}

-----------------------------------------------------------------------------
(***************************************************************************)
(* Steps every endpoint is made of.                                        *)
(***************************************************************************)

Goto(r, stage) ==
    /\ pc' = [pc EXCEPT ![r] = stage]
    /\ UNCHANGED <<users, born, tokens, call, session, draft, reply>>

\* A SELECT puts row into the identity map as account i.
Load(r, i, row, stage) ==
    /\ pc' = [pc EXCEPT ![r] = stage]
    /\ session' = [session EXCEPT ![r] = [@ EXCEPT ![i] = row]]
    /\ UNCHANGED <<users, born, tokens, call, draft, reply>>

\* An INSERT, UPDATE or DELETE of account i that is not yet committed.
Write(r, i, row, stage) ==
    /\ pc' = [pc EXCEPT ![r] = stage]
    /\ draft' = [draft EXCEPT ![r] = [id |-> i, row |-> row]]
    /\ UNCHANGED <<users, born, tokens, call, session, reply>>

\* Mutation: a failed request's transaction is not rolled back.
CloseLeaking(r, status) ==
    /\ pc' = [pc EXCEPT ![r] = "idle"]
    /\ call' = [call EXCEPT ![r] = NoCall]
    /\ session' = [session EXCEPT ![r] = EmptySession]
    /\ reply' = [reply EXCEPT ![r] = status]
    /\ UNCHANGED draft

\* The request is over and its session closed: an open draft is rolled back.
Close(r, status) ==
    /\ pc' = [pc EXCEPT ![r] = "idle"]
    /\ call' = [call EXCEPT ![r] = NoCall]
    /\ session' = [session EXCEPT ![r] = EmptySession]
    /\ draft' = [draft EXCEPT ![r] = NoDraft]
    /\ reply' = [reply EXCEPT ![r] = status]

Fail(r, status) == Close(r, status) /\ UNCHANGED <<users, born, tokens>>

\* Mutation: no handler is registered for IntegrityError.
UnhandledIntegrityError(r) == Fail(r, 500)

\* A constraint refuses a flush.
IntegrityError(r) == Fail(r, 409)

At(r, stage, kinds) == pc[r] = stage /\ call[r].kind \in kinds

\* What a SELECT by primary key returns: a row already in the identity map
\* keeps the attributes it was first loaded with.
Fetched(r, i) ==
    IF users[i] # NoRow /\ session[r][i] # NoRow THEN session[r][i] ELSE users[i]

-----------------------------------------------------------------------------
(***************************************************************************)
(* A request arrives.  Uvicorn has parsed it and get_db has opened its     *)
(* session; nothing has been read yet.                                     *)
(***************************************************************************)

\* Bound: only as many registrations in flight as there are unused ids.
RoomForInsert ==
    Cardinality({q \in Requests : call[q].kind = "register"}) <
        Cardinality(UserIds \ born)

Receive(r) ==
    /\ pc[r] = "idle"
    /\ \E c \in Calls :
           /\ c.kind \notin {"register", "login"} => c.token \in tokens \cup {NoUser}
           /\ c.kind = "register" => RoomForInsert
           /\ call' = [call EXCEPT ![r] = c]
    /\ pc' = [pc EXCEPT ![r] = "start"]
    /\ reply' = [reply EXCEPT ![r] = 0]
    /\ UNCHANGED <<users, born, tokens, session, draft>>

-----------------------------------------------------------------------------
(***************************************************************************)
(* POST /auth/register: two SELECTs, an INSERT that claims its keys in the *)
(* two unique indexes one after the other, and a refresh.                  *)
(***************************************************************************)

\* get_user_by_email; the SELECT sees committed rows only.
RegisterCheckEmail(r) ==
    /\ At(r, "start", {"register"})
    /\ LET found == \E j \in UserIds : HasEmail(users[j], Lower[call[r].email])
       IN \/ found /\ Fail(r, 409)
          \/ ~ found /\ Goto(r, "username")

RegisterCheckUsername(r) ==
    /\ At(r, "username", {"register"})
    /\ LET found == \E j \in UserIds : HasName(users[j], Lower[call[r].username])
       IN \/ found /\ Fail(r, 409)
          \/ ~ found /\ Goto(r, "flush")

\* Mutation: the keys are stored as the client spelled them.
UnfoldedRow(c) ==
    [email |-> c.email, username |-> c.username,
     hashed_password |-> Digest[c.password],
     role |-> "user", is_active |-> TRUE, last_login |-> FALSE]

\* Mutation: the password is stored as it came.
PlainPasswordRow(c) ==
    [email |-> Lower[c.email], username |-> Lower[c.username],
     hashed_password |-> c.password,
     role |-> "user", is_active |-> TRUE, last_login |-> FALSE]

NewRow(c) ==
    [email |-> Lower[c.email], username |-> Lower[c.username],
     hashed_password |-> Digest[c.password],
     role |-> "user", is_active |-> TRUE, last_login |-> FALSE]

\* Nothing catches what hashing raises.  uuid4 gives the row an id that no row or draft
\* has or had.
CreateUser(r) ==
    /\ At(r, "flush", {"register"})
    /\ LET c == call[r]
       IN \/ c.password \in Unhashable /\ Fail(r, 500)
          \/ /\ c.password \notin Unhashable
             /\ \E i \in UserIds \ born : ~ Locked(i) /\ Write(r, i, NewRow(c), "index1")

\* The new row version of an INSERT, or of an UPDATE that changes the name, enters one
\* unique index after the other.
EnterIndex(r) ==
    /\ pc[r] \in {"index1", "index2"}
    /\ LET i == draft[r].id
           k == KeyOf(draft[r].row, NextIndex(r))
       IN \/ Taken(i, NextIndex(r), k) /\ IntegrityError(r)
          \/ /\ ~ Taken(i, NextIndex(r), k)
             /\ Claims(r, NextIndex(r), k) = {}
             /\ Goto(r, IF pc[r] = "index1" THEN "index2" ELSE "refresh")

-----------------------------------------------------------------------------
(***************************************************************************)
(* POST /auth/login, POST /auth/refresh.                                   *)
(***************************************************************************)

\* authenticate_user, which hashes something also for an unknown email, and login's test
\* of is_active.
AuthenticateUser(r) ==
    /\ At(r, "start", {"login"})
    /\ LET c == call[r]
           known == {i \in UserIds : HasEmail(users[i], Lower[c.email])}
           hashed == IF known = {} THEN Dummy ELSE c.password
           right(i) == users[i].hashed_password = Digest[c.password]
       IN \/ hashed \in Unhashable /\ Fail(r, 500)
          \/ hashed \notin Unhashable /\ (\A i \in known : ~ right(i)) /\ Fail(r, 401)
          \/ /\ hashed \notin Unhashable
             /\ \E i \in known :
                   /\ right(i)
                   /\ \/ ~ users[i].is_active /\ Fail(r, 403)
                      \/ users[i].is_active /\ Load(r, i, users[i], "flush")

RefreshToken(r) ==
    /\ At(r, "start", {"refresh"})
    /\ LET u == call[r].token
           ok == u # NoUser /\ users[u] # NoRow /\ users[u].is_active
       IN \/ ~ ok /\ Fail(r, 401)
          \/ ok /\ Load(r, u, users[u], "commit")

-----------------------------------------------------------------------------
(***************************************************************************)
(* The dependency chain get_current_user, get_current_active_user and      *)
(* get_current_admin of app/api/v1/deps.py.                                *)
(***************************************************************************)

AdminKinds == {"admin_get", "admin_update", "admin_delete"}

GetCurrentUser(r) ==
    /\ At(r, "start", {"me", "change_password"} \cup AdminKinds)
    /\ LET u == call[r].token
           known == u # NoUser /\ users[u] # NoRow
           allowed == /\ users[u].is_active
                      /\ call[r].kind \in AdminKinds => users[u].role = "admin"
       IN \/ ~ known /\ Fail(r, 401)
          \/ known /\ ~ allowed /\ Fail(r, 403)
          \/ /\ known /\ allowed
             /\ Load(r, u, users[u], IF call[r].kind = "me" THEN "commit" ELSE "handler")

\* change_my_password compares with the digest loaded by GetCurrentUser.
ChangeMyPassword(r) ==
    /\ At(r, "handler", {"change_password"})
    /\ LET c == call[r]
           ok == /\ session[r][c.token].hashed_password = Digest[c.current]
                 /\ c.current # c.new
       IN \/ c.current \in Unhashable /\ Fail(r, 500)
          \/ c.current \notin Unhashable /\ ~ ok /\ Fail(r, 400)
          \/ c.current \notin Unhashable /\ ok /\ Goto(r, "flush")

-----------------------------------------------------------------------------
(***************************************************************************)
(* GET, PATCH and DELETE /admin/users/{user_id} up to their first write.   *)
(***************************************************************************)

AdminGetUser(r) ==
    /\ At(r, "handler", {"admin_get"})
    /\ LET i == call[r].target
           row == Fetched(r, i)
       IN \/ row = NoRow /\ Fail(r, 404)
          \/ row # NoRow /\ Load(r, i, row, "commit")

\* Mutation: the guard against demoting oneself is missing.
NeverSelfDemotion(c) == FALSE

SelfDemotion(c) == c.target = c.token /\ c.patch.role = "user"

AdminUpdateCheck(r) ==
    /\ At(r, "handler", {"admin_update"})
    /\ LET i == call[r].target
           row == Fetched(r, i)
       IN \/ row = NoRow /\ Fail(r, 404)
          \/ row # NoRow /\ SelfDemotion(call[r]) /\ Fail(r, 400)
          \/ row # NoRow /\ ~ SelfDemotion(call[r]) /\ Load(r, i, row, "flush")

AdminDeleteCheck(r) ==
    /\ At(r, "handler", {"admin_delete"})
    /\ LET i == call[r].target
           row == Fetched(r, i)
       IN \/ i = call[r].token /\ Fail(r, 400)
          \/ i # call[r].token /\ row = NoRow /\ Fail(r, 404)
          \/ i # call[r].token /\ row # NoRow /\ Load(r, i, row, "flush")

-----------------------------------------------------------------------------
(***************************************************************************)
(* The flushes.  An UPDATE waits for the lock of its row, then changes the *)
(* row's committed version; when the row is gone the ORM raises            *)
(* StaleDataError, which nothing catches.                                  *)
(***************************************************************************)

\* Mutation: a missing row is written back as the session has it (merge).
UpsertRow(r, i, row, stage) ==
    \/ users[i] = NoRow /\ Write(r, i, session[r][i], stage)
    \/ users[i] # NoRow /\ Holders(r, i) = {} /\ Write(r, i, row, stage)

UpdateRow(r, i, row, stage) ==
    \/ users[i] = NoRow /\ Fail(r, 500)
    \/ users[i] # NoRow /\ Holders(r, i) = {} /\ Write(r, i, row, stage)

UpdateLastLogin(r) ==
    /\ At(r, "flush", {"login"})
    /\ \E i \in UserIds :
           /\ session[r][i] # NoRow
           /\ UpdateRow(r, i, [users[i] EXCEPT !.last_login = TRUE], "commit")

ChangePassword(r) ==
    /\ At(r, "flush", {"change_password"})
    /\ LET i == call[r].token
           new == call[r].new
       IN \/ new \in Unhashable /\ Fail(r, 500)
          \/ /\ new \notin Unhashable
             /\ UpdateRow(r, i, [users[i] EXCEPT !.hashed_password = Digest[new]], "commit")

\* setattr marks a column changed only when the value differs from the loaded one.
Assigned(value, loaded, old) == IF value \in {Unset, loaded} THEN old ELSE value

Folded(name) == IF name \in Names THEN Lower[name] ELSE name

\* Mutation: the columns the patch does not name are written too, as loaded.
WriteAllColumns(p, loaded, row) ==
    [row EXCEPT !.username = Assigned(Folded(p.username), loaded.username, loaded.username),
                !.role = Assigned(p.role, loaded.role, loaded.role),
                !.is_active = Assigned(p.is_active, loaded.is_active, loaded.is_active)]

\* The version of row after the UPDATE that a patch of loaded comes to.
Patched(p, loaded, row) ==
    [row EXCEPT !.username = Assigned(Folded(p.username), loaded.username, row.username),
                !.role = Assigned(p.role, loaded.role, row.role),
                !.is_active = Assigned(p.is_active, loaded.is_active, row.is_active)]

HasNull(p) == p.username = Null \/ p.role = Null \/ p.is_active = Null

\* Without a changed column no UPDATE is sent.  A null is refused by the row's
\* NOT NULL constraint, before any wait.
AdminUpdateUser(r) ==
    /\ At(r, "flush", {"admin_update"})
    /\ LET i == call[r].target
           p == call[r].patch
           loaded == session[r][i]
           changed == Patched(p, loaded, loaded) # loaded
           row == Patched(p, loaded, users[i])
           stage == IF row.username # users[i].username THEN "index1" ELSE "refresh"
       IN \/ ~ changed /\ Goto(r, "refresh")
          \/ changed /\ HasNull(p) /\ users[i] # NoRow /\ IntegrityError(r)
          \/ /\ changed /\ (HasNull(p) => users[i] = NoRow)
             /\ UpdateRow(r, i, row, stage)

\* A DELETE that finds no row is only warned about.
DeleteUser(r) ==
    /\ At(r, "flush", {"admin_delete"})
    /\ LET i == call[r].target
       IN \/ users[i] = NoRow /\ Goto(r, "commit")
          \/ users[i] # NoRow /\ Holders(r, i) = {} /\ Write(r, i, NoRow, "commit")

\* Mutation: the endpoint answers with what it has in memory.
SkipRefresh(r) == pc[r] = "refresh" /\ Goto(r, "commit")

\* db.refresh reads the row back; without a draft of it, it may be gone.
RefreshRow(r) ==
    /\ pc[r] = "refresh"
    /\ LET i == IF draft[r].id # NoUser THEN draft[r].id ELSE call[r].target
           row == IF draft[r].id # NoUser THEN draft[r].row ELSE users[i]
       IN \/ row = NoRow /\ Fail(r, 500)
          \/ row # NoRow /\ Load(r, i, row, "commit")

-----------------------------------------------------------------------------
(***************************************************************************)
(* The end of a request: get_db commits, then the response is sent.        *)
(***************************************************************************)

Effect(r) ==
    IF draft[r].id = NoUser
    THEN UNCHANGED <<users, born>>
    ELSE /\ users' = [users EXCEPT ![draft[r].id] = draft[r].row]
         /\ born' = born \cup {draft[r].id}

\* Mutation: the session is closed without a commit.
CommitNothing(r) ==
    /\ pc[r] = "commit"
    /\ pc' = [pc EXCEPT ![r] = "respond"]
    /\ draft' = [draft EXCEPT ![r] = NoDraft]
    /\ UNCHANGED <<users, born, tokens, call, session, reply>>

Commit(r) ==
    /\ pc[r] = "commit"
    /\ Effect(r)
    /\ pc' = [pc EXCEPT ![r] = "respond"]
    /\ draft' = [draft EXCEPT ![r] = NoDraft]
    /\ UNCHANGED <<tokens, call, session, reply>>

Respond(r) ==
    /\ pc[r] = "respond"
    /\ tokens' = IF call[r].kind \in {"login", "refresh"}
                 THEN tokens \cup {i \in UserIds : session[r][i] # NoRow}
                 ELSE tokens
    /\ Close(r, IF call[r].kind = "register" THEN 201 ELSE 200)
    /\ UNCHANGED <<users, born>>

\* PostgreSQL breaks a cycle of transactions that wait for each other's keys.
Deadlocked(r) ==
    LET waits == [q \in Requests |->
                     IF pc[q] \in {"index1", "index2"}
                     THEN Claims(q, NextIndex(q), KeyOf(draft[q].row, NextIndex(q)))
                     ELSE {}]
    IN \E C \in SUBSET Requests :
           /\ r \in C
           /\ \A q \in C : waits[q] \cap C # {} /\ \E p \in C : q \in waits[p]

AbortDeadlock(r) == Deadlocked(r) /\ Fail(r, 500)

-----------------------------------------------------------------------------
(***************************************************************************)
(* Failures of the environment.                                            *)
(***************************************************************************)

\* A statement fails because the connection to the database is lost.
ConnectionLost(r) ==
    /\ "connection" \in Faults
    /\ pc[r] \notin {"idle", "respond"}
    /\ Fail(r, 500)

\* It is lost while COMMIT is under way, after the database has committed.
CommitUnacknowledged(r) ==
    /\ "connection" \in Faults
    /\ pc[r] = "commit"
    /\ Effect(r)
    /\ Close(r, 500)
    /\ UNCHANGED tokens

\* The worker process dies: no response, and the database rolls back.
WorkerCrash(r) ==
    /\ "crash" \in Faults
    /\ pc[r] # "idle"
    /\ Fail(r, 0)

-----------------------------------------------------------------------------

Progress(r) ==
    \/ RegisterCheckEmail(r) \/ RegisterCheckUsername(r) \/ CreateUser(r)
    \/ EnterIndex(r)
    \/ AuthenticateUser(r) \/ UpdateLastLogin(r) \/ RefreshToken(r)
    \/ GetCurrentUser(r) \/ ChangeMyPassword(r) \/ ChangePassword(r)
    \/ AdminGetUser(r) \/ AdminUpdateCheck(r) \/ AdminUpdateUser(r)
    \/ AdminDeleteCheck(r) \/ DeleteUser(r)
    \/ RefreshRow(r) \/ Commit(r) \/ Respond(r)
    \/ AbortDeadlock(r)

Environment(r) ==
    Receive(r) \/ ConnectionLost(r) \/ CommitUnacknowledged(r) \/ WorkerCrash(r)

Next == \E r \in Requests : Progress(r) \/ Environment(r)

Spec == Init /\ [][Next]_vars

\* The event loops run every request that can proceed, and PostgreSQL's lock
\* queues wake every waiter, so no request is overtaken for ever.
FairSpec == Spec /\ \A r \in Requests : SF_vars(Progress(r))

-----------------------------------------------------------------------------
(***************************************************************************)
(* The inductive invariant behind UniqueKeys and NoResurrection.           *)
(***************************************************************************)

\* Past the dependencies of deps.py, a caller has an account that its own
\* transaction has seen, active and, for the admin endpoints, an administrator's.
\* (What the session has seen may be stale; that is the point of this module.)
Authorised ==
    \A r \in Requests :
        /\ pc[r] \in {"handler", "flush", "index1", "index2", "refresh"}
           /\ call[r].kind \in {"change_password"} \cup AdminKinds
              => /\ call[r].token \in UserIds
                 /\ session[r][call[r].token] # NoRow
                 /\ session[r][call[r].token].is_active
                 /\ call[r].kind \in AdminKinds => session[r][call[r].token].role = "admin"
        /\ pc[r] = "refresh" /\ draft[r].id = NoUser => call[r].kind = "admin_update"

\* A transaction has written something only between its flush and its commit.
DraftStages ==
    \A r \in Requests :
        /\ draft[r].id # NoUser => pc[r] \in {"index1", "index2", "refresh", "commit"}
        /\ pc[r] \in {"index1", "index2"} => draft[r].id # NoUser /\ draft[r].row # NoRow

\* No two transactions have written the same account.
OneWriterPerRow ==
    \A q, r \in Requests : q # r /\ draft[q].id # NoUser => draft[q].id # draft[r].id

\* A registration's draft is a new row, any other's the version of an old one.
DraftKinds ==
    \A r \in Requests :
        IF call[r].kind = "register"
        THEN pc[r] \in {"index1", "index2", "refresh", "commit"} =>
                 draft[r].id \in UserIds \ born /\ draft[r].row # NoRow
        ELSE draft[r].id # NoUser => draft[r].id \in born

\* What a transaction changes exists.
DraftsOfLiveRows ==
    /\ \A i \in UserIds : users[i] # NoRow => i \in born
    /\ \A r \in Requests : draft[r].id \in born => users[draft[r].id] # NoRow

FoldedRow(row) ==
    row # NoRow => row.email = Lower[row.email] /\ row.username = Lower[row.username]

\* Keys are stored in lower case.
FoldedKeys ==
    /\ \A i \in UserIds : FoldedRow(users[i])
    /\ \A r \in Requests : FoldedRow(draft[r].row)

\* Once a draft has entered the index of a key, the key belongs to no other committed row
\* and to no other draft in that index.
ClaimedKeys ==
    \A r \in Requests : draft[r].row # NoRow => \A key \in Entered(r) :
        LET k == KeyOf(draft[r].row, key)
        IN /\ \A j \in UserIds \ {draft[r].id} : ~ HasKey(users[j], key, k)
           /\ \A q \in Requests \ {r} :
                  key \in Entered(q) => ~ HasKey(draft[q].row, key, k)

-----------------------------------------------------------------------------
(***************************************************************************)
(* Properties.                                                             *)
(***************************************************************************)

\* At every moment, uncommitted work included: each account has one writer at
\* most, and no key of a draft is held by another row or claimed by another
\* draft (the row locks and unique indexes of user.py:22-23 at work).
TransactionInv ==
    /\ DraftStages /\ DraftKinds /\ OneWriterPerRow
    /\ DraftsOfLiveRows /\ FoldedKeys /\ ClaimedKeys

\* No two accounts have the same email or the same username up to letter case,
\* although register and admin_update_user test or write them without a lock
\* (user.py:22-23, auth.py:53-65).
UniqueKeys == UniqueRows(users)

SomeAdmin == \E i \in UserIds : users[i] # NoRow /\ users[i].role = "admin"

\* The guards of admin.py:81-86 and 105-110, which nobody may demote or delete himself
\* by, look at the session's own copy of the caller.  They fail only in a race: the
\* commit that leaves no administrator is that of an administrator who was demoted or
\* deleted himself since his row was read.
LastAdminLostInRaces ==
    [][SomeAdmin /\ ~ SomeAdmin' =>
          \E r \in Requests :
              LET caller == call[r].token
              IN /\ pc[r] = "commit" /\ call[r].kind \in AdminKinds
                 /\ session[r][caller].role = "admin"
                 /\ users[caller] = NoRow \/ users[caller].role = "user"]_vars

\* A 409 is never the fault of a request that was itself rolled back: at that
\* moment a committed account has the email or username asked for, or the patch
\* nulls a column that must have a value (exception_handler.py:28).
ConflictJustified ==
    [][\A r \in Requests : reply[r] # 409 /\ reply'[r] = 409 =>
          LET c == call[r]
          IN \/ /\ c.kind = "register"
                /\ \E j \in UserIds : \/ HasEmail(users[j], Lower[c.email])
                                      \/ HasName(users[j], Lower[c.username])
             \/ /\ c.kind = "admin_update"
                /\ \/ HasNull(c.patch)
                   \/ \E j \in UserIds \ {c.target} :
                         HasName(users[j], Folded(c.patch.username))
      ]_vars

\* What call c may change in a row: the columns its endpoint or patch names.
Keeps(c, old, new) ==
    CASE c.kind = "login" -> new = [old EXCEPT !.last_login = TRUE]
      [] c.kind = "change_password" -> new = [old EXCEPT !.hashed_password = Digest[c.new]]
      [] c.kind = "admin_update" ->
            /\ new.email = old.email
            /\ new.hashed_password = old.hashed_password
            /\ new.last_login = old.last_login
            /\ new.username \in {old.username, Folded(c.patch.username)}
            /\ new.role \in {old.role, c.patch.role}
            /\ c.patch.is_active = Unset => new.is_active = old.is_active
      [] OTHER -> FALSE

\* Concurrent updates of one account never undo each other's columns: a commit
\* changes a row only in the columns its own request set, although it computed
\* the change from a row it had loaded earlier (user_service.py:110-139).
ColumnIsolation ==
    [][\A i \in UserIds : users[i] # NoRow /\ users'[i] \notin {NoRow, users[i]} =>
          \E r \in Requests : pc[r] = "commit" /\ Keeps(call[r], users[i], users'[i])
      ]_vars

\* A deleted account stays deleted, also when an update or login that had
\* loaded it before the deletion flushes after it (user_service.py:142-144).
NoResurrection ==
    [][\A i \in born : users[i] = NoRow => users'[i] = NoRow]_vars

\* Somebody renames the account that has email e while somebody renames one to n.
RenamesCross(e, n) ==
    \E p, q \in Requests :
        /\ call[p].kind = "admin_update" /\ HasEmail(draft[p].row, e)
        /\ call[q].kind = "admin_update" /\ HasName(draft[q].row, n)

\* Registration answers 201 or 409, whatever others do to the same names meanwhile,
\* unless there is a fault, its password cannot be hashed, or its deadlock with renames
\* is broken: they wait for the username that it has entered, and it for the email of a
\* row that they have locked.  It is in no other deadlock, in none at all where the
\* index of emails is the first, and its refresh finds its row (auth.py:44-69).
RegisterErrorJustified ==
    [][\A r \in Requests : call[r].kind = "register" /\ pc'[r] = "idle" =>
          \/ reply'[r] \in {201, 409}
          \/ reply'[r] = 0 /\ "crash" \in Faults
          \/ reply'[r] = 500 /\ \/ "connection" \in Faults
                                \/ call[r].password \in Unhashable
                                \/ /\ Index1 = "username"
                                   /\ RenamesCross(Lower[call[r].email], Lower[call[r].username])
      ]_vars

\* The account that a 200 of PATCH or a 201 of register describes is the one
\* its commit leaves in the table, with the columns that others changed since
\* it was loaded (the refresh of user_service.py:73 and 133).
ReportsCommittedRow ==
    [][\A r \in Requests :
          /\ pc[r] = "commit" /\ pc'[r] = "respond"
          /\ call[r].kind \in {"register", "admin_update"} /\ draft[r] # NoDraft
          => session[r][draft[r].id] = users'[draft[r].id]]_vars

\* auth.py:179, "Change password. Requires current password verification.":
\* the password replaced at the commit is the one the caller proved to know.
PasswordVerifiedAtChange ==
    [][\A r \in Requests : call[r].kind = "change_password" /\ pc'[r] = "respond" /\ pc[r] = "commit"
          => users[call[r].token].hashed_password = Digest[call[r].current]]_vars

\* Every request that arrives is answered, although transactions wait for each
\* other's rows and keys and may deadlock (session.py:30-39).
Answered == \A r \in Requests : pc[r] # "idle" ~> pc[r] = "idle"

StageOf(r) == CASE pc[r] = "idle" -> "idle"
                [] pc[r] = "respond" /\ call[r].kind = "register" -> "created"
                [] pc[r] = "respond" /\ call[r].kind # "register" -> "done"
                [] OTHER -> "working"

\* The endpoints implement the directory of AccountDirectory: drafts are
\* invisible and the commit is the instant at which a request takes effect.
Directory == INSTANCE AccountDirectory WITH
    Ids <- UserIds, Clients <- Requests, NoAccount <- NoRow,
    SameKeys <- SameKeys,
    accounts <- users, used <- born, status <- reply,
    stage <- [r \in Requests |-> StageOf(r)]

\* The endpoints do to the accounts only what the directory allows, and say so
\* only when it is done (auth.py, admin.py, session.py:30-39).
ImplementsDirectory == Directory!Spec
=============================================================================
