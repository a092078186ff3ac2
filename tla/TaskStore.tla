----------------------------- MODULE TaskStore -----------------------------
(***************************************************************************)
(* The task endpoints (app/api/v1/endpoints/tasks.py) over the tasks       *)
(* table, together with the deletion of a user, which deletes the user's   *)
(* tasks twice: the ORM deletes those it has loaded, one by one, and the   *)
(* foreign key's ON DELETE CASCADE deletes the rest.                       *)
(*                                                                         *)
(* As in Accounts, a request is one session and one READ COMMITTED         *)
(* transaction, and a step is one statement with the Python that follows   *)
(* it.  Of an account only the role and the activity are kept; what other  *)
(* endpoints do to it is the module Accounts.                              *)
(***************************************************************************)
EXTENDS Integers, FiniteSets

CONSTANTS
    UserIds,
    TaskIds,       \* the UUIDs tasks may get, ordered as numbers
    Requests,      \* the requests that may be in flight together
    Titles,        \* stands for every column of a task but is_public and owner_id
    Calls,         \* the calls the clients of this instance make
    Changes,       \* the changes administrators make to accounts meanwhile
    InitialUsers, InitialTasks,
    Faults,        \* which of "connection" and "crash" may strike
    NoRow, NoUser, NoTask, Unwritten, Unset, Null

Rows == [role : {"user", "admin"}, is_active : BOOLEAN]

TaskRows == [owner_id : UserIds, title : Titles, is_public : BOOLEAN]

\* A field of a PATCH body is absent, an explicit null, or a value.
Patches == [title : Titles \cup {Unset, Null}, is_public : BOOLEAN \cup {Unset, Null}]

Bearers == UserIds \cup {NoUser}

AllCalls ==
    [kind : {"create"}, token : Bearers, title : Titles, is_public : BOOLEAN]
    \cup [kind : {"get", "delete"}, token : Bearers, task : TaskIds]
    \cup [kind : {"update"}, token : Bearers, task : TaskIds, patch : Patches]
    \cup [kind : {"delete_user"}, token : Bearers, target : UserIds]

NoCall == [kind |-> "none"]

ASSUME TaskIdsAssumption == TaskIds \subseteq Nat /\ IsFiniteSet(TaskIds)

ASSUME TaskSentinelAssumption ==
    /\ NoRow \notin Rows
    /\ NoUser \notin UserIds
    /\ NoTask \notin TaskRows /\ Unwritten \notin TaskRows /\ NoTask # Unwritten
    /\ Unset # Null
    /\ \A m \in {Unset, Null} : m \notin Titles /\ m \notin BOOLEAN

ASSUME TaskCallsAssumption ==
    /\ Calls \subseteq AllCalls
    /\ Changes \subseteq [id : UserIds, row : Rows]
    /\ Faults \subseteq {"connection", "crash"}

\* The tables at the start satisfy the foreign key.
ASSUME InitialTasksAssumption ==
    /\ InitialUsers \in [UserIds -> Rows \cup {NoRow}]
    /\ InitialTasks \in [TaskIds -> TaskRows \cup {NoTask}]
    /\ \A t \in TaskIds : InitialTasks[t] # NoTask => InitialUsers[InitialTasks[t].owner_id] # NoRow

VARIABLES
    users,   \* the committed rows of the users table
    tasks,   \* the committed rows of the tasks table
    born,    \* the ids that have had a committed task
    pc,      \* where a request stands
    call,    \* what it asked for
    me,      \* the caller's row as its session loaded it
    loaded,  \* the task as its session loaded it
    owned,   \* the loaded tasks that delete_user has yet to delete
    draft,   \* the task versions its transaction has written and holds locked
    reply    \* the status of its last response, 0 when none was sent

vars == <<users, tasks, born, pc, call, me, loaded, owned, draft, reply>>

Stages == {"idle", "start", "handler", "flush", "refresh",
           "owned", "tasks", "row", "cascade", "commit", "respond"}

Statuses == {0, 200, 201, 400, 401, 403, 404, 409, 500}

NoDraft == [t \in TaskIds |-> Unwritten]

TypeOK ==
    /\ users \in [UserIds -> Rows \cup {NoRow}]
    /\ tasks \in [TaskIds -> TaskRows \cup {NoTask}]
    /\ born \in SUBSET TaskIds
    /\ pc \in [Requests -> Stages]
    /\ call \in [Requests -> AllCalls \cup {NoCall}]
    /\ me \in [Requests -> Rows \cup {NoRow}]
    /\ loaded \in [Requests -> TaskRows \cup {NoTask}]
    /\ owned \in [Requests -> SUBSET TaskIds]
    /\ draft \in [Requests -> [TaskIds -> TaskRows \cup {NoTask, Unwritten}]]
    /\ reply \in [Requests -> Statuses]

Init ==
    /\ users = InitialUsers
    /\ tasks = InitialTasks
    /\ born = {t \in TaskIds : InitialTasks[t] # NoTask}
    /\ pc = [r \in Requests |-> "idle"]
    /\ call = [r \in Requests |-> NoCall]
    /\ me = [r \in Requests |-> NoRow]
    /\ loaded = [r \in Requests |-> NoTask]
    /\ owned = [r \in Requests |-> {}]
    /\ draft = [r \in Requests |-> NoDraft]
    /\ reply = [r \in Requests |-> 0]

-----------------------------------------------------------------------------
(***************************************************************************)
(* The locks of the database.                                              *)
(***************************************************************************)

At(r, stage, kinds) == pc[r] = stage /\ call[r].kind \in kinds

TasksOf(u) == {t \in TaskIds : tasks[t] # NoTask /\ tasks[t].owner_id = u}

\* Transactions other than r's that hold the row lock of task t.
Holders(r, t) == {q \in Requests \ {r} : draft[q][t] # Unwritten}

\* Mutation: the foreign key is checked without locking the owner's row.
NoSharers(u) == {}

\* Transactions that have inserted a task of u: the foreign key's check holds u
\* FOR KEY SHARE until they end.
Sharers(u) ==
    {q \in Requests : /\ pc[q] \in {"refresh", "commit"}
                      /\ call[q].kind = "create" /\ call[q].token = u}

\* Transactions that have deleted u.
Removers(u) ==
    {q \in Requests : /\ pc[q] \in {"cascade", "commit"}
                      /\ call[q].kind = "delete_user" /\ call[q].target = u}

NextOwned(r) == {t \in owned[r] : \A s \in owned[r] : t =< s}

\* The transactions that r's next statement has to wait for.
Awaited(r) ==
    CASE At(r, "flush", {"create"}) -> Removers(call[r].token)
      [] At(r, "flush", {"update", "delete"}) -> Holders(r, call[r].task)
      [] pc[r] = "tasks" -> UNION {Holders(r, t) : t \in NextOwned(r)}
      [] pc[r] = "row" -> Sharers(call[r].target) \cup Removers(call[r].target)
      [] pc[r] = "cascade" -> UNION {Holders(r, t) : t \in TasksOf(call[r].target)}
      [] OTHER -> {}

-----------------------------------------------------------------------------
(***************************************************************************)
(* Steps every endpoint is made of.                                        *)
(***************************************************************************)

Goto(r, stage) ==
    /\ pc' = [pc EXCEPT ![r] = stage]
    /\ UNCHANGED <<users, tasks, born, call, me, loaded, owned, draft, reply>>

LoadMe(r, row, stage) ==
    /\ pc' = [pc EXCEPT ![r] = stage]
    /\ me' = [me EXCEPT ![r] = row]
    /\ UNCHANGED <<users, tasks, born, call, loaded, owned, draft, reply>>

LoadTask(r, row, stage) ==
    /\ pc' = [pc EXCEPT ![r] = stage]
    /\ loaded' = [loaded EXCEPT ![r] = row]
    /\ UNCHANGED <<users, tasks, born, call, me, owned, draft, reply>>

\* An INSERT, UPDATE or DELETE of task t that is not yet committed.
Write(r, t, row, stage) ==
    /\ pc' = [pc EXCEPT ![r] = stage]
    /\ draft' = [draft EXCEPT ![r] = [@ EXCEPT ![t] = row]]
    /\ UNCHANGED <<users, tasks, born, call, me, loaded, owned, reply>>

\* Mutation: a failed request's transaction is not rolled back.
CloseLeaking(r, status) ==
    /\ pc' = [pc EXCEPT ![r] = "idle"]
    /\ call' = [call EXCEPT ![r] = NoCall]
    /\ me' = [me EXCEPT ![r] = NoRow]
    /\ loaded' = [loaded EXCEPT ![r] = NoTask]
    /\ owned' = [owned EXCEPT ![r] = {}]
    /\ reply' = [reply EXCEPT ![r] = status]
    /\ UNCHANGED draft

\* The request is over and its session closed: open drafts are rolled back.
Close(r, status) ==
    /\ pc' = [pc EXCEPT ![r] = "idle"]
    /\ call' = [call EXCEPT ![r] = NoCall]
    /\ me' = [me EXCEPT ![r] = NoRow]
    /\ loaded' = [loaded EXCEPT ![r] = NoTask]
    /\ owned' = [owned EXCEPT ![r] = {}]
    /\ draft' = [draft EXCEPT ![r] = NoDraft]
    /\ reply' = [reply EXCEPT ![r] = status]

Fail(r, status) == Close(r, status) /\ UNCHANGED <<users, tasks, born>>

-----------------------------------------------------------------------------
(***************************************************************************)
(* A request arrives, and the dependencies of app/api/v1/deps.py run.      *)
(***************************************************************************)

\* Bound: only as many creations in flight as there are unused ids.
RoomForTask ==
    Cardinality({q \in Requests : call[q].kind = "create"}) < Cardinality(TaskIds \ born)

Receive(r) ==
    /\ pc[r] = "idle"
    /\ \E c \in Calls :
           /\ c.kind = "create" => RoomForTask
           /\ call' = [call EXCEPT ![r] = c]
    /\ pc' = [pc EXCEPT ![r] = "start"]
    /\ reply' = [reply EXCEPT ![r] = 0]
    /\ UNCHANGED <<users, tasks, born, me, loaded, owned, draft>>

\* get_current_active_user, and get_current_admin for the deletion of a user.
GetCurrentActiveUser(r) ==
    /\ At(r, "start", {"create", "update", "delete", "delete_user"})
    /\ LET u == call[r].token
           known == u # NoUser /\ users[u] # NoRow
           allowed == /\ users[u].is_active
                      /\ call[r].kind = "delete_user" => users[u].role = "admin"
       IN \/ ~ known /\ Fail(r, 401)
          \/ known /\ ~ allowed /\ Fail(r, 403)
          \/ /\ known /\ allowed
             /\ LoadMe(r, users[u], IF call[r].kind = "create" THEN "flush" ELSE "handler")

\* get_optional_user: a bad token is no token, and an inactive user is let in.
GetOptionalUser(r) ==
    /\ At(r, "start", {"get"})
    /\ LET u == call[r].token
       IN LoadMe(r, IF u = NoUser THEN NoRow ELSE users[u], "handler")

-----------------------------------------------------------------------------
(***************************************************************************)
(* POST, GET, PATCH and DELETE /tasks.                                     *)
(***************************************************************************)

\* Mutation: a deletion of the owner that is under way counts as done.
OwnerGoneOrGoing(u) == users[u] = NoRow \/ Removers(u) # {}

OwnerGone(u) == users[u] = NoRow

\* The INSERT and its foreign-key check, which waits for a deletion of the owner
\* and fails after it.  uuid4 gives an id that no row or draft has or had.
CreateTask(r) ==
    /\ At(r, "flush", {"create"})
    /\ LET c == call[r]
           row == [owner_id |-> c.token, title |-> c.title, is_public |-> c.is_public]
       IN \/ OwnerGone(c.token) /\ Fail(r, 409)
          \/ /\ ~ OwnerGone(c.token)
             /\ Awaited(r) = {}
             /\ \E t \in TaskIds \ born : Holders(r, t) = {} /\ Write(r, t, row, "refresh")

GetTask(r) ==
    /\ At(r, "handler", {"get"})
    /\ LET row == tasks[call[r].task]
           stranger == me[r].role # "admin" /\ row.owner_id # call[r].token
       IN \/ row = NoTask /\ Fail(r, 404)
          \/ row # NoTask /\ ~ row.is_public /\ me[r] = NoRow /\ Fail(r, 401)
          \/ row # NoTask /\ ~ row.is_public /\ me[r] # NoRow /\ stranger /\ Fail(r, 403)
          \/ /\ row # NoTask
             /\ row.is_public \/ (me[r] # NoRow /\ ~ stranger)
             /\ LoadTask(r, row, "commit")

\* Mutation: the owner is not compared with the caller.
AnyoneMayChange(r, row) == TRUE

MayChange(r, row) == me[r].role = "admin" \/ row.owner_id = call[r].token

\* update_my_task and delete_my_task up to their flush.
FindTask(r) ==
    /\ At(r, "handler", {"update", "delete"})
    /\ LET row == tasks[call[r].task]
       IN \/ row = NoTask /\ Fail(r, 404)
          \/ row # NoTask /\ ~ MayChange(r, row) /\ Fail(r, 403)
          \/ row # NoTask /\ MayChange(r, row) /\ LoadTask(r, row, "flush")

\* setattr marks a column changed only when the value differs from the loaded one.
Assigned(value, seen, old) == IF value \in {Unset, seen} THEN old ELSE value

\* Mutation: the columns the patch does not name are written too, as loaded.
WriteAllColumns(p, seen, row) ==
    [row EXCEPT !.title = Assigned(p.title, seen.title, seen.title),
                !.is_public = Assigned(p.is_public, seen.is_public, seen.is_public)]

\* The version of row after the UPDATE that a patch of seen comes to.
Patched(p, seen, row) ==
    [row EXCEPT !.title = Assigned(p.title, seen.title, row.title),
                !.is_public = Assigned(p.is_public, seen.is_public, row.is_public)]

\* Mutation: the columns are nullable.
Nullable(p) == FALSE

HasNull(p) == p.title = Null \/ p.is_public = Null

\* The UPDATE of a row that is gone raises StaleDataError, which nothing catches.
WriteTask(r, row) ==
    LET t == call[r].task
    IN \/ tasks[t] = NoTask /\ Fail(r, 500)
       \/ tasks[t] # NoTask /\ Awaited(r) = {} /\ Write(r, t, row, "refresh")

\* Without a changed column no UPDATE is sent.  A null is refused by the row's
\* NOT NULL constraint, before any wait.
UpdateTask(r) ==
    /\ At(r, "flush", {"update"})
    /\ LET p == call[r].patch
           old == tasks[call[r].task]
           changed == Patched(p, loaded[r], loaded[r]) # loaded[r]
       IN \/ ~ changed /\ Goto(r, "refresh")
          \/ changed /\ HasNull(p) /\ old # NoTask /\ Fail(r, 409)
          \/ /\ changed /\ (HasNull(p) => old = NoTask)
             /\ WriteTask(r, Patched(p, loaded[r], old))

\* Mutation: a DELETE that finds no row is an error.
StrictDelete(r) ==
    /\ At(r, "flush", {"delete"})
    /\ LET t == call[r].task
       IN \/ tasks[t] = NoTask /\ Fail(r, 500)
          \/ tasks[t] # NoTask /\ Awaited(r) = {} /\ Write(r, t, NoTask, "commit")

\* A DELETE that finds no row is only warned about.
DeleteTask(r) ==
    /\ At(r, "flush", {"delete"})
    /\ LET t == call[r].task
       IN \/ tasks[t] = NoTask /\ Goto(r, "commit")
          \/ tasks[t] # NoTask /\ Awaited(r) = {} /\ Write(r, t, NoTask, "commit")

\* db.refresh reads the row back; where nothing was written, it may be gone.
RefreshTask(r) ==
    /\ pc[r] = "refresh"
    /\ LET written == {t \in TaskIds : draft[r][t] # Unwritten}
       IN \/ written # {} /\ \E t \in written : LoadTask(r, draft[r][t], "commit")
          \/ /\ written = {}
             /\ LET row == tasks[call[r].task]
                IN \/ row = NoTask /\ Fail(r, 500)
                   \/ row # NoTask /\ LoadTask(r, row, "commit")

-----------------------------------------------------------------------------
(***************************************************************************)
(* DELETE /admin/users/{user_id}.                                          *)
(***************************************************************************)

\* admin_delete_user up to delete_user; the caller himself is refused first.
FindUser(r) ==
    /\ At(r, "handler", {"delete_user"})
    /\ LET u == call[r].target
       IN \/ u = call[r].token /\ Fail(r, 400)
          \/ u # call[r].token /\ users[u] = NoRow /\ Fail(r, 404)
          \/ u # call[r].token /\ users[u] # NoRow /\ Goto(r, "owned")

\* db.delete follows the cascade of User.tasks and loads them.
LoadOwned(r) ==
    /\ pc[r] = "owned"
    /\ owned' = [owned EXCEPT ![r] = TasksOf(call[r].target)]
    /\ pc' = [pc EXCEPT ![r] = "tasks"]
    /\ UNCHANGED <<users, tasks, born, call, me, loaded, draft, reply>>

\* The flush deletes the loaded tasks in the order of their ids.
DeleteOwned(r) ==
    /\ pc[r] = "tasks"
    /\ \/ owned[r] = {} /\ Goto(r, "row")
       \/ /\ Awaited(r) = {}
          /\ \E t \in NextOwned(r) :
                /\ owned' = [owned EXCEPT ![r] = @ \ {t}]
                /\ draft' = IF tasks[t] = NoTask THEN draft
                            ELSE [draft EXCEPT ![r] = [@ EXCEPT ![t] = NoTask]]
          /\ UNCHANGED <<users, tasks, born, pc, call, me, loaded, reply>>

\* The DELETE of the user takes the row's lock, then sets off the cascade.
DeleteUserRow(r) ==
    /\ pc[r] = "row"
    /\ \/ users[call[r].target] = NoRow /\ Goto(r, "commit")
       \/ users[call[r].target] # NoRow /\ Awaited(r) = {} /\ Goto(r, "cascade")

\* Mutation: the foreign key has no ON DELETE CASCADE, and no other check.
CascadeNothing(r) == pc[r] = "cascade" /\ Goto(r, "commit")

\* ON DELETE CASCADE: the user's tasks that the ORM had not loaded.
Cascade(r) ==
    /\ pc[r] = "cascade"
    /\ Awaited(r) = {}
    /\ draft' = [draft EXCEPT ![r] =
           [t \in TaskIds |-> IF t \in TasksOf(call[r].target) THEN NoTask ELSE @[t]]]
    /\ pc' = [pc EXCEPT ![r] = "commit"]
    /\ UNCHANGED <<users, tasks, born, call, me, loaded, owned, reply>>

-----------------------------------------------------------------------------
(***************************************************************************)
(* The end of a request, and what other requests do to accounts.           *)
(***************************************************************************)

Effect(r) ==
    /\ tasks' = [t \in TaskIds |-> IF draft[r][t] = Unwritten THEN tasks[t] ELSE draft[r][t]]
    /\ born' = born \cup {t \in TaskIds : draft[r][t] # Unwritten}
    /\ users' = IF call[r].kind = "delete_user"
                THEN [users EXCEPT ![call[r].target] = NoRow] ELSE users

\* Mutation: the session is closed without a commit.
CommitNothing(r) ==
    /\ pc[r] = "commit"
    /\ pc' = [pc EXCEPT ![r] = "respond"]
    /\ draft' = [draft EXCEPT ![r] = NoDraft]
    /\ UNCHANGED <<users, tasks, born, call, me, loaded, owned, reply>>

Commit(r) ==
    /\ pc[r] = "commit"
    /\ Effect(r)
    /\ pc' = [pc EXCEPT ![r] = "respond"]
    /\ draft' = [draft EXCEPT ![r] = NoDraft]
    /\ UNCHANGED <<call, me, loaded, owned, reply>>

Respond(r) ==
    /\ pc[r] = "respond"
    /\ Fail(r, IF call[r].kind = "create" THEN 201 ELSE 200)

\* PostgreSQL breaks a cycle of transactions that wait for each other.
Deadlocked(r) ==
    \E C \in SUBSET Requests :
        /\ r \in C
        /\ \A q \in C : Awaited(q) \cap C # {} /\ \E p \in C : q \in Awaited(p)

AbortDeadlock(r) == Deadlocked(r) /\ Fail(r, 500)

\* A PATCH /admin/users/{user_id} of the role or activity (see Accounts) commits;
\* its UPDATE waits for a deletion of the row, not for the key shares on it.
ChangeAccount ==
    /\ \E c \in Changes :
           /\ users[c.id] # NoRow
           /\ Removers(c.id) = {}
           /\ users' = [users EXCEPT ![c.id] = c.row]
    /\ UNCHANGED <<tasks, born, pc, call, me, loaded, owned, draft, reply>>

\* A statement fails because the connection to the database is lost.
ConnectionLost(r) ==
    /\ "connection" \in Faults
    /\ pc[r] \notin {"idle", "respond"}
    /\ Fail(r, 500)

\* It is lost while COMMIT is under way, after the database has committed.
CommitUnacknowledged(r) ==
    /\ "connection" \in Faults
    /\ pc[r] = "commit"
    /\ Effect(r)
    /\ Close(r, 500)

\* The worker process dies: no response, and the database rolls back.
WorkerCrash(r) ==
    /\ "crash" \in Faults
    /\ pc[r] # "idle"
    /\ Fail(r, 0)

-----------------------------------------------------------------------------

Progress(r) ==
    \/ GetCurrentActiveUser(r) \/ GetOptionalUser(r)
    \/ CreateTask(r) \/ GetTask(r) \/ FindTask(r) \/ UpdateTask(r) \/ DeleteTask(r)
    \/ RefreshTask(r)
    \/ FindUser(r) \/ LoadOwned(r) \/ DeleteOwned(r) \/ DeleteUserRow(r) \/ Cascade(r)
    \/ Commit(r) \/ Respond(r)
    \/ AbortDeadlock(r)

Environment(r) ==
    Receive(r) \/ ConnectionLost(r) \/ CommitUnacknowledged(r) \/ WorkerCrash(r)

Next == (\E r \in Requests : Progress(r) \/ Environment(r)) \/ ChangeAccount

Spec == Init /\ [][Next]_vars

\* As in Accounts: event loops and lock queues leave no request behind for ever.
FairSpec == Spec /\ \A r \in Requests : SF_vars(Progress(r))

-----------------------------------------------------------------------------
(***************************************************************************)
(* Properties.                                                             *)
(***************************************************************************)

\* Every task has its owner, also when he is deleted while he creates a task:
\* the key share of one keeps out the deletion of the other, and the cascade
\* catches what the ORM had not loaded (task.py:41-43, user_service.py:142-144).
NoOrphans == \A t \in TaskIds : tasks[t] # NoTask => users[tasks[t].owner_id] # NoRow

\* No two transactions have written the same task.
OneWriterPerTask ==
    \A q, r \in Requests : q # r =>
        \A t \in TaskIds : draft[q][t] = Unwritten \/ draft[r][t] = Unwritten

\* Nobody deletes an account while a creation of its task is uncommitted.
KeyShareExcludesRemoval == \A u \in UserIds : Sharers(u) = {} \/ Removers(u) = {}

\* A request passes the stages of its own endpoint, and has written nothing before
\* the first statement that writes.
StagesKept(r) ==
    /\ pc[r] # "idle" => call[r] # NoCall
    /\ pc[r] \in {"owned", "tasks", "row", "cascade"} => call[r].kind = "delete_user"
    /\ pc[r] = "flush" => call[r].kind \in {"create", "update", "delete"}
    /\ pc[r] = "refresh" => call[r].kind \in {"create", "update"}
    /\ pc[r] \notin {"refresh", "tasks", "row", "cascade", "commit"} => draft[r] = NoDraft
    /\ pc[r] # "tasks" => owned[r] = {}

\* A row of a task as a patch p may leave it.
PatchOf(p, old, row) ==
    /\ row \in TaskRows /\ row.owner_id = old.owner_id
    /\ row.title \in {old.title, p.title}
    /\ row.is_public \in {old.is_public, p.is_public}

\* An uncommitted version is what the call makes of the task as it is committed now,
\* however long ago the session loaded it.
DraftsCurrent(r) ==
    \A t \in TaskIds : draft[r][t] # Unwritten =>
        \/ call[r].kind = "create" /\ t \notin born
        \/ /\ tasks[t] # NoTask
           /\ \/ /\ call[r].kind = "update" /\ t = call[r].task
                 /\ PatchOf(call[r].patch, tasks[t], draft[r][t])
              \/ call[r].kind = "delete" /\ t = call[r].task /\ draft[r][t] = NoTask
              \/ /\ call[r].kind = "delete_user" /\ tasks[t].owner_id = call[r].target
                 /\ draft[r][t] = NoTask

\* A creation that has been flushed has one new row, and its owner is there.
CreationReady(r) ==
    At(r, "refresh", {"create"}) \/ At(r, "commit", {"create"}) =>
        /\ users[call[r].token] # NoRow
        /\ \E t \in TaskIds, row \in TaskRows :
               row.owner_id = call[r].token /\ draft[r] = [NoDraft EXCEPT ![t] = row]

\* A deletion that is ready to commit has deleted every task of its target.
RemovalComplete(r) ==
    At(r, "commit", {"delete_user"}) =>
        \A t \in TasksOf(call[r].target) : draft[r][t] = NoTask

\* A task that was once of an owner is his or gone.
OfOrGone(t, u) == t \in born /\ (tasks[t] # NoTask => tasks[t].owner_id = u)

\* What was found of caller and task before the flush still holds, although the task
\* may have been changed since; nothing is written for a caller who was refused.
CallerAllowed(r) ==
    /\ pc[r] \notin {"idle", "start"} /\ call[r].kind # "get" =>
           /\ call[r].token \in UserIds
           /\ me[r] # NoRow /\ me[r].is_active
           /\ call[r].kind = "delete_user" => me[r].role = "admin"
    /\ pc[r] \in {"flush", "refresh", "commit"} /\ call[r].kind \in {"update", "delete"} =>
           me[r].role = "admin" \/ OfOrGone(call[r].task, call[r].token)
    /\ \A t \in owned[r] : OfOrGone(t, call[r].target)

RequestInv(r) ==
    /\ StagesKept(r) /\ DraftsCurrent(r) /\ CreationReady(r) /\ RemovalComplete(r)
    /\ CallerAllowed(r)

\* The locks keep apart what would otherwise make an orphan or undo a change: what
\* must hold of uncommitted work for the table to stay right.
TaskLocks ==
    /\ OneWriterPerTask /\ KeyShareExcludesRemoval
    /\ \A r \in Requests : RequestInv(r)
    /\ \A t \in TaskIds : tasks[t] # NoTask => t \in born

Commits(r) == pc[r] = "commit" /\ pc'[r] # "commit" /\ draft[r] # NoDraft

\* A task changes only by a commit of its owner, or of someone whom his own
\* session saw as an active administrator, and only his own for a user who is
\* deleted (tasks.py:154-155, 180-181; README.md:312, "Edit / delete any task").
OwnerOrAdmin ==
    [][\A t \in TaskIds : tasks[t] # NoTask /\ tasks'[t] # tasks[t] =>
          \E r \in Requests :
              /\ Commits(r) /\ draft[r][t] # Unwritten
              /\ me[r].is_active
              /\ me[r].role = "admin" \/ call[r].token = tasks[t].owner_id
              /\ call[r].kind = "delete_user" => tasks[t].owner_id = call[r].target
      ]_vars

\* Two updates of one task at once do not undo each other: a commit changes only
\* the columns its own patch names, to the values it names, although it computed
\* the change from a row it had loaded earlier (task_service.py:134-138).
PatchesKeptApart ==
    [][\A t \in TaskIds : tasks[t] # NoTask /\ tasks'[t] \notin {NoTask, tasks[t]} =>
          \E r \in Requests :
              /\ Commits(r) /\ call[r].kind = "update" /\ call[r].task = t
              /\ tasks'[t].title \in {tasks[t].title, call[r].patch.title}
              /\ tasks'[t].is_public \in {tasks[t].is_public, call[r].patch.is_public}
      ]_vars

\* Without faults a server error has one of two causes: the task was deleted
\* while it was being updated, or two administrators delete the same user and
\* deadlock over a task created between their loads (user_service.py:142-144).
ServerErrorJustified ==
    [][\A r \in Requests : reply[r] # 500 /\ reply'[r] = 500 =>
          \/ call[r].kind = "update" /\ tasks[call[r].task] = NoTask
          \/ /\ call[r].kind = "delete_user"
             /\ \E q \in Requests \ {r} :
                   call[q].kind = "delete_user" /\ call[q].target = call[r].target
      ]_vars

\* A creation is refused with 409 only when its owner's deletion has committed,
\* an update only for a null: a deletion that is rolled back refuses nobody
\* (exception_handler.py:28-38).
TaskConflictJustified ==
    [][\A r \in Requests : reply[r] # 409 /\ reply'[r] = 409 =>
          \/ call[r].kind = "create" /\ users[call[r].token] = NoRow
          \/ call[r].kind = "update" /\ HasNull(call[r].patch)]_vars

\* Every request is answered, also when deletions of one user deadlock.
TasksAnswered == \A r \in Requests : pc[r] # "idle" ~> pc[r] = "idle"

StageOf(r) == CASE pc[r] = "idle" -> "idle"
                [] pc[r] = "respond" /\ call[r].kind = "create" -> "created"
                [] pc[r] = "respond" /\ call[r].kind # "create" -> "done"
                [] OTHER -> "working"

\* The commit is the instant at which a request takes effect.
Board == INSTANCE TaskBoard WITH
    Ids <- TaskIds, Clients <- Requests,
    members <- {u \in UserIds : users[u] # NoRow}, board <- tasks, used <- born,
    stage <- [r \in Requests |-> StageOf(r)], status <- reply

\* The endpoints do to the board only what TaskBoard allows, in particular
\* remove a user and all his tasks at one instant, and say so only when it is
\* done (tasks.py, admin.py:100-117, session.py:30-39).
ImplementsBoard == Board!Spec
=============================================================================
