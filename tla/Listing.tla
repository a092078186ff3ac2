------------------------------ MODULE Listing ------------------------------
(***************************************************************************)
(* The paginated lists (GET /tasks, /tasks/public, /tasks/admin/all and    *)
(* /admin/users) while other requests change what they list.               *)
(*                                                                         *)
(* A response takes several statements, each of which sees what is         *)
(* committed when it runs: the caller's row, the total, the page and, for  *)
(* tasks, the owners of the page (selectinload).  A client walks a list    *)
(* page by page until the number of pages it was last told, as the         *)
(* buttons of frontend_dist/index.html:680-682 do.  Lists change nothing,  *)
(* so one client is enough; what other requests commit (modules Accounts   *)
(* and TaskStore) appears here as one step per commit.                     *)
(***************************************************************************)
EXTENDS Integers, FiniteSets

CONSTANTS
    UserIds, TaskIds,
    OwnerId,      \* the owner of each task: set when it is created, never after
    Created,      \* created_at: when the transaction that inserted the row began
    Marks,        \* stands for every column that status, priority or search test
    Queries,      \* the lists asked for
    UserChoices, TaskChoices, \* the rows that requests of this instance write
    InitialUsers, InitialTasks,
    MaxMoves,     \* bound: commits that move the list during one walk
    NoRow, NoUser, NoQuery, Any

UserRows == [mark : Marks, role : {"user", "admin"}, is_active : BOOLEAN]

TaskRows == [mark : Marks, is_public : BOOLEAN]

Ids == UserIds \cup TaskIds

AllQueries ==
    [list : {"mine", "public", "all", "users"}, caller : UserIds \cup {NoUser},
     owner : UserIds \cup {Any}, mark : Marks \cup {Any}, page_size : Nat \ {0}]

ASSUME ListingSentinelAssumption ==
    /\ UserIds \cap TaskIds = {} /\ IsFiniteSet(Ids)
    /\ NoRow \notin UserRows /\ NoRow \notin TaskRows
    /\ NoUser \notin UserIds /\ NoQuery \notin AllQueries
    /\ Any \notin UserIds /\ Any \notin Marks

\* No two rows were created at the same microsecond; the order of those that
\* were is the database's choice, anew for each statement.
ASSUME CreatedAssumption ==
    /\ Created \in [Ids -> Nat]
    /\ \A x, y \in Ids : Created[x] = Created[y] => x = y

ASSUME QueriesAssumption ==
    /\ Queries \subseteq AllQueries
    /\ \A q \in Queries :
           /\ q.list = "mine" => q.owner = q.caller
           /\ q.list = "public" => q.owner = Any
           /\ q.list = "public" <=> q.caller = NoUser

ASSUME RowsAssumption ==
    /\ OwnerId \in [TaskIds -> UserIds]
    /\ UserChoices \subseteq UserRows /\ TaskChoices \subseteq TaskRows
    /\ InitialUsers \in [UserIds -> UserRows \cup {NoRow}]
    /\ InitialTasks \in [TaskIds -> TaskRows \cup {NoRow}]
    /\ \A t \in TaskIds : InitialTasks[t] # NoRow => InitialUsers[OwnerId[t]] # NoRow
    /\ MaxMoves \in Nat

VARIABLES
    users, tasks,  \* the committed rows
    born,          \* the ids that have had one
    pc,            \* where the request for the page stands
    query, page,   \* the list and the page asked for
    total,         \* what its count found
    found,         \* the rows of its page
    ownerless,     \* those of them whose owner was not found
    pages,         \* total_pages in the last answer
    listed,        \* the rows in the answers of this walk
    repeats,       \* how often an answer had a row that an earlier one had
    steady,        \* the rows that have been in the list ever since the walk began
    arrived, departed \* how many rows have entered and left the list since

table == <<users, tasks, born>>
request == <<pc, query, page, total, found, ownerless>>
walk == <<pages, listed, repeats>>
history == <<steady, arrived, departed>>
vars == <<table, request, walk, history>>

-----------------------------------------------------------------------------
(***************************************************************************)
(* Which rows a list has, and which of them are on a page.                 *)
(***************************************************************************)

Passes(q, row) == q.mark # Any => row.mark = q.mark

\* The filters of get_tasks, get_all_tasks_admin and get_users.
InTasks(q, t) ==
    /\ IF q.owner # Any THEN OwnerId[t] = q.owner ELSE tasks[t].is_public
    /\ Passes(q, tasks[t])

InAllTasks(q, t) ==
    /\ q.owner # Any => OwnerId[t] = q.owner
    /\ Passes(q, tasks[t])

InUsers(q, u) == Passes(q, users[u])

Matching(q) ==
    CASE q = NoQuery -> {}
      [] q # NoQuery /\ q.list = "users" -> {u \in UserIds : users[u] # NoRow /\ InUsers(q, u)}
      [] q # NoQuery /\ q.list = "all" -> {t \in TaskIds : tasks[t] # NoRow /\ InAllTasks(q, t)}
      [] OTHER -> {t \in TaskIds : tasks[t] # NoRow /\ InTasks(q, t)}

\* The place of row x in S ordered by created_at, newest first.
Rank(x, S) == Cardinality({y \in S : Created[y] >= Created[x]})

\* Mutation: pages overlap by a row.
OffsetOverlapping(p, size) == IF p = 1 THEN 0 ELSE (p - 1) * size - 1

Offset(p, size) == (p - 1) * size

\* Mutation: LIMIT is missing.
PageUnlimited(q, p) ==
    LET S == Matching(q)
    IN {x \in S : Offset(p, q.page_size) < Rank(x, S)}

Page(q, p) ==
    LET S == Matching(q)
        offset == Offset(p, q.page_size)
    IN {x \in S : offset < Rank(x, S) /\ Rank(x, S) =< offset + q.page_size}

\* Mutation: the quotient is rounded down.
TotalPagesFloor(n, size) == n \div size

\* math.ceil(total / page_size) if total else 0
TotalPages(n, size) == IF n = 0 THEN 0 ELSE (n + size - 1) \div size

-----------------------------------------------------------------------------
TypeOK ==
    /\ users \in [UserIds -> UserRows \cup {NoRow}]
    /\ tasks \in [TaskIds -> TaskRows \cup {NoRow}]
    /\ born \in SUBSET Ids
    /\ pc \in {"idle", "start", "count", "page", "owners", "answer"}
    /\ query \in Queries \cup {NoQuery}
    /\ page \in Nat /\ total \in 0..Cardinality(Ids) /\ pages \in Nat
    /\ found \in SUBSET Ids /\ ownerless \in SUBSET found
    /\ query # NoQuery => Cardinality(found) =< query.page_size
    /\ listed \in SUBSET Ids /\ repeats \in Nat
    /\ steady \in SUBSET Ids /\ arrived \in Nat /\ departed \in Nat

Init ==
    /\ users = InitialUsers
    /\ tasks = InitialTasks
    /\ born = {u \in UserIds : users[u] # NoRow} \cup {t \in TaskIds : tasks[t] # NoRow}
    /\ pc = "idle"
    /\ query = NoQuery
    /\ page = 0 /\ total = 0 /\ pages = 0
    /\ found = {} /\ ownerless = {} /\ listed = {} /\ repeats = 0
    /\ steady = {} /\ arrived = 0 /\ departed = 0

-----------------------------------------------------------------------------
(***************************************************************************)
(* The client.                                                             *)
(***************************************************************************)

\* It asks for the first page of a list.
Begin(q) ==
    /\ pc = "idle"
    /\ pc' = "start"
    /\ query' = q
    /\ page' = 1
    /\ total' = 0 /\ found' = {} /\ ownerless' = {}
    /\ pages' = 0 /\ listed' = {} /\ repeats' = 0
    /\ steady' = Matching(q) /\ arrived' = 0 /\ departed' = 0
    /\ UNCHANGED table

ListMyTasks == \E q \in Queries : q.list = "mine" /\ Begin(q)

ListPublicTasks == \E q \in Queries : q.list = "public" /\ Begin(q)

AdminListAllTasks == \E q \in Queries : q.list = "all" /\ Begin(q)

AdminListUsers == \E q \in Queries : q.list = "users" /\ Begin(q)

\* The button is disabled on the last page.
NextPage ==
    /\ pc = "idle" /\ query # NoQuery /\ page < pages
    /\ pc' = "start"
    /\ page' = page + 1
    /\ total' = 0 /\ found' = {} /\ ownerless' = {}
    /\ UNCHANGED <<table, query, walk, history>>

-----------------------------------------------------------------------------
(***************************************************************************)
(* The statements of one response.                                         *)
(***************************************************************************)

\* get_current_active_user, get_current_admin; GET /tasks/public has neither.
Admitted(q) ==
    q.caller # NoUser =>
        /\ users[q.caller] # NoRow /\ users[q.caller].is_active
        /\ q.list \in {"all", "users"} => users[q.caller].role = "admin"

GetCurrentUser ==
    /\ pc = "start"
    /\ \/ /\ Admitted(query)
          /\ pc' = "count"
          /\ UNCHANGED <<query, walk, history>>
       \/ /\ ~ Admitted(query)
          /\ pc' = "idle"
          /\ query' = NoQuery
          /\ pages' = 0 /\ listed' = {} /\ repeats' = 0
          /\ steady' = {} /\ arrived' = 0 /\ departed' = 0
    /\ UNCHANGED <<table, page, total, found, ownerless>>

CountRows ==
    /\ pc = "count"
    /\ pc' = "page"
    /\ total' = Cardinality(Matching(query))
    /\ UNCHANGED <<table, query, page, found, ownerless, walk, history>>

\* Without a task on the page there is no owner to load.
SelectPage ==
    /\ pc = "page"
    /\ found' = Page(query, page)
    /\ pc' = IF query.list = "users" \/ found' = {} THEN "answer" ELSE "owners"
    /\ UNCHANGED <<table, query, page, total, ownerless, walk, history>>

LoadOwners ==
    /\ pc = "owners"
    /\ pc' = "answer"
    /\ ownerless' = {t \in found : users[OwnerId[t]] = NoRow}
    /\ UNCHANGED <<table, query, page, total, found, walk, history>>

Answer ==
    /\ pc = "answer"
    /\ pc' = "idle"
    /\ pages' = TotalPages(total, query.page_size)
    /\ listed' = listed \cup found
    /\ repeats' = repeats + Cardinality(listed \cap found)
    /\ UNCHANGED <<table, query, page, total, found, ownerless, history>>

-----------------------------------------------------------------------------
(***************************************************************************)
(* What other requests commit meanwhile.                                   *)
(***************************************************************************)

Meanwhile ==
    /\ arrived + departed < MaxMoves
    /\ UNCHANGED <<request, walk>>
    /\ steady' = steady \cap Matching(query)'
    /\ arrived' = arrived + Cardinality(Matching(query)' \ Matching(query))
    /\ departed' = departed + Cardinality(Matching(query) \ Matching(query)')

CreateUser(u) ==
    /\ u \notin born
    /\ \E row \in UserChoices : users' = [users EXCEPT ![u] = row]
    /\ born' = born \cup {u}
    /\ UNCHANGED tasks
    /\ Meanwhile

AdminUpdateUser(u) ==
    /\ users[u] # NoRow
    /\ \E row \in UserChoices : users' = [users EXCEPT ![u] = row]
    /\ UNCHANGED <<tasks, born>>
    /\ Meanwhile

\* Mutation: the tasks stay.
CascadeNothing(u) == tasks

\* The tasks that are left when u is deleted.
Cascade(u) == [t \in TaskIds |-> IF OwnerId[t] = u THEN NoRow ELSE tasks[t]]

DeleteUser(u) ==
    /\ users[u] # NoRow
    /\ users' = [users EXCEPT ![u] = NoRow]
    /\ tasks' = Cascade(u)
    /\ UNCHANGED born
    /\ Meanwhile

CreateTask(t) ==
    /\ t \notin born
    /\ users[OwnerId[t]] # NoRow
    /\ \E row \in TaskChoices : tasks' = [tasks EXCEPT ![t] = row]
    /\ born' = born \cup {t}
    /\ UNCHANGED users
    /\ Meanwhile

UpdateTask(t) ==
    /\ tasks[t] # NoRow
    /\ \E row \in TaskChoices : tasks' = [tasks EXCEPT ![t] = row]
    /\ UNCHANGED <<users, born>>
    /\ Meanwhile

DeleteTask(t) ==
    /\ tasks[t] # NoRow
    /\ tasks' = [tasks EXCEPT ![t] = NoRow]
    /\ UNCHANGED <<users, born>>
    /\ Meanwhile

-----------------------------------------------------------------------------

List ==
    \/ ListMyTasks \/ ListPublicTasks \/ AdminListAllTasks \/ AdminListUsers \/ NextPage
    \/ GetCurrentUser \/ CountRows \/ SelectPage \/ LoadOwners \/ Answer

Change ==
    \/ \E u \in UserIds : CreateUser(u) \/ AdminUpdateUser(u) \/ DeleteUser(u)
    \/ \E t \in TaskIds : CreateTask(t) \/ UpdateTask(t) \/ DeleteTask(t)

Next == List \/ Change

Spec == Init /\ [][Next]_vars

-----------------------------------------------------------------------------
(***************************************************************************)
(* Properties.                                                             *)
(***************************************************************************)

Walked == pc = "idle" /\ query # NoQuery /\ page >= pages

\* A walk to the last page misses no more rows than have entered or left the
\* list meanwhile, although the total is counted before the page is read and
\* other pages were read earlier still (task_service.py:62-68, tasks.py:57).
\* So a list that nobody changes is listed in full.
NothingLost == Walked => Cardinality(steady \ listed) =< arrived + departed

\* No answer of a walk repeats more rows than have entered the list meanwhile:
\* what leaves it, or changes within it, never shows a row twice.
NothingRepeated == repeats =< arrived

\* A task is listed without its owner only if it has been deleted, with him,
\* after its page was read (task_service.py:31, models/task.py:41-43).
OwnerlessGone == \A t \in ownerless : tasks[t] = NoRow
=============================================================================
