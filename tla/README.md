# TaskFlow API: TLA+ models and proofs

The TaskFlow API is a FastAPI service over PostgreSQL: accounts, JWT login,
tasks, and an administrator's console.  What is hard in it is not any single
handler but what handlers do to each other: every request is a transaction of
several SQL statements, taken at READ COMMITTED, with decisions made in Python on
rows that were read earlier.  This directory models those statements and their
interleavings, checks what must hold with TLC on small instances, and proves every
safety property that it checks with TLAPS, for instances of any size.

Paths below are relative to the repository's root (`src/` here).

## 1. Inventory

| Component | State it keeps | Operations | Correct when |
|---|---|---|---|
| `endpoints/auth.py` | none of its own | register, login, refresh, me, change password | one account per email and username; a password change proves the password it replaces |
| `endpoints/admin.py` | none | list, read, update, delete a user | an administrator is left; patches touch only the columns they name |
| `services/user_service.py` | `users` table | the queries and mutations of both | the above under any interleaving |
| `endpoints/tasks.py`, `services/task_service.py` | `tasks` table | create, read, update, delete, three paginated lists | tasks have living owners; only owner or administrator changes them; pages and totals agree |
| `api/v1/deps.py` | the caller's row, loaded once per request | authentication and authorisation chain | nothing is done for a caller it refuses |
| `db/session.py` | one session (identity map) and transaction per request; engine pool | commit after the endpoint, roll back on an exception; check connections out and in | all or nothing; success told only after the commit; no connection leaks, no request waits for ever |
| `models/*.py` | constraints | unique, not null, foreign key with cascade | relied on by every check-then-write above |
| `core/security.py` | none (tokens are signed) | hash, issue, verify | types and expiry respected; whoever is locked out stays out |
| `middleware/exception_handler.py` | none | exception to status | a 409 means a conflict, a 500 has a cause |
| `middleware/logging.py`, `core/logging.py` | logs | log each request | the log has the status that was sent |
| `core/config.py` | settings | read once at import | |
| `main.py`, `api/v1/router.py` | limiter, lifespan, middleware stack | create tables at startup, route, health | workers can start together |
| `scripts/seed.py` | | create the first administrator | can run beside the workers, and twice |
| `frontend_dist/index.html` | user, token, lists, `sessionStorage` | login, logout, restore, fetch, edit | shows the last thing asked for, as who is logged in |
| `alembic/`, `app/schema/`, `db/init_db.py`, `db/dependencies.py` | | no caller in the running application | |

Components interact through two tables only.  FastAPI caches `get_db` within a
request, so the dependencies of `deps.py`, the endpoint and the services share one
session; there are no background tasks, no caches and no messages between
requests.  Redis and the rate limiter are configured but used by no route.

What is hard:

* *Interleaving.*  Each `await` on the session is a point at which other requests
  of the same event loop, other workers, and other machines run.
* *Stale reads.*  A row once loaded stays in the identity map as first seen
  (`expire_on_commit=False`, `autoflush=False`); the caller, the target and the
  task are all decided on such rows.
* *Waits and deadlocks.*  Row locks, key shares and unique-index entries make
  transactions wait; name swaps and double deletions make them wait in a circle.
* *Failure.*  The commit comes after the endpoint, its acknowledgement may be
  lost, workers die with locks held.
* *Pages.*  A list is answered from a count, a page and the owners, three
  statements; a walk over its pages spans many requests while rows come and go.
* *The pool.*  Requests keep their connection while they wait for locks, and the
  database may restart under all of them.
* *Tokens.*  The server forgets what it has issued: a token speaks for its account,
  with an old role, until it expires.
* *Startup.*  Every worker, and the seed script, creates the tables it does not find.
* *The browser.*  Answers come in any order, also after the component or the session
  that asked is gone.

## 2. How code becomes steps

One step is one statement sent to the database, with the Python that runs until
the next.  These facts about the libraries, in the versions of
`requirements.txt`, shape the actions:

* FastAPI 0.111 finishes a dependency with `yield` after the endpoint has
  returned and before the response is sent.  So `Commit` precedes `Respond`, and
  an exception in the commit becomes a 500.
* A SELECT sees committed rows and the transaction's own; a row already in the
  identity map keeps its loaded attributes (`Fetched`).
* A flush writes net changes only: a column set to the value it was loaded with
  is not in the UPDATE, and with no such column there is none (`Assigned`,
  `Patched`).  PostgreSQL applies the UPDATE to the newest committed version of
  the row, after waiting for its lock (`Holders`).
* An UPDATE that matches no row raises `StaleDataError`, which no handler
  catches: 500.  A DELETE that matches none is only warned about.
* A null in a NOT NULL column, a taken unique key and a missing foreign key raise
  `IntegrityError`: 409 (`exception_handler.py:28-38`).
* A unique index makes an INSERT or UPDATE wait for the transaction that has an
  uncommitted claim on the key.  A new row version enters the two indexes of `users` in
  the order in which they were created, and keeps its row locked meanwhile; the stages
  `index1` and `index2` are the times before each.  SQLAlchemy keeps a table's indexes in
  a set, so either order may be that of an installation: `Index1` and `Index2` are
  constants.
* Hashing and verifying raise for some passwords, and nothing catches it: 500.  Which
  ones depends on the release of bcrypt, which `requirements.txt` does not pin: a NUL,
  more than 72 bytes, or, since passlib 1.7.4 first tries a long password of its own, any
  password at all.  `logs/app.log:83`, 86, 107, 110 and 117 show it for registrations,
  89 and 121 for logins.  `Unhashable` is the set of these passwords; `Digest` is a
  function of the others, injective or not.  A login with an unknown email hashes
  "dummy" (`Dummy`).
* The foreign key's check holds the owner's row FOR KEY SHARE, which excludes a
  DELETE of it and nothing else that is modelled.
* `User.tasks` cascades in the ORM without `passive_deletes`: deleting a user
  loads his tasks, deletes each in the order of ids, then the user, whose DELETE
  sets off the database's own cascade.
* PostgreSQL aborts one transaction of a deadlock: 500.

## 3. Modules

`Accounts.tla` is the core: `auth.py`, `admin.py` (one user), `user_service.py`,
`deps.py`, `session.py`, the unique and not-null constraints.

| Variable | Stands for |
|---|---|
| `users`, `born` | committed rows; ids that ever had one |
| `tokens` | accounts some token has been issued to |
| `pc`, `call` | where a request stands, what it asked for |
| `session` | its identity map |
| `draft` | the uncommitted row version it has written, with the lock |
| `reply` | status of its last response, 0 for none |

| Request | Actions in order |
|---|---|
| register | `RegisterCheckEmail`, `RegisterCheckUsername`, `CreateUser`, `EnterIndex` (twice), `RefreshRow`, `Commit`, `Respond` |
| login | `AuthenticateUser`, `UpdateLastLogin`, `Commit`, `Respond` |
| refresh | `RefreshToken`, `Commit`, `Respond` |
| me | `GetCurrentUser`, `Commit`, `Respond` |
| change password | `GetCurrentUser`, `ChangeMyPassword`, `ChangePassword`, `Commit`, `Respond` |
| admin read | `GetCurrentUser`, `AdminGetUser`, `Commit`, `Respond` |
| admin update | `GetCurrentUser`, `AdminUpdateCheck`, `AdminUpdateUser`, (`EnterIndex` twice,) `RefreshRow`, `Commit`, `Respond` |
| admin delete | `GetCurrentUser`, `AdminDeleteCheck`, `DeleteUser`, `Commit`, `Respond` |

`Fail` is the early return of any of them, with its status.  The environment adds
`Receive`, `ConnectionLost`, `CommitUnacknowledged`, `WorkerCrash`;
`AbortDeadlock` is PostgreSQL's.

`AccountDirectory.tla` is what clients may rely on: each request has one atomic
effect on at most one account, between arrival and response; keys are unique at
every instant; 201 is told only after an account was created, 200 only after the
effect of any other request; a refusal leaves no trace; only a
creation adds an account, and a removed one never returns.  `Accounts` implements it
(`Directory == INSTANCE AccountDirectory WITH ...`): drafts are invisible, the
commit is the effect.

`TaskStore.tla` models the four task operations and, in full, the deletion of a
user.  It keeps of an account its role and activity; `ChangeAccount` stands for
the commits of `PATCH /admin/users/{id}` that `Accounts` details.  `draft[r]`
maps each task id to the version the transaction has written, or `Unwritten`;
`owned[r]` are the tasks that `db.delete` loaded and the flush has yet to delete.
`GetCurrentActiveUser`/`GetOptionalUser`, then `CreateTask` | `GetTask` |
`FindTask`, `UpdateTask` or `DeleteTask` | `FindUser`, `LoadOwned`,
`DeleteOwned`..., `DeleteUserRow`, `Cascade`; then `RefreshTask`, `Commit`,
`Respond`.  `Awaited(r)` is whom a statement waits for; a deadlock is a set of
requests that await each other.

`TaskBoard.tla` is its contract: a task always has a member for its owner, 201 is
told only after a task was created, and any other effect touches one task or
removes a member with all his tasks at one instant.

`Listing.tla` models the four paginated lists while `users` and `tasks` change.
`ListMyTasks`, `ListPublicTasks`, `AdminListAllTasks` and `AdminListUsers` begin a
walk, `NextPage` continues it as the buttons of the front end do; each page is
`GetCurrentUser`, `CountRows`, `SelectPage`, `LoadOwners`, `Answer`.  Lists change
nothing, so one client is enough, and what other requests commit is one step each
(`CreateUser`, ..., `DeleteTask`; their details are in the two modules above).
`Page` and `TotalPages` are the code's offset, limit and rounded-up quotient.  The
history variables `steady`, `arrived` and `departed` say how the list itself
changed during the walk.

`Startup.tla` models `lifespan`, `create_tables` and the seed script over
PostgreSQL's transactional DDL, in the phases of `create_all`: `InspectTable` for each
table; `CheckTypes` for the types of each class, whether or not its table is there, with
`CreateTypes` where they are missing; `CreateTable` for each table found missing; and
`CommitTables` or `CreateRefused`.  `NextPhase` goes from one to the next.  `Imported` and
`References` say which mapped classes a process has, in the order in which it creates
their tables, and which they name; `Mapped(p)` are its classes as a set.

`WebClient.tla` models one tab of `frontend_dist/index.html`: `stored` is
sessionStorage, `user`, `token` and `page` the state of `App`, `rows`, `loading` and
`saving` that of the mounted component, `calls` the calls in flight, each with
whether its component is still mounted.  A step is a click, a reload, or an answer
with the code that awaits it.  The server is not modelled: any answer may come.  Two
variables are history: `overtaken`, that the login form was submitted before the restore
was answered, and `switched`, that the account has changed under the mounted component.

`Sessions.tla` models who may act for an account and for how long: `tokens` are those
handed out and not expired, each with its type, its claim of a role, the time it has
left and whether the owner of the account or a guest holds it; `accounts` are the
committed rows.  A request goes `SendLogin`, `AuthenticateUser`, `IssueTokens`,
`Respond`, or `SendToken`, then `RefreshToken` or `GetCurrentUser`, then `Respond`;
`Tick`, `ChangeAccount` (an administrator's commit) and `Share` (a pasted access
token) happen between any two of its steps.  `verdicts` is history: what the account
was entitled to at moments since the request arrived.

`Gateway.tla` models what all requests of a worker share.  `Stack` is the order of the
layers that `create_app` and Starlette produce, `Through` what each does to an
exception or an answer on its way out, and `Outcome` the walk through all of them.
`held`, `broken`, `live`, `stale` and `opened` are the pool; a request goes `Receive`,
`Checkout`, `GetCurrentUser`, `Endpoint`, `Commit`, `Respond`, and may leave at each by
`Raise`.  `SessionOf` is FastAPI's cache of `get_db` within a request: dependencies and
endpoint are given one session and so need one connection.  `DatabaseFails` breaks
every connection and may or may not have made the commits that were on their way.

`MCAccounts.tla`, `MCTaskStore.tla`, `MCListing.tla`, `MCStartup.tla`,
`MCWebClient.tla`, `MCSessions.tla` and `MCGateway.tla` hold the instances.  The theorems
are in `AccountsProofs.tla`, `AccountsStepsProofs.tla` (which extends it by what steps may
do), `TaskStoreProofs.tla`, `ListingProofs.tla`, `StartupProofs.tla`,
`WebClientProofs.tla`, `SessionsProofs.tla` and `GatewayProofs.tla`.

What is abstracted: wording of responses, validation by field patterns (a call is
a request that passed it), timestamps (`last_login` is a flag), `full_name`,
`is_verified`.  In `TaskStore` the column `title` stands for every column of a task
but `is_public` and `owner_id`.
In `Accounts` and `TaskStore` a token is the account it names; forged, expired and
missing ones are `NoUser`; what tokens are good for is in `Sessions`, which assumes that
nobody forges a signature.  In `Gateway` the endpoints are reduced to reading, writing
one contended row, or raising; status 400 stands for every refusal with an
`HTTPException` of its own.

## 4. Runs

| Run | At once | Shows |
|---|---|---|
| `accounts_register` | 3 requests, username index first | `UniqueKeys`, `TransactionInv`, `RegisterErrorJustified`, `ConflictJustified` among registrations, renames and a deletion over names in two spellings, and a password that cannot be hashed for each endpoint that hashes one |
| `accounts_update` | 2, faults, email index first | `Answered`, `LastAdminLostInRaces`, `ColumnIsolation`, `ReportsCommittedRow`, `NoResurrection`, `ImplementsDirectory` for two administrators who update, demote and delete each other and swap names into a deadlock, a login, a password change and a call of every other kind |
| `accounts_password` | 2 | violated: `PasswordVerifiedAtChange` |
| `tasks_board` | 2, faults | `NoOrphans`, `TaskLocks`, `OwnerOrAdmin`, `PatchesKeptApart`, `ImplementsBoard` |
| `tasks_removal` | 2 | `TasksAnswered`, `ServerErrorJustified`, `TaskConflictJustified` with two deletions of one user |
| `listing_walk` | a walk and commits | `NothingLost`, `NothingRepeated`, `OwnerlessGone` over all four lists |
| `startup` | 2 workers, the script, a crash | `WholeClasses`, `ServesWithTables`, `FailsOnlyInRaces`, `WorkersServe` |
| `startup_workers` | 2 workers | violated: `WorkersStartTogether` |
| `startup_seed` | a worker, the script | violated: `SeedCanQuery` |
| `web_session` | 2 calls in a tab | `IdentityAgrees`, `RowsOfShownAccount`, `FormsRecover` |
| `sessions` | 2 requests of one account | `GivenTokensDie`: an access token is never turned into another; `JudgedInTime`: demotion and deactivation bite at once; `LockedOut`: who stays disabled ends without a valid token |
| `gateway` | 3 requests, a pool of 1 + 1, the database fails and returns | `PoolInv`: no connection leaks; `AnswersJustified`: success is told only of what is kept, a 500 has a cause, the log agrees; `Served`: nobody waits for ever |

Findings:

* `change_my_password` (`auth.py:173-192`) verifies the current password on the row
  `get_current_user` loaded and then updates without a lock or re-check.  Two
  changes that both verified the old password both commit, and the second replaces a
  password its caller never gave, although the endpoint's docstring says "Requires
  current password verification."
* Workers that start together on an empty database race for `user_role`: all but one
  may fail, and `lifespan` raises.  `README.md:377` advertises `--workers 4`;
  `logs/app.log` records three of four workers failing exactly so.
* `scripts/seed.py` never creates the administrator: it imports `User` and not `Task`,
  which a relationship of `User` names, so SQLAlchemy refuses the first query.  It
  has then created the table of users and not that of tasks, which a worker's next
  start does (`ServesWithTables`).

Properties with an exception, where the repository promises no more:

* `LastAdminLostInRaces`: two administrators can each demote the other at once, and
  none is left.  The property says that this is the only way to lose the last one.
* `RegisterErrorJustified` says of a registration that fails with 500 that there was a
  fault, that its password cannot be hashed, or that it was in a deadlock, which needs the
  username index to be the first: it has entered its username, for which a rename of
  another account waits, and itself waits for the email of a row that a rename has locked.
* `RowsOfShownAccount` leaves out one component: that which was mounted when the account
  changed under it (`index.html:580`, `923`: it fetches when it is mounted and not when
  the token changes), and this only in a tab in which the login form was submitted before
  the stored session was restored.  The next page shows the right rows again.
* `IdentityAgrees` says of such a tab that user and token in memory agree, and nothing of
  the store: a restore that fails clears the tokens that the login has stored, and a
  login of which half succeeds leaves its own.
* `JudgedInTime` is about moments since a request arrived: an endpoint goes on with a
  caller who is demoted after his row was read.
* `AnswersJustified` excepts a write whose commit was under way when the database
  failed: the client is told 500 and the write may be there.
* Nothing is claimed of the order of two fetches of one list: an older filter's
  answer may come last and stay.

Other disagreements, seen in the code and not made into a run because they concern
bodies and headers only, or a library's release:

* `register` promises (`auth.py:46-50`) that a password of eight characters with an upper,
  a lower and a digit will do; with the bcrypt of `logs/app.log` it is answered 500.
* `README.md` promises "a consistent envelope" of all endpoints.  An `HTTPException`
  other than a 404 is answered with FastAPI's own `{"detail": ...}`; and the handler
  for 404 (`exception_handler.py:40`) also takes those that endpoints raise, so
  "Task not found" becomes "Route ... not found".
* A 500 is made outside of the CORS layer and has no CORS headers
  (`AnswersJustified` states it), so a front end of another origin cannot read it.

**Bounds.**  Three accounts or ids, up to three requests in flight, four emails and
names of which two differ only in case, six passwords of which two share a digest and one
cannot be hashed, three tasks of which two can be created.  A race in this code is between two
transactions that touch one row or key, and a third can only make them wait or take
what they free: three requests where keys are contended, two elsewhere.  The deadlock of
a registration is one with a rename, where the username index is first, and occurs there
(`RegisterErrorJustified` without its last disjunct fails in `accounts_register`).
`RoomForInsert` and `RoomForTask` admit only as many creations in flight as ids are
left; ids are never reused, so each behaviour creates finitely many rows, but
updates, logins and deletions go on without bound.  In `Listing`, `MaxMoves` = 2 rows
enter or leave the list in one walk, of lists of up to four rows in pages of one or
two: enough for a row to cross a page boundary in each direction between any two
statements, or twice in one.  Creation times are distinct and are not the order of
commits (task 12 was begun first and may be committed last).  `Startup` has two
classes, which are all there are, and at most `MaxCrashes` = 1 kill; a third worker
only waits and fails like the second.  In `WebClient`, `Slots` = 2 calls: the
restore and a login, a list and a change, or two lists, of two accounts.  In
`Sessions` a token has the time it has left, not that of its expiry, so the clock needs
no bound: access tokens live through the tick they are issued in, refresh tokens
through one more, which is the least that lets refreshes form a chain; one account,
since tokens of two never meet, and two requests, one to be overtaken by the other.
In `Gateway` a pool of one connection and one beyond it makes the third request wait
while one holder waits for the other's lock; the calls are one of each way to be turned
down, a write, and a read without a caller.  Symmetry is used for requests
in runs without liveness only.

**Fairness.**  `FairSpec` asks strong fairness of each request's own steps.  An
asyncio loop runs every ready task, and PostgreSQL's lock queues wake waiters in
order, so a request whose statement becomes possible again and again is not
passed over for ever.  Nothing is asked of clients or faults.  `Startup` asks weak fairness of a
process's steps and of a worker's restart (`restart: unless-stopped` in
`docker-compose.yml`), not of the script's; under `uvicorn --workers` of release
0.29 a dead worker is not replaced, and `WorkersServe` is about containers.
`Sessions` asks
only that time passes.  `Gateway` asks strong fairness of each request's steps, for
asyncio serves those who wait for a connection in order and PostgreSQL those who wait for
a lock, and nothing of `PoolTimeout`: nobody is served by being given up, nor of the
database's return.  `WebClient` asks that each call is answered: `apiRequest` returns also when the
connection fails (`index.html:335-348`).  One starvation is
outside the bounds: key shares taken by an endless stream of overlapping creations
by one user could hold off his deletion, since ids for tasks are finite here.

## 5. Proofs

tlapm checks the theorems for every value of the constants: any number of accounts,
tasks, requests, workers and slots, any names and patches, any size of page and pool, with
or without faults.  They assume of the constants only what the `ASSUME`s of each module
say, which TLC evaluates in the runs; one theorem adds a hypothesis on the faults, named
below.  All of them are about `Spec`, without fairness, which `FairSpec` implies.

Every invariant and every action property of the passing runs is a theorem; so are the two
refinements.  Each proof has the same shape.  The property itself is seldom inductive,
so it is strengthened to an invariant, which TLC checked on the component's run before
it was proved.  Lemmas then reduce the many actions to a few forms (go on, write,
commit, end), show that a form keeps the part of the invariant that speaks of the request
that takes the step, and once and for all that it keeps the parts of the others.  The
action properties follow from the invariant, step by step.

### Accounts

The invariant is `IInv == TypeOK /\ Authorised /\ TransactionInv /\ UniqueKeys`.
`UniqueKeys` is not inductive: a commit copies a draft into the table, so drafts
must already be unique among rows and each other (`ClaimedKeys`); that holds only
if keys are stored folded (`FoldedKeys`), a row has one writer (`OneWriterPerRow`),
a draft exists only between flush and commit (`DraftStages`), and what it changes
still exists (`DraftsOfLiveRows`).  `DraftKinds` (a registration's draft is a new
row, any other's the version of an old one) is what the refinement needs to tell a
creation from a change.  `Authorised` supplies that a bearer is an
account and not `NoUser` where a handler writes his row.

What steps may do needs more: how a draft follows from its call and the committed row
under it.  `SInv` of `AccountsStepsProofs` adds `Written` (a draft keeps of the
committed row every column its call does not name, though it was computed from an
older one), `Refreshed` (what the session will answer with is the draft), `Vetted` (past
the checks of `admin.py` nobody demotes or deletes himself, and the session still has
the caller as an administrator) and `Course`.  That others' commits leave `Written` alone is
the row lock: a committed row under a draft changes only by that draft.

| Theorem | States |
|---|---|
| `TypeCorrect`, `TransactionsCorrect`, `KeysUnique` | `Spec => []TypeOK`, `[]TransactionInv`, `[]UniqueKeys` |
| `DeletedStayDeleted` | `Spec => NoResurrection` |
| `EndpointsImplementDirectory` | `Spec => Directory!Spec` |
| `ColumnsIsolated` | `Spec => ColumnIsolation` |
| `CommittedReported` | `Spec => ReportsCommittedRow` |
| `LastAdminRaced` | `Spec => LastAdminLostInRaces` |
| `ConflictsJustified` | `Spec => ConflictJustified` |
| `RegistrationErrorsJustified` | `Spec => RegisterErrorJustified`, for either order of the indexes |

`RegistrationErrorsJustified` follows a deadlock around its circle.  A registration is
waited for in its first index only, for its row is not in the second and there is no
committed one that it might give up (`RegistrationWaitedFor`); so the request q that waits
for it is in its own first index, cannot be a registration, which nobody would wait for
there, and is an update.  An update keeps the email of its row (`UpdateKeepsEmail`), and if
the first index were that of emails, q's row would have the registration's email already,
against `ClaimedKeys`.  So it is that of usernames and q renames to the registration's name;
and whoever the registration waits for, in the index of emails, is an update too.  That its
refresh finds its row is `DraftKinds`: its draft is a row and no deletion.

### TaskStore

The invariant is `IInv == TypeOK /\ NoOrphans /\ TaskLocks`.  `NoOrphans` fails to be
inductive at two commits: of a creation, whose owner must still be there, and of a
removal, which must take along every task of its user.  `TaskLocks` supplies both.  A
creation that has passed its foreign key holds its owner, so no removal is past its DELETE
of the user (`KeyShareExcludesRemoval`); a removal that is ready to commit has deleted every
committed task of the user (`RemovalComplete`).  `OneWriterPerTask`,
`DraftsCurrent`, `CreationReady` and `StagesKept` keep these true between statements, and
`CallerAllowed` (whoever is past the checks was an active owner or administrator as his
session saw him) makes `OwnerOrAdmin` provable.  The rows a request decides on may be stale; that
`owner_id` of a live task never changes and ids are not reused is why stale is good enough.

| Theorem | States |
|---|---|
| `TypeCorrect`, `LocksCorrect`, `TasksHaveOwners` | `Spec => []TypeOK`, `[]TaskLocks`, `[]NoOrphans` |
| `ChangesAllowed` | `Spec => OwnerOrAdmin` |
| `PatchesApart` | `Spec => PatchesKeptApart` |
| `ConflictsJustified` | `Spec => TaskConflictJustified` |
| `ServerErrorsJustified` | `Spec => ServerErrorJustified`, if no connection is lost |
| `EndpointsImplementBoard` | `Spec => Board!Spec` |

### Listing

`PagesPartition` is arithmetic: every row of a list is on exactly one of the pages 1
to `TotalPages`, so quotient, offset and limit agree.  `OwnerlessAreGone` follows from the
invariant that a task has a living owner, which the cascade keeps.

`NothingLost` and `NothingRepeated` are about rows that move while pages are read.
Let `Covered` be the number of places the pages so far have covered and `Rest` the rows of
the list, as it is now, behind them.  The invariant `WalkInv == TypeOK /\ Bounds /\ Stage`
charges each mishap before it happens: a row already seen that has been pushed into `Rest`
has cost an arrival, and an unseen row that has slipped out of `Rest` a departure (`Bounds`);
`Stage` ties the total, counted earlier, to the list as it is now.  The lemma it rests on is
`BehindMoves`: when a list changes, no more rows fall behind its first n places than have
arrived, and no more move in front than have left, because a place is the number of rows
created no earlier (`BehindGrows`) and no two rows share one (`RankInjective`).
All of it is cardinality of finite sets; no induction is needed.

| Theorem | States |
|---|---|
| `TypeCorrect`, `OwnerlessAreGone` | `Spec => []TypeOK`, `[]OwnerlessGone` |
| `PagesPartition` | as above, for every query and row |
| `RepeatsAreArrivals` | `Spec => []NothingRepeated` |
| `LossesAreMoves` | `Spec => []NothingLost` |

### Sessions, Gateway, Startup, WebClient

| Module | Invariant | Why the property alone is not inductive |
|---|---|---|
| `SessionsProofs` | `TypeOK /\ GivenTokensDie`, and for each request `Credentials` and `Verdicts` | `Credentials`: only a password or a refresh token makes new tokens and no guest has either, so whatever is waiting to be handed out is the owner's.  `Verdicts`: the history has the verdict of the row as it is now, and one of TRUE once the request has been let pass |
| `GatewayProofs` | `PoolInv /\ Sound`, and `Told` for each request | `Sound`: every session is the one of `get_db`, so a request has one at most and the counts of `PoolInv` change by one; the lock is held only on the way to a commit.  `Told`: the stage tells what became of the write, and no outage is forgotten |
| `StartupProofs` | `TypeOK /\ WholeClasses`, and for each process `Progress`, `MadeWhole`, and that what it saw is still there | `Progress`: classes a process is done with are in the catalog or its own transaction.  `MadeWhole`: that transaction is whole but for the table being created.  The catalog only grows, so a name that was missing and is taken was created by another |
| `WebClientProofs` | `TypeOK /\ user = token`, `Orderly` unless a login overtook the restore, `Settled` | `Orderly`: at most one call in flight may decide who is shown, while nobody is.  `Settled`: unless the account changed under it, a mounted component's calls carry the token of who is shown |

| Theorem | States |
|---|---|
| `SessionsProofs`: `TypeCorrect`, `GivenTokensExpire`, `JudgedByCurrentRow` | `Spec => []TypeOK`, `[]GivenTokensDie`, `JudgedInTime` |
| `GatewayProofs`: `PoolCorrect`, `AnswersTrue` | `Spec => []PoolInv`, `AnswersJustified`, with the whole stack of layers evaluated by proof |
| `StartupProofs`: `TypeCorrect`, `ClassesAreWhole`, `ServersHaveTables`, `FailuresAreRaces` | `Spec => []TypeOK`, `[]WholeClasses`, `[]ServesWithTables`, `FailsOnlyInRaces` |
| `WebClientProofs`: `TypeCorrect`, `IdentitiesAgree`, `RowsAreOwn` | `Spec => []TypeOK`, `[]IdentityAgrees`, `[]RowsOfShownAccount` |

### Only model-checked

Liveness under fairness is out of this prover's reach: `Answered`, `TasksAnswered`,
`WorkersServe`, `FormsRecover`, `LockedOut` and `Served` are checked by TLC on the
instances of section 4 only.  So are the three violations, which need no proof: a
counterexample is one.

## 6. Plan

Done: the models, the runs, and a theorem for each safety property of a passing run.
What is left, in order of use:

1. Shorter proofs: `TaskStoreProofs` repeats for locks of tasks what `AccountsProofs` has for rows.
2. An abstract specification of the pool (a counter of free connections) that `Gateway`
   implements, and of the lists (each page a cut of some list since the walk began).
3. The safety half of the liveness properties, as theorems: which request a waiting one
   waits for, and that those who wait for each other are the ones `AbortDeadlock` takes.
## 7. Not modelled

* The rate limiter and Redis: configured, used by no route.
* `core/config.py`, `core/logging.py` and Alembic's environment: values read at import,
  log sinks, and a stock script with no revision beside it.
* `app/schema/`, `db/init_db.py`, `db/dependencies.py`, `drop_tables`,
  `update_user`: no caller in the running application.
* `create_admin_user` and what follows in `scripts/seed.py`: never reached (`startup_seed`).
* Patterns and lengths of fields: pure validation, in `Gateway` a call is valid or not.
* In the front end, form fields, filters, toasts, the API log and the markup.
