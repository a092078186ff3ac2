-------------------------- MODULE TaskStoreProofs --------------------------
(***************************************************************************)
(* Theorems about TaskStore, for every value of its constants.             *)
(***************************************************************************)
EXTENDS TaskStore, TLAPS

-----------------------------------------------------------------------------
(***************************************************************************)
(* What a step leaves as it was.                                           *)
(***************************************************************************)

\* The kind of a call tells which fields it has.
LEMMA CallType ==
    ASSUME TypeOK, NEW r \in Requests
    PROVE  /\ call[r].kind \in {"create", "get", "update", "delete", "delete_user", "none"}
           /\ call[r].kind = "none" => call[r] = NoCall
           /\ call[r].kind # "none" => call[r].token \in UserIds \cup {NoUser}
           /\ call[r].kind = "create" => call[r].title \in Titles /\ call[r].is_public \in BOOLEAN
           /\ call[r].kind \in {"get", "update", "delete"} => call[r].task \in TaskIds
           /\ call[r].kind = "update" => call[r].patch \in Patches
           /\ call[r].kind = "delete_user" => call[r].target \in UserIds
  <1>1. call[r] \in AllCalls \/ call[r] = NoCall
    BY DEF TypeOK
  <1>2. CASE call[r] = NoCall
    BY <1>2 DEF NoCall
  <1>3. CASE call[r] \in AllCalls
    BY <1>3 DEF AllCalls, Bearers
  <1>4. QED
    BY <1>1, <1>2, <1>3

\* The other requests stand where they stood.
OthersKept(r) ==
    \A q \in Requests \ {r} :
        /\ pc'[q] = pc[q] /\ call'[q] = call[q] /\ me'[q] = me[q]
        /\ owned'[q] = owned[q] /\ draft'[q] = draft[q] /\ reply'[q] = reply[q]

\* Request r goes on: all that the invariant says of it may change but its call.
Goes(r, stage, row, todo, d) ==
    /\ pc' = [pc EXCEPT ![r] = stage]
    /\ me'[r] = row /\ owned'[r] = todo /\ draft'[r] = d
    /\ OthersKept(r)
    /\ UNCHANGED <<users, tasks, born, call, reply>>

LEMMA GotoFrame ==
    ASSUME TypeOK, NEW r \in Requests, NEW stage \in Stages, Goto(r, stage)
    PROVE  TypeOK' /\ Goes(r, stage, me[r], owned[r], draft[r])
  BY DEF TypeOK, Goto, Goes, OthersKept

LEMMA LoadMeFrame ==
    ASSUME TypeOK, NEW r \in Requests, NEW stage \in Stages, NEW row \in Rows \cup {NoRow},
           LoadMe(r, row, stage)
    PROVE  TypeOK' /\ Goes(r, stage, row, owned[r], draft[r])
  BY DEF TypeOK, LoadMe, Goes, OthersKept

LEMMA LoadTaskFrame ==
    ASSUME TypeOK, NEW r \in Requests, NEW stage \in Stages, NEW row \in TaskRows \cup {NoTask},
           LoadTask(r, row, stage)
    PROVE  TypeOK' /\ Goes(r, stage, me[r], owned[r], draft[r])
  BY DEF TypeOK, LoadTask, Goes, OthersKept

LEMMA WriteFrame ==
    ASSUME TypeOK, NEW r \in Requests, NEW stage \in Stages, NEW t \in TaskIds,
           NEW row \in TaskRows \cup {NoTask}, Write(r, t, row, stage)
    PROVE  TypeOK' /\ Goes(r, stage, me[r], owned[r], [draft[r] EXCEPT ![t] = row])
  BY DEF TypeOK, Write, Goes, OthersKept

\* The end of a request.
LEMMA CloseFrame ==
    ASSUME TypeOK, NEW r \in Requests, NEW status \in Statuses, Close(r, status)
    PROVE  /\ pc' = [pc EXCEPT ![r] = "idle"] /\ call'[r] = NoCall
           /\ owned'[r] = {} /\ draft'[r] = NoDraft
           /\ reply' = [reply EXCEPT ![r] = status]
           /\ OthersKept(r)
           /\ users' \in [UserIds -> Rows \cup {NoRow}]
              /\ tasks' \in [TaskIds -> TaskRows \cup {NoTask}]
              /\ born' \in SUBSET TaskIds => TypeOK'
  BY DEF TypeOK, Close, OthersKept, Stages, NoDraft

-----------------------------------------------------------------------------
(***************************************************************************)
(* The inductive invariant.                                                *)
(***************************************************************************)

IInv == TypeOK /\ NoOrphans /\ TaskLocks

\* An idle server over tables that satisfy the foreign key satisfies the invariant.
LEMMA InitIInv == Init => IInv
  <1> SUFFICES ASSUME Init PROVE IInv
    OBVIOUS
  <1> USE DEF Init
  <1>1. TypeOK
    BY InitialTasksAssumption DEF TypeOK, Stages, Statuses, NoDraft
  <1>2. NoOrphans
    BY InitialTasksAssumption DEF NoOrphans
  <1>3. OneWriterPerTask /\ KeyShareExcludesRemoval
    BY DEF OneWriterPerTask, KeyShareExcludesRemoval, NoDraft, Sharers, Removers
  <1>4. ASSUME NEW r \in Requests PROVE RequestInv(r)
    BY DEF RequestInv, StagesKept, DraftsCurrent, CreationReady, RemovalComplete,
           CallerAllowed, At, NoDraft
  <1>5. QED
    BY <1>1, <1>2, <1>3, <1>4 DEF IInv, TaskLocks

\* A step that does not touch the tables leaves the other requests' part of the
\* invariant as it was; what is left to show is that r's part holds, that r has written
\* no task that is another's, and that r's key shares and removals are of users that
\* nobody removes or shares.
LEMMA LocalStep ==
    ASSUME IInv, NEW r \in Requests, OthersKept(r), UNCHANGED <<users, tasks, born>>,
           RequestInv(r)',
           \A t \in TaskIds : draft'[r][t] # Unwritten =>
               draft[r][t] # Unwritten \/ Holders(r, t) = {},
           \A u \in UserIds :
               /\ r \in Sharers(u)' => r \in Sharers(u) \/ Removers(u) = {}
               /\ r \in Removers(u)' => r \in Removers(u) \/ Sharers(u) = {}
    PROVE  NoOrphans' /\ TaskLocks'
  <1>1. NoOrphans' /\ \A t \in TaskIds : tasks'[t] # NoTask => t \in born'
    BY DEF IInv, NoOrphans, TaskLocks
  <1>2. OneWriterPerTask'
    BY DEF IInv, TaskLocks, OneWriterPerTask, Holders, OthersKept
  <1>3. KeyShareExcludesRemoval'
    <2> SUFFICES ASSUME NEW u \in UserIds PROVE Sharers(u)' = {} \/ Removers(u)' = {}
      BY DEF KeyShareExcludesRemoval
    <2>1. \A q \in Requests \ {r} : (q \in Sharers(u)' <=> q \in Sharers(u))
                                  /\ (q \in Removers(u)' <=> q \in Removers(u))
      BY DEF OthersKept, Sharers, Removers
    <2>2. ~ (r \in Sharers(u)' /\ r \in Removers(u)')
      BY DEF Sharers, Removers
    <2>3. Sharers(u)' \subseteq Requests /\ Removers(u)' \subseteq Requests
      BY DEF Sharers, Removers
    <2>4. Sharers(u) = {} \/ Removers(u) = {}
      BY DEF IInv, TaskLocks, KeyShareExcludesRemoval
    <2>5. QED
      BY <2>1, <2>2, <2>3, <2>4
  <1>4. ASSUME NEW q \in Requests PROVE RequestInv(q)'
    <2>1. CASE q # r
      <3>1. RequestInv(q)
        BY DEF IInv, TaskLocks
      <3>2. pc'[q] = pc[q] /\ call'[q] = call[q] /\ me'[q] = me[q]
            /\ owned'[q] = owned[q] /\ draft'[q] = draft[q]
        BY <2>1 DEF OthersKept
      <3>3. StagesKept(q)'
        BY <3>1, <3>2 DEF RequestInv, StagesKept
      <3>4. DraftsCurrent(q)'
        BY <3>1, <3>2 DEF RequestInv, DraftsCurrent, PatchOf
      <3>5. CreationReady(q)' /\ RemovalComplete(q)'
        BY <3>1, <3>2 DEF RequestInv, CreationReady, RemovalComplete, At, TasksOf
      <3>6. CallerAllowed(q)'
        BY <3>1, <3>2 DEF RequestInv, CallerAllowed, OfOrGone
      <3>7. QED
        BY <3>3, <3>4, <3>5, <3>6 DEF RequestInv
    <2>2. QED
      BY <2>1
  <1>5. QED
    BY <1>1, <1>2, <1>3, <1>4 DEF TaskLocks

\* Going on without writing.
LEMMA ReadStep ==
    ASSUME IInv, NEW r \in Requests, NEW stage \in Stages, NEW row, NEW todo,
           Goes(r, stage, row, todo, draft[r]), RequestInv(r)',
           call[r].kind \in {"create", "delete_user"} /\ stage \in {"refresh", "cascade", "commit"}
               => \/ pc[r] = "refresh"
                  \/ stage = "cascade" /\ Sharers(call[r].target) = {}
                  \/ users[call[r].target] = NoRow /\ call[r].kind = "delete_user"
    PROVE  NoOrphans' /\ TaskLocks'
  <1>1. OthersKept(r) /\ UNCHANGED <<users, tasks, born>> /\ draft'[r] = draft[r]
        /\ call' = call /\ pc'[r] = stage
    BY DEF Goes, IInv, TypeOK
  <1>2. ASSUME NEW u \in UserIds, r \in Sharers(u)' PROVE r \in Sharers(u)
    BY <1>1, <1>2 DEF Sharers
  <1>3. ASSUME NEW u \in UserIds, r \in Removers(u)' PROVE Sharers(u) = {}
    <2>1. call[r].kind = "delete_user" /\ call[r].target = u /\ stage \in {"cascade", "commit"}
      BY <1>1, <1>3 DEF Removers
    <2>2. pc[r] # "refresh"
      BY <2>1 DEF IInv, TaskLocks, RequestInv, StagesKept
    <2>3. CASE users[u] = NoRow
      <3>1. ASSUME NEW q \in Sharers(u) PROVE users[u] # NoRow
        BY DEF Sharers, IInv, TaskLocks, RequestInv, CreationReady, At
      <3>2. QED
        BY <2>3, <3>1
    <2>4. QED
      BY <2>1, <2>2, <2>3
  <1>4. QED
    BY <1>1, <1>2, <1>3, LocalStep

\* The end of a request, with its work rolled back.
LEMMA FailStep ==
    ASSUME IInv, NEW r \in Requests, NEW status \in Statuses, Fail(r, status)
    PROVE  IInv'
  <1>1. Close(r, status) /\ UNCHANGED <<users, tasks, born>>
    BY DEF Fail
  <1>t. /\ users' \in [UserIds -> Rows \cup {NoRow}]
        /\ tasks' \in [TaskIds -> TaskRows \cup {NoTask}]
        /\ born' \in SUBSET TaskIds
    BY <1>1 DEF IInv, TypeOK
  <1>2. /\ TypeOK'
        /\ pc'[r] = "idle" /\ call'[r] = NoCall /\ owned'[r] = {} /\ draft'[r] = NoDraft
        /\ OthersKept(r)
    <2>1. TypeOK
      BY DEF IInv
    <2>2. pc'[r] = "idle"
      BY <1>1, <2>1 DEF Close, TypeOK
    <2>3. QED
      BY <1>1, <1>t, <2>1, <2>2, CloseFrame
  <1>3. RequestInv(r)'
    BY <1>2 DEF RequestInv, StagesKept, DraftsCurrent, CreationReady, RemovalComplete,
           CallerAllowed, At, NoDraft, NoCall
  <1>4. \A t \in TaskIds : draft'[r][t] = Unwritten
    BY <1>2 DEF NoDraft
  <1>5. \A u \in UserIds : r \notin Sharers(u)' /\ r \notin Removers(u)'
    BY <1>2 DEF Sharers, Removers
  <1>6. QED
    BY <1>1, <1>2, <1>3, <1>4, <1>5, LocalStep DEF IInv

\* What the invariant says of one request, for the proofs of its own steps.
LEMMA OwnPart ==
    ASSUME IInv, NEW r \in Requests
    PROVE  /\ TypeOK /\ StagesKept(r) /\ DraftsCurrent(r) /\ CreationReady(r)
           /\ RemovalComplete(r) /\ CallerAllowed(r)
           /\ draft[r] \in [TaskIds -> TaskRows \cup {NoTask, Unwritten}]
           /\ me[r] \in Rows \cup {NoRow} /\ owned[r] \in SUBSET TaskIds
  BY DEF IInv, TaskLocks, RequestInv, TypeOK

\* The dependencies let a request pass with the row of its caller.
LEMMA DependencyStep ==
    ASSUME IInv, NEW r \in Requests, GetCurrentActiveUser(r) \/ GetOptionalUser(r)
    PROVE  IInv'
  <1> DEFINE u == call[r].token
  <1>1. pc[r] = "start" /\ call[r].kind \in {"create", "get", "update", "delete", "delete_user"}
    BY DEF GetCurrentActiveUser, GetOptionalUser, At
  <1>2. u \in UserIds \cup {NoUser}
    BY <1>1, CallType DEF IInv
  <1>3. /\ draft[r] = NoDraft /\ owned[r] = {} /\ TypeOK /\ call[r] # NoCall
    BY <1>1, OwnPart DEF StagesKept
  <1>4. ASSUME NEW row \in Rows \cup {NoRow}, NEW stage \in {"flush", "handler"},
               LoadMe(r, row, stage),
               call[r].kind = "create" <=> stage = "flush",
               call[r].kind # "get" => /\ u \in UserIds /\ row # NoRow /\ row.is_active
                                       /\ call[r].kind = "delete_user" => row.role = "admin"
        PROVE  IInv'
    <2>1. TypeOK' /\ Goes(r, stage, row, owned[r], draft[r])
      BY <1>3, <1>4, LoadMeFrame DEF Stages
    <2>2. /\ pc'[r] = stage /\ call' = call /\ me'[r] = row /\ owned'[r] = {}
          /\ draft'[r] = NoDraft
      BY <1>3, <2>1 DEF Goes, TypeOK
    <2>3. RequestInv(r)'
      BY <1>1, <1>3, <1>4, <2>2
      DEF RequestInv, StagesKept, DraftsCurrent, CreationReady, RemovalComplete,
          CallerAllowed, At, NoDraft
    <2>4. NoOrphans' /\ TaskLocks'
      BY <1>4, <2>1, <2>3, ReadStep DEF Stages
    <2>5. QED
      BY <2>1, <2>4 DEF IInv
  <1>5. CASE GetOptionalUser(r)
    <2>1. (IF u = NoUser THEN NoRow ELSE users[u]) \in Rows \cup {NoRow}
      BY <1>2, <1>3 DEF TypeOK
    <2>2. QED
      BY <1>4, <1>5, <2>1 DEF GetOptionalUser, At
  <1>6. CASE GetCurrentActiveUser(r)
    <2>1. ASSUME u # NoUser, users[u] # NoRow, users[u].is_active,
                 call[r].kind = "delete_user" => users[u].role = "admin",
                 LoadMe(r, users[u], IF call[r].kind = "create" THEN "flush" ELSE "handler")
          PROVE  IInv'
      <3>1. u \in UserIds /\ users[u] \in Rows
        BY <1>2, <1>3, <2>1 DEF TypeOK
      <3>2. QED
        BY <1>1, <1>4, <1>6, <2>1, <3>1 DEF GetCurrentActiveUser, At
    <2>2. QED
      BY <1>6, <2>1, FailStep DEF GetCurrentActiveUser, Statuses
  <1>7. QED
    BY <1>5, <1>6

\* The steps before the flush, and the SELECT after it, only read.
LEMMA FindStep ==
    ASSUME IInv, NEW r \in Requests,
           GetTask(r) \/ FindTask(r) \/ RefreshTask(r) \/ FindUser(r)
    PROVE  IInv'
  <1>t. TypeOK /\ call[r] # NoCall
    BY OwnPart DEF GetTask, FindTask, RefreshTask, FindUser, At, StagesKept
  <1>1. ASSUME NEW stage \in Stages \ {"tasks"},
               \/ Goto(r, stage)
               \/ \E row \in TaskRows \cup {NoTask} : LoadTask(r, row, stage),
               RequestInv(r)',
               call[r].kind \in {"create", "delete_user"} =>
                   pc[r] = "refresh" \/ stage = "owned"
        PROVE  IInv'
    <2>1. TypeOK' /\ Goes(r, stage, me[r], owned[r], draft[r])
      BY <1>1, <1>t, GotoFrame, LoadTaskFrame
    <2>2. call[r].kind \in {"create", "delete_user"} /\ stage \in {"refresh", "cascade", "commit"}
              => pc[r] = "refresh"
      BY <1>1
    <2>3. NoOrphans' /\ TaskLocks'
      <3>1. stage \in Stages /\ RequestInv(r)' /\ Goes(r, stage, me[r], owned[r], draft[r])
        BY <1>1, <2>1
      <3>2. QED
        BY <2>2, <3>1, ReadStep
    <2>4. QED
      BY <2>1, <2>3 DEF IInv
  <1>2. ASSUME NEW stage \in Stages,
               Goto(r, stage) \/ \E row \in TaskRows \cup {NoTask} : LoadTask(r, row, stage)
        PROVE  pc'[r] = stage /\ UNCHANGED <<users, tasks, born, call, me, owned, draft>>
    BY <1>2, <1>t DEF Goto, LoadTask, TypeOK
  <1> USE DEF RequestInv, Stages, At, Statuses
  <1>3. CASE GetTask(r)
    <2>1. call[r].kind = "get" /\ pc[r] = "handler" /\ call[r].task \in TaskIds
      BY <1>3, <1>t, CallType DEF GetTask
    <2>2. ASSUME LoadTask(r, tasks[call[r].task], "commit") PROVE IInv'
      <3>1. tasks[call[r].task] \in TaskRows \cup {NoTask}
        BY <2>1, <1>t DEF TypeOK
      <3>2. RequestInv(r)'
        BY <2>1, <2>2, <3>1, <1>2, <1>t, OwnPart
        DEF StagesKept, DraftsCurrent, CreationReady, RemovalComplete, CallerAllowed, NoDraft
      <3>3. QED
        BY <2>1, <2>2, <3>1, <3>2, <1>1
    <2>3. QED
      BY <1>3, <2>2, FailStep DEF GetTask
  <1>4. CASE FindTask(r)
    <2>1. call[r].kind \in {"update", "delete"} /\ pc[r] = "handler" /\ call[r].task \in TaskIds
      BY <1>4, <1>t, CallType DEF FindTask
    <2>2. ASSUME LoadTask(r, tasks[call[r].task], "flush"), tasks[call[r].task] # NoTask,
                 MayChange(r, tasks[call[r].task])
          PROVE  IInv'
      <3>1. tasks[call[r].task] \in TaskRows \cup {NoTask}
        BY <2>1, <1>t DEF TypeOK
      <3>2. me[r].role = "admin" \/ OfOrGone(call[r].task, call[r].token)
        BY <2>1, <2>2 DEF MayChange, OfOrGone, IInv, TaskLocks
      <3>3. RequestInv(r)'
        BY <2>1, <2>2, <3>1, <3>2, <1>2, <1>t, OwnPart
        DEF StagesKept, DraftsCurrent, CreationReady, RemovalComplete, CallerAllowed, NoDraft,
            OfOrGone
      <3>4. QED
        BY <2>1, <2>2, <3>1, <3>3, <1>1
    <2>3. QED
      BY <1>4, <2>2, FailStep DEF FindTask
  <1>5. CASE RefreshTask(r)
    <2>1. call[r].kind \in {"create", "update"} /\ pc[r] = "refresh"
      BY <1>5, OwnPart DEF RefreshTask, StagesKept
    <2>2. ASSUME NEW row \in TaskRows \cup {NoTask}, LoadTask(r, row, "commit") PROVE IInv'
      <3>k. pc'[r] = "commit" /\ UNCHANGED <<users, tasks, born, call, me, owned, draft>>
        BY <2>2, <1>2
      <3>1. RequestInv(r)'
        <4>1. StagesKept(r)' /\ RemovalComplete(r)'
          BY <2>1, <3>k, OwnPart DEF StagesKept, RemovalComplete
        <4>2. DraftsCurrent(r)'
          BY <3>k, OwnPart DEF DraftsCurrent, PatchOf
        <4>3. CreationReady(r)'
          BY <2>1, <3>k, OwnPart DEF CreationReady
        <4>4. CallerAllowed(r)'
          BY <2>1, <3>k, OwnPart DEF CallerAllowed, OfOrGone
        <4>5. QED
          BY <4>1, <4>2, <4>3, <4>4
      <3>2. QED
        BY <2>1, <2>2, <3>1, <1>1
    <2>3. CASE \E t \in TaskIds : draft[r][t] # Unwritten /\ LoadTask(r, draft[r][t], "commit")
      BY <2>2, <2>3, OwnPart
    <2>4. CASE /\ \A t \in TaskIds : draft[r][t] = Unwritten
               /\ tasks[call[r].task] # NoTask /\ LoadTask(r, tasks[call[r].task], "commit")
      <3>1. call[r].kind = "update"
        <4> SUFFICES ASSUME call[r].kind = "create" PROVE FALSE
          BY <2>1
        <4>1. PICK t \in TaskIds, row \in TaskRows : draft[r] = [NoDraft EXCEPT ![t] = row]
          BY <2>1, OwnPart DEF CreationReady
        <4>2. draft[r][t] = row
          BY <4>1 DEF NoDraft
        <4>3. QED
          BY <4>2, <2>4, TaskSentinelAssumption
      <3>2. tasks[call[r].task] \in TaskRows \cup {NoTask}
        BY <3>1, <1>t, CallType DEF TypeOK
      <3>3. QED
        BY <2>2, <2>4, <3>2
    <2>5. QED
      BY <1>5, <2>3, <2>4, FailStep DEF RefreshTask
  <1>6. CASE FindUser(r)
    <2>1. call[r].kind = "delete_user" /\ pc[r] = "handler"
      BY <1>6 DEF FindUser
    <2>2. ASSUME Goto(r, "owned") PROVE IInv'
      <3>1. RequestInv(r)'
        BY <2>1, <2>2, <1>2, <1>t, OwnPart
        DEF StagesKept, DraftsCurrent, CreationReady, RemovalComplete, CallerAllowed, NoDraft
      <3>2. QED
        BY <2>1, <2>2, <3>1, <1>1
    <2>3. QED
      BY <1>6, <2>2, FailStep DEF FindUser
  <1>7. QED
    BY <1>3, <1>4, <1>5, <1>6

-----------------------------------------------------------------------------
(***************************************************************************)
(* The steps that write.                                                   *)
(***************************************************************************)

\* Whom the statements wait for, stage by stage.
LEMMA AwaitedAt ==
    ASSUME NEW r \in Requests
    PROVE  /\ At(r, "flush", {"create"}) => Awaited(r) = Removers(call[r].token)
           /\ At(r, "flush", {"update", "delete"}) => Awaited(r) = Holders(r, call[r].task)
           /\ pc[r] = "tasks" => Awaited(r) = UNION {Holders(r, t) : t \in NextOwned(r)}
           /\ pc[r] = "row" =>
                 Awaited(r) = Sharers(call[r].target) \cup Removers(call[r].target)
           /\ pc[r] = "cascade" =>
                 Awaited(r) = UNION {Holders(r, t) : t \in TasksOf(call[r].target)}
           /\ pc[r] \notin {"flush", "tasks", "row", "cascade"} => Awaited(r) = {}
  BY DEF Awaited, At

\* A statement that writes a task which no other transaction has written, at a stage
\* at which it is neither a key share nor a removal that has begun.
LEMMA WriteStep ==
    ASSUME IInv, NEW r \in Requests, NEW stage \in Stages, NEW t \in TaskIds,
           NEW row \in TaskRows \cup {NoTask}, Write(r, t, row, stage),
           Holders(r, t) = {}, RequestInv(r)',
           call[r].kind # "delete_user",
           call[r].kind = "create" => Removers(call[r].token) = {}
    PROVE  IInv'
  <1>1. TypeOK' /\ Goes(r, stage, me[r], owned[r], [draft[r] EXCEPT ![t] = row])
    BY WriteFrame DEF IInv
  <1>2. /\ OthersKept(r) /\ UNCHANGED <<users, tasks, born, call>>
        /\ draft'[r] = [draft[r] EXCEPT ![t] = row]
    BY <1>1 DEF Goes
  <1>3. \A s \in TaskIds : draft'[r][s] # Unwritten => draft[r][s] # Unwritten \/ Holders(r, s) = {}
    BY <1>2, OwnPart
  <1>4. ASSUME NEW u \in UserIds, r \in Sharers(u)' PROVE Removers(u) = {}
    BY <1>2, <1>4 DEF Sharers
  <1>5. \A u \in UserIds : r \notin Removers(u)'
    BY <1>2 DEF Removers
  <1>6. QED
    BY <1>1, <1>2, <1>3, <1>4, <1>5, LocalStep DEF IInv

\* A creation takes a new id; its key share keeps the owner.
LEMMA CreateStep ==
    ASSUME IInv, NEW r \in Requests, CreateTask(r)
    PROVE  IInv'
  <1> DEFINE c == call[r]
             row == [owner_id |-> c.token, title |-> c.title, is_public |-> c.is_public]
  <1>1. At(r, "flush", {"create"}) /\ pc[r] = "flush" /\ c.kind = "create"
    BY DEF CreateTask, At
  <1>2. draft[r] = NoDraft /\ owned[r] = {} /\ c.token \in UserIds
        /\ me[r] # NoRow /\ me[r].is_active /\ c # NoCall
    BY <1>1, OwnPart DEF StagesKept, CallerAllowed
  <1>3. row \in TaskRows
    BY <1>1, <1>2, CallType DEF TaskRows, IInv
  <1>4. CASE Fail(r, 409)
    BY <1>4, FailStep DEF Statuses
  <1>5. ASSUME users[c.token] # NoRow, Awaited(r) = {}, NEW t \in TaskIds \ born,
               Holders(r, t) = {}, Write(r, t, row, "refresh")
        PROVE  IInv'
    <2>1. Removers(c.token) = {}
      BY <1>1, <1>5, AwaitedAt
    <2>2. Goes(r, "refresh", me[r], owned[r], [draft[r] EXCEPT ![t] = row])
      BY <1>3, <1>5, WriteFrame DEF IInv, Stages
    <2>3. /\ pc'[r] = "refresh" /\ call' = call /\ me'[r] = me[r] /\ owned'[r] = {}
          /\ draft'[r] = [NoDraft EXCEPT ![t] = row]
          /\ UNCHANGED <<users, tasks, born>>
      BY <1>2, <2>2 DEF Goes, IInv, TypeOK
    <2>4. row.owner_id = c.token
      OBVIOUS
    <2> HIDE DEF row
    <2>5. \A s \in TaskIds : draft'[r][s] # Unwritten => s = t
      BY <2>3 DEF NoDraft
    <2>6. DraftsCurrent(r)'
      BY <1>1, <1>5, <2>3, <2>5 DEF DraftsCurrent
    <2>7. StagesKept(r)' /\ RemovalComplete(r)'
      BY <1>1, <1>2, <2>3 DEF StagesKept, RemovalComplete, At
    <2>8. CreationReady(r)'
      BY <1>3, <1>5, <2>3, <2>4 DEF CreationReady
    <2>9. CallerAllowed(r)'
      BY <1>1, <1>2, <2>3 DEF CallerAllowed
    <2>10. RequestInv(r)'
      BY <2>6, <2>7, <2>8, <2>9 DEF RequestInv
    <2>11. QED
      BY <1>1, <1>3, <1>5, <2>1, <2>10, WriteStep DEF Stages
  <1>6. QED
    BY <1>4, <1>5 DEF CreateTask, OwnerGone

\* A patch without nulls turns a row of a task into another of the same owner, and
\* touches the columns it names only.
LEMMA PatchedRow ==
    ASSUME NEW p \in Patches, ~ HasNull(p), NEW seen, NEW row \in TaskRows
    PROVE  PatchOf(p, row, Patched(p, seen, row))
  <1> DEFINE title == Assigned(p.title, seen.title, row.title)
             public == Assigned(p.is_public, seen.is_public, row.is_public)
  <1>1. title \in Titles /\ title \in {row.title, p.title}
    BY DEF Patches, HasNull, TaskRows, Assigned
  <1>2. public \in BOOLEAN /\ public \in {row.is_public, p.is_public}
    BY DEF Patches, HasNull, TaskRows, Assigned
  <1>3. Patched(p, seen, row) = [[row EXCEPT !.title = title] EXCEPT !.is_public = public]
    BY DEF Patched
  <1> HIDE DEF title, public
  <1>4. QED
    BY <1>1, <1>2, <1>3 DEF TaskRows, PatchOf

\* An update or a deletion holds the lock of the row it writes.
LEMMA ChangeStep ==
    ASSUME IInv, NEW r \in Requests, UpdateTask(r) \/ DeleteTask(r)
    PROVE  IInv'
  <1> DEFINE t == call[r].task
  <1>1. /\ pc[r] = "flush" /\ call[r].kind \in {"update", "delete"}
        /\ At(r, "flush", {"update", "delete"})
    BY DEF UpdateTask, DeleteTask, At
  <1>2. /\ draft[r] = NoDraft /\ owned[r] = {} /\ call[r] # NoCall
        /\ t \in TaskIds /\ tasks[t] \in TaskRows \cup {NoTask} /\ TypeOK
    BY <1>1, OwnPart, CallType DEF StagesKept, IInv, TypeOK
  <1>3. ASSUME NEW stage \in {"refresh", "commit"}, Goto(r, stage),
               stage = "refresh" => call[r].kind = "update"
        PROVE  IInv'
    <2>1. TypeOK' /\ Goes(r, stage, me[r], owned[r], draft[r])
      BY <1>2, <1>3, GotoFrame DEF Stages
    <2>2. pc'[r] = stage /\ UNCHANGED <<users, tasks, born, call, me, owned, draft>>
      BY <1>2, <1>3 DEF Goto, TypeOK
    <2>3. StagesKept(r)' /\ RemovalComplete(r)' /\ CreationReady(r)'
      BY <1>1, <1>2, <1>3, <2>2 DEF StagesKept, RemovalComplete, CreationReady, At
    <2>4. DraftsCurrent(r)'
      BY <1>2, <2>2 DEF DraftsCurrent, NoDraft
    <2>5. CallerAllowed(r)'
      BY <1>1, <2>2, OwnPart DEF CallerAllowed, OfOrGone
    <2>6. QED
      BY <1>1, <1>3, <2>1, <2>3, <2>4, <2>5, ReadStep DEF RequestInv, IInv, Stages
  <1>4. ASSUME tasks[t] # NoTask, Awaited(r) = {}, NEW row \in TaskRows \cup {NoTask},
               NEW stage \in {"refresh", "commit"}, Write(r, t, row, stage),
               \/ call[r].kind = "update" /\ PatchOf(call[r].patch, tasks[t], row)
               \/ call[r].kind = "delete" /\ row = NoTask /\ stage = "commit"
        PROVE  IInv'
    <2>1. Holders(r, t) = {}
      BY <1>1, <1>4, AwaitedAt
    <2>2. Goes(r, stage, me[r], owned[r], [draft[r] EXCEPT ![t] = row])
      <3>1. stage \in Stages
        BY <1>4 DEF Stages
      <3> HIDE DEF t
      <3>2. QED
        BY <1>2, <1>4, <3>1, WriteFrame
    <2>3. /\ pc'[r] = stage /\ call' = call /\ me'[r] = me[r] /\ owned'[r] = {}
          /\ draft'[r] = [NoDraft EXCEPT ![t] = row]
          /\ UNCHANGED <<users, tasks, born>>
      BY <1>2, <2>2 DEF Goes, TypeOK
    <2>4. StagesKept(r)' /\ RemovalComplete(r)' /\ CreationReady(r)'
      BY <1>1, <1>2, <1>4, <2>3 DEF StagesKept, RemovalComplete, CreationReady, At
    <2>5. draft'[r][t] = row /\ \A s \in TaskIds : s # t => draft'[r][s] = Unwritten
      BY <1>2, <2>3 DEF NoDraft
    <2>6. DraftsCurrent(r)'
      BY <1>4, <2>3, <2>5 DEF DraftsCurrent, PatchOf
    <2>7. CallerAllowed(r)'
      BY <1>1, <1>2, <2>3, OwnPart DEF CallerAllowed, OfOrGone
    <2>8. QED
      BY <1>1, <1>2, <1>4, <2>1, <2>4, <2>6, <2>7, WriteStep DEF RequestInv, Stages
  <1>5. CASE DeleteTask(r)
    <2>1. call[r].kind = "delete"
      BY <1>5 DEF DeleteTask, At
    <2>2. \/ Goto(r, "commit")
          \/ tasks[t] # NoTask /\ Awaited(r) = {} /\ Write(r, t, NoTask, "commit")
      BY <1>5 DEF DeleteTask
    <2>3. QED
      BY <1>3, <1>4, <2>1, <2>2
  <1>6. CASE UpdateTask(r)
    <2> DEFINE p == call[r].patch
    <2>1. call[r].kind = "update" /\ p \in Patches
      BY <1>2, <1>6, CallType DEF UpdateTask, At
    <2>2. ASSUME HasNull(p) => tasks[t] = NoTask,
                 WriteTask(r, Patched(p, loaded[r], tasks[t]))
          PROVE  IInv'
      <3>1. CASE tasks[t] = NoTask
        BY <2>2, <3>1, FailStep DEF WriteTask, Statuses
      <3>2. CASE tasks[t] # NoTask
        <4>1. PatchOf(p, tasks[t], Patched(p, loaded[r], tasks[t]))
          BY <1>2, <2>1, <2>2, <3>2, PatchedRow
        <4>2. Patched(p, loaded[r], tasks[t]) \in TaskRows
          BY <4>1 DEF PatchOf
        <4>3. QED
          BY <1>4, <2>1, <2>2, <3>2, <4>1, <4>2 DEF WriteTask
      <3>3. QED
        BY <3>1, <3>2
    <2>3. QED
      BY <1>3, <1>6, <2>1, <2>2, FailStep DEF UpdateTask, Statuses
  <1>7. QED
    BY <1>5, <1>6

\* The deletion of a user: his tasks are loaded, deleted one by one under their locks,
\* then his row, then what he has created meanwhile.
LEMMA RemovalStep ==
    ASSUME IInv, NEW r \in Requests,
           LoadOwned(r) \/ DeleteOwned(r) \/ DeleteUserRow(r) \/ Cascade(r)
    PROVE  IInv'
  <1> DEFINE u == call[r].target
  <1>1. pc[r] \in {"owned", "tasks", "row", "cascade"}
    BY DEF LoadOwned, DeleteOwned, DeleteUserRow, Cascade
  <1>2. TypeOK /\ call[r].kind = "delete_user" /\ call[r] # NoCall /\ u \in UserIds
    BY <1>1, OwnPart, CallType DEF StagesKept
  <1>3. /\ call[r].token \in UserIds /\ me[r] # NoRow /\ me[r].is_active
        /\ me[r].role = "admin" /\ \A t \in owned[r] : OfOrGone(t, u)
    BY <1>1, <1>2, OwnPart DEF CallerAllowed
  <1>4. \A t \in TaskIds : draft[r][t] # Unwritten =>
            tasks[t] # NoTask /\ tasks[t].owner_id = u /\ draft[r][t] = NoTask
    BY <1>2, OwnPart DEF DraftsCurrent
  <1>c. ASSUME pc'[r] \in {"tasks", "row", "cascade", "commit"},
               UNCHANGED <<users, tasks, born, call, me>>,
               pc'[r] # "tasks" => owned'[r] = {},
               \A t \in owned'[r] : OfOrGone(t, u),
               \A t \in TaskIds : draft'[r][t] # Unwritten =>
                   tasks[t] # NoTask /\ tasks[t].owner_id = u /\ draft'[r][t] = NoTask,
               pc'[r] = "commit" => \A t \in TasksOf(u) : draft'[r][t] = NoTask
        PROVE  RequestInv(r)'
    <2>1. StagesKept(r)' /\ CreationReady(r)' /\ RemovalComplete(r)'
      BY <1>2, <1>c DEF StagesKept, CreationReady, RemovalComplete, At, TasksOf
    <2>2. DraftsCurrent(r)'
      BY <1>2, <1>c DEF DraftsCurrent
    <2>3. CallerAllowed(r)'
      BY <1>2, <1>3, <1>c DEF CallerAllowed, OfOrGone
    <2>4. QED
      BY <2>1, <2>2, <2>3 DEF RequestInv
  <1>5. CASE LoadOwned(r)
    <2>1. TasksOf(u) \in SUBSET TaskIds
      BY DEF TasksOf
    <2>2. TypeOK' /\ Goes(r, "tasks", me[r], TasksOf(u), draft[r])
      BY <1>2, <1>5, <2>1 DEF LoadOwned, TypeOK, Goes, OthersKept, Stages
    <2>3. pc'[r] = "tasks" /\ owned'[r] = TasksOf(u)
          /\ UNCHANGED <<users, tasks, born, call, me, draft>>
      BY <1>2, <1>5 DEF LoadOwned, TypeOK
    <2>4. \A t \in TasksOf(u) : OfOrGone(t, u)
      BY DEF TasksOf, OfOrGone, IInv, TaskLocks
    <2>5. RequestInv(r)'
      BY <2>3, <2>4, <1>4, <1>c
    <2>6. QED
      BY <2>2, <2>5, ReadStep DEF Stages, IInv
  <1>6. CASE DeleteOwned(r)
    <2>1. CASE Goto(r, "row") /\ owned[r] = {}
      <3>1. TypeOK' /\ Goes(r, "row", me[r], owned[r], draft[r])
        BY <1>2, <2>1, GotoFrame DEF Stages
      <3>2. pc'[r] = "row" /\ UNCHANGED <<users, tasks, born, call, me, owned, draft>>
        BY <1>2, <2>1 DEF Goto, TypeOK
      <3>3. RequestInv(r)'
        BY <2>1, <3>2, <1>4, <1>c
      <3>4. QED
        BY <3>1, <3>3, ReadStep DEF Stages, IInv
    <2>2. CASE ~ (Goto(r, "row") /\ owned[r] = {})
      <3>1. PICK t \in NextOwned(r) :
                /\ Awaited(r) = {}
                /\ owned' = [owned EXCEPT ![r] = @ \ {t}]
                /\ draft' = IF tasks[t] = NoTask THEN draft
                            ELSE [draft EXCEPT ![r] = [@ EXCEPT ![t] = NoTask]]
                /\ UNCHANGED <<users, tasks, born, pc, call, me, loaded, reply>>
        BY <1>6, <2>2 DEF DeleteOwned
      <3>2. pc[r] = "tasks" /\ t \in owned[r] /\ t \in TaskIds
        BY <1>6, OwnPart DEF DeleteOwned, NextOwned
      <3>3. Holders(r, t) = {}
        BY <3>1, <3>2, AwaitedAt
      <3>4. TypeOK'
        BY <1>2, <3>1, <3>2 DEF TypeOK
      <3>5. /\ OthersKept(r) /\ pc'[r] = "tasks" /\ owned'[r] = owned[r] \ {t}
            /\ \A s \in TaskIds : \/ draft'[r][s] = draft[r][s]
                                  \/ s = t /\ tasks[t] # NoTask /\ draft'[r][s] = NoTask
        BY <1>2, <3>1, <3>2 DEF OthersKept, TypeOK
      <3>6. tasks[t] # NoTask => tasks[t].owner_id = u
        BY <1>3, <3>2 DEF OfOrGone
      <3>7. RequestInv(r)'
        BY <1>3, <1>4, <3>1, <3>5, <3>6, <1>c
      <3>8. \A v \in UserIds : r \notin Sharers(v)' /\ r \notin Removers(v)'
        BY <3>5 DEF Sharers, Removers
      <3>9. QED
        BY <3>1, <3>3, <3>4, <3>5, <3>7, <3>8, LocalStep DEF IInv
    <2>3. QED
      BY <2>1, <2>2
  <1>7. CASE DeleteUserRow(r)
    <2>o. pc[r] = "row" /\ owned[r] = {}
      BY <1>7, OwnPart DEF DeleteUserRow, StagesKept
    <2>1. ASSUME NEW stage \in {"commit", "cascade"}, Goto(r, stage),
                 stage = "commit" => users[u] = NoRow,
                 stage = "cascade" => Sharers(u) = {}
          PROVE  IInv'
      <3>1. TypeOK' /\ Goes(r, stage, me[r], owned[r], draft[r])
        BY <1>2, <2>1, GotoFrame DEF Stages
      <3>2. pc'[r] = stage /\ UNCHANGED <<users, tasks, born, call, me, owned, draft>>
        BY <1>2, <2>1 DEF Goto, TypeOK
      <3>3. stage = "commit" => TasksOf(u) = {}
        BY <2>1 DEF TasksOf, IInv, NoOrphans
      <3>4. RequestInv(r)'
        BY <2>1, <2>o, <3>2, <3>3, <1>4, <1>c
      <3>5. QED
        BY <1>2, <2>1, <3>1, <3>4, ReadStep DEF Stages, IInv
    <2>2. Awaited(r) = {} => Sharers(u) = {}
      BY <2>o, AwaitedAt
    <2>3. QED
      BY <1>7, <2>1, <2>2 DEF DeleteUserRow
  <1>8. CASE Cascade(r)
    <2>1. /\ pc[r] = "cascade" /\ Awaited(r) = {} /\ owned[r] = {}
          /\ draft' = [draft EXCEPT ![r] =
                 [t \in TaskIds |-> IF t \in TasksOf(u) THEN NoTask ELSE draft[r][t]]]
          /\ pc' = [pc EXCEPT ![r] = "commit"]
          /\ UNCHANGED <<users, tasks, born, call, me, loaded, owned, reply>>
      BY <1>8, OwnPart DEF Cascade, StagesKept
    <2>2. \A t \in TasksOf(u) : Holders(r, t) = {}
      BY <2>1, AwaitedAt
    <2>3. TypeOK' /\ OthersKept(r) /\ pc'[r] = "commit"
          /\ \A t \in TaskIds : draft'[r][t] = IF t \in TasksOf(u) THEN NoTask ELSE draft[r][t]
      BY <1>2, <2>1, OwnPart DEF TypeOK, OthersKept, Stages
    <2>4. \A t \in TasksOf(u) : t \in TaskIds /\ tasks[t] # NoTask /\ tasks[t].owner_id = u
      BY DEF TasksOf
    <2>5. RequestInv(r)'
      BY <1>4, <2>1, <2>3, <2>4, <1>c
    <2>6. \A v \in UserIds : /\ r \notin Sharers(v)'
                             /\ r \in Removers(v)' => r \in Removers(v)
      BY <1>2, <2>1, <2>3 DEF Sharers, Removers
    <2>7. QED
      BY <2>1, <2>2, <2>3, <2>5, <2>6, LocalStep DEF IInv
  <1>9. QED
    BY <1>5, <1>6, <1>7, <1>8

-----------------------------------------------------------------------------
(***************************************************************************)
(* Commits, arrivals and faults.                                           *)
(***************************************************************************)

\* What a commit makes of the tables: a task keeps its owner, is deleted, or is new
\* and of the caller.
LEMMA EffectTables ==
    ASSUME IInv, NEW r \in Requests, pc[r] = "commit", Effect(r)
    PROVE  /\ \A t \in TaskIds :
                 /\ draft[r][t] = Unwritten => tasks'[t] = tasks[t]
                 /\ draft[r][t] # Unwritten => tasks'[t] = draft[r][t] /\ t \in born'
                 /\ tasks'[t] # NoTask =>
                       \/ tasks[t] # NoTask /\ tasks'[t].owner_id = tasks[t].owner_id
                       \/ /\ call[r].kind = "create" /\ t \notin born
                          /\ tasks'[t].owner_id = call[r].token
                          /\ users[call[r].token] # NoRow
           /\ born' = born \cup {t \in TaskIds : draft[r][t] # Unwritten}
           /\ \A u \in UserIds : users'[u] # users[u] =>
                 call[r].kind = "delete_user" /\ u = call[r].target /\ users'[u] = NoRow
           /\ call[r].kind = "delete_user" =>
                 \A t \in TasksOf(call[r].target) : tasks'[t] = NoTask
           /\ users' \in [UserIds -> Rows \cup {NoRow}]
           /\ tasks' \in [TaskIds -> TaskRows \cup {NoTask}]
           /\ born' \in SUBSET TaskIds
  <1>1. /\ TypeOK
        /\ tasks' = [t \in TaskIds |-> IF draft[r][t] = Unwritten THEN tasks[t] ELSE draft[r][t]]
        /\ born' = born \cup {t \in TaskIds : draft[r][t] # Unwritten}
        /\ users' = IF call[r].kind = "delete_user"
                    THEN [users EXCEPT ![call[r].target] = NoRow] ELSE users
    BY DEF Effect, IInv
  <1>2. \A t \in TaskIds : /\ draft[r][t] = Unwritten => tasks'[t] = tasks[t]
                           /\ draft[r][t] # Unwritten => tasks'[t] = draft[r][t] /\ t \in born'
    BY <1>1
  <1>3. ASSUME NEW t \in TaskIds, tasks'[t] # NoTask, draft[r][t] # Unwritten
        PROVE  \/ tasks[t] # NoTask /\ tasks'[t].owner_id = tasks[t].owner_id
               \/ /\ call[r].kind = "create" /\ t \notin born
                  /\ tasks'[t].owner_id = call[r].token
                  /\ users[call[r].token] # NoRow
    <2>1. CASE call[r].kind = "create"
      <3>1. PICK s \in TaskIds, row \in TaskRows :
                row.owner_id = call[r].token /\ draft[r] = [NoDraft EXCEPT ![s] = row]
        BY <2>1, OwnPart DEF CreationReady, At
      <3>2. users[call[r].token] # NoRow
        BY <2>1, OwnPart DEF CreationReady, At
      <3>3. t = s /\ draft[r][t] = row
        BY <1>3, <3>1 DEF NoDraft
      <3>4. t \notin born
        BY <1>3, <2>1, OwnPart DEF DraftsCurrent
      <3>5. QED
        BY <1>2, <1>3, <2>1, <3>1, <3>2, <3>3, <3>4
    <2>2. CASE call[r].kind # "create"
      BY <1>2, <1>3, <2>2, OwnPart DEF DraftsCurrent, PatchOf
    <2>3. QED
      BY <2>1, <2>2
  <1>4. call[r].kind = "delete_user" => \A t \in TasksOf(call[r].target) : tasks'[t] = NoTask
    BY <1>2, TaskSentinelAssumption, OwnPart DEF RemovalComplete, At, TasksOf
  <1>5. \A u \in UserIds : users'[u] # users[u] =>
            call[r].kind = "delete_user" /\ u = call[r].target /\ users'[u] = NoRow
    BY <1>1 DEF TypeOK
  <1>6. /\ users' \in [UserIds -> Rows \cup {NoRow}]
        /\ tasks' \in [TaskIds -> TaskRows \cup {NoTask}]
        /\ born' \in SUBSET TaskIds
    <2>1. users' \in [UserIds -> Rows \cup {NoRow}]
      BY <1>1 DEF TypeOK
    <2>2. ASSUME NEW t \in TaskIds
          PROVE  (IF draft[r][t] = Unwritten THEN tasks[t] ELSE draft[r][t])
                     \in TaskRows \cup {NoTask}
      BY <1>1 DEF TypeOK
    <2>3. tasks' \in [TaskIds -> TaskRows \cup {NoTask}]
      BY <1>1, <2>2
    <2>4. born' \in SUBSET TaskIds
      BY <1>1 DEF TypeOK
    <2>5. QED
      BY <2>1, <2>3, <2>4
  <1>7. QED
    BY <1>1, <1>2, <1>3, <1>4, <1>5, <1>6

\* A commit keeps the invariant: no other transaction has written what it publishes,
\* and no creation is under way of a user whom it deletes.
LEMMA EffectStep ==
    ASSUME IInv, NEW r \in Requests, pc[r] = "commit", Effect(r), OthersKept(r),
           draft'[r] = NoDraft, owned'[r] = {},
           \/ pc'[r] = "idle" /\ call'[r] = NoCall
           \/ pc'[r] = "respond" /\ call'[r] = call[r] /\ me'[r] = me[r]
    PROVE  NoOrphans' /\ TaskLocks'
  <1>e. /\ \A t \in TaskIds :
              /\ draft[r][t] = Unwritten => tasks'[t] = tasks[t]
              /\ draft[r][t] # Unwritten => t \in born'
              /\ tasks'[t] # NoTask =>
                    \/ tasks[t] # NoTask /\ tasks'[t].owner_id = tasks[t].owner_id
                    \/ /\ call[r].kind = "create" /\ t \notin born
                       /\ tasks'[t].owner_id = call[r].token
                       /\ users[call[r].token] # NoRow
        /\ born' = born \cup {t \in TaskIds : draft[r][t] # Unwritten}
        /\ \A u \in UserIds : users'[u] # users[u] =>
              call[r].kind = "delete_user" /\ u = call[r].target /\ users'[u] = NoRow
        /\ call[r].kind = "delete_user" =>
              \A t \in TasksOf(call[r].target) : tasks'[t] = NoTask
        /\ tasks' \in [TaskIds -> TaskRows \cup {NoTask}]
    BY EffectTables
  <1>p. \A q \in Requests \ {r} : \A t \in TaskIds :
            draft[q][t] = Unwritten \/ draft[r][t] = Unwritten
    BY DEF IInv, TaskLocks, OneWriterPerTask
  <1>o. \A q \in Requests \ {r} :
            /\ pc'[q] = pc[q] /\ call'[q] = call[q] /\ me'[q] = me[q]
            /\ owned'[q] = owned[q] /\ draft'[q] = draft[q]
    BY DEF OthersKept
  <1>1. NoOrphans'
    <2> SUFFICES ASSUME NEW t \in TaskIds, tasks'[t] # NoTask
                 PROVE  users'[tasks'[t].owner_id] # NoRow
      BY DEF NoOrphans
    <2>1. tasks'[t].owner_id \in UserIds
      BY <1>e DEF TaskRows
    <2>2. users[tasks'[t].owner_id] # NoRow
      BY <1>e DEF IInv, NoOrphans
    <2>3. CASE call[r].kind = "delete_user" /\ tasks'[t].owner_id = call[r].target
      <3>1. t \in TasksOf(call[r].target)
        BY <2>3, <1>e DEF TasksOf
      <3>2. QED
        BY <2>3, <3>1, <1>e
    <2>4. QED
      BY <2>1, <2>2, <2>3, <1>e
  <1>2. OneWriterPerTask'
    BY <1>o DEF IInv, TaskLocks, OneWriterPerTask, NoDraft
  <1>3. KeyShareExcludesRemoval'
    <2>1. \A u \in UserIds : Sharers(u)' \subseteq Sharers(u) /\ Removers(u)' \subseteq Removers(u)
      BY <1>o DEF Sharers, Removers
    <2>2. QED
      BY <2>1 DEF IInv, TaskLocks, KeyShareExcludesRemoval
  <1>4. \A t \in TaskIds : tasks'[t] # NoTask => t \in born'
    BY <1>e DEF IInv, TaskLocks
  <1>5. RequestInv(r)'
    <2>1. StagesKept(r)' /\ RemovalComplete(r)' /\ CreationReady(r)'
      BY OwnPart DEF StagesKept, RemovalComplete, CreationReady, At
    <2>2. DraftsCurrent(r)'
      BY DEF DraftsCurrent, NoDraft
    <2>3. CallerAllowed(r)'
      BY OwnPart DEF CallerAllowed, NoCall
    <2>4. QED
      BY <2>1, <2>2, <2>3 DEF RequestInv
  <1>6. ASSUME NEW q \in Requests, q # r PROVE RequestInv(q)'
    <2>i. /\ StagesKept(q) /\ DraftsCurrent(q) /\ CreationReady(q) /\ RemovalComplete(q)
          /\ CallerAllowed(q) /\ TypeOK
      BY OwnPart
    <2>q. /\ pc'[q] = pc[q] /\ call'[q] = call[q] /\ me'[q] = me[q]
          /\ owned'[q] = owned[q] /\ draft'[q] = draft[q]
      BY <1>6, <1>o
    <2>s. \A u \in UserIds : ~ (r \in Sharers(u) /\ q \in Removers(u))
                            /\ ~ (q \in Sharers(u) /\ r \in Removers(u))
      BY DEF IInv, TaskLocks, KeyShareExcludesRemoval
    <2>1. StagesKept(q)'
      BY <2>i, <2>q DEF StagesKept
    <2>2. DraftsCurrent(q)'
      <3> SUFFICES ASSUME NEW t \in TaskIds, draft[q][t] # Unwritten
                   PROVE  tasks'[t] = tasks[t] /\ (t \in born' <=> t \in born)
        BY <2>i, <2>q DEF DraftsCurrent
      <3>1. draft[r][t] = Unwritten
        BY <1>6, <1>p
      <3>2. QED
        BY <3>1, <1>e
    <2>3. CreationReady(q)'
      <3> SUFFICES ASSUME pc[q] \in {"refresh", "commit"}, call[q].kind = "create"
                   PROVE  CreationReady(q)'
        BY <2>q DEF CreationReady, At
      <3>1. call[q].token \in UserIds
        BY <2>i DEF CallerAllowed
      <3>2. users[call[q].token] # NoRow
        BY <2>i DEF CreationReady, At
      <3>3. q \in Sharers(call[q].token)
        BY DEF Sharers
      <3>4. ~ (call[r].kind = "delete_user" /\ call[r].target = call[q].token)
        BY <3>1, <3>3, <2>s DEF Removers
      <3>5. users'[call[q].token] # NoRow
        BY <3>1, <3>2, <3>4, <1>e
      <3>6. \E t \in TaskIds, row \in TaskRows :
                row.owner_id = call[q].token /\ draft[q] = [NoDraft EXCEPT ![t] = row]
        BY <2>i DEF CreationReady, At
      <3>7. PICK t \in TaskIds, row \in TaskRows :
                row.owner_id = call[q].token /\ draft[q] = [NoDraft EXCEPT ![t] = row]
        BY <3>6
      <3>8. row.owner_id = call'[q].token /\ draft'[q] = [NoDraft EXCEPT ![t] = row]
        BY <3>7, <2>q
      <3>9. users'[call'[q].token] # NoRow
        BY <3>5, <2>q
      <3>10. QED
        BY <3>8, <3>9 DEF CreationReady
    <2>4. RemovalComplete(q)'
      <3> SUFFICES ASSUME pc[q] = "commit", call[q].kind = "delete_user",
                          NEW t \in TaskIds, tasks'[t] # NoTask,
                          tasks'[t].owner_id = call[q].target
                   PROVE  draft[q][t] = NoTask
        BY <2>i, <2>q DEF RemovalComplete, At, TasksOf
      <3>1. call[q].target \in UserIds /\ q \in Removers(call[q].target)
        BY <2>i, CallType DEF Removers
      <3>2. ~ (call[r].kind = "create" /\ call[r].token = call[q].target)
        BY <3>1, <2>s DEF Sharers
      <3>3. tasks[t] # NoTask /\ tasks[t].owner_id = call[q].target
        BY <3>2, <1>e
      <3>4. QED
        BY <3>3, <2>i DEF RemovalComplete, At, TasksOf
    <2>5. CallerAllowed(q)'
      <3>1. ASSUME NEW t, NEW u, t \in TaskIds, OfOrGone(t, u) PROVE OfOrGone(t, u)'
        BY <3>1, <1>e DEF OfOrGone
      <3>2. \A t \in owned[q] : t \in TaskIds
        BY OwnPart
      <3>3. call[q].kind \in {"update", "delete"} => call[q].task \in TaskIds
        BY <2>i, CallType
      <3>4. QED
        BY <2>i, <2>q, <3>1, <3>2, <3>3 DEF CallerAllowed
    <2>6. QED
      BY <2>1, <2>2, <2>3, <2>4, <2>5 DEF RequestInv
  <1>7. QED
    BY <1>1, <1>2, <1>3, <1>4, <1>5, <1>6 DEF TaskLocks

\* The end of a request keeps the invariant.
LEMMA EndStep ==
    ASSUME IInv, NEW r \in Requests,
           Commit(r) \/ CommitUnacknowledged(r) \/ Respond(r) \/ AbortDeadlock(r)
           \/ ConnectionLost(r) \/ WorkerCrash(r)
    PROVE  IInv'
  <1>t. TypeOK
    BY DEF IInv
  <1>1. CASE Commit(r)
    <2>1. /\ users' \in [UserIds -> Rows \cup {NoRow}]
          /\ tasks' \in [TaskIds -> TaskRows \cup {NoTask}]
          /\ born' \in SUBSET TaskIds
      BY <1>1, EffectTables DEF Commit
    <2>2. TypeOK'
      BY <1>1, <1>t, <2>1 DEF Commit, TypeOK, NoDraft, Stages
    <2>3. /\ pc[r] = "commit" /\ Effect(r) /\ pc'[r] = "respond" /\ draft'[r] = NoDraft
          /\ call'[r] = call[r] /\ me'[r] = me[r] /\ owned'[r] = owned[r] /\ OthersKept(r)
      BY <1>1, <1>t DEF Commit, TypeOK, OthersKept
    <2>4. owned'[r] = {}
      BY <2>3, OwnPart DEF StagesKept
    <2>5. QED
      BY <2>2, <2>3, <2>4, EffectStep DEF IInv
  <1>2. CASE CommitUnacknowledged(r)
    <2>1. /\ users' \in [UserIds -> Rows \cup {NoRow}]
          /\ tasks' \in [TaskIds -> TaskRows \cup {NoTask}]
          /\ born' \in SUBSET TaskIds
      BY <1>2, EffectTables DEF CommitUnacknowledged
    <2>2. Close(r, 500) /\ 500 \in Statuses
      BY <1>2 DEF CommitUnacknowledged, Statuses
    <2>3. /\ pc' = [pc EXCEPT ![r] = "idle"] /\ call'[r] = NoCall /\ owned'[r] = {}
          /\ draft'[r] = NoDraft /\ OthersKept(r) /\ TypeOK'
      BY <1>t, <2>1, <2>2, CloseFrame
    <2>4. pc'[r] = "idle"
      BY <1>t, <2>3 DEF TypeOK
    <2>5. QED
      BY <1>2, <2>3, <2>4, EffectStep DEF IInv, CommitUnacknowledged
  <1>3. CASE Respond(r) \/ AbortDeadlock(r) \/ ConnectionLost(r) \/ WorkerCrash(r)
    <2>1. Fail(r, 201) \/ Fail(r, 200) \/ Fail(r, 500) \/ Fail(r, 0)
      BY <1>3 DEF Respond, AbortDeadlock, ConnectionLost, WorkerCrash
    <2>2. QED
      BY <2>1, FailStep DEF Statuses
  <1>4. QED
    BY <1>1, <1>2, <1>3

\* An arrival keeps it.
LEMMA ReceiveStep ==
    ASSUME IInv, NEW r \in Requests, Receive(r)
    PROVE  IInv'
  <1>1. PICK c \in Calls : call' = [call EXCEPT ![r] = c]
    BY DEF Receive
  <1>2. c \in AllCalls /\ c.kind # "none"
    BY TaskCallsAssumption DEF AllCalls
  <1>3. pc[r] = "idle" /\ draft[r] = NoDraft /\ owned[r] = {} /\ TypeOK
    BY OwnPart DEF Receive, StagesKept
  <1>4. TypeOK'
    BY <1>1, <1>2, <1>3 DEF Receive, TypeOK, Stages, Statuses
  <1>5. /\ OthersKept(r) /\ UNCHANGED <<users, tasks, born>>
        /\ pc'[r] = "start" /\ call'[r] = c /\ draft'[r] = NoDraft /\ owned'[r] = {}
    BY <1>1, <1>3 DEF Receive, TypeOK, OthersKept
  <1>6. RequestInv(r)'
    BY <1>2, <1>5 DEF RequestInv, StagesKept, DraftsCurrent, CreationReady, RemovalComplete,
                      CallerAllowed, At, NoDraft, NoCall
  <1>7. \A t \in TaskIds : draft'[r][t] = Unwritten
    BY <1>5 DEF NoDraft
  <1>8. \A u \in UserIds : r \notin Sharers(u)' /\ r \notin Removers(u)'
    BY <1>5 DEF Sharers, Removers
  <1>9. QED
    BY <1>4, <1>5, <1>6, <1>7, <1>8, LocalStep DEF IInv

\* What leaves requests and tasks alone, and removes no account, keeps the invariant.
LEMMA OutsideStep ==
    ASSUME IInv, UNCHANGED <<tasks, born, pc, call, me, owned, draft>>,
           \A u \in UserIds : users[u] # NoRow => users'[u] # NoRow
    PROVE  NoOrphans' /\ TaskLocks'
  <1>1. NoOrphans'
    BY DEF IInv, NoOrphans, TypeOK, TaskRows
  <1>2. OneWriterPerTask' /\ \A t \in TaskIds : tasks'[t] # NoTask => t \in born'
    BY DEF IInv, TaskLocks, OneWriterPerTask
  <1>3. KeyShareExcludesRemoval'
    BY DEF IInv, TaskLocks, KeyShareExcludesRemoval, Sharers, Removers
  <1>4. ASSUME NEW q \in Requests PROVE RequestInv(q)'
    <2>1. StagesKept(q)' /\ DraftsCurrent(q)'
      BY OwnPart DEF StagesKept, DraftsCurrent, PatchOf
    <2>2. CreationReady(q)'
      <3> SUFFICES ASSUME At(q, "refresh", {"create"}) \/ At(q, "commit", {"create"})
                   PROVE  CreationReady(q)'
        BY DEF CreationReady, At
      <3>1. users'[call[q].token] # NoRow
        BY OwnPart DEF CreationReady, CallerAllowed, At
      <3>2. \E t \in TaskIds, row \in TaskRows :
                row.owner_id = call[q].token /\ draft[q] = [NoDraft EXCEPT ![t] = row]
        BY OwnPart DEF CreationReady
      <3>3. QED
        BY <3>1, <3>2 DEF CreationReady, NoDraft
    <2>3. RemovalComplete(q)'
      BY OwnPart DEF RemovalComplete, At, TasksOf
    <2>4. CallerAllowed(q)'
      BY OwnPart DEF CallerAllowed, OfOrGone
    <2>5. QED
      BY <2>1, <2>2, <2>3, <2>4 DEF RequestInv
  <1>5. QED
    BY <1>1, <1>2, <1>3, <1>4 DEF TaskLocks

\* A change of an account keeps it: the account stays.
LEMMA ChangeAccountStep ==
    ASSUME IInv, ChangeAccount
    PROVE  IInv'
  <1>1. PICK c \in Changes : users[c.id] # NoRow /\ users' = [users EXCEPT ![c.id] = c.row]
    BY DEF ChangeAccount
  <1>2. c.id \in UserIds /\ c.row \in Rows /\ c.row # NoRow
    BY TaskCallsAssumption, TaskSentinelAssumption
  <1>3. UNCHANGED <<tasks, born, pc, call, me, loaded, owned, draft, reply>>
    BY DEF ChangeAccount
  <1>4. TypeOK'
    BY <1>1, <1>2, <1>3 DEF IInv, TypeOK
  <1>5. \A u \in UserIds : users[u] # NoRow => users'[u] # NoRow
    BY <1>1, <1>2 DEF IInv, TypeOK
  <1>6. QED
    BY <1>3, <1>4, <1>5, OutsideStep DEF IInv

\* Every step keeps the invariant.
LEMMA NextIInv == IInv /\ [Next]_vars => IInv'
  <1> SUFFICES ASSUME IInv, [Next]_vars PROVE IInv'
    OBVIOUS
  <1>1. ASSUME NEW r \in Requests, Progress(r) PROVE IInv'
    BY <1>1, DependencyStep, FindStep, CreateStep, ChangeStep, RemovalStep, EndStep
    DEF Progress
  <1>2. ASSUME NEW r \in Requests, Environment(r) PROVE IInv'
    BY <1>2, ReceiveStep, EndStep DEF Environment
  <1>3. CASE UNCHANGED vars
    <2>1. TypeOK'
      BY <1>3 DEF vars, IInv, TypeOK
    <2>2. QED
      BY <1>3, <2>1, OutsideStep DEF vars, IInv
  <1>4. QED
    BY <1>1, <1>2, <1>3, ChangeAccountStep DEF Next

\* The invariant holds in every reachable state, however requests interleave and
\* whatever fails.
THEOREM Invariance == Spec => []IInv
  BY InitIInv, NextIInv, PTL DEF Spec

\* Every variable keeps its type.
THEOREM TypeCorrect == Spec => []TypeOK
  BY Invariance, PTL DEF IInv

\* What is uncommitted fits what is committed: one writer per task, no removal of a user
\* who creates a task, and every draft made for the version it will replace.
THEOREM LocksCorrect == Spec => []TaskLocks
  BY Invariance, PTL DEF IInv

\* No task is ever without its owner, although a user may be deleted while he creates one
\* and the deletion loads his tasks before it locks him (user_service.py:142-144).
THEOREM TasksHaveOwners == Spec => []NoOrphans
  BY Invariance, PTL DEF IInv

-----------------------------------------------------------------------------
(***************************************************************************)
(* Changes of tasks, and refusals.                                         *)
(***************************************************************************)

\* Between its arrival and its commit a request only goes on, or is refused.
GoesOn(r) ==
    /\ pc[r] \notin {"idle", "respond"}
    /\ \E stage \in Stages \ {"idle", "respond"} : pc' = [pc EXCEPT ![r] = stage]
    /\ UNCHANGED <<users, tasks, born, call, reply>>

Refused(r) ==
    pc[r] \notin {"idle", "respond"} /\ \E code \in {400, 401, 403, 404, 409, 500} : Fail(r, code)

LEMMA ProgressForms ==
    ASSUME TypeOK, NEW r \in Requests, Progress(r)
    PROVE  GoesOn(r) \/ Refused(r) \/ Commit(r) \/ Respond(r)
  <1> USE DEF GoesOn, Refused, Stages, At
  <1>1. CASE GetCurrentActiveUser(r) \/ GetOptionalUser(r)
    BY <1>1 DEF GetCurrentActiveUser, GetOptionalUser, LoadMe
  <1>2. CASE GetTask(r) \/ FindTask(r) \/ RefreshTask(r) \/ FindUser(r)
    BY <1>2 DEF GetTask, FindTask, RefreshTask, FindUser, LoadTask, Goto
  <1>3. CASE CreateTask(r) \/ UpdateTask(r) \/ DeleteTask(r)
    BY <1>3 DEF CreateTask, UpdateTask, DeleteTask, WriteTask, Write, Goto
  <1>4. CASE LoadOwned(r) \/ DeleteUserRow(r) \/ Cascade(r)
    BY <1>4 DEF LoadOwned, DeleteUserRow, Cascade, Goto
  <1>5. CASE AbortDeadlock(r)
    <2>1. Awaited(r) # {}
      BY <1>5 DEF AbortDeadlock, Deadlocked
    <2>2. pc[r] \notin {"idle", "respond"}
      BY <2>1, AwaitedAt
    <2>3. QED
      BY <1>5, <2>2 DEF AbortDeadlock
  <1>6. CASE DeleteOwned(r)
    <2>1. pc' = [pc EXCEPT ![r] = "row"] \/ pc' = [pc EXCEPT ![r] = "tasks"]
      BY <1>6 DEF DeleteOwned, Goto, TypeOK
    <2>2. pc[r] = "tasks" /\ UNCHANGED <<users, tasks, born, call, reply>>
      BY <1>6 DEF DeleteOwned, Goto
    <2>3. QED
      BY <2>1, <2>2
  <1>7. QED
    BY <1>1, <1>2, <1>3, <1>4, <1>5, <1>6 DEF Progress

\* Only a commit changes a task, and only one that its request has written.
LEMMA TaskChange ==
    ASSUME IInv, Next, NEW t \in TaskIds, tasks'[t] # tasks[t]
    PROVE  \E r \in Requests :
               pc[r] = "commit" /\ Effect(r) /\ Commits(r) /\ draft[r][t] # Unwritten
  <1>1. PICK r \in Requests : Progress(r) \/ Environment(r)
    BY DEF Next, ChangeAccount
  <1>2. Commit(r) \/ CommitUnacknowledged(r)
    BY <1>1, ProgressForms DEF IInv, GoesOn, Refused, Respond, Fail, Environment, Receive,
       ConnectionLost, WorkerCrash
  <1>3. pc[r] = "commit" /\ Effect(r) /\ pc'[r] # "commit"
    BY <1>2 DEF Commit, CommitUnacknowledged, Close, IInv, TypeOK
  <1>4. draft[r][t] # Unwritten
    BY <1>3, EffectTables
  <1>5. QED
    BY <1>3, <1>4 DEF Commits, NoDraft

\* Only its owner, an administrator, or the deletion of its owner changes a task, judged
\* by a row that was loaded before the request waited for its locks.
THEOREM ChangesAllowed == Spec => OwnerOrAdmin
  <1>1. ASSUME IInv, Next, NEW t \in TaskIds, tasks[t] # NoTask, tasks'[t] # tasks[t]
        PROVE  \E r \in Requests :
                   /\ Commits(r) /\ draft[r][t] # Unwritten
                   /\ me[r].is_active
                   /\ me[r].role = "admin" \/ call[r].token = tasks[t].owner_id
                   /\ call[r].kind = "delete_user" => tasks[t].owner_id = call[r].target
    <2>1. PICK r \in Requests : pc[r] = "commit" /\ Commits(r) /\ draft[r][t] # Unwritten
      BY <1>1, TaskChange
    <2>2. t \in born
      BY <1>1 DEF IInv, TaskLocks
    <2>3. \/ call[r].kind \in {"update", "delete"} /\ t = call[r].task
          \/ call[r].kind = "delete_user" /\ tasks[t].owner_id = call[r].target
      BY <1>1, <2>1, <2>2, OwnPart DEF DraftsCurrent
    <2>4. me[r].is_active /\ (call[r].kind = "delete_user" => me[r].role = "admin")
      BY <1>1, <2>1, <2>3, OwnPart DEF CallerAllowed
    <2>5. call[r].kind \in {"update", "delete"} =>
              me[r].role = "admin" \/ OfOrGone(call[r].task, call[r].token)
      BY <1>1, <2>1, OwnPart DEF CallerAllowed
    <2>6. QED
      BY <1>1, <2>1, <2>3, <2>4, <2>5 DEF OfOrGone
  <1>2. IInv /\ [Next]_vars =>
            [\A t \in TaskIds : tasks[t] # NoTask /\ tasks'[t] # tasks[t] =>
                \E r \in Requests :
                   /\ Commits(r) /\ draft[r][t] # Unwritten
                   /\ me[r].is_active
                   /\ me[r].role = "admin" \/ call[r].token = tasks[t].owner_id
                   /\ call[r].kind = "delete_user" => tasks[t].owner_id = call[r].target]_vars
    BY <1>1
  <1>3. QED
    BY <1>2, Invariance, PTL DEF Spec, OwnerOrAdmin

\* An update changes only the columns it names, whatever was committed since it loaded
\* the task.
THEOREM PatchesApart == Spec => PatchesKeptApart
  <1>1. ASSUME IInv, Next, NEW t \in TaskIds, tasks[t] # NoTask,
               tasks'[t] \notin {NoTask, tasks[t]}
        PROVE  \E r \in Requests :
                   /\ Commits(r) /\ call[r].kind = "update" /\ call[r].task = t
                   /\ tasks'[t].title \in {tasks[t].title, call[r].patch.title}
                   /\ tasks'[t].is_public \in {tasks[t].is_public, call[r].patch.is_public}
    <2>1. PICK r \in Requests : /\ pc[r] = "commit" /\ Effect(r) /\ Commits(r)
                                /\ draft[r][t] # Unwritten
      BY <1>1, TaskChange
    <2>2. tasks'[t] = draft[r][t] /\ t \in born
      BY <1>1, <2>1, EffectTables DEF IInv, TaskLocks
    <2>3. /\ call[r].kind = "update" /\ t = call[r].task
          /\ PatchOf(call[r].patch, tasks[t], draft[r][t])
      BY <1>1, <2>1, <2>2, OwnPart DEF DraftsCurrent
    <2>4. QED
      BY <2>1, <2>2, <2>3 DEF PatchOf
  <1>2. IInv /\ [Next]_vars =>
            [\A t \in TaskIds : tasks[t] # NoTask /\ tasks'[t] \notin {NoTask, tasks[t]} =>
                \E r \in Requests :
                   /\ Commits(r) /\ call[r].kind = "update" /\ call[r].task = t
                   /\ tasks'[t].title \in {tasks[t].title, call[r].patch.title}
                   /\ tasks'[t].is_public \in {tasks[t].is_public, call[r].patch.is_public}]_vars
    BY <1>1
  <1>3. QED
    BY <1>2, Invariance, PTL DEF Spec, PatchesKeptApart

\* Where a response with a conflict or a server error comes from.
LEMMA Errors ==
    ASSUME IInv, Next, NEW q \in Requests, reply'[q] \in {409, 500}, reply[q] # reply'[q]
    PROVE  \/ reply'[q] = 409 /\ call[q].kind = "create" /\ users[call[q].token] = NoRow
           \/ reply'[q] = 409 /\ call[q].kind = "update" /\ HasNull(call[q].patch)
           \/ reply'[q] = 500 /\ call[q].kind = "update" /\ tasks[call[q].task] = NoTask
           \/ reply'[q] = 500 /\ Deadlocked(q)
           \/ reply'[q] = 500 /\ "connection" \in Faults
  <1>1. PICK r \in Requests : Progress(r) \/ Environment(r)
    BY DEF Next, ChangeAccount
  <1>2. ASSUME NEW status, Fail(r, status) PROVE q = r /\ reply'[q] = status
    BY <1>2 DEF Fail, Close, IInv, TypeOK
  <1>3. CASE GetCurrentActiveUser(r) \/ GetOptionalUser(r) \/ GetTask(r) \/ FindTask(r)
             \/ FindUser(r) \/ LoadOwned(r) \/ DeleteOwned(r) \/ DeleteUserRow(r) \/ Cascade(r)
    BY <1>2, <1>3 DEF GetCurrentActiveUser, GetOptionalUser, GetTask, FindTask, FindUser,
       LoadOwned, DeleteOwned, DeleteUserRow, Cascade, Goto, LoadMe, LoadTask
  <1>4. CASE CreateTask(r)
    BY <1>2, <1>4 DEF CreateTask, At, OwnerGone, Write
  <1>5. CASE UpdateTask(r) \/ DeleteTask(r)
    BY <1>2, <1>5 DEF UpdateTask, DeleteTask, At, WriteTask, Goto, Write
  <1>6. CASE RefreshTask(r)
    <2>1. /\ {t \in TaskIds : draft[r][t] # Unwritten} = {}
          /\ tasks[call[r].task] = NoTask /\ Fail(r, 500) /\ pc[r] = "refresh"
      BY <1>6 DEF RefreshTask, LoadTask
    <2>2. call[r].kind # "create"
      <3>1. SUFFICES ASSUME call[r].kind = "create" PROVE FALSE
        OBVIOUS
      <3>2. PICK s \in TaskIds, row \in TaskRows : draft[r] = [NoDraft EXCEPT ![s] = row]
        BY <2>1, <3>1, OwnPart DEF CreationReady, At
      <3>3. draft[r][s] = row
        BY <3>2 DEF NoDraft
      <3>4. QED
        BY <2>1, <3>3, TaskSentinelAssumption
    <2>3. QED
      BY <1>2, <2>1, <2>2, OwnPart DEF StagesKept
  <1>7. CASE Commit(r) \/ Respond(r) \/ AbortDeadlock(r)
    BY <1>2, <1>7 DEF Commit, Respond, AbortDeadlock
  <1>8. CASE Environment(r)
    <2>1. CASE Receive(r)
      BY <2>1 DEF Receive, IInv, TypeOK
    <2>2. CASE CommitUnacknowledged(r)
      BY <2>2 DEF CommitUnacknowledged, Close, IInv, TypeOK
    <2>3. CASE ConnectionLost(r) \/ WorkerCrash(r)
      BY <1>2, <2>3 DEF ConnectionLost, WorkerCrash
    <2>4. QED
      BY <1>8, <2>1, <2>2, <2>3 DEF Environment
  <1>9. QED
    BY <1>1, <1>3, <1>4, <1>5, <1>6, <1>7, <1>8 DEF Progress

\* A conflict is never the answer of a deletion that may yet be rolled back.
THEOREM ConflictsJustified == Spec => TaskConflictJustified
  <1>1. IInv /\ [Next]_vars =>
            [\A r \in Requests : reply[r] # 409 /\ reply'[r] = 409 =>
                \/ call[r].kind = "create" /\ users[call[r].token] = NoRow
                \/ call[r].kind = "update" /\ HasNull(call[r].patch)]_vars
    BY Errors
  <1>2. QED
    BY <1>1, Invariance, PTL DEF Spec, TaskConflictJustified

\* Whoever waits in a cycle has loaded or begun to delete the tasks of one and the same
\* user: a request at its flush holds nothing, and a creation that holds its key share
\* waits for nobody.
LEMMA DeadlockOfRemovals ==
    ASSUME IInv, NEW r \in Requests, Deadlocked(r)
    PROVE  /\ call[r].kind = "delete_user"
           /\ \E q \in Requests \ {r} :
                 call[q].kind = "delete_user" /\ call[q].target = call[r].target
  <1>1. PICK C \in SUBSET Requests :
            r \in C /\ \A q \in C : Awaited(q) \cap C # {} /\ \E p \in C : q \in Awaited(p)
    BY DEF Deadlocked
  <1> DEFINE Waiting == {"flush", "tasks", "row", "cascade"}
  <1>2. ASSUME NEW q \in C PROVE q \in Requests /\ pc[q] \in Waiting
    BY <1>1, AwaitedAt
  <1>3. ASSUME NEW q \in Requests, NEW t \in TaskIds, draft[q][t] # Unwritten
        PROVE  pc[q] # "flush"
    BY <1>3, OwnPart DEF StagesKept, NoDraft
  <1>4. ASSUME NEW q \in C PROVE pc[q] # "flush"
    <2>1. PICK p \in C : q \in Awaited(p)
      BY <1>1
    <2>2. pc[p] \in Waiting /\ p \in Requests /\ pc[q] \in Waiting /\ q \in Requests
      BY <1>2
    <2>3. CASE pc[p] = "flush"
      <3>1. call[p].kind \in {"create", "update", "delete"} /\ TypeOK
        BY <2>2, <2>3, OwnPart DEF StagesKept
      <3>2. call[p].kind # "create" => call[p].task \in TaskIds
        BY <2>2, <3>1, CallType
      <3>3. q \in Removers(call[p].token) \/ (call[p].kind # "create" /\ q \in Holders(p, call[p].task))
        BY <2>1, <2>2, <2>3, <3>1, AwaitedAt DEF At
      <3>4. QED
        BY <1>3, <3>2, <3>3 DEF Removers, Holders
    <2>4. CASE pc[p] = "tasks"
      <3>1. PICK t \in NextOwned(p) : q \in Holders(p, t)
        BY <2>1, <2>2, <2>4, AwaitedAt
      <3>2. t \in TaskIds
        BY <2>2, OwnPart DEF NextOwned
      <3>3. QED
        BY <1>3, <3>1, <3>2 DEF Holders
    <2>5. CASE pc[p] = "row"
      BY <2>1, <2>2, <2>5, AwaitedAt DEF Sharers, Removers
    <2>6. CASE pc[p] = "cascade"
      <3>1. PICK t \in TasksOf(call[p].target) : q \in Holders(p, t)
        BY <2>1, <2>2, <2>6, AwaitedAt
      <3>2. QED
        BY <1>3, <3>1 DEF Holders, TasksOf
    <2>7. QED
      BY <2>2, <2>3, <2>4, <2>5, <2>6
  <1>5. ASSUME NEW q \in C
        PROVE  /\ q \in Requests /\ pc[q] \in {"tasks", "row", "cascade"}
               /\ call[q].kind = "delete_user"
    BY <1>2, <1>4, OwnPart DEF StagesKept
  <1>6. PICK q \in C : q \in Awaited(r)
    BY <1>1
  <1>7. ASSUME NEW t \in TaskIds, q \in Holders(r, t), OfOrGone(t, call[r].target)
        PROVE  q # r /\ call[q].target = call[r].target
    <2>1. q \in Requests \ {r} /\ draft[q][t] # Unwritten /\ call[q].kind = "delete_user"
      BY <1>5, <1>7 DEF Holders
    <2>2. tasks[t] # NoTask /\ tasks[t].owner_id = call[q].target
      BY <2>1, OwnPart DEF DraftsCurrent
    <2>3. QED
      BY <1>7, <2>1, <2>2 DEF OfOrGone
  <1>8. q # r /\ call[q].target = call[r].target
    <2>1. pc[r] \in {"tasks", "row", "cascade"} /\ pc[q] \in {"tasks", "row", "cascade"}
      BY <1>1, <1>5
    <2>2. CASE pc[r] = "tasks"
      <3>1. PICK t \in NextOwned(r) : q \in Holders(r, t)
        BY <1>6, <2>2, AwaitedAt
      <3>2. t \in TaskIds /\ OfOrGone(t, call[r].target)
        BY OwnPart DEF NextOwned, CallerAllowed
      <3>3. QED
        BY <1>7, <3>1, <3>2
    <2>3. CASE pc[r] = "row"
      BY <1>6, <2>1, <2>3, AwaitedAt DEF Sharers, Removers
    <2>4. CASE pc[r] = "cascade"
      <3>1. PICK t \in TasksOf(call[r].target) : q \in Holders(r, t)
        BY <1>6, <2>4, AwaitedAt
      <3>2. t \in TaskIds /\ OfOrGone(t, call[r].target)
        BY DEF TasksOf, OfOrGone, IInv, TaskLocks
      <3>3. QED
        BY <1>7, <3>1, <3>2
    <2>5. QED
      BY <2>1, <2>2, <2>3, <2>4
  <1>9. QED
    BY <1>1, <1>5, <1>8

\* Unless a connection is lost, a server error has one of the two causes.
THEOREM ServerErrorsJustified ==
    ASSUME "connection" \notin Faults
    PROVE  Spec => ServerErrorJustified
  <1>1. IInv /\ [Next]_vars =>
            [\A r \in Requests : reply[r] # 500 /\ reply'[r] = 500 =>
                \/ call[r].kind = "update" /\ tasks[call[r].task] = NoTask
                \/ /\ call[r].kind = "delete_user"
                   /\ \E q \in Requests \ {r} :
                         call[q].kind = "delete_user" /\ call[q].target = call[r].target]_vars
    BY Errors, DeadlockOfRemovals
  <1>2. QED
    BY <1>1, Invariance, PTL DEF Spec, ServerErrorJustified

-----------------------------------------------------------------------------
(***************************************************************************)
(* The refinement of TaskBoard.                                            *)
(***************************************************************************)

\* The stage at which the board sees each request, and the members it sees.
StageMap == [r \in Requests |-> StageOf(r)]

Members == {u \in UserIds : users[u] # NoRow}

\* The stage it gives a request after its commit.
Committed(c) == IF c.kind = "create" THEN "created" ELSE "done"

\* How a step moves it.
LEMMA StageMoves ==
    ASSUME TypeOK, NEW r \in Requests, NEW stage \in Stages,
           pc' = [pc EXCEPT ![r] = stage],
           \A q \in Requests : q # r => call'[q] = call[q]
    PROVE  /\ stage = "idle" => StageMap' = [StageMap EXCEPT ![r] = "idle"]
           /\ stage = "respond" => StageMap' = [StageMap EXCEPT ![r] = Committed(call'[r])]
           /\ stage \notin {"idle", "respond"} => StageMap' = [StageMap EXCEPT ![r] = "working"]
  <1>1. \A q \in Requests : q # r => StageOf(q)' = StageOf(q)
    BY DEF TypeOK, StageOf
  <1>2. /\ stage = "idle" => StageOf(r)' = "idle"
        /\ stage = "respond" => StageOf(r)' = Committed(call'[r])
        /\ stage \notin {"idle", "respond"} => StageOf(r)' = "working"
    BY DEF TypeOK, StageOf, Committed
  <1>3. QED
    BY <1>1, <1>2 DEF StageMap

\* What a commit does to the tables is what the board allows: a creation adds a task, an
\* update or deletion touches one, a deletion of a user takes all his tasks with him.
LEMMA EffectRefines ==
    ASSUME IInv, NoOrphans', NEW r \in Requests, pc[r] = "commit", Effect(r)
    PROVE  IF call[r].kind = "create" THEN Board!Insert ELSE Board!Change
  <1>t. TypeOK /\ NoOrphans
    BY DEF IInv
  <1>e. /\ \A t \in TaskIds :
              /\ draft[r][t] = Unwritten => tasks'[t] = tasks[t]
              /\ draft[r][t] # Unwritten => tasks'[t] = draft[r][t]
        /\ born' = born \cup {t \in TaskIds : draft[r][t] # Unwritten}
        /\ tasks' \in [TaskIds -> TaskRows \cup {NoTask}]
    BY EffectTables
  <1>b. \A t \in TaskIds : tasks[t] # NoTask => t \in born
    BY DEF IInv, TaskLocks
  <1>u. /\ call[r].kind # "delete_user" => users' = users
        /\ call[r].kind = "delete_user" => users' = [users EXCEPT ![call[r].target] = NoRow]
    BY DEF Effect
  <1>1. CASE call[r].kind = "create"
    <2>1. PICK t \in TaskIds, row \in TaskRows : draft[r] = [NoDraft EXCEPT ![t] = row]
      BY <1>1, OwnPart DEF CreationReady, At
    <2>2. draft[r][t] = row /\ \A s \in TaskIds \ {t} : draft[r][s] = Unwritten
      BY <2>1 DEF NoDraft
    <2>3. row # NoTask /\ row # Unwritten
      BY TaskSentinelAssumption
    <2>4. t \in TaskIds \ born
      BY <1>1, <2>2, <2>3, OwnPart DEF DraftsCurrent
    <2>5. tasks'[t] # NoTask /\ Board!OnlyAt(t) /\ born' = born \cup {t}
      BY <1>e, <2>2, <2>3 DEF Board!OnlyAt
    <2>6. Board!Owned(Members', tasks')
      BY <1>e DEF NoOrphans, Board!Owned, Members, TaskRows
    <2>7. Members' = Members
      BY <1>1, <1>u DEF Members
    <2>8. QED
      BY <1>1, <2>4, <2>5, <2>6, <2>7 DEF Board!Insert, Members
  <1>2. CASE call[r].kind # "create" /\ draft[r] = NoDraft /\ users' = users
    <2>1. \A t \in TaskIds : tasks'[t] = tasks[t]
      BY <1>e, <1>2 DEF NoDraft
    <2>2. tasks' = tasks /\ born' = born
      BY <1>e, <1>t, <1>2, <2>1 DEF TypeOK, NoDraft
    <2>3. QED
      BY <1>2, <2>2 DEF Board!Change
  <1>3. CASE call[r].kind \in {"update", "delete"} /\ draft[r] # NoDraft
    <2>1. PICK t \in TaskIds : draft[r][t] # Unwritten
      BY <1>3, OwnPart DEF NoDraft
    <2>2. \A s \in TaskIds : draft[r][s] # Unwritten => s = t
      BY <1>3, <2>1, OwnPart DEF DraftsCurrent
    <2>3. /\ tasks[t] # NoTask /\ t \in born
          /\ tasks'[t] # NoTask => tasks'[t].owner_id = tasks[t].owner_id
      BY <1>b, <1>3, <1>e, <2>1, OwnPart DEF DraftsCurrent, PatchOf
    <2>4. Board!OnlyAt(t) /\ born' = born
      BY <1>e, <2>2, <2>3 DEF Board!OnlyAt
    <2>5. users' = users
      BY <1>3, <1>u
    <2>6. Board!TouchTask
      BY <2>3, <2>4, <2>5 DEF Board!TouchTask
    <2>7. QED
      BY <1>3, <2>6 DEF Board!Change
  <1>4. CASE call[r].kind = "delete_user"
    <2> DEFINE u == call[r].target
    <2>1. u \in UserIds
      BY <1>4, <1>t, CallType
    <2>2. \A t \in TaskIds : draft[r][t] # Unwritten =>
              tasks[t] # NoTask /\ tasks[t].owner_id = u /\ draft[r][t] = NoTask
      BY <1>4, OwnPart DEF DraftsCurrent
    <2>3. \A t \in TaskIds : tasks[t] # NoTask /\ tasks[t].owner_id = u => draft[r][t] = NoTask
      BY <1>4, OwnPart DEF RemovalComplete, At, TasksOf
    <2>4. born' = born
      BY <1>b, <1>e, <2>2
    <2>5. CASE users[u] = NoRow
      <3>1. \A t \in TaskIds : draft[r][t] = Unwritten
        BY <1>t, <2>2, <2>5 DEF NoOrphans
      <3>2. draft[r] = NoDraft
        BY <3>1, OwnPart DEF NoDraft
      <3>3. users' = users
        BY <1>4, <1>t, <1>u, <2>5 DEF TypeOK
      <3>4. QED
        BY <1>2, <1>4, <3>2, <3>3
    <2>6. CASE users[u] # NoRow
      <3>1. u \in Members /\ Members' = Members \ {u}
        BY <1>4, <1>t, <1>u, <2>1, <2>6 DEF Members, TypeOK
      <3>2. \A t \in TaskIds :
                tasks'[t] = IF tasks[t] # NoTask /\ tasks[t].owner_id = u
                            THEN NoTask ELSE tasks[t]
        BY <1>e, <2>2, <2>3, TaskSentinelAssumption
      <3> HIDE DEF u
      <3>3. Board!RemoveMember
        BY <2>4, <3>1, <3>2 DEF Board!RemoveMember, Members
      <3>4. QED
        BY <1>4, <3>3 DEF Board!Change
    <2>7. QED
      BY <2>5, <2>6
  <1>5. call[r].kind \notin {"create", "update", "delete", "delete_user"} => draft[r] = NoDraft
    <2>1. call[r].kind \notin {"create", "update", "delete", "delete_user"} =>
              \A t \in TaskIds : draft[r][t] = Unwritten
      BY OwnPart DEF DraftsCurrent
    <2>2. QED
      BY <2>1, OwnPart DEF NoDraft
  <1>6. QED
    BY <1>1, <1>2, <1>3, <1>4, <1>5, <1>u

\* The model starts as the board does.
LEMMA InitRefines == Init => Board!Init
  <1> SUFFICES ASSUME Init PROVE Board!Init
    OBVIOUS
  <1>1. Board!Owned(Members, tasks)
    BY InitialTasksAssumption DEF Init, Board!Owned, Members, TaskRows
  <1>2. QED
    BY <1>1 DEF Init, Board!Init, StageOf, Members

\* Every step of a request is a step of the board, or invisible to it.
LEMMA StepRefines ==
    ASSUME IInv, IInv', NEW r \in Requests, Progress(r) \/ Environment(r)
    PROVE  Board!Next \/ UNCHANGED Board!vars
  <1>t. TypeOK /\ NoOrphans'
    BY DEF IInv
  <1>w. pc[r] \notin {"idle", "respond"} => StageMap[r] = "working"
    BY DEF StageMap, StageOf
  <1>c. pc[r] = "respond" => StageMap[r] = Committed(call[r])
    BY DEF StageMap, StageOf, Committed
  <1>s. UNCHANGED <<users, tasks, born>> => Board!Silent
    BY DEF Board!Silent
  <1>e. /\ \A code : Close(r, code) =>
              /\ pc' = [pc EXCEPT ![r] = "idle"] /\ reply' = [reply EXCEPT ![r] = code]
              /\ \A q \in Requests : q # r => call'[q] = call[q]
        /\ \A code : Fail(r, code) => Close(r, code) /\ UNCHANGED <<users, tasks, born>>
    BY <1>t DEF Close, Fail, TypeOK
  <1>r. ASSUME NEW code, reply' = [reply EXCEPT ![r] = code], NEW codes, code \in codes
        PROVE  Board!Tell(r, codes)
    BY <1>r, ZenonT(60) DEF Board!Tell
  <1>m. ASSUME NEW code, Close(r, code)
        PROVE  StageMap' = [StageMap EXCEPT ![r] = "idle"]
    BY <1>m, <1>e, <1>t, StageMoves DEF Stages
  <1>f. ASSUME NEW code \in {0, 400, 401, 403, 404, 409, 500}, Fail(r, code),
               pc[r] \notin {"idle", "respond"}
        PROVE  Board!Refuse(r) \/ Board!Break(r)
    <2>1. Board!Move(r, "working", "idle") /\ Board!Silent
      BY <1>f, <1>w, <1>e, <1>m, <1>s DEF Board!Move, StageMap
    <2>2. Board!Change
      BY <1>f, <1>e DEF Board!Change
    <2>3. CASE code \in {0, 500}
      BY <1>f, <1>e, <1>r, <2>1, <2>2, <2>3 DEF Board!Break
    <2>4. CASE code \in Board!Refusals
      BY <1>f, <1>e, <1>r, <2>1, <2>4 DEF Board!Refuse
    <2>5. QED
      BY <2>3, <2>4 DEF Board!Refusals
  <1>1. CASE GoesOn(r)
    <2>1. PICK stage \in Stages \ {"idle", "respond"} : pc' = [pc EXCEPT ![r] = stage]
      BY <1>1 DEF GoesOn
    <2>2. StageMap' = StageMap
      BY <1>1, <2>1, <1>t, <1>w, StageMoves DEF GoesOn, StageMap
    <2>3. QED
      BY <1>1, <2>2 DEF GoesOn, Board!vars, StageMap
  <1>2. CASE Refused(r)
    BY <1>2, <1>f DEF Refused, Board!Next
  <1>3. CASE Commit(r)
    <2>1. StageMap' = [StageMap EXCEPT ![r] = Committed(call[r])]
      BY <1>3, <1>t, StageMoves DEF Commit, Stages
    <2>2. Board!Move(r, "working", Committed(call[r]))
      BY <1>3, <1>w, <2>1 DEF Commit, Board!Move, StageMap
    <2>3. IF call[r].kind = "create" THEN Board!Insert ELSE Board!Change
      BY <1>3, <1>t, EffectRefines DEF Commit
    <2>4. Board!Create(r) \/ Board!Apply(r)
      BY <1>3, <2>2, <2>3 DEF Commit, Board!Create, Board!Apply, Committed
    <2>5. QED
      BY <2>4 DEF Board!Next
  <1>4. CASE Respond(r)
    <2> DEFINE code == IF call[r].kind = "create" THEN 201 ELSE 200
    <2>1. Fail(r, code) /\ pc[r] = "respond"
      BY <1>4 DEF Respond
    <2>2. Board!Move(r, Committed(call[r]), "idle")
      BY <1>c, <1>e, <1>m, <2>1 DEF Board!Move, StageMap
    <2>3. Board!Tell(r, {code}) /\ Board!Silent
      BY <1>e, <1>r, <1>s, <2>1
    <2>4. Board!Succeed(r)
      BY <2>2, <2>3 DEF Board!Succeed, Committed
    <2>5. QED
      BY <2>4 DEF Board!Next
  <1>5. CASE Receive(r)
    <2>1. /\ pc[r] = "idle" /\ pc' = [pc EXCEPT ![r] = "start"]
          /\ reply' = [reply EXCEPT ![r] = 0] /\ UNCHANGED <<users, tasks, born>>
          /\ \A q \in Requests : q # r => call'[q] = call[q]
      BY <1>5, <1>t DEF Receive, TypeOK
    <2>2. StageMap[r] = "idle" /\ StageMap' = [StageMap EXCEPT ![r] = "working"]
      BY <1>t, <2>1, StageMoves DEF StageMap, StageOf, Stages
    <2>3. Board!Arrive(r)
      BY <1>r, <1>s, <2>1, <2>2 DEF Board!Arrive, Board!Move, StageMap
    <2>4. QED
      BY <2>3 DEF Board!Next
  <1>6. CASE ConnectionLost(r)
    BY <1>6, <1>f DEF ConnectionLost, Board!Next
  <1>7. CASE WorkerCrash(r)
    <2>1. CASE pc[r] = "respond"
      <3>1. Board!Move(r, Committed(call[r]), "idle")
        BY <1>7, <1>c, <1>e, <1>m, <2>1 DEF WorkerCrash, Board!Move, StageMap
      <3>2. Board!Tell(r, {0, 500}) /\ Board!Silent
        BY <1>7, <1>e, <1>r, <1>s DEF WorkerCrash
      <3>3. Board!Break(r)
        BY <3>1, <3>2 DEF Board!Break, Committed
      <3>4. QED
        BY <3>3 DEF Board!Next
    <2>2. CASE pc[r] # "respond"
      BY <1>7, <2>2, <1>f DEF WorkerCrash, Board!Next
    <2>3. QED
      BY <2>1, <2>2
  <1>8. CASE CommitUnacknowledged(r)
    <2>1. Board!Move(r, "working", "idle")
      BY <1>8, <1>w, <1>e, <1>m DEF CommitUnacknowledged, Board!Move, StageMap
    <2>2. Board!Insert \/ Board!Change
      BY <1>8, <1>t, EffectRefines DEF CommitUnacknowledged
    <2>3. Board!Tell(r, {0, 500})
      BY <1>8, <1>e, <1>r DEF CommitUnacknowledged
    <2>4. Board!Break(r)
      BY <2>1, <2>2, <2>3 DEF Board!Break
    <2>5. QED
      BY <2>4 DEF Board!Next
  <1>9. QED
    BY <1>t, <1>1, <1>2, <1>3, <1>4, <1>5, <1>6, <1>7, <1>8, ProgressForms DEF Environment

\* The task endpoints and the deletion of users implement the board: each request takes
\* effect at one instant, a deletion of a user takes exactly the tasks he owns then, and
\* success is answered only after it.
THEOREM EndpointsImplementBoard == Spec => ImplementsBoard
  <1>1. IInv /\ IInv' /\ [Next]_vars => [Board!Next]_(Board!vars)
    <2>1. ASSUME IInv, IInv', NEW r \in Requests, Progress(r) \/ Environment(r)
          PROVE  Board!Next \/ UNCHANGED Board!vars
      BY <2>1, StepRefines
    <2>2. ASSUME IInv, ChangeAccount PROVE UNCHANGED Board!vars
      <3>1. PICK c \in Changes : users[c.id] # NoRow /\ users' = [users EXCEPT ![c.id] = c.row]
        BY <2>2 DEF ChangeAccount
      <3>2. c.row # NoRow
        BY TaskCallsAssumption, TaskSentinelAssumption
      <3>3. Members' = Members
        BY <2>2, <3>1, <3>2 DEF Members, IInv, TypeOK
      <3>4. QED
        BY <2>2, <3>3 DEF ChangeAccount, Board!vars, Members, StageOf
    <2>3. ASSUME UNCHANGED vars PROVE UNCHANGED Board!vars
      BY <2>3 DEF vars, Board!vars, StageOf
    <2>4. QED
      BY <2>1, <2>2, <2>3 DEF Next
  <1>2. QED
    BY <1>1, InitRefines, Invariance, PTL DEF Spec, ImplementsBoard, Board!Spec
=============================================================================
