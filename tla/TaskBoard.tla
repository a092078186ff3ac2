----------------------------- MODULE TaskBoard -----------------------------
(***************************************************************************)
(* What the task endpoints promise: a board of tasks, each owned by a      *)
(* member.  A request takes effect at one instant between its arrival and  *)
(* its response.  It touches one task, whose owner never changes, or it    *)
(* removes a member together with all the tasks he owns at that instant;   *)
(* no task is ever without its owner and no removed task returns.          *)
(*                                                                         *)
(* The contract behind app/api/v1/endpoints/tasks.py and DELETE            *)
(* /admin/users/{user_id}, with neither sessions nor locks.                *)
(***************************************************************************)
CONSTANTS Ids, Clients, NoTask

VARIABLES
    members,  \* the accounts there are
    board,    \* the task of each id, or NoTask
    used,     \* the ids that have had a task
    stage,    \* of each client's request: "idle", "working", "created" or "done"
    status    \* of each client's last response, 0 for none

vars == <<members, board, used, stage, status>>

Refusals == {400, 401, 403, 404, 409}

Owned(people, tasks) == \A t \in Ids : tasks[t] # NoTask => tasks[t].owner_id \in people

Init ==
    /\ Owned(members, board)
    /\ used = {t \in Ids : board[t] # NoTask}
    /\ stage = [c \in Clients |-> "idle"]
    /\ status = [c \in Clients |-> 0]

OnlyAt(t) == \A s \in Ids \ {t} : board'[s] = board[s]

Insert ==
    /\ \E t \in Ids \ used :
           OnlyAt(t) /\ board'[t] # NoTask /\ used' = used \cup {t}
    /\ UNCHANGED members
    /\ Owned(members, board')

TouchTask ==
    /\ \E t \in used :
           /\ OnlyAt(t) /\ board[t] # NoTask
           /\ board'[t] # NoTask => board'[t].owner_id = board[t].owner_id
    /\ UNCHANGED <<members, used>>

RemoveMember ==
    \E u \in members :
        /\ members' = members \ {u}
        /\ \A t \in Ids :
               board'[t] = IF board[t] # NoTask /\ board[t].owner_id = u
                           THEN NoTask ELSE board[t]
        /\ UNCHANGED used

Change == UNCHANGED <<members, board, used>> \/ TouchTask \/ RemoveMember

Move(c, from, to) == stage[c] = from /\ stage' = [stage EXCEPT ![c] = to]

Tell(c, codes) == \E code \in codes : status' = [status EXCEPT ![c] = code]

Silent == UNCHANGED <<members, board, used>>

Arrive(c) == Move(c, "idle", "working") /\ Tell(c, {0}) /\ Silent

Create(c) == Move(c, "working", "created") /\ Insert /\ UNCHANGED status

Apply(c) == Move(c, "working", "done") /\ Change /\ UNCHANGED status

Succeed(c) ==
    /\ \/ Move(c, "created", "idle") /\ Tell(c, {201})
       \/ Move(c, "done", "idle") /\ Tell(c, {200})
    /\ Silent

Refuse(c) == Move(c, "working", "idle") /\ Tell(c, Refusals) /\ Silent

\* A server error, or no answer at all, before the effect or after it.
Break(c) ==
    /\ \/ Move(c, "working", "idle") /\ (Insert \/ Change)
       \/ Move(c, "created", "idle") /\ Silent
       \/ Move(c, "done", "idle") /\ Silent
    /\ Tell(c, {0, 500})

Next ==
    \E c \in Clients :
        Arrive(c) \/ Create(c) \/ Apply(c) \/ Succeed(c) \/ Refuse(c) \/ Break(c)

Spec == Init /\ [][Next]_vars
=============================================================================
