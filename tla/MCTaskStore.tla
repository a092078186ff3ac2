---------------------------- MODULE MCTaskStore ----------------------------
(***************************************************************************)
(* Instances of TaskStore for TLC: two administrators (1 and 3) and a user *)
(* (2) who owns task 2; tasks 1 and 3 can be created.                      *)
(***************************************************************************)
EXTENDS TaskStore, TLC

MCUserIds == 1..3

MCTaskIds == 1..3

MCTitles == {"old", "new"}

Account(role) == [role |-> role, is_active |-> TRUE]

MCUsers == <<Account("admin"), Account("user"), Account("admin")>>

MCTasks == <<NoTask, [owner_id |-> 2, title |-> "old", is_public |-> FALSE], NoTask>>

Symmetry == Permutations(Requests)

Create(u) == [kind |-> "create", token |-> u, title |-> "new", is_public |-> TRUE]

Get(u, t) == [kind |-> "get", token |-> u, task |-> t]

Delete(u, t) == [kind |-> "delete", token |-> u, task |-> t]

Update(u, t, title, public) ==
    [kind |-> "update", token |-> u, task |-> t,
     patch |-> [title |-> title, is_public |-> public]]

DeleteUser(u, v) == [kind |-> "delete_user", token |-> u, target |-> v]

\* Users and administrators at work on each other's tasks and accounts.
BoardCalls ==
    {Create(2), Get(2, 2), Get(NoUser, 2), Delete(2, 2),
     Update(2, 2, "new", Unset), Update(1, 2, Unset, TRUE),
     Update(3, 1, "old", Unset), Update(2, 2, Null, Unset),
     DeleteUser(1, 2), DeleteUser(3, 2), DeleteUser(3, 3)}

\* Administrator 3 may be demoted, user 2 disabled.
BoardChanges ==
    {[id |-> 3, row |-> Account("user")], [id |-> 2, row |-> [Account("user") EXCEPT !.is_active = FALSE]]}

\* Two deletions of one user and what they wait for.
RemovalCalls ==
    {Create(2), Update(2, 2, "new", Unset), Update(2, 2, "old", Unset), Update(2, 2, Null, Unset),
     Delete(2, 2), Delete(1, 1), DeleteUser(1, 2), DeleteUser(3, 2)}
=============================================================================
