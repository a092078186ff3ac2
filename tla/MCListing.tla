----------------------------- MODULE MCListing -----------------------------
(***************************************************************************)
(* Instances of Listing for TLC: an administrator (1) and two users, of    *)
(* whom 2 owns the tasks 11, 13 and 14 and 3 the task 12.                  *)
(***************************************************************************)
EXTENDS Listing

MCUserIds == 1..3

MCTaskIds == 11..14

MCOwnerId == [t \in MCTaskIds |-> IF t = 12 THEN 3 ELSE 2]

\* 12 and 14 are new; 12 was begun before the tasks that are there.
MCCreated == [x \in MCUserIds \cup MCTaskIds |-> IF x = 12 THEN 10 ELSE x]

MCMarks == {"open", "done"}

Account(role) == [mark |-> "open", role |-> role, is_active |-> TRUE]

Task(mark, public) == [mark |-> mark, is_public |-> public]

MCUserChoices == {Account("user")}

MCTaskChoices == {Task("open", TRUE), Task("done", FALSE)}

MCUsers == <<Account("admin"), Account("user"), NoRow>>

MCTasks == [t \in MCTaskIds |-> IF t \in {11, 13} THEN Task("open", TRUE) ELSE NoRow]

List4(list, caller, owner, mark, size) ==
    [list |-> list, caller |-> caller, owner |-> owner, mark |-> mark, page_size |-> size]

MCQueries ==
    {List4("mine", 2, 2, "open", 1), List4("public", NoUser, Any, Any, 2),
     List4("all", 1, Any, "open", 1), List4("users", 1, Any, "open", 2)}
=============================================================================
