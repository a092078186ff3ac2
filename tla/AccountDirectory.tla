-------------------------- MODULE AccountDirectory --------------------------
(***************************************************************************)
(* What the account endpoints promise their clients: a directory of        *)
(* accounts in which every request takes effect at one instant, between    *)
(* its arrival and its response, on at most one account.  The directory    *)
(* never holds two accounts with one email or one username, an account     *)
(* once removed never returns, 201 is answered only after an account has   *)
(* been created, 200 only after the effect, and a refusal leaves no trace. *)
(*                                                                         *)
(* The contract behind app/api/v1/endpoints/auth.py and admin.py, with     *)
(* neither sessions nor locks nor statements.                              *)
(***************************************************************************)
CONSTANTS Ids, Clients, NoAccount, SameKeys(_, _)

VARIABLES
    accounts,  \* the account of each id, or NoAccount
    used,      \* the ids that have had an account
    stage,     \* of each client's request: "idle", "working", "created" or "done"
    status     \* of each client's last response, 0 for none

vars == <<accounts, used, stage, status>>

Refusals == {400, 401, 403, 404, 409}

Distinct(table) ==
    \A i, j \in Ids :
        i # j /\ table[i] # NoAccount /\ table[j] # NoAccount
            => ~ SameKeys(table[i], table[j])

Init ==
    /\ Distinct(accounts)
    /\ used = {i \in Ids : accounts[i] # NoAccount}
    /\ stage = [c \in Clients |-> "idle"]
    /\ status = [c \in Clients |-> 0]

OnlyAt(i) == \A j \in Ids \ {i} : accounts'[j] = accounts[j]

Insert ==
    \E i \in Ids \ used :
        /\ OnlyAt(i) /\ accounts'[i] # NoAccount
        /\ used' = used \cup {i}
        /\ Distinct(accounts')

\* Nothing, or one account changed or removed.
Change ==
    /\ \/ UNCHANGED accounts
       \/ \E i \in used : OnlyAt(i) /\ accounts[i] # NoAccount /\ Distinct(accounts')
    /\ UNCHANGED used

Move(c, from, to) == stage[c] = from /\ stage' = [stage EXCEPT ![c] = to]

Tell(c, codes) == \E code \in codes : status' = [status EXCEPT ![c] = code]

Silent == UNCHANGED <<accounts, used>>

Arrive(c) == Move(c, "idle", "working") /\ Tell(c, {0}) /\ Silent

Create(c) == Move(c, "working", "created") /\ Insert /\ UNCHANGED status

Apply(c) == Move(c, "working", "done") /\ Change /\ UNCHANGED status

Succeed(c) ==
    /\ \/ Move(c, "created", "idle") /\ Tell(c, {201})
       \/ Move(c, "done", "idle") /\ Tell(c, {200})
    /\ Silent

Refuse(c) == Move(c, "working", "idle") /\ Tell(c, Refusals) /\ Silent

\* A server error, or no answer at all, before the effect or after it.
Break(c) ==
    /\ \/ Move(c, "working", "idle") /\ (Insert \/ Change)
       \/ Move(c, "created", "idle") /\ Silent
       \/ Move(c, "done", "idle") /\ Silent
    /\ Tell(c, {0, 500})

Next ==
    \E c \in Clients :
        Arrive(c) \/ Create(c) \/ Apply(c) \/ Succeed(c) \/ Refuse(c) \/ Break(c)

Spec == Init /\ [][Next]_vars
=============================================================================
