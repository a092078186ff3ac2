----------------------------- MODULE MCAccounts -----------------------------
(***************************************************************************)
(* Instances of Accounts for TLC.  Each run (a .cfg file) picks the table  *)
(* it starts from and the calls its clients make.                          *)
(***************************************************************************)
EXTENDS Accounts, Sequences, TLC

MCUserIds == 1..3

MCEmails == {"root@x", "ann@x", "Ann@x", "bob@x"}

MCNames == {"root", "ann", "Ann", "bob"}

MCLower ==
    [t \in MCEmails \cup MCNames |-> CASE t = "Ann@x" -> "ann@x"
                                       [] t = "Ann" -> "ann"
                                       [] OTHER -> t]

\* "long" and "long2" differ after the 72 bytes that bcrypt reads; "nul" has a NUL in it.
MCPasswords == {"pw", "new", "long", "long2", "nul", "dummy"}

MCUnhashable == {"nul"}

MCDigests == {"#pw", "#new", "#long", "#dummy"}

MCDigest ==
    [p \in MCPasswords \ MCUnhashable |-> CASE p \in {"long", "long2"} -> "#long"
                                            [] OTHER -> "#" \o p]

Account(name, role, logged_in) ==
    [email |-> name \o "@x", username |-> name, hashed_password |-> "#pw",
     role |-> role, is_active |-> TRUE, last_login |-> logged_in]

OneAdmin == [i \in MCUserIds |-> IF i = 1 THEN Account("root", "admin", TRUE) ELSE NoRow]

TwoAdmins == [OneAdmin EXCEPT ![2] = Account("ann", "admin", TRUE)]

OneUser == [i \in MCUserIds |-> IF i = 1 THEN Account("ann", "user", TRUE) ELSE NoRow]

Symmetry == Permutations(Requests)

-----------------------------------------------------------------------------
(* Calls *)

RegisterWith(e, n, p) == [kind |-> "register", email |-> e, username |-> n, password |-> p]

Register(e, n) == RegisterWith(e, n, "pw")

Login(e, p) == [kind |-> "login", email |-> e, password |-> p]

Bearer(k, u) == [kind |-> k, token |-> u]

Change(u, old, new) ==
    [kind |-> "change_password", token |-> u, current |-> old, new |-> new]

Admin(k, u, i) == [kind |-> k, token |-> u, target |-> i]

Keep == [username |-> Unset, role |-> Unset, is_active |-> Unset]

Patch(u, i, p) == [kind |-> "admin_update", token |-> u, target |-> i, patch |-> p]

Rename(u, i, n) == Patch(u, i, [Keep EXCEPT !.username = n])

SetRole(u, i, role) == Patch(u, i, [Keep EXCEPT !.role = role])

\* Registrations that share an email, a username or both up to case, and
\* renames and a deletion that free a key and take another; and for each endpoint that
\* hashes, a password that cannot be hashed.
NamingCalls ==
    {Register("ann@x", "ann"), Register("Ann@x", "bob"), Register("bob@x", "Ann"),
     RegisterWith("bob@x", "bob", "nul"), Login("root@x", "nul"),
     Change(1, "nul", "new"), Change(1, "pw", "nul"),
     Rename(1, 1, "Ann"), Rename(1, 2, "bob"), Rename(1, 2, Null), Admin("admin_delete", 1, 2)}

\* Two administrators who update, demote, disable and delete each other and swap names
\* into a deadlock while one of them logs in and changes his password, and one call of
\* every other kind.
UpdateCalls ==
    {Login("Ann@x", "pw"),
     Change(2, "pw", "new"), Change(2, "pw", "pw"),
     Rename(1, 2, "root"), Rename(1, 1, "ann"), SetRole(1, 2, "user"),
     Patch(1, 2, [username |-> "ann", role |-> "admin", is_active |-> FALSE]),
     Patch(2, 2, [Keep EXCEPT !.role = Null]), SetRole(2, 2, "user"), SetRole(2, 1, "user"),
     Admin("admin_delete", 1, 2), Admin("admin_delete", 1, 1), Admin("admin_get", 1, 2),
     Bearer("refresh", 1), Bearer("me", 2), Register("bob@x", "ann")}

PasswordCalls ==
    {Change(1, p, q) : p, q \in {"pw", "new", "long"}} \cup {Change(1, "long", "long2")}
=============================================================================
