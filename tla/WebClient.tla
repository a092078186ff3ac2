----------------------------- MODULE WebClient -----------------------------
(***************************************************************************)
(* One browser tab of the front end (frontend_dist/index.html): who is     *)
(* shown as logged in, what sessionStorage holds, and which component's    *)
(* calls are in flight.                                                    *)
(*                                                                         *)
(* Event handlers run to completion, so a step is a click, a reload, or    *)
(* the arrival of one answer with the code that awaits it.  Answers arrive *)
(* in any order; the code that awaits one runs even when its component has *)
(* been unmounted, but its setState calls then do nothing.                 *)
(*                                                                         *)
(* The server is not modelled: it answers each call, or the connection     *)
(* fails, as it likes.  A token is the account it was issued to, and the   *)
(* rows of a list are the account whose token fetched them.                *)
(***************************************************************************)
CONSTANTS
    Accounts,
    Admins,  \* those that the admin panel is offered to
    Slots,   \* bound: the calls that may be in flight together
    NoUser, NoCall

Pages == {"dashboard", "tasks", "profile", "tokens", "apilog", "admin"}

Kinds == {"restore", "login", "me", "register", "list", "save", "delete", "patch", "password"}

\* Every call but a registration is made with an account's token, or, a login, for
\* one.
Calls ==
    [kind : Kinds \ {"register"}, token : Accounts, mounted : BOOLEAN]
        \cup [kind : {"register"}, token : {NoUser}, mounted : BOOLEAN]

ASSUME WebAssumption ==
    Admins \subseteq Accounts /\ NoUser \notin Accounts /\ NoCall \notin Calls

VARIABLES
    stored,       \* the access token in sessionStorage
    user, token,  \* the state of App
    page,         \* the page it shows when there is a user
    rows,         \* whose rows the mounted component lists
    loading,      \* it shows a spinner in place of the list
    saving,       \* its submit button is disabled
    calls,        \* the calls in flight
    overtaken,    \* somebody submitted the login form before the restore was answered
    switched      \* the account changed under the component that is mounted

tab == <<user, token, page>>
component == <<rows, loading, saving>>
history == <<overtaken, switched>>
vars == <<stored, tab, component, calls, history>>

TypeOK ==
    /\ stored \in Accounts \cup {NoUser}
    /\ user \in Accounts \cup {NoUser} /\ token \in Accounts \cup {NoUser}
    /\ page \in Pages
    /\ rows \in Accounts \cup {NoUser}
    /\ loading \in BOOLEAN /\ saving \in BOOLEAN
    /\ calls \in [Slots -> Calls \cup {NoCall}]
    /\ overtaken \in BOOLEAN /\ switched \in BOOLEAN

Call(kind, account) == [kind |-> kind, token |-> account, mounted |-> TRUE]

Idle == [s \in Slots |-> NoCall]

\* Mutation: the session is restored whether or not there is one.
RestoringUnchecked == {[Idle EXCEPT ![s] = Call("restore", stored)] : s \in Slots}

\* The calls that App's effect makes when it is mounted.
Restoring == {IF stored = NoUser THEN Idle ELSE [Idle EXCEPT ![s] = Call("restore", stored)] :
                  s \in Slots}

Init ==
    /\ stored \in Accounts \cup {NoUser}
    /\ user = NoUser /\ token = NoUser
    /\ page = "dashboard"
    /\ rows = NoUser
    /\ loading = FALSE /\ saving = FALSE
    /\ calls \in Restoring
    /\ overtaken = FALSE /\ switched = FALSE

-----------------------------------------------------------------------------
(***************************************************************************)
(* Mounting.                                                               *)
(***************************************************************************)

\* The mounted component makes a call in slot s.
Send(s, kind, account) ==
    /\ calls[s] = NoCall
    /\ calls' = [calls EXCEPT ![s] = Call(kind, account)]

\* Every component but App is gone.
Unmounted ==
    [s \in Slots |-> IF calls[s] # NoCall /\ calls[s].kind # "restore"
                     THEN [calls[s] EXCEPT !.mounted = FALSE] ELSE calls[s]]

FreshComponent(isLoading) == rows' = NoUser /\ loading' = isLoading /\ saving' = FALSE

\* setUser and setToken, by the code that awaits the call in slot s.  The
\* dashboard fetches its tasks when it is mounted and when the token changes; the
\* other pages stay as they are.
HandleAuth(s, account, newToken) ==
    /\ user' = account /\ token' = newToken
    /\ UNCHANGED page
    /\ \/ /\ user = NoUser
          /\ calls' = [Unmounted EXCEPT ![s] = Call("list", newToken)]
          /\ FreshComponent(FALSE)
          /\ UNCHANGED switched
       \/ /\ user # NoUser
          /\ calls' = [calls EXCEPT ![s] = IF page = "dashboard" THEN Call("list", newToken)
                                                                 ELSE NoCall]
          /\ switched' = (switched \/ account # user)
          /\ UNCHANGED component

-----------------------------------------------------------------------------
(***************************************************************************)
(* App: restoring a session, logging out, going to a page, reloading.      *)
(***************************************************************************)

\* Mutation: the token is read from the store when the answer arrives.
RestoreAnsweredLate(s) ==
    /\ calls[s] # NoCall /\ calls[s].kind = "restore"
    /\ HandleAuth(s, calls[s].token, stored)
    /\ UNCHANGED <<stored, overtaken>>

RestoreAnswered(s) ==
    /\ calls[s] # NoCall /\ calls[s].kind = "restore"
    /\ \/ HandleAuth(s, calls[s].token, calls[s].token) /\ UNCHANGED stored
       \/ /\ stored' = NoUser
          /\ calls' = [calls EXCEPT ![s] = NoCall]
          /\ UNCHANGED <<tab, component, switched>>
    /\ UNCHANGED overtaken

HandleLogout ==
    /\ user # NoUser
    /\ stored' = NoUser
    /\ user' = NoUser /\ token' = NoUser /\ page' = "dashboard"
    /\ calls' = Unmounted
    /\ FreshComponent(FALSE)
    /\ switched' = FALSE
    /\ UNCHANGED overtaken

\* The effects of the new page fetch its list.
Navigate(p) ==
    /\ user # NoUser /\ p # page
    /\ p = "admin" => user \in Admins
    /\ page' = p
    /\ \/ /\ p \in {"dashboard", "tasks", "admin"}
          /\ \E s \in Slots : /\ calls[s] = NoCall
                              /\ calls' = [Unmounted EXCEPT ![s] = Call("list", token)]
       \/ /\ p \in {"profile", "tokens", "apilog"}
          /\ calls' = Unmounted
    /\ FreshComponent(p \in {"tasks", "admin"})
    /\ switched' = FALSE
    /\ UNCHANGED <<stored, user, token, overtaken>>

\* Only sessionStorage outlives a reload.
Reload ==
    /\ user' = NoUser /\ token' = NoUser /\ page' = "dashboard"
    /\ calls' \in Restoring
    /\ FreshComponent(FALSE)
    /\ overtaken' = FALSE /\ switched' = FALSE
    /\ UNCHANGED stored

-----------------------------------------------------------------------------
(***************************************************************************)
(* AuthScreen.                                                             *)
(***************************************************************************)

HandleSubmit ==
    /\ user = NoUser /\ ~ saving
    /\ \E s \in Slots : \/ \E a \in Accounts : Send(s, "login", a)
                        \/ Send(s, "register", NoUser)
    /\ saving' = TRUE
    /\ overtaken' = (overtaken \/ \E s \in Slots : calls[s] # NoCall /\ calls[s].kind = "restore")
    /\ UNCHANGED <<stored, tab, rows, loading, switched>>

\* Code that awaits the call in slot s ends it, and with it the submission.
Finish(s) ==
    /\ calls' = [calls EXCEPT ![s] = NoCall]
    /\ saving' = (saving /\ ~ calls[s].mounted)
    /\ UNCHANGED <<tab, rows, loading>>

LoginAnswered(s) ==
    /\ calls[s] # NoCall /\ calls[s].kind = "login"
    /\ \/ /\ stored' = calls[s].token
          /\ calls' = [calls EXCEPT ![s].kind = "me"]
          /\ UNCHANGED <<tab, component>>
       \/ Finish(s) /\ UNCHANGED stored
    /\ UNCHANGED history

\* Mutation: only a login that succeeds enables the form again.
MeAnsweredStuck(s) ==
    /\ calls[s] # NoCall /\ calls[s].kind = "me"
    /\ \/ HandleAuth(s, calls[s].token, calls[s].token)
       \/ calls' = [calls EXCEPT ![s] = NoCall] /\ UNCHANGED <<tab, component, switched>>
    /\ UNCHANGED <<stored, overtaken>>

MeAnswered(s) ==
    /\ calls[s] # NoCall /\ calls[s].kind = "me"
    /\ \/ HandleAuth(s, calls[s].token, calls[s].token)
       \/ Finish(s) /\ UNCHANGED switched
    /\ UNCHANGED <<stored, overtaken>>

RegisterAnswered(s) ==
    /\ calls[s] # NoCall /\ calls[s].kind = "register"
    /\ Finish(s)
    /\ UNCHANGED <<stored, history>>

-----------------------------------------------------------------------------
(***************************************************************************)
(* Dashboard, TaskManager, AdminPanel, ProfilePage.                        *)
(***************************************************************************)

\* Apply, Search and the buttons for the next and the previous page.
FetchTasks ==
    /\ user # NoUser /\ page \in {"tasks", "admin"}
    /\ \E s \in Slots : Send(s, "list", token)
    /\ loading' = TRUE
    /\ UNCHANGED <<stored, tab, rows, saving, history>>

\* Mutation: the rows are kept outside of the component, as the API log is.
ListAnsweredAnywhere(s) ==
    /\ calls[s] # NoCall /\ calls[s].kind = "list"
    /\ calls' = [calls EXCEPT ![s] = NoCall]
    /\ rows' \in {rows, calls[s].token}
    /\ loading' = FALSE
    /\ UNCHANGED <<stored, tab, saving, history>>

ListAnswered(s) ==
    /\ calls[s] # NoCall /\ calls[s].kind = "list"
    /\ calls' = [calls EXCEPT ![s] = NoCall]
    /\ \/ calls[s].mounted /\ rows' \in {rows, calls[s].token} /\ loading' = FALSE
       \/ ~ calls[s].mounted /\ UNCHANGED <<rows, loading>>
    /\ UNCHANGED <<stored, tab, saving, history>>

HandleSave ==
    /\ user # NoUser /\ page = "tasks" /\ ~ saving
    /\ \E s \in Slots : Send(s, "save", token)
    /\ saving' = TRUE
    /\ UNCHANGED <<stored, tab, rows, loading, history>>

HandleDelete ==
    /\ user # NoUser /\ page = "tasks"
    /\ \E s \in Slots : Send(s, "delete", token)
    /\ UNCHANGED <<stored, tab, component, history>>

\* toggleActive and makeAdmin.
UpdateUser ==
    /\ user # NoUser /\ page = "admin"
    /\ \E s \in Slots : Send(s, "patch", token)
    /\ UNCHANGED <<stored, tab, component, history>>

ChangePassword ==
    /\ user # NoUser /\ page = "profile" /\ ~ saving
    /\ \E s \in Slots : Send(s, "password", token)
    /\ saving' = TRUE
    /\ UNCHANGED <<stored, tab, rows, loading, history>>

\* After a success the list is fetched again, with the token the change was made
\* with, also when the component has gone meanwhile.
ChangeAnswered(s) ==
    /\ calls[s] # NoCall /\ calls[s].kind \in {"save", "delete", "patch"}
    /\ \/ /\ calls' = [calls EXCEPT ![s].kind = "list"]
          /\ loading' = (loading \/ calls[s].mounted)
       \/ /\ calls' = [calls EXCEPT ![s] = NoCall]
          /\ UNCHANGED loading
    /\ saving' = (saving /\ ~ (calls[s].kind = "save" /\ calls[s].mounted))
    /\ UNCHANGED <<stored, tab, rows, history>>

PasswordAnswered(s) ==
    /\ calls[s] # NoCall /\ calls[s].kind = "password"
    /\ Finish(s)
    /\ UNCHANGED <<stored, history>>

-----------------------------------------------------------------------------

Answered(s) ==
    \/ RestoreAnswered(s) \/ LoginAnswered(s) \/ MeAnswered(s) \/ RegisterAnswered(s)
    \/ ListAnswered(s) \/ ChangeAnswered(s) \/ PasswordAnswered(s)

Click ==
    \/ HandleSubmit \/ HandleLogout \/ \E p \in Pages : Navigate(p)
    \/ FetchTasks \/ HandleSave \/ HandleDelete \/ UpdateUser \/ ChangePassword

Next == Click \/ Reload \/ \E s \in Slots : Answered(s)

Spec == Init /\ [][Next]_vars

\* The server answers or the connection fails; either way apiRequest returns.
FairSpec == Spec /\ \A s \in Slots : WF_vars(Answered(s))

-----------------------------------------------------------------------------
(***************************************************************************)
(* Properties.                                                             *)
(***************************************************************************)

\* Nobody sees what was fetched for another account, also by an answer that comes
\* after a logout and a login.  One case is left: where somebody submits the login
\* form before the stored session is restored, the account may change under a
\* mounted component, and TaskManager and AdminPanel fetch when they are mounted
\* and not when the token changes (index.html:580, 923).  Then that one component
\* may show, and still receive, the rows of the account before; the next page does
\* not.
RowsOfShownAccount == rows \in {user, NoUser} \/ (overtaken /\ switched)

\* The account shown is the one whose token the next call carries, also when a
\* restored session and a login answer in any order (index.html:995, 1003), and a
\* reload restores it and no other (the same exception: a restore that fails clears
\* what a login has stored).
IdentityAgrees ==
    /\ user = token
    /\ ~ overtaken /\ user # NoUser => stored = user

\* No form stays disabled for ever, and no list behind its spinner while its page
\* stays, whatever the server answers (index.html:450, 577, 600, 786, 920).
FormsRecover ==
    /\ saving ~> ~ saving
    /\ \A p \in Pages : loading /\ page = p ~> ~ (loading /\ page = p)
=============================================================================
