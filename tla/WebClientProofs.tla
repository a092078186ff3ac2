---------------------------- MODULE WebClientProofs ----------------------------
(***************************************************************************)
(* Theorems about WebClient, for any accounts and any number of calls in   *)
(* flight.                                                                 *)
(***************************************************************************)
EXTENDS WebClient, TLAPS

-----------------------------------------------------------------------------
(***************************************************************************)
(* The inductive invariant.                                                *)
(***************************************************************************)

\* The calls that may end with another account shown, or keep the login form busy.
Authenticating == {"restore", "login", "me", "register"}

InFlight(s, kinds) == calls[s] # NoCall /\ calls[s].kind \in kinds

\* What a call may still do fits what is shown and stored.
Fitting(s) ==
    /\ InFlight(s, Authenticating) => user = NoUser
    /\ InFlight(s, {"restore", "me"}) => stored = calls[s].token
    /\ InFlight(s, Authenticating \ {"restore"}) => saving = TRUE
    /\ InFlight(s, Kinds \ Authenticating) /\ calls[s].mounted = TRUE => calls[s].token = user

\* As long as no login overtakes the restore of a session, one call at most decides who
\* is shown.
Orderly ==
    /\ rows \in {user, NoUser}
    /\ user # NoUser => stored = user
    /\ \A s \in Slots : Fitting(s)
    /\ \A s, t \in Slots :
           InFlight(s, Authenticating) /\ InFlight(t, Authenticating) => s = t

IInv ==
    /\ TypeOK
    /\ user = token
    /\ ~ overtaken => Orderly

-----------------------------------------------------------------------------
(***************************************************************************)
(* Calls.                                                                  *)
(***************************************************************************)

LEMMA CallFields ==
    ASSUME NEW kind \in Kinds \ {"register"}, NEW account \in Accounts
    PROVE  /\ Call(kind, account) \in Calls /\ Call(kind, account) # NoCall
           /\ Call(kind, account).kind = kind /\ Call(kind, account).token = account
           /\ Call(kind, account).mounted = TRUE
  <1>1. Call(kind, account) \in [kind : Kinds \ {"register"}, token : Accounts, mounted : BOOLEAN]
    BY DEF Call
  <1>2. QED
    BY <1>1, WebAssumption DEF Call, Calls

\* The call of a registration carries nobody's token.
LEMMA RegisterFields ==
    /\ Call("register", NoUser) \in Calls /\ Call("register", NoUser) # NoCall
    /\ Call("register", NoUser).kind = "register"
  <1>1. Call("register", NoUser) \in [kind : {"register"}, token : {NoUser}, mounted : BOOLEAN]
    BY DEF Call
  <1>2. QED
    BY <1>1, WebAssumption DEF Call, Calls

LEMMA CallsTyped ==
    ASSUME NEW c \in Calls
    PROVE  /\ c.kind \in Kinds /\ c.mounted \in BOOLEAN /\ c # NoCall
           /\ c.kind # "register" => c.token \in Accounts
           /\ \A k \in Kinds \ {"register"} : c.kind # "register" =>
                  /\ [c EXCEPT !.kind = k] \in Calls
                  /\ [c EXCEPT !.kind = k].kind = k
                  /\ [c EXCEPT !.kind = k].token = c.token
                  /\ [c EXCEPT !.kind = k].mounted = c.mounted
  BY WebAssumption DEF Calls, Kinds

\* A call that is in flight keeps its kind and its token when its component goes.
LEMMA UnmountedFields ==
    ASSUME TypeOK, NEW s \in Slots
    PROVE  /\ Unmounted \in [Slots -> Calls \cup {NoCall}]
           /\ Unmounted[s] # NoCall <=> calls[s] # NoCall
           /\ calls[s] # NoCall => /\ Unmounted[s].kind = calls[s].kind
                                   /\ Unmounted[s].token = calls[s].token
                                   /\ calls[s].kind # "restore" => Unmounted[s].mounted = FALSE
  <1> DEFINE off == FALSE
  <1>1. ASSUME NEW t \in Slots, calls[t] # NoCall
        PROVE  /\ calls[t] \in Calls
               /\ [calls[t] EXCEPT !.mounted = off] \in Calls
               /\ [calls[t] EXCEPT !.mounted = off].kind = calls[t].kind
               /\ [calls[t] EXCEPT !.mounted = off].token = calls[t].token
               /\ [calls[t] EXCEPT !.mounted = off].mounted = off
    <2>1. calls[t] \in Calls
      BY <1>1 DEF TypeOK
    <2>2. off \in BOOLEAN
      OBVIOUS
    <2> HIDE DEF off
    <2>3. QED
      BY <2>1, <2>2 DEF Calls
  <1>2. Unmounted = [t \in Slots |-> IF calls[t] # NoCall /\ calls[t].kind # "restore"
                                    THEN [calls[t] EXCEPT !.mounted = off] ELSE calls[t]]
    BY DEF Unmounted
  <1>3. off = FALSE
    OBVIOUS
  <1> HIDE DEF off
  <1>4. Unmounted \in [Slots -> Calls \cup {NoCall}]
    BY <1>1, <1>2 DEF TypeOK
  <1>5. Unmounted[s] = IF calls[s] # NoCall /\ calls[s].kind # "restore"
                       THEN [calls[s] EXCEPT !.mounted = off] ELSE calls[s]
    BY <1>2
  <1>6. NoCall \notin Calls
    BY WebAssumption
  <1>7. CASE calls[s] # NoCall /\ calls[s].kind # "restore"
    <2>1. Unmounted[s] = [calls[s] EXCEPT !.mounted = off]
      BY <1>5, <1>7
    <2>2. QED
      BY <1>1, <1>3, <1>4, <1>6, <1>7, <2>1
  <1>8. CASE calls[s] = NoCall \/ calls[s].kind = "restore"
    BY <1>4, <1>5, <1>8
  <1>9. QED
    BY <1>7, <1>8

-----------------------------------------------------------------------------
(***************************************************************************)
(* The steps.                                                              *)
(***************************************************************************)

\* A step that concerns one call, and neither who is shown nor what is stored.
LEMMA OneCallStep ==
    ASSUME IInv, TypeOK', NEW s \in Slots,
           user' = user, token' = token, stored' = stored, overtaken' = overtaken,
           \A t \in Slots \ {s} : calls'[t] = calls[t],
           ~ overtaken /\ Orderly =>
               /\ rows' \in {rows, user}
               /\ \/ calls'[s] = NoCall
                  \/ /\ calls'[s].kind \notin Authenticating
                     /\ calls'[s].mounted = TRUE => calls'[s].token = user
               /\ \A t \in Slots \ {s} : InFlight(t, Authenticating \ {"restore"}) => saving' = TRUE
    PROVE  IInv'
  <1>1. user' = token'
    BY DEF IInv
  <1>2. ASSUME ~ overtaken' PROVE Orderly'
    <2>1. ~ overtaken /\ Orderly
      BY <1>2 DEF IInv
    <2>2. /\ \/ calls'[s] = NoCall
             \/ /\ calls'[s].kind \notin Authenticating
                /\ calls'[s].mounted = TRUE => calls'[s].token = user
          /\ \A t \in Slots \ {s} : InFlight(t, Authenticating \ {"restore"}) => saving' = TRUE
          /\ rows' \in {user', NoUser}
      BY <2>1 DEF Orderly
    <2>3. ~ InFlight(s, Authenticating)' /\ Fitting(s)'
      BY <2>2 DEF InFlight, Fitting, Authenticating
    <2>4. ASSUME NEW t \in Slots, t # s
          PROVE  Fitting(t)' /\ (InFlight(t, Authenticating)' <=> InFlight(t, Authenticating))
      <3>1. calls'[t] = calls[t] /\ Fitting(t)
        BY <2>1, <2>4 DEF Orderly
      <3>2. QED
        BY <2>2, <2>4, <3>1 DEF Fitting, InFlight
    <2>5. user' # NoUser => stored' = user'
      BY <2>1 DEF Orderly
    <2>6. \A t, v \in Slots : InFlight(t, Authenticating)' /\ InFlight(v, Authenticating)' => t = v
      BY <2>1, <2>3, <2>4 DEF Orderly
    <2>7. \A t \in Slots : Fitting(t)'
      BY <2>3, <2>4
    <2>8. QED
      BY <2>2, <2>5, <2>6, <2>7 DEF Orderly
  <1>3. QED
    BY <1>1, <1>2 DEF IInv

\* A click that calls with the token of the account that is shown.
LEMMA SendStep ==
    ASSUME IInv, NEW s \in Slots, NEW kind \in Kinds \ Authenticating, user # NoUser,
           Send(s, kind, token), UNCHANGED <<stored, tab, rows, history>>,
           loading' \in BOOLEAN, saving' \in {saving, TRUE}
    PROVE  IInv'
  <1> DEFINE x == Call(kind, token)
  <1>1. TypeOK /\ user = token
    BY DEF IInv
  <1>2. user \in Accounts /\ token \in Accounts
    BY <1>1 DEF TypeOK
  <1>3. x \in Calls /\ x.kind = kind /\ x.token = user /\ x # NoCall
    BY <1>1, <1>2, CallFields DEF Authenticating
  <1>4. calls' = [calls EXCEPT ![s] = x]
    BY DEF Send
  <1> HIDE DEF x
  <1>5. UNCHANGED <<stored, user, token, page, rows, overtaken, switched>>
    BY DEF tab, history
  <1>6. TypeOK'
    <2>1. saving' \in BOOLEAN
      BY <1>1 DEF TypeOK
    <2>2. calls' \in [Slots -> Calls \cup {NoCall}]
      BY <1>1, <1>3, <1>4 DEF TypeOK
    <2>3. QED
      BY <1>1, <1>5, <2>1, <2>2 DEF TypeOK
  <1>7. calls'[s] = x /\ \A t \in Slots \ {s} : calls'[t] = calls[t]
    BY <1>1, <1>4 DEF TypeOK
  <1>8. ASSUME ~ overtaken, Orderly, NEW t \in Slots, InFlight(t, Authenticating \ {"restore"})
        PROVE  saving' = TRUE
    <2>1. saving = TRUE
      BY <1>8 DEF Orderly, Fitting
    <2>2. QED
      BY <2>1
  <1>9. QED
    BY <1>3, <1>5, <1>6, <1>7, <1>8, OneCallStep

\* A call that only ends, and frees the form of its component if that is still there.
LEMMA FinishStep ==
    ASSUME IInv, NEW s \in Slots, InFlight(s, {"login", "me", "register", "password"}), Finish(s),
           UNCHANGED <<stored, overtaken, switched>>
    PROVE  IInv'
  <1>1. TypeOK /\ user = token
    BY DEF IInv
  <1>2. /\ calls' = [calls EXCEPT ![s] = NoCall]
        /\ saving' = (saving /\ ~ calls[s].mounted)
        /\ UNCHANGED <<user, token, page, rows, loading>>
    BY DEF Finish, tab
  <1>3. calls[s] \in Calls
    BY <1>1 DEF TypeOK, InFlight
  <1>4. TypeOK'
    <2>1. saving' \in BOOLEAN
      BY <1>2
    <2>2. calls' \in [Slots -> Calls \cup {NoCall}]
      BY <1>1, <1>2 DEF TypeOK
    <2>3. QED
      BY <1>1, <1>2, <2>1, <2>2 DEF TypeOK
  <1>5. calls'[s] = NoCall /\ \A t \in Slots \ {s} : calls'[t] = calls[t]
    BY <1>1, <1>2 DEF TypeOK
  <1>6. ASSUME ~ overtaken, Orderly, NEW t \in Slots \ {s},
               InFlight(t, Authenticating \ {"restore"})
        PROVE  saving' = TRUE
    <2>1. saving = TRUE /\ user = NoUser /\ ~ InFlight(s, Authenticating)
      BY <1>6 DEF Orderly, Fitting, InFlight
    <2>2. calls[s].kind = "password"
      BY <2>1 DEF InFlight, Authenticating
    <2>3. calls[s].token \in Accounts /\ calls[s].mounted \in BOOLEAN
      BY <1>3, <2>2, CallsTyped
    <2>4. calls[s].mounted = TRUE => calls[s].token = user
      BY <1>6, <2>2 DEF Orderly, Fitting, InFlight, Authenticating, Kinds
    <2>5. calls[s].mounted = FALSE
      BY <2>1, <2>3, <2>4, WebAssumption
    <2>6. QED
      BY <1>2, <2>1, <2>5
  <1>7. QED
    BY <1>2, <1>4, <1>5, <1>6, OneCallStep

\* The answer to a change, after which the list is fetched again or not.
LEMMA ChangeStep ==
    ASSUME IInv, NEW s \in Slots, ChangeAnswered(s)
    PROVE  IInv'
  <1> DEFINE x == [calls[s] EXCEPT !.kind = "list"]
  <1>1. TypeOK /\ user = token
    BY DEF IInv
  <1>2. /\ calls[s] # NoCall /\ calls[s].kind \in {"save", "delete", "patch"}
        /\ calls' = [calls EXCEPT ![s] = x] \/ calls' = [calls EXCEPT ![s] = NoCall]
        /\ saving' = (saving /\ ~ (calls[s].kind = "save" /\ calls[s].mounted))
        /\ UNCHANGED <<stored, user, token, page, rows, overtaken, switched>>
    BY DEF ChangeAnswered, tab, history
  <1>3. calls[s] \in Calls
    BY <1>1, <1>2 DEF TypeOK
  <1>4. /\ x \in Calls /\ x.kind = "list" /\ x.token = calls[s].token
        /\ x.mounted = calls[s].mounted
        /\ calls[s].mounted \in BOOLEAN /\ calls[s].token \in Accounts
    BY <1>2, <1>3, CallsTyped DEF Kinds
  <1> HIDE DEF x
  <1>5. TypeOK'
    <2>1. saving' \in BOOLEAN
      BY <1>2
    <2>2. calls' \in [Slots -> Calls \cup {NoCall}]
      BY <1>1, <1>2, <1>4 DEF TypeOK
    <2>3. loading' \in BOOLEAN
      <3>1. loading' = (loading \/ calls[s].mounted) \/ loading' = loading
        BY DEF ChangeAnswered
      <3>2. QED
        BY <1>1, <3>1 DEF TypeOK
    <2>4. QED
      BY <1>1, <1>2, <2>1, <2>2, <2>3 DEF TypeOK
  <1>6. calls'[s] \in {x, NoCall} /\ \A t \in Slots \ {s} : calls'[t] = calls[t]
    BY <1>1, <1>2 DEF TypeOK
  <1>7. ASSUME ~ overtaken, Orderly
        PROVE  calls[s].mounted = TRUE => calls[s].token = user
    BY <1>2, <1>7 DEF Orderly, Fitting, InFlight, Authenticating, Kinds
  <1>8. ASSUME ~ overtaken, Orderly, NEW t \in Slots \ {s},
               InFlight(t, Authenticating \ {"restore"})
        PROVE  saving' = TRUE
    <2>1. saving = TRUE /\ user = NoUser
      BY <1>8 DEF Orderly, Fitting, InFlight
    <2>2. calls[s].mounted = FALSE
      BY <1>4, <1>7, <1>8, <2>1, WebAssumption
    <2>3. QED
      BY <1>2, <2>1, <2>2
  <1>9. x.kind \notin Authenticating
    BY <1>4 DEF Authenticating
  <1>10. ASSUME ~ overtaken, Orderly
         PROVE  \/ calls'[s] = NoCall
                \/ /\ calls'[s].kind \notin Authenticating
                   /\ calls'[s].mounted = TRUE => calls'[s].token = user
    BY <1>4, <1>6, <1>7, <1>9, <1>10
  <1>11. QED
    BY <1>2, <1>5, <1>6, <1>8, <1>10, OneCallStep

\* Rows are shown by the component that asked for them.
LEMMA ListStep ==
    ASSUME IInv, NEW s \in Slots, ListAnswered(s)
    PROVE  IInv'
  <1>1. TypeOK /\ user = token
    BY DEF IInv
  <1>2. /\ calls[s] # NoCall /\ calls[s].kind = "list"
        /\ calls' = [calls EXCEPT ![s] = NoCall]
        /\ \/ calls[s].mounted /\ rows' \in {rows, calls[s].token} /\ loading' = FALSE
           \/ ~ calls[s].mounted /\ UNCHANGED <<rows, loading>>
        /\ UNCHANGED <<stored, user, token, page, saving, overtaken, switched>>
    BY DEF ListAnswered, tab, history
  <1>3. calls[s] \in Calls
    BY <1>1, <1>2 DEF TypeOK
  <1>4. calls[s].token \in Accounts /\ calls[s].mounted \in BOOLEAN
    BY <1>2, <1>3, CallsTyped
  <1>5. TypeOK'
    <2>1. loading' \in BOOLEAN /\ rows' \in Accounts \cup {NoUser}
      BY <1>1, <1>2, <1>4 DEF TypeOK
    <2>2. calls' \in [Slots -> Calls \cup {NoCall}]
      BY <1>1, <1>2 DEF TypeOK
    <2>3. QED
      BY <1>1, <1>2, <2>1, <2>2 DEF TypeOK
  <1>6. calls'[s] = NoCall /\ \A t \in Slots \ {s} : calls'[t] = calls[t]
    BY <1>1, <1>2 DEF TypeOK
  <1>7. ASSUME ~ overtaken, Orderly
        PROVE  rows' \in {rows, user}
    <2>1. calls[s].mounted = TRUE => calls[s].token = user
      BY <1>2, <1>7 DEF Orderly, Fitting, InFlight, Authenticating, Kinds
    <2>2. CASE calls[s].mounted
      BY <1>2, <1>4, <2>1, <2>2
    <2>3. CASE ~ calls[s].mounted
      BY <1>2, <2>3
    <2>4. QED
      BY <2>2, <2>3
  <1>8. ASSUME ~ overtaken, Orderly, NEW t \in Slots, InFlight(t, Authenticating \ {"restore"})
        PROVE  saving' = TRUE
    <2>1. saving = TRUE
      BY <1>8 DEF Orderly, Fitting
    <2>2. QED
      BY <1>2, <2>1
  <1>9. QED
    BY <1>2, <1>5, <1>6, <1>7, <1>8, OneCallStep

\* A login's first answer: its token is stored before it is known whose it is.
LEMMA LoginStep ==
    ASSUME IInv, NEW s \in Slots, LoginAnswered(s)
    PROVE  IInv'
  <1> DEFINE x == [calls[s] EXCEPT !.kind = "me"]
  <1>1. TypeOK /\ user = token
    BY DEF IInv
  <1>2. /\ calls[s] # NoCall /\ calls[s].kind = "login"
        /\ overtaken' = overtaken /\ switched' = switched
    BY DEF LoginAnswered, history
  <1>3. CASE Finish(s) /\ UNCHANGED stored
    BY <1>2, <1>3, FinishStep DEF InFlight
  <1>4. CASE /\ stored' = calls[s].token
             /\ calls' = [calls EXCEPT ![s] = x]
             /\ UNCHANGED <<tab, component>>
    <2>1. calls[s] \in Calls
      BY <1>1, <1>2 DEF TypeOK
    <2>2. /\ x \in Calls /\ x # NoCall /\ x.kind = "me" /\ x.token = calls[s].token
          /\ calls[s].token \in Accounts
      BY <1>2, <2>1, CallsTyped DEF Kinds
    <2> HIDE DEF x
    <2>3. UNCHANGED <<user, token, page, rows, loading, saving>>
      BY <1>4 DEF tab, component
    <2>4. TypeOK'
      <3>1. calls' \in [Slots -> Calls \cup {NoCall}]
        BY <1>1, <1>4, <2>2 DEF TypeOK
      <3>2. QED
        BY <1>1, <1>2, <1>4, <2>2, <2>3, <3>1 DEF TypeOK
    <2>5. calls'[s] = x /\ \A t \in Slots \ {s} : calls'[t] = calls[t]
      BY <1>1, <1>4 DEF TypeOK
    <2>6. ASSUME ~ overtaken' PROVE Orderly'
      <3>1. Orderly /\ InFlight(s, Authenticating) /\ InFlight(s, Authenticating \ {"restore"})
        BY <1>2, <2>6 DEF IInv, InFlight, Authenticating
      <3>2. user = NoUser /\ saving = TRUE
        BY <3>1 DEF Orderly, Fitting
      <3>3. Fitting(s)'
        BY <1>4, <2>2, <2>3, <2>5, <3>2 DEF Fitting, InFlight, Authenticating
      <3>4. ASSUME NEW t \in Slots, t # s
            PROVE  Fitting(t)' /\ ~ InFlight(t, Authenticating)'
        <4>1. calls'[t] = calls[t] /\ Fitting(t) /\ ~ InFlight(t, Authenticating)
          BY <2>5, <3>1, <3>4 DEF Orderly
        <4>2. QED
          BY <2>3, <4>1 DEF Fitting, InFlight, Authenticating
      <3>5. QED
        BY <2>3, <3>1, <3>2, <3>3, <3>4 DEF Orderly
    <2>7. QED
      BY <1>1, <2>3, <2>4, <2>6 DEF IInv
  <1>5. QED
    BY <1>3, <1>4 DEF LoginAnswered

\* Every component but App is gone, and the rows with them; the new page may fetch its
\* own.
LEMMA FreshStep ==
    ASSUME IInv, TypeOK', UNCHANGED overtaken, user' = token', rows' = NoUser,
           ~ overtaken /\ Orderly =>
               /\ user' # NoUser => stored' = user'
               /\ \A t \in Slots :
                      \/ calls'[t] = NoCall
                      \/ calls'[t] = Unmounted[t] /\ ~ InFlight(t, Authenticating)
                      \/ calls'[t].kind = "list" /\ calls'[t].token = user'
    PROVE  IInv'
  <1>1. TypeOK
    BY DEF IInv
  <1>2. ASSUME ~ overtaken' PROVE Orderly'
    <2>1. ~ overtaken /\ Orderly
      BY <1>2 DEF IInv
    <2>2. ASSUME NEW t \in Slots PROVE Fitting(t)' /\ ~ InFlight(t, Authenticating)'
      <3>1. CASE calls'[t] = NoCall
        BY <3>1 DEF Fitting, InFlight
      <3>2. CASE calls'[t] = Unmounted[t] /\ ~ InFlight(t, Authenticating)
        <4>1. /\ Unmounted[t] # NoCall <=> calls[t] # NoCall
              /\ calls[t] # NoCall => /\ Unmounted[t].kind = calls[t].kind
                                      /\ calls[t].kind # "restore" => Unmounted[t].mounted = FALSE
          BY <1>1, UnmountedFields
        <4>2. QED
          BY <3>2, <4>1 DEF Fitting, InFlight, Authenticating
      <3>3. CASE calls'[t].kind = "list" /\ calls'[t].token = user'
        BY <3>3 DEF Fitting, InFlight, Authenticating
      <3>4. QED
        BY <2>1, <3>1, <3>2, <3>3
    <2>3. QED
      BY <2>1, <2>2 DEF Orderly
  <1>3. QED
    BY <1>2 DEF IInv

\* The code that awaits a restore, or a login, shows its account.
LEMMA AuthStep ==
    ASSUME IInv, NEW s \in Slots, InFlight(s, {"restore", "me"}),
           HandleAuth(s, calls[s].token, calls[s].token), UNCHANGED <<stored, overtaken>>
    PROVE  IInv'
  <1> DEFINE a == calls[s].token
             x == Call("list", a)
  <1>1. TypeOK /\ user = token
    BY DEF IInv
  <1>2. a \in Accounts
    <2>1. calls[s] \in Calls /\ calls[s].kind # "register"
      BY <1>1 DEF TypeOK, InFlight
    <2>2. QED
      BY <2>1, CallsTyped
  <1>3. user' = a /\ token' = a /\ page' = page /\ switched' \in BOOLEAN
    <2>1. \/ switched' = switched
          \/ switched' = (switched \/ calls[s].token # user)
      BY DEF HandleAuth
    <2>2. switched' \in BOOLEAN
      BY <1>1, <2>1 DEF TypeOK
    <2>3. QED
      BY <2>2 DEF HandleAuth
  <1>4. x \in Calls /\ x # NoCall /\ x.kind = "list" /\ x.token = a
    BY <1>2, CallFields DEF Kinds
  <1>5. ASSUME ~ overtaken, Orderly
        PROVE  /\ user = NoUser /\ stored = a
               /\ \A t \in Slots \ {s} : ~ InFlight(t, Authenticating)
    BY <1>5 DEF Orderly, Fitting, InFlight, Authenticating
  <1>6. CASE user = NoUser /\ calls' = [Unmounted EXCEPT ![s] = x] /\ FreshComponent(FALSE)
    <2> HIDE DEF x
    <2>1. rows' = NoUser /\ loading' \in BOOLEAN /\ saving' \in BOOLEAN
      BY <1>6 DEF FreshComponent
    <2>2. Unmounted \in [Slots -> Calls \cup {NoCall}]
      BY <1>1, UnmountedFields
    <2>3. /\ calls' \in [Slots -> Calls \cup {NoCall}] /\ calls'[s] = x
          /\ \A t \in Slots \ {s} : calls'[t] = Unmounted[t]
      BY <1>4, <1>6, <2>2
    <2>4. TypeOK'
      BY <1>1, <1>2, <1>3, <2>1, <2>3 DEF TypeOK
    <2> HIDE DEF a
    <2>5. QED
      BY <1>3, <1>4, <1>5, <2>1, <2>3, <2>4, FreshStep
  <1>7. CASE /\ user # NoUser
             /\ calls' = [calls EXCEPT ![s] = IF page = "dashboard" THEN x ELSE NoCall]
             /\ UNCHANGED component
    <2> HIDE DEF x
    <2>1. TypeOK'
      <3>1. calls' \in [Slots -> Calls \cup {NoCall}]
        BY <1>1, <1>4, <1>7 DEF TypeOK
      <3>2. QED
        BY <1>1, <1>2, <1>3, <1>7, <3>1 DEF TypeOK, component
    <2>2. ~ (~ overtaken /\ Orderly)
      BY <1>5, <1>7
    <2>3. QED
      BY <1>3, <2>1, <2>2 DEF IInv
  <1>8. QED
    BY <1>6, <1>7 DEF HandleAuth

LEMMA RestoreStep ==
    ASSUME IInv, NEW s \in Slots, RestoreAnswered(s)
    PROVE  IInv'
  <1>1. TypeOK /\ user = token
    BY DEF IInv
  <1>2. InFlight(s, {"restore", "me"}) /\ overtaken' = overtaken /\ calls[s].kind = "restore"
    BY DEF RestoreAnswered, InFlight
  <1>3. CASE HandleAuth(s, calls[s].token, calls[s].token) /\ UNCHANGED stored
    BY <1>2, <1>3, AuthStep
  <1>4. CASE /\ stored' = NoUser
             /\ calls' = [calls EXCEPT ![s] = NoCall]
             /\ UNCHANGED <<tab, component, switched>>
    <2>1. UNCHANGED <<user, token, page, rows, loading, saving, switched>>
      BY <1>4 DEF tab, component
    <2>2. TypeOK'
      <3>1. calls' \in [Slots -> Calls \cup {NoCall}]
        BY <1>1, <1>4 DEF TypeOK
      <3>2. QED
        BY <1>1, <1>2, <1>4, <2>1, <3>1 DEF TypeOK
    <2>3. calls'[s] = NoCall /\ \A t \in Slots \ {s} : calls'[t] = calls[t]
      BY <1>1, <1>4 DEF TypeOK
    <2>4. ASSUME ~ overtaken' PROVE Orderly'
      <3>1. Orderly /\ InFlight(s, Authenticating)
        BY <1>2, <2>4 DEF IInv, InFlight, Authenticating
      <3>2. user = NoUser
        BY <3>1 DEF Orderly, Fitting
      <3>3. ASSUME NEW t \in Slots PROVE Fitting(t)' /\ ~ InFlight(t, Authenticating)'
        <4>1. CASE t = s
          BY <2>3, <4>1 DEF Fitting, InFlight
        <4>2. CASE t # s
          <5>1. calls'[t] = calls[t] /\ Fitting(t) /\ ~ InFlight(t, Authenticating)
            BY <2>3, <3>1, <4>2 DEF Orderly
          <5>2. QED
            BY <2>1, <5>1 DEF Fitting, InFlight, Authenticating
        <4>3. QED
          BY <4>1, <4>2
      <3>4. QED
        BY <2>1, <3>1, <3>2, <3>3 DEF Orderly
    <2>5. QED
      BY <1>1, <2>1, <2>2, <2>4 DEF IInv
  <1>5. QED
    BY <1>3, <1>4 DEF RestoreAnswered

LEMMA LogoutStep == IInv /\ HandleLogout => IInv'
  <1> SUFFICES ASSUME IInv, HandleLogout PROVE IInv'
    OBVIOUS
  <1>1. TypeOK
    BY DEF IInv
  <1>2. /\ user # NoUser /\ user' = NoUser /\ token' = NoUser /\ stored' = NoUser
        /\ page' = "dashboard" /\ calls' = Unmounted
        /\ overtaken' = overtaken /\ switched' = FALSE
        /\ rows' = NoUser /\ loading' \in BOOLEAN /\ saving' \in BOOLEAN
    BY DEF HandleLogout, FreshComponent
  <1>3. calls' \in [Slots -> Calls \cup {NoCall}]
    <2>1. Slots # {} => Unmounted \in [Slots -> Calls \cup {NoCall}]
      BY <1>1, UnmountedFields
    <2>2. Slots = {} => Unmounted \in [Slots -> Calls \cup {NoCall}]
      BY DEF Unmounted
    <2>3. QED
      BY <1>2, <2>1, <2>2
  <1>4. TypeOK'
    BY <1>1, <1>2, <1>3 DEF TypeOK, Pages
  <1>5. ASSUME ~ overtaken, Orderly, NEW t \in Slots PROVE ~ InFlight(t, Authenticating)
    BY <1>2, <1>5 DEF Orderly, Fitting
  <1>6. QED
    BY <1>2, <1>4, <1>5, FreshStep

LEMMA NavigateStep ==
    ASSUME IInv, NEW p \in Pages, Navigate(p)
    PROVE  IInv'
  <1>1. TypeOK /\ user = token
    BY DEF IInv
  <1>2. /\ user # NoUser /\ page' = p /\ UNCHANGED <<stored, user, token, overtaken>>
        /\ rows' = NoUser /\ loading' \in BOOLEAN /\ saving' \in BOOLEAN /\ switched' = FALSE
    <2> DEFINE isLoading == p \in {"tasks", "admin"}
    <2>1. isLoading \in BOOLEAN
      OBVIOUS
    <2>2. FreshComponent(isLoading)
      BY DEF Navigate
    <2> HIDE DEF isLoading
    <2>3. rows' = NoUser /\ loading' \in BOOLEAN /\ saving' \in BOOLEAN
      BY <2>1, <2>2 DEF FreshComponent
    <2>4. QED
      BY <2>3 DEF Navigate
  <1>3. user \in Accounts /\ token \in Accounts
    BY <1>1, <1>2 DEF TypeOK
  <1>4. ASSUME NEW t \in Slots, ~ overtaken, Orderly
        PROVE  ~ InFlight(t, Authenticating) /\ stored = user
    BY <1>2, <1>4 DEF Orderly, Fitting
  <1>5. Slots # {} => Unmounted \in [Slots -> Calls \cup {NoCall}]
    BY <1>1, UnmountedFields
  <1>6. CASE calls' = Unmounted
    <2>1. calls' \in [Slots -> Calls \cup {NoCall}]
      BY <1>5, <1>6 DEF Unmounted
    <2>2. TypeOK'
      BY <1>1, <1>2, <2>1 DEF TypeOK
    <2>3. ~ overtaken /\ Orderly => stored = user
      BY <1>2 DEF Orderly
    <2>4. QED
      BY <1>1, <1>2, <1>4, <1>6, <2>2, <2>3, FreshStep
  <1>7. ASSUME NEW s \in Slots, calls' = [Unmounted EXCEPT ![s] = Call("list", token)]
        PROVE  IInv'
    <2> DEFINE x == Call("list", token)
    <2>1. x \in Calls /\ x.kind = "list" /\ x.token = user
      BY <1>1, <1>3, CallFields DEF Kinds
    <2> HIDE DEF x
    <2>2. calls' = [Unmounted EXCEPT ![s] = x]
      BY <1>7 DEF x
    <2>3. /\ calls' \in [Slots -> Calls \cup {NoCall}] /\ calls'[s] = x
          /\ \A t \in Slots \ {s} : calls'[t] = Unmounted[t]
      BY <1>5, <2>1, <2>2
    <2>4. TypeOK'
      BY <1>1, <1>2, <2>3 DEF TypeOK
    <2>5. QED
      BY <1>1, <1>2, <1>4, <2>1, <2>3, <2>4, FreshStep
  <1>8. QED
    BY <1>6, <1>7 DEF Navigate

\* At first, at most the stored session is being restored.
LEMMA InitIInv == Init => IInv
  <1> SUFFICES ASSUME Init PROVE IInv
    OBVIOUS
  <1> DEFINE x == Call("restore", stored)
  <1>1. stored # NoUser => x \in Calls /\ x # NoCall /\ x.kind = "restore" /\ x.token = stored
    BY CallFields DEF Kinds, Init
  <1>2. PICK s \in Slots : calls = IF stored = NoUser THEN Idle ELSE [Idle EXCEPT ![s] = x]
    BY DEF Init, Restoring
  <1> HIDE DEF x
  <1>3. /\ calls \in [Slots -> Calls \cup {NoCall}]
        /\ \A t \in Slots \ {s} : calls[t] = NoCall
        /\ calls[s] = IF stored = NoUser THEN NoCall ELSE x
    BY <1>1, <1>2 DEF Idle
  <1>4. TypeOK
    BY <1>3 DEF TypeOK, Init, Pages
  <1>5. ASSUME NEW t \in Slots PROVE Fitting(t) /\ (InFlight(t, Authenticating) => t = s)
    <2>1. CASE t = s /\ stored # NoUser
      BY <1>1, <1>3, <2>1 DEF Fitting, InFlight, Authenticating, Init
    <2>2. CASE t # s \/ stored = NoUser
      BY <1>3, <2>2 DEF Fitting, InFlight
    <2>3. QED
      BY <2>1, <2>2
  <1>6. QED
    BY <1>4, <1>5 DEF IInv, Orderly, Init

\* A reload starts over, with what sessionStorage holds.
LEMMA ReloadStep == IInv /\ Reload => IInv'
  <1>1. IInv /\ Reload => Init'
    BY DEF IInv, TypeOK, Reload, Init, FreshComponent, Restoring, Idle
  <1>2. Init' => IInv'
    BY InitIInv, PTL
  <1>3. QED
    BY <1>1, <1>2

\* The form is submitted: nobody is shown, and no other submission is under way.
LEMMA SubmitStep == IInv /\ HandleSubmit => IInv'
  <1> SUFFICES ASSUME IInv, HandleSubmit PROVE IInv'
    OBVIOUS
  <1>1. TypeOK /\ user = token
    BY DEF IInv
  <1>2. PICK s \in Slots : \/ \E a \in Accounts : Send(s, "login", a)
                          \/ Send(s, "register", NoUser)
    BY DEF HandleSubmit
  <1>3. PICK x \in Calls : /\ x.kind \in {"login", "register"} /\ x # NoCall
                           /\ calls[s] = NoCall /\ calls' = [calls EXCEPT ![s] = x]
    <2>1. ASSUME NEW a \in Accounts, Send(s, "login", a)
          PROVE  /\ Call("login", a) \in Calls /\ Call("login", a) # NoCall
                 /\ Call("login", a).kind = "login"
      BY CallFields DEF Kinds
    <2>2. QED
      BY <1>2, <2>1, RegisterFields DEF Send
  <1>4. /\ user = NoUser /\ ~ saving /\ saving' = TRUE
        /\ UNCHANGED <<stored, user, token, page, rows, loading, switched>>
    BY DEF HandleSubmit, tab
  <1>5. calls'[s] = x /\ \A t \in Slots \ {s} : calls'[t] = calls[t]
    BY <1>1, <1>3 DEF TypeOK
  <1>6. TypeOK'
    <2>1. calls' \in [Slots -> Calls \cup {NoCall}]
      BY <1>1, <1>3 DEF TypeOK
    <2>2. overtaken' \in BOOLEAN
      BY DEF HandleSubmit
    <2>3. QED
      BY <1>1, <1>4, <2>1, <2>2 DEF TypeOK
  <1>7. ASSUME ~ overtaken' PROVE Orderly'
    <2>1. ~ overtaken /\ \A t \in Slots : ~ InFlight(t, {"restore"})
      BY <1>7 DEF HandleSubmit, InFlight
    <2>2. Orderly
      BY <2>1 DEF IInv
    <2>3. ASSUME NEW t \in Slots PROVE ~ InFlight(t, Authenticating)
      BY <1>4, <2>1, <2>2 DEF Orderly, Fitting, InFlight, Authenticating
    <2>4. ASSUME NEW t \in Slots, t # s PROVE Fitting(t)' /\ ~ InFlight(t, Authenticating)'
      <3>1. calls'[t] = calls[t] /\ Fitting(t) /\ ~ InFlight(t, Authenticating)
        BY <1>5, <2>2, <2>3, <2>4 DEF Orderly
      <3>2. QED
        BY <1>4, <3>1 DEF Fitting, InFlight, Authenticating
    <2>5. Fitting(s)'
      BY <1>3, <1>4, <1>5 DEF Fitting, InFlight, Authenticating
    <2>6. QED
      BY <1>4, <2>2, <2>4, <2>5 DEF Orderly
  <1>8. QED
    BY <1>1, <1>4, <1>6, <1>7 DEF IInv

LEMMA NextIInv == IInv /\ [Next]_vars => IInv'
  <1> SUFFICES ASSUME IInv, [Next]_vars PROVE IInv'
    OBVIOUS
  <1>1. TypeOK
    BY DEF IInv
  <1>2. ASSUME NEW s \in Slots, Answered(s) PROVE IInv'
    <2>1. CASE MeAnswered(s)
      BY <2>1, AuthStep, FinishStep DEF MeAnswered, InFlight
    <2>2. CASE RegisterAnswered(s) \/ PasswordAnswered(s)
      BY <2>2, FinishStep DEF RegisterAnswered, PasswordAnswered, InFlight, history
    <2>3. QED
      BY <1>2, <2>1, <2>2, RestoreStep, LoginStep, ListStep, ChangeStep DEF Answered
  <1>3. CASE FetchTasks
    BY <1>1, <1>3, SendStep DEF FetchTasks, TypeOK, Kinds, Authenticating
  <1>4. CASE HandleSave
    BY <1>1, <1>4, SendStep DEF HandleSave, TypeOK, Kinds, Authenticating
  <1>5. CASE HandleDelete
    BY <1>1, <1>5, SendStep DEF HandleDelete, TypeOK, Kinds, Authenticating, component
  <1>6. CASE UpdateUser
    BY <1>1, <1>6, SendStep DEF UpdateUser, TypeOK, Kinds, Authenticating, component
  <1>7. CASE ChangePassword
    BY <1>1, <1>7, SendStep DEF ChangePassword, TypeOK, Kinds, Authenticating
  <1>8. CASE UNCHANGED vars
    <2>1. /\ UNCHANGED <<stored, user, token, page, rows, loading, saving, calls>>
          /\ UNCHANGED <<overtaken, switched>>
      BY <1>8 DEF vars, tab, component, history
    <2>2. QED
      BY <2>1 DEF IInv, TypeOK, Orderly, Fitting, InFlight
  <1>9. QED
    BY <1>2, <1>3, <1>4, <1>5, <1>6, <1>7, <1>8, ReloadStep, SubmitStep, LogoutStep, NavigateStep
       DEF Next, Click

-----------------------------------------------------------------------------
(***************************************************************************)
(* The rows of a component under which the account has not changed,        *)
(* whether or not a login overtook the restore.                            *)
(***************************************************************************)

OwnCall(s) ==
    InFlight(s, Kinds \ Authenticating) /\ calls[s].mounted = TRUE => calls[s].token = user

Settled == ~ switched => rows \in {user, NoUser} /\ \A s \in Slots : OwnCall(s)

\* A step of which every call that is new, or goes on under its component, is the own
\* one of who is shown.
LEMMA SettledStep ==
    ASSUME Settled, switched' = switched, user' = user, rows' \in {rows, user},
           \A t \in Slots : \/ calls'[t] = calls[t] \/ calls'[t] = NoCall
                            \/ calls'[t].kind \in Authenticating
                            \/ calls'[t].mounted = TRUE /\ ~ switched => calls'[t].token = user
    PROVE  Settled'
  <1>1. ASSUME ~ switched', NEW t \in Slots PROVE OwnCall(t)'
    <2>1. OwnCall(t)
      BY <1>1 DEF Settled
    <2>2. QED
      BY <1>1, <2>1 DEF OwnCall, InFlight
  <1>2. QED
    BY <1>1 DEF Settled

\* A step after which no component of before is mounted.
LEMMA SettledAnew ==
    ASSUME TypeOK, rows' = NoUser,
           \A t \in Slots : \/ calls'[t] = NoCall \/ calls'[t] = Unmounted[t]
                            \/ calls'[t].kind \in Authenticating \/ calls'[t].token = user'
    PROVE  Settled'
  <1>1. ASSUME NEW t \in Slots PROVE OwnCall(t)'
    <2>1. /\ Unmounted[t] # NoCall <=> calls[t] # NoCall
          /\ calls[t] # NoCall => /\ Unmounted[t].kind = calls[t].kind
                                  /\ calls[t].kind # "restore" => Unmounted[t].mounted = FALSE
      BY UnmountedFields
    <2>2. QED
      BY <2>1 DEF OwnCall, InFlight, Authenticating
  <1>2. QED
    BY <1>1 DEF Settled

\* The code that awaits a restore or a login shows its account, in a fresh component or in
\* the one that is mounted.
LEMMA SettledAuth ==
    ASSUME IInv, Settled, NEW s \in Slots, InFlight(s, {"restore", "me"}),
           HandleAuth(s, calls[s].token, calls[s].token)
    PROVE  Settled'
  <1> DEFINE a == calls[s].token
             x == Call("list", a)
  <1>1. TypeOK /\ user' = a
    BY DEF IInv, HandleAuth
  <1>2. x.token = a
    BY DEF Call
  <1>3. CASE calls' = [Unmounted EXCEPT ![s] = x] /\ FreshComponent(FALSE)
    <2> HIDE DEF x
    <2>1. Unmounted \in [Slots -> Calls \cup {NoCall}]
      BY <1>1, UnmountedFields
    <2>2. calls'[s] = x /\ \A t \in Slots \ {s} : calls'[t] = Unmounted[t]
      BY <1>3, <2>1
    <2>3. QED
      BY <1>1, <1>2, <1>3, <2>2, SettledAnew DEF FreshComponent
  <1>4. CASE /\ calls' = [calls EXCEPT ![s] = IF page = "dashboard" THEN x ELSE NoCall]
             /\ switched' = (switched \/ a # user)
             /\ UNCHANGED component
    <2> HIDE DEF x
    <2>1. calls'[s] \in {x, NoCall} /\ \A t \in Slots \ {s} : calls'[t] = calls[t]
      BY <1>1, <1>4 DEF TypeOK
    <2>2. CASE ~ switched'
      <3>1. ~ switched /\ user' = user /\ a = user
        BY <1>1, <1>4, <2>2
      <3>2. ASSUME NEW t \in Slots PROVE OwnCall(t)'
        BY <1>2, <2>1, <3>1 DEF OwnCall, InFlight, Settled
      <3>3. rows' = rows
        BY <1>4 DEF component
      <3>4. QED
        BY <3>1, <3>2, <3>3 DEF Settled
    <2>3. QED
      BY <2>2 DEF Settled
  <1>5. QED
    BY <1>3, <1>4 DEF HandleAuth

LEMMA SettledAnswer ==
    ASSUME IInv, Settled, NEW s \in Slots, Answered(s)
    PROVE  Settled'
  <1>1. TypeOK
    BY DEF IInv
  <1>2. CASE (RestoreAnswered(s) \/ MeAnswered(s))
             /\ HandleAuth(s, calls[s].token, calls[s].token)
    BY <1>2, SettledAuth DEF RestoreAnswered, MeAnswered, InFlight
  <1>3. CASE /\ calls' = [calls EXCEPT ![s] = NoCall]
             /\ UNCHANGED <<user, rows, switched>>
    <2>1. \A t \in Slots : calls'[t] \in {calls[t], NoCall}
      BY <1>1, <1>3 DEF TypeOK
    <2>2. QED
      BY <1>3, <2>1, SettledStep
  <1>4. CASE Finish(s) /\ UNCHANGED switched
    BY <1>3, <1>4 DEF Finish, tab
  <1>5. CASE LoginAnswered(s) /\ ~ Finish(s)
    <2>1. calls' = [calls EXCEPT ![s].kind = "me"] /\ UNCHANGED <<user, rows, switched>>
      BY <1>5 DEF LoginAnswered, tab, component, history
    <2>2. calls[s] \in Calls
      BY <1>1, <1>5 DEF TypeOK, LoginAnswered
    <2>3. calls[s].kind = "login"
      BY <1>5 DEF LoginAnswered
    <2>4. calls'[s].kind = "me" /\ \A t \in Slots \ {s} : calls'[t] = calls[t]
      BY <1>1, <2>1, <2>2, <2>3, CallsTyped DEF TypeOK, Kinds
    <2>5. QED
      BY <2>1, <2>4, SettledStep DEF Authenticating
  <1>6. ASSUME calls[s] # NoCall, calls[s].kind \in Kinds \ Authenticating, ~ switched
        PROVE  calls[s].mounted = TRUE => calls[s].token = user
    BY <1>6 DEF Settled, OwnCall, InFlight
  <1>7. CASE ListAnswered(s)
    <2>1. /\ calls[s] # NoCall /\ calls[s].kind = "list"
          /\ calls' = [calls EXCEPT ![s] = NoCall]
          /\ (calls[s].mounted /\ rows' \in {rows, calls[s].token}) \/ rows' = rows
          /\ UNCHANGED <<user, switched>>
      BY <1>7 DEF ListAnswered, tab, history
    <2>2. \A t \in Slots : calls'[t] \in {calls[t], NoCall}
      BY <1>1, <2>1 DEF TypeOK
    <2>3. CASE ~ switched
      <3>1. calls[s] \in Calls
        BY <1>1, <2>1 DEF TypeOK
      <3>2. calls[s].mounted \in BOOLEAN
        BY <3>1, CallsTyped
      <3>3. rows' \in {rows, user}
        BY <1>6, <2>1, <2>3, <3>2 DEF Kinds, Authenticating
      <3>4. QED
        BY <2>1, <2>2, <3>3, SettledStep
    <2>4. QED
      BY <2>1, <2>3 DEF Settled
  <1>8. CASE ChangeAnswered(s)
    <2> DEFINE x == [calls[s] EXCEPT !.kind = "list"]
    <2>1. /\ calls[s] # NoCall /\ calls[s].kind \in {"save", "delete", "patch"}
          /\ calls' = [calls EXCEPT ![s] = x] \/ calls' = [calls EXCEPT ![s] = NoCall]
          /\ UNCHANGED <<user, rows, switched>>
      BY <1>8 DEF ChangeAnswered, tab, history
    <2>2. calls[s] \in Calls
      BY <1>1, <2>1 DEF TypeOK
    <2>3. x.token = calls[s].token /\ x.mounted = calls[s].mounted
      BY <2>1, <2>2, CallsTyped DEF Kinds
    <2> HIDE DEF x
    <2>4. calls'[s] \in {x, NoCall} /\ \A t \in Slots \ {s} : calls'[t] = calls[t]
      BY <1>1, <2>1 DEF TypeOK
    <2>5. calls[s].kind \in Kinds \ Authenticating
      BY <2>1 DEF Kinds, Authenticating
    <2>6. ~ switched /\ x.mounted = TRUE => x.token = user
      BY <1>6, <2>1, <2>3, <2>5
    <2>7. QED
      BY <2>1, <2>4, <2>6, SettledStep
  <1>9. QED
    BY <1>2, <1>3, <1>4, <1>5, <1>7, <1>8
       DEF Answered, RestoreAnswered, LoginAnswered, MeAnswered, RegisterAnswered,
           PasswordAnswered, tab, component, history

\* A click that starts a call of who is shown.
LEMMA SettledSend ==
    ASSUME IInv, Settled, NEW s \in Slots, NEW kind \in Kinds, Send(s, kind, token),
           UNCHANGED <<user, rows, switched>>
    PROVE  Settled'
  <1> DEFINE x == Call(kind, token)
  <1>1. TypeOK /\ user = token
    BY DEF IInv
  <1>2. x.token = user /\ calls' = [calls EXCEPT ![s] = x]
    BY <1>1 DEF Call, Send
  <1> HIDE DEF x
  <1>3. calls'[s] = x /\ \A t \in Slots \ {s} : calls'[t] = calls[t]
    BY <1>1, <1>2 DEF TypeOK
  <1>4. QED
    BY <1>2, <1>3, SettledStep

LEMMA SettledClick ==
    ASSUME IInv, Settled, Click
    PROVE  Settled'
  <1>1. TypeOK /\ user = token
    BY DEF IInv
  <1>2. CASE HandleSubmit
    <2>1. PICK s \in Slots : \/ \E a \in Accounts : Send(s, "login", a)
                            \/ Send(s, "register", NoUser)
      BY <1>2 DEF HandleSubmit
    <2>2. PICK x : x.kind \in Authenticating /\ calls' = [calls EXCEPT ![s] = x]
      <3>1. ASSUME NEW a \in Accounts
            PROVE  Call("login", a).kind \in Authenticating
        BY DEF Call, Authenticating
      <3>2. Call("register", NoUser).kind \in Authenticating
        BY DEF Call, Authenticating
      <3>3. QED
        BY <2>1, <3>1, <3>2 DEF Send
    <2>3. calls'[s] = x /\ \A t \in Slots \ {s} : calls'[t] = calls[t]
      BY <1>1, <2>2 DEF TypeOK
    <2>4. UNCHANGED <<user, rows, switched>>
      BY <1>2 DEF HandleSubmit, tab
    <2>5. QED
      BY <2>2, <2>3, <2>4, SettledStep
  <1>3. CASE HandleLogout
    BY <1>1, <1>3, SettledAnew DEF HandleLogout, FreshComponent
  <1>4. CASE \E p \in Pages : Navigate(p)
    <2>1. rows' = NoUser /\ user' = user
      BY <1>4 DEF Navigate, FreshComponent
    <2>2. CASE calls' = Unmounted
      BY <1>1, <2>1, <2>2, SettledAnew
    <2>3. ASSUME NEW s \in Slots, calls' = [Unmounted EXCEPT ![s] = Call("list", token)]
          PROVE  Settled'
      <3> DEFINE x == Call("list", token)
      <3>1. x.token = user /\ Unmounted \in [Slots -> Calls \cup {NoCall}]
        BY <1>1, UnmountedFields DEF Call
      <3> HIDE DEF x
      <3>2. calls' = [Unmounted EXCEPT ![s] = x]
        BY <2>3 DEF x
      <3>3. calls'[s] = x /\ \A t \in Slots \ {s} : calls'[t] = Unmounted[t]
        BY <3>1, <3>2
      <3>4. QED
        BY <1>1, <2>1, <3>1, <3>3, SettledAnew
    <2>4. QED
      BY <1>4, <2>2, <2>3 DEF Navigate
  <1>5. CASE FetchTasks \/ HandleSave \/ HandleDelete \/ UpdateUser \/ ChangePassword
    <2>1. UNCHANGED <<user, rows, switched>>
      BY <1>5 DEF FetchTasks, HandleSave, HandleDelete, UpdateUser, ChangePassword,
                  tab, component, history
    <2>2. PICK s \in Slots, kind \in Kinds : Send(s, kind, token)
      BY <1>5 DEF FetchTasks, HandleSave, HandleDelete, UpdateUser, ChangePassword, Kinds
    <2>3. QED
      BY <2>1, <2>2, SettledSend
  <1>6. QED
    BY <1>2, <1>3, <1>4, <1>5 DEF Click

LEMMA InitSettled == Init => Settled
  <1> SUFFICES ASSUME Init PROVE Settled
    OBVIOUS
  <1>1. ASSUME NEW t \in Slots PROVE calls[t] = NoCall \/ calls[t].kind = "restore"
    BY DEF Init, Restoring, Idle, Call
  <1>2. QED
    BY <1>1 DEF Init, Settled, OwnCall, InFlight, Authenticating

LEMMA NextSettled == IInv /\ Settled /\ [Next]_vars => Settled'
  <1> SUFFICES ASSUME IInv, Settled, [Next]_vars PROVE Settled'
    OBVIOUS
  <1>1. CASE Reload
    <2>1. Init'
      BY <1>1 DEF IInv, TypeOK, Reload, Init, FreshComponent, Restoring, Idle
    <2>2. Init' => Settled'
      BY InitSettled, PTL
    <2>3. QED
      BY <2>1, <2>2
  <1>2. CASE UNCHANGED vars
    BY <1>2, SettledStep DEF vars, tab, component, history
  <1>3. QED
    BY <1>1, <1>2, SettledAnswer, SettledClick DEF Next

-----------------------------------------------------------------------------
(***************************************************************************)
(* The theorems.                                                           *)
(***************************************************************************)

\* The inductive invariant holds in every state of every behaviour.
THEOREM Invariance == Spec => []IInv
  <1>1. QED
    BY InitIInv, NextIInv, PTL DEF Spec

\* Every variable keeps its type.
THEOREM TypeCorrect == Spec => []TypeOK
  <1>1. IInv => TypeOK
    BY DEF IInv
  <1>2. QED
    BY <1>1, Invariance, PTL

\* In whatever order answers arrive, the account that is shown is the one whose token is
\* sent and stored, unless a login overtook a restore (index.html:995, 1003).
THEOREM IdentitiesAgree == Spec => []IdentityAgrees
  <1>1. IInv => IdentityAgrees
    BY DEF IInv, Orderly, IdentityAgrees
  <1>2. QED
    BY <1>1, Invariance, PTL

\* In whatever order answers arrive, nobody is shown the rows that were fetched for
\* another account, except in a component under which the account changed because a login
\* overtook the restore: not in the next page (index.html:580, 923).
THEOREM RowsAreOwn == Spec => []RowsOfShownAccount
  <1>1. Spec => []Settled
    <2>1. Spec => []IInv
      BY Invariance
    <2>2. QED
      BY <2>1, InitSettled, NextSettled, PTL DEF Spec
  <1>2. IInv /\ Settled => RowsOfShownAccount
    BY DEF IInv, Orderly, Settled, RowsOfShownAccount
  <1>3. QED
    BY <1>1, <1>2, Invariance, PTL
=============================================================================
