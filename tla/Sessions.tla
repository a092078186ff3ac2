------------------------------- MODULE Sessions -------------------------------
(***************************************************************************)
(* Who may act for an account, and for how long: the JSON Web Tokens of    *)
(* app/core/security.py, login and refresh of endpoints/auth.py, and the   *)
(* dependencies of app/api/v1/deps.py that turn a token into a caller.     *)
(*                                                                         *)
(* The server keeps no session.  A token is valid until it expires, a      *)
(* refresh leaves the old tokens valid, and what became of the account     *)
(* since is learnt from its row, read once per request.  Time passes and   *)
(* administrators commit changes between any two steps of a request.       *)
(*                                                                         *)
(* A token is kept with the time it has left instead of the time of its    *)
(* expiry, so the clock needs no bound.  Accounts models the statements of *)
(* these requests in detail and takes a token for the account it names.    *)
(***************************************************************************)
EXTENDS Integers

CONSTANTS
    Ids,
    Requests,
    AccessLife,   \* ACCESS_TOKEN_EXPIRE_MINUTES, in ticks of the clock
    RefreshLife,  \* REFRESH_TOKEN_EXPIRE_DAYS, likewise
    NoAccount, NoToken

ASSUME LifeAssumption == AccessLife \in Nat /\ RefreshLife \in Nat

Roles == {"user", "admin"}

Rows == [role : Roles, is_active : BOOLEAN]

\* The owner of an account knows its password; a guest holds what he was given.
People == {"owner", "guest"}

\* The claim "role" is that of the row at the time of issue.
Tokens ==
    [type : {"access"}, sub : Ids, role : Roles, left : 0..AccessLife, holder : People]
    \cup [type : {"refresh"}, sub : Ids, left : 0..RefreshLife, holder : People]

\* What a request comes with.  A login learns the role for the claim from its row.
Passwords == [type : {"password"}, sub : Ids, role : Roles, holder : {"owner"}]

Kinds == {"login", "refresh", "user", "admin", "optional"}

ASSUME SessionSentinels ==
    NoAccount \notin Rows /\ NoToken \notin Tokens \cup Passwords

VARIABLES
    accounts, \* the committed row of each account
    tokens,   \* the tokens that have been handed out and have not expired
    pc, kind, \* where a request stands and what it asks for
    bearer,   \* what it came with
    minted,   \* the tokens it has created and not yet answered with
    verdicts, \* history: whether its account was entitled, at moments since it arrived
    reply     \* its last answer, 0 for none or a failure

\* What a caller may ask, said of the row of his account.
Entitled(k, row) ==
    /\ row # NoAccount
    /\ k # "optional" => row.is_active
    /\ k = "admin" => row.role = "admin"

request == <<pc, kind, bearer, minted, verdicts, reply>>
vars == <<accounts, tokens, request>>

TypeOK ==
    /\ accounts \in [Ids -> Rows \cup {NoAccount}]
    /\ tokens \in SUBSET Tokens
    /\ pc \in [Requests -> {"idle", "select", "flush", "respond"}]
    /\ kind \in [Requests -> Kinds \cup {"none"}]
    /\ bearer \in [Requests -> Tokens \cup Passwords \cup {NoToken}]
    /\ minted \in [Requests -> SUBSET Tokens]
    /\ verdicts \in [Requests -> SUBSET BOOLEAN]
    /\ reply \in [Requests -> {0, 200, 401, 403}]

Init ==
    /\ accounts \in [Ids -> Rows]
    /\ tokens = {}
    /\ pc = [r \in Requests |-> "idle"]
    /\ kind = [r \in Requests |-> "none"]
    /\ bearer = [r \in Requests |-> NoToken]
    /\ minted = [r \in Requests |-> {}]
    /\ verdicts = [r \in Requests |-> {}]
    /\ reply = [r \in Requests |-> 0]

-----------------------------------------------------------------------------
(***************************************************************************)
(* security.py.                                                            *)
(***************************************************************************)

CreateAccessToken(i, role, h) ==
    [type |-> "access", sub |-> i, role |-> role, left |-> AccessLife, holder |-> h]

CreateRefreshToken(i, h) ==
    [type |-> "refresh", sub |-> i, left |-> RefreshLife, holder |-> h]

\* Mutation: exp is not looked at.
AgedForEver(S) == {[t EXCEPT !.left = @ - 1] : t \in S}

\* decode_token refuses a token whose exp is in the past, and it is dropped here.  It
\* accepts one whose exp is this very second, which has 0 left.
Aged(S) == {[t EXCEPT !.left = @ - 1] : t \in {u \in S : u.left > 0}}

VerifyAccessToken(t) == t.type = "access"

\* Mutation: the claim "type" is not looked at.
VerifyAnyToken(t) == t.type \in {"access", "refresh"}

VerifyRefreshToken(t) == t.type = "refresh"

-----------------------------------------------------------------------------
(***************************************************************************)
(* The life of a request.                                                  *)
(***************************************************************************)

\* Its token is decoded before anything is read, and refused when of the wrong type.
Arrive(r, k, credential, verified) ==
    /\ pc[r] = "idle"
    /\ \/ /\ verified
          /\ kind' = [kind EXCEPT ![r] = k]
          /\ pc' = [pc EXCEPT ![r] = "select"]
          /\ bearer' = [bearer EXCEPT ![r] = credential]
          /\ verdicts' = [verdicts EXCEPT ![r] = {Entitled(k, accounts[credential.sub])}]
          /\ reply' = [reply EXCEPT ![r] = 0]
       \/ /\ ~ verified
          /\ reply' = [reply EXCEPT ![r] = 401]
          /\ UNCHANGED <<pc, kind, bearer, verdicts>>
    /\ UNCHANGED <<accounts, tokens, minted>>

SendLogin(r) ==
    \E p \in Passwords : p.role = "user" /\ Arrive(r, "login", p, TRUE)

\* How long a token has left is not looked at again.
SendToken(r) ==
    \E t \in tokens :
        \/ Arrive(r, "refresh", [t EXCEPT !.left = 0], VerifyRefreshToken(t))
        \/ \E k \in {"user", "admin", "optional"} :
               Arrive(r, k, [t EXCEPT !.left = 0], VerifyAccessToken(t))

\* The session is closed and the answer sent; a login or refresh is answered with
\* its tokens.
Close(r, status, answer) ==
    /\ pc' = [pc EXCEPT ![r] = "idle"]
    /\ reply' = [reply EXCEPT ![r] = status]
    /\ tokens' = tokens \cup answer
    /\ bearer' = [bearer EXCEPT ![r] = NoToken]
    /\ minted' = [minted EXCEPT ![r] = {}]
    /\ verdicts' = [verdicts EXCEPT ![r] = {}]
    /\ kind' = [kind EXCEPT ![r] = "none"]
    /\ UNCHANGED accounts

\* Mutation: the role is the one claimed by the token.
ClaimedAdmin(r, row) == bearer[r].role = "admin"

CurrentAdmin(r, row) == row.role = "admin"

\* get_current_user, get_current_active_user and get_current_admin: the status of
\* their refusal, or 200.  get_optional_user lets an inactive caller pass; its 401
\* means that the endpoint goes on without a caller.
Dependency(r, row) ==
    IF row = NoAccount THEN 401
    ELSE IF kind[r] = "optional" THEN 200
    ELSE IF ~ row.is_active THEN 403
    ELSE IF kind[r] = "admin" /\ ~ CurrentAdmin(r, row) THEN 403
    ELSE 200

\* The endpoint behind it is not modelled: it runs and commits before it answers.
GetCurrentUser(r) ==
    /\ pc[r] = "select" /\ kind[r] \in {"user", "admin", "optional"}
    /\ LET status == Dependency(r, accounts[bearer[r].sub])
       IN \/ status # 200 /\ Close(r, status, {})
          \/ /\ status = 200
             /\ pc' = [pc EXCEPT ![r] = "respond"]
             /\ UNCHANGED <<accounts, tokens, kind, bearer, minted, verdicts, reply>>

Mint(r, role) ==
    /\ minted' = [minted EXCEPT ![r] = {CreateAccessToken(bearer[r].sub, role, bearer[r].holder),
                                        CreateRefreshToken(bearer[r].sub, bearer[r].holder)}]
    /\ pc' = [pc EXCEPT ![r] = "respond"]
    /\ UNCHANGED <<accounts, tokens, kind, bearer, verdicts, reply>>

\* Mutation: any account that exists may refresh.
MayRefreshInactive(row) == row # NoAccount

MayRefresh(row) == row # NoAccount /\ row.is_active

RefreshToken(r) ==
    /\ pc[r] = "select" /\ kind[r] = "refresh"
    /\ LET row == accounts[bearer[r].sub]
       IN \/ ~ MayRefresh(row) /\ Close(r, 401, {})
          \/ MayRefresh(row) /\ Mint(r, row.role)

\* login up to its UPDATE of last_login; the password is right.
AuthenticateUser(r) ==
    /\ pc[r] = "select" /\ kind[r] = "login"
    /\ LET row == accounts[bearer[r].sub]
       IN \/ row = NoAccount /\ Close(r, 401, {})
          \/ row # NoAccount /\ ~ row.is_active /\ Close(r, 403, {})
          \/ /\ row # NoAccount /\ row.is_active
             /\ pc' = [pc EXCEPT ![r] = "flush"]
             /\ bearer' = [bearer EXCEPT ![r].role = row.role]
             /\ UNCHANGED <<accounts, tokens, kind, minted, verdicts, reply>>

\* The UPDATE finds the row, and the tokens are made of what was read before it.
IssueTokens(r) ==
    /\ pc[r] = "flush"
    /\ \/ accounts[bearer[r].sub] = NoAccount /\ Close(r, 0, {})
       \/ accounts[bearer[r].sub] # NoAccount /\ Mint(r, bearer[r].role)

Respond(r) == pc[r] = "respond" /\ Close(r, 200, minted[r])

\* The commit fails, the worker dies or the answer is lost.
Abandon(r) == pc[r] # "idle" /\ Close(r, 0, {})

-----------------------------------------------------------------------------
(***************************************************************************)
(* The world around the requests.                                          *)
(***************************************************************************)

Tick ==
    /\ tokens' = Aged(tokens)
    /\ minted' = [r \in Requests |-> Aged(minted[r])]
    /\ UNCHANGED <<accounts, pc, kind, bearer, verdicts, reply>>

\* An administrator's PATCH or DELETE commits.
ChangeAccount(i, row) ==
    /\ accounts[i] \notin {NoAccount, row}
    /\ accounts' = [accounts EXCEPT ![i] = row]
    /\ verdicts' = [r \in Requests |->
                       IF bearer[r] # NoToken /\ bearer[r].sub = i
                       THEN verdicts[r] \cup {Entitled(kind[r], row)} ELSE verdicts[r]]
    /\ UNCHANGED <<tokens, pc, kind, bearer, minted, reply>>

\* An access token is pasted into the API's own pages or another tool.
Share ==
    /\ \E t \in tokens :
           t.type = "access" /\ tokens' = tokens \cup {[t EXCEPT !.holder = "guest"]}
    /\ UNCHANGED <<accounts, request>>

Next ==
    \/ \E r \in Requests :
           \/ SendLogin(r) \/ SendToken(r)
           \/ GetCurrentUser(r) \/ RefreshToken(r) \/ AuthenticateUser(r)
           \/ IssueTokens(r) \/ Respond(r) \/ Abandon(r)
    \/ \E i \in Ids, row \in Rows \cup {NoAccount} : ChangeAccount(i, row)
    \/ Tick \/ Share

\* Time passes.  Nothing is asked of anybody else.
Spec == Init /\ [][Next]_vars /\ WF_vars(Tick)

-----------------------------------------------------------------------------
(***************************************************************************)
(* Properties.                                                             *)
(***************************************************************************)

\* Whoever was only ever given access tokens gets nothing that outlives them: he
\* cannot exchange one for another, through any number of refreshes by anybody
\* (the claim "type", security.py:54 and 65).
GivenTokensDie ==
    \A t \in tokens : t.holder = "guest" =>
        t.type = "access" /\ [t EXCEPT !.holder = "owner"] \in tokens

\* Demotion, deactivation and deletion take effect at once, although the tokens
\* that were issued before stay valid and claim the old role: a request is granted
\* only what its account was entitled to at some moment since it arrived, and
\* refused only what it was not entitled to at some moment (deps.py:38-65,
\* auth.py:83-91, 134-139).
JudgedInTime ==
    [][\A r \in Requests :
          /\ pc[r] = "respond" /\ reply'[r] = 200 => TRUE \in verdicts[r]
          /\ pc[r] = "select" /\ reply'[r] \in {401, 403} => FALSE \in verdicts[r]
      ]_vars

\* An account that stays deactivated, or is deleted, is sooner or later without a
\* valid token, whatever refreshes were under way (auth.py:135).
LockedOut ==
    \A i \in Ids :
        <>[](accounts[i] = NoAccount \/ ~ accounts[i].is_active)
            => <>[](\A t \in tokens : t.sub # i)
=============================================================================
