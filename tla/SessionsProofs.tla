---------------------------- MODULE SessionsProofs ----------------------------
(***************************************************************************)
(* Theorems about Sessions, for any accounts, any number of requests in    *)
(* flight and any lifetimes of the tokens.                                 *)
(***************************************************************************)
EXTENDS Sessions, TLAPS

-----------------------------------------------------------------------------
(***************************************************************************)
(* The inductive invariant.                                                *)
(***************************************************************************)

\* Only a password or a refresh token makes new tokens, so whoever waits for new
\* tokens is the owner.
Credentials(r) ==
    /\ pc[r] # "idle" =>
           /\ kind[r] \in Kinds
           /\ kind[r] = "login" => bearer[r] \in Passwords
           /\ kind[r] # "login" => bearer[r] \in Tokens
           /\ kind[r] \in {"login", "refresh"} => bearer[r].holder = "owner"
    /\ pc[r] = "flush" => kind[r] = "login"
    /\ \A t \in minted[r] : t.holder = "owner"

\* The verdicts on a request include the one its account's row gives now, and one that
\* entitled it once it has been let pass.
Verdicts(r) ==
    /\ pc[r] # "idle" =>
           /\ Entitled(kind[r], accounts[bearer[r].sub]) => TRUE \in verdicts[r]
           /\ ~ Entitled(kind[r], accounts[bearer[r].sub]) => FALSE \in verdicts[r]
           /\ reply[r] = 0
    /\ pc[r] \in {"flush", "respond"} => TRUE \in verdicts[r]

IInv ==
    /\ TypeOK /\ GivenTokensDie
    /\ \A r \in Requests : Credentials(r) /\ Verdicts(r)

-----------------------------------------------------------------------------
(***************************************************************************)
(* Tokens.                                                                 *)
(***************************************************************************)

\* What the fields of a credential are.
LEMMA TokenFields ==
    ASSUME NEW t \in Tokens
    PROVE  /\ t.sub \in Ids /\ t.type \in {"access", "refresh"} /\ t.holder \in People
           /\ t.left \in Int /\ t.left >= 0
           /\ [t EXCEPT !.left = 0] \in Tokens
           /\ t.left > 0 => [t EXCEPT !.left = @ - 1] \in Tokens
           /\ t.type = "access" => [t EXCEPT !.holder = "guest"] \in Tokens
  BY LifeAssumption DEF Tokens, People

LEMMA PasswordFields ==
    ASSUME NEW p \in Passwords
    PROVE  /\ p.sub \in Ids /\ p.role \in Roles /\ p.holder = "owner"
           /\ \A role \in Roles : [p EXCEPT !.role = role] \in Passwords
                                  /\ [p EXCEPT !.role = role].sub = p.sub
  BY DEF Passwords

\* Tokens age into tokens of the same type and holder.
LEMMA AgedTokens ==
    ASSUME NEW S \in SUBSET Tokens
    PROVE  /\ Aged(S) \in SUBSET Tokens
           /\ \A t \in Aged(S) : \E u \in S : t.holder = u.holder /\ t.type = u.type
  <1>1. ASSUME NEW t \in Aged(S)
        PROVE  t \in Tokens /\ \E u \in S : t.holder = u.holder /\ t.type = u.type
    <2>1. PICK u \in S : u.left > 0 /\ t = [u EXCEPT !.left = @ - 1]
      BY DEF Aged
    <2>2. t.holder = u.holder /\ t.type = u.type
      BY <2>1 DEF Tokens
    <2>3. QED
      BY <2>1, <2>2, TokenFields
  <1>2. QED
    BY <1>1

\* What a token is given away with ages with it.
LEMMA AgedTwins ==
    ASSUME NEW S \in SUBSET Tokens,
           \A t \in S : t.holder = "guest" =>
               t.type = "access" /\ [t EXCEPT !.holder = "owner"] \in S
    PROVE  \A t \in Aged(S) : t.holder = "guest" =>
               t.type = "access" /\ [t EXCEPT !.holder = "owner"] \in Aged(S)
  <1> SUFFICES ASSUME NEW t \in Aged(S), t.holder = "guest"
               PROVE  t.type = "access" /\ [t EXCEPT !.holder = "owner"] \in Aged(S)
    OBVIOUS
  <1>1. PICK u \in S : u.left > 0 /\ t = [u EXCEPT !.left = @ - 1]
    BY DEF Aged
  <1> DEFINE v == [u EXCEPT !.holder = "owner"]
  <1>2. u.holder = "guest" /\ u.type = "access"
    BY <1>1 DEF Tokens
  <1>3. v \in S /\ v.left = u.left
    BY <1>2 DEF Tokens
  <1>4. [t EXCEPT !.holder = "owner"] = [v EXCEPT !.left = @ - 1]
    BY <1>1, <1>2 DEF Tokens
  <1>5. t.type = "access"
    BY <1>1, <1>2 DEF Tokens
  <1> HIDE DEF v
  <1>6. QED
    BY <1>1, <1>3, <1>4, <1>5 DEF Aged
-----------------------------------------------------------------------------
(***************************************************************************)
(* The steps of a request.                                                 *)
(***************************************************************************)

LEMMA InitIInv == Init => IInv
  <1> SUFFICES ASSUME Init PROVE IInv
    OBVIOUS
  <1>1. TypeOK
    BY DEF Init, TypeOK
  <1>2. GivenTokensDie
    BY DEF Init, GivenTokensDie
  <1>3. QED
    BY <1>1, <1>2 DEF Init, IInv, Credentials, Verdicts

\* The other requests stand where they stood.
OthersKept(r) ==
    \A q \in Requests \ {r} :
        /\ pc'[q] = pc[q] /\ kind'[q] = kind[q] /\ bearer'[q] = bearer[q]
        /\ minted'[q] = minted[q] /\ verdicts'[q] = verdicts[q] /\ reply'[q] = reply[q]

\* A step of r keeps the invariant when it keeps r's part and hands out only what its
\* owner has asked for.
LEMMA RequestStep ==
    ASSUME IInv, NEW r \in Requests, TypeOK', OthersKept(r), UNCHANGED accounts,
           tokens' = tokens \/ tokens' = tokens \cup minted[r],
           (Credentials(r) /\ Verdicts(r))'
    PROVE  IInv'
  <1>1. GivenTokensDie'
    <2>1. \A t \in minted[r] : t.holder # "guest"
      BY DEF IInv, Credentials
    <2>2. QED
      BY <2>1 DEF IInv, GivenTokensDie
  <1>2. ASSUME NEW q \in Requests, q # r PROVE (Credentials(q) /\ Verdicts(q))'
    <2>1. Credentials(q) /\ Verdicts(q)
      BY DEF IInv
    <2>2. /\ pc'[q] = pc[q] /\ kind'[q] = kind[q] /\ bearer'[q] = bearer[q]
          /\ minted'[q] = minted[q] /\ verdicts'[q] = verdicts[q] /\ reply'[q] = reply[q]
      BY <1>2 DEF OthersKept
    <2>3. QED
      BY <2>1, <2>2 DEF Credentials, Verdicts, Entitled
  <1>3. QED
    BY <1>1, <1>2 DEF IInv

LEMMA OwnPart ==
    ASSUME IInv, NEW r \in Requests
    PROVE  /\ TypeOK /\ Credentials(r) /\ Verdicts(r)
           /\ bearer[r] \in Tokens \cup Passwords \cup {NoToken}
           /\ pc[r] # "idle" => bearer[r] \in Tokens \cup Passwords /\ bearer[r].sub \in Ids
                                /\ accounts[bearer[r].sub] \in Rows \cup {NoAccount}
  <1>1. TypeOK /\ Credentials(r) /\ Verdicts(r)
    BY DEF IInv
  <1>2. bearer[r] \in Tokens \cup Passwords \cup {NoToken}
    BY <1>1 DEF TypeOK
  <1>3. ASSUME pc[r] # "idle"
        PROVE  bearer[r] \in Tokens \cup Passwords /\ bearer[r].sub \in Ids
    <2>1. bearer[r] \in Tokens \cup Passwords
      BY <1>1, <1>3 DEF Credentials
    <2>2. QED
      BY <2>1, TokenFields, PasswordFields
  <1>4. \A i \in Ids : accounts[i] \in Rows \cup {NoAccount}
    BY <1>1 DEF TypeOK
  <1>5. QED
    BY <1>1, <1>2, <1>3, <1>4

LEMMA ArriveStep ==
    ASSUME IInv, NEW r \in Requests, NEW k \in Kinds, NEW c \in Tokens \cup Passwords,
           NEW verified \in BOOLEAN, Arrive(r, k, c, verified),
           verified => /\ k = "login" => c \in Passwords
                       /\ k # "login" => c \in Tokens
                       /\ k \in {"login", "refresh"} => c.holder = "owner"
    PROVE  IInv'
  <1>1. TypeOK /\ pc[r] = "idle" /\ Credentials(r) /\ Verdicts(r)
    BY OwnPart DEF Arrive
  <1>2. CASE ~ verified
    <2>1. TypeOK'
      BY <1>1, <1>2 DEF Arrive, TypeOK
    <2>2. OthersKept(r)
      BY <1>1, <1>2 DEF Arrive, TypeOK, OthersKept
    <2>3. (Credentials(r) /\ Verdicts(r))'
      BY <1>1, <1>2 DEF Arrive, Credentials, Verdicts
    <2>4. QED
      BY <2>1, <2>2, <2>3, RequestStep DEF Arrive
  <1>3. CASE verified
    <2> DEFINE e == Entitled(k, accounts[c.sub])
    <2>1. e \in BOOLEAN
      BY DEF Entitled
    <2>2. /\ kind' = [kind EXCEPT ![r] = k] /\ pc' = [pc EXCEPT ![r] = "select"]
          /\ bearer' = [bearer EXCEPT ![r] = c]
          /\ verdicts' = [verdicts EXCEPT ![r] = {e}]
          /\ reply' = [reply EXCEPT ![r] = 0]
          /\ UNCHANGED <<accounts, tokens, minted>>
      BY <1>3 DEF Arrive
    <2> HIDE DEF e
    <2>3. TypeOK'
      BY <1>1, <2>1, <2>2 DEF TypeOK
    <2>4. OthersKept(r)
      BY <1>1, <2>2 DEF TypeOK, OthersKept
    <2>5. /\ pc'[r] = "select" /\ kind'[r] = k /\ bearer'[r] = c /\ reply'[r] = 0
          /\ minted'[r] = minted[r] /\ verdicts'[r] = {e}
      BY <1>1, <2>2 DEF TypeOK
    <2>6. Credentials(r)'
      BY <1>1, <1>3, <2>5 DEF Credentials
    <2>7. Verdicts(r)'
      <3>1. Entitled(kind[r], accounts[bearer[r].sub])' <=> e
        BY <2>2, <2>5 DEF e, Entitled
      <3>2. (e => TRUE \in verdicts'[r]) /\ (~ e => FALSE \in verdicts'[r])
        BY <2>1, <2>5
      <3>3. QED
        BY <2>5, <3>1, <3>2 DEF Verdicts
    <2>8. QED
      BY <2>2, <2>3, <2>4, <2>6, <2>7, RequestStep
  <1>4. QED
    BY <1>2, <1>3

\* A login comes with the password, a refresh with a refresh token: with its owner.
LEMMA SendStep ==
    ASSUME IInv, NEW r \in Requests, SendLogin(r) \/ SendToken(r)
    PROVE  IInv'
  <1>1. CASE SendLogin(r)
    BY <1>1, ArriveStep, PasswordFields DEF SendLogin, Kinds
  <1>2. CASE SendToken(r)
    <2>1. PICK t \in tokens :
              \/ Arrive(r, "refresh", [t EXCEPT !.left = 0], VerifyRefreshToken(t))
              \/ \E k \in {"user", "admin", "optional"} :
                     Arrive(r, k, [t EXCEPT !.left = 0], VerifyAccessToken(t))
      BY <1>2 DEF SendToken
    <2>2. t \in Tokens
      BY DEF IInv, TypeOK
    <2>3. [t EXCEPT !.left = 0] \in Tokens /\ [t EXCEPT !.left = 0].holder = t.holder
          /\ t.holder \in {"owner", "guest"}
      BY <2>2, TokenFields DEF Tokens, People
    <2>4. VerifyRefreshToken(t) => t.holder = "owner"
      BY <2>3 DEF VerifyRefreshToken, IInv, GivenTokensDie
    <2>5. CASE Arrive(r, "refresh", [t EXCEPT !.left = 0], VerifyRefreshToken(t))
      BY <2>3, <2>4, <2>5, ArriveStep DEF Kinds, VerifyRefreshToken
    <2>6. ASSUME NEW k \in {"user", "admin", "optional"},
                 Arrive(r, k, [t EXCEPT !.left = 0], VerifyAccessToken(t))
          PROVE  IInv'
      BY <2>3, <2>6, ArriveStep DEF Kinds, VerifyAccessToken
    <2>7. QED
      BY <2>1, <2>5, <2>6
  <1>3. QED
    BY <1>1, <1>2

LEMMA CloseStep ==
    ASSUME IInv, NEW r \in Requests, NEW status \in {0, 200, 401, 403}, NEW answer,
           Close(r, status, answer), answer = {} \/ answer = minted[r]
    PROVE  IInv'
  <1>1. TypeOK /\ minted[r] \in SUBSET Tokens
    BY DEF IInv, TypeOK
  <1>2. TypeOK'
    BY <1>1 DEF Close, TypeOK
  <1>3. OthersKept(r) /\ UNCHANGED accounts
    BY <1>1 DEF Close, TypeOK, OthersKept
  <1>4. pc'[r] = "idle" /\ minted'[r] = {}
    BY <1>1 DEF Close, TypeOK
  <1>5. (Credentials(r) /\ Verdicts(r))'
    BY <1>4 DEF Credentials, Verdicts
  <1>6. tokens' = tokens \/ tokens' = tokens \cup minted[r]
    BY DEF Close
  <1>7. QED
    BY <1>2, <1>3, <1>5, <1>6, RequestStep

\* Tokens are minted for an owner who was found entitled.
LEMMA MintStep ==
    ASSUME IInv, NEW r \in Requests, NEW role \in Roles, Mint(r, role),
           pc[r] # "idle", kind[r] \in {"login", "refresh"}, TRUE \in verdicts[r]
    PROVE  IInv'
  <1>1. /\ TypeOK /\ Credentials(r) /\ Verdicts(r) /\ bearer[r].sub \in Ids
        /\ bearer[r].holder = "owner"
    BY OwnPart DEF Credentials
  <1> DEFINE a == CreateAccessToken(bearer[r].sub, role, bearer[r].holder)
             f == CreateRefreshToken(bearer[r].sub, bearer[r].holder)
  <1>2. a \in Tokens /\ f \in Tokens /\ a.holder = "owner" /\ f.holder = "owner"
    BY <1>1, LifeAssumption DEF CreateAccessToken, CreateRefreshToken, Tokens, People
  <1>3. /\ minted' = [minted EXCEPT ![r] = {a, f}] /\ pc' = [pc EXCEPT ![r] = "respond"]
        /\ UNCHANGED <<accounts, tokens, kind, bearer, verdicts, reply>>
    BY DEF Mint
  <1> HIDE DEF a, f
  <1>4. TypeOK'
    BY <1>1, <1>2, <1>3 DEF TypeOK
  <1>5. OthersKept(r)
    BY <1>1, <1>3 DEF TypeOK, OthersKept
  <1>6. pc'[r] = "respond" /\ minted'[r] = {a, f}
    BY <1>1, <1>3 DEF TypeOK
  <1>7. Credentials(r)'
    BY <1>1, <1>2, <1>3, <1>6 DEF Credentials
  <1>8. Verdicts(r)'
    BY <1>1, <1>3, <1>6 DEF Verdicts, Entitled
  <1>9. QED
    BY <1>3, <1>4, <1>5, <1>7, <1>8, RequestStep

\* A dependency, and login until its flush, let pass whom the row entitles now.
Passes(r, stage, c) ==
    /\ pc[r] # "idle" /\ pc' = [pc EXCEPT ![r] = stage]
    /\ bearer' = [bearer EXCEPT ![r] = c] /\ c.sub = bearer[r].sub
    /\ UNCHANGED <<accounts, tokens, kind, minted, verdicts, reply>>
    /\ stage = "flush" => kind[r] = "login"
    /\ IF kind[r] = "login" THEN c \in Passwords ELSE c = bearer[r]
    /\ Entitled(kind[r], accounts[bearer[r].sub])

LEMMA PassStep ==
    ASSUME IInv, NEW r \in Requests, NEW stage \in {"flush", "respond"},
           NEW c \in Tokens \cup Passwords, Passes(r, stage, c)
    PROVE  IInv'
  <1> USE DEF Passes
  <1>1. TypeOK /\ Credentials(r) /\ Verdicts(r)
    BY OwnPart
  <1>2. TypeOK'
    BY <1>1 DEF TypeOK
  <1>3. OthersKept(r)
    BY <1>1 DEF TypeOK, OthersKept
  <1>4. pc'[r] = stage /\ bearer'[r] = c
    BY <1>1 DEF TypeOK
  <1>5. Credentials(r)'
    BY <1>1, <1>4, PasswordFields DEF Credentials
  <1>6. Verdicts(r)'
    BY <1>1, <1>4 DEF Verdicts, Entitled
  <1>7. QED
    BY <1>2, <1>3, <1>5, <1>6, RequestStep

\* The steps that follow an arrival.
LEMMA ServeStep ==
    ASSUME IInv, NEW r \in Requests,
           \/ GetCurrentUser(r) \/ RefreshToken(r) \/ AuthenticateUser(r)
           \/ IssueTokens(r) \/ Respond(r) \/ Abandon(r)
    PROVE  IInv'
  <1>1. TypeOK /\ Credentials(r) /\ Verdicts(r)
    BY OwnPart
  <1>2. pc[r] # "idle" => /\ bearer[r] \in Tokens \cup Passwords /\ bearer[r].sub \in Ids
                          /\ accounts[bearer[r].sub] \in Rows \cup {NoAccount}
    BY OwnPart
  <1> DEFINE row == accounts[bearer[r].sub]
  <1>3. CASE GetCurrentUser(r)
    <2>1. pc[r] = "select" /\ kind[r] \in {"user", "admin", "optional"}
      BY <1>3 DEF GetCurrentUser
    <2>2. Dependency(r, row) \in {200, 401, 403}
      BY DEF Dependency
    <2>3. ASSUME Dependency(r, row) = 200, pc' = [pc EXCEPT ![r] = "respond"],
                 UNCHANGED <<accounts, tokens, kind, bearer, minted, verdicts, reply>>
          PROVE  IInv'
      <3>1. Entitled(kind[r], row)
        BY <2>1, <2>3 DEF Dependency, Entitled, CurrentAdmin
      <3>2. bearer' = [bearer EXCEPT ![r] = bearer[r]]
        BY <2>3, <1>1 DEF TypeOK
      <3>3. pc[r] # "idle" /\ kind[r] # "login" /\ bearer[r] \in Tokens \cup Passwords
        BY <1>2, <2>1
      <3>4. Passes(r, "respond", bearer[r])
        BY <2>3, <3>1, <3>2, <3>3 DEF Passes
      <3>5. QED
        BY <3>3, <3>4, PassStep
    <2>4. QED
      BY <1>3, <2>2, <2>3, CloseStep DEF GetCurrentUser
  <1>4. CASE RefreshToken(r)
    <2>1. pc[r] = "select" /\ kind[r] = "refresh"
      BY <1>4 DEF RefreshToken
    <2>2. ASSUME MayRefresh(row), Mint(r, row.role) PROVE IInv'
      <3>1. row \in Rows /\ Entitled(kind[r], row)
        BY <1>2, <2>1, <2>2 DEF MayRefresh, Entitled
      <3>2. row.role \in Roles
        BY <3>1 DEF Rows
      <3>3. TRUE \in verdicts[r]
        BY <1>1, <2>1, <3>1 DEF Verdicts
      <3>4. QED
        BY <2>1, <2>2, <3>2, <3>3, MintStep
    <2>3. QED
      BY <1>4, <2>2, CloseStep DEF RefreshToken
  <1>5. CASE AuthenticateUser(r)
    <2>1. pc[r] = "select" /\ kind[r] = "login" /\ bearer[r] \in Passwords
      BY <1>1, <1>5 DEF AuthenticateUser, Credentials
    <2>2. ASSUME row # NoAccount, row.is_active, pc' = [pc EXCEPT ![r] = "flush"],
                 bearer' = [bearer EXCEPT ![r].role = row.role],
                 UNCHANGED <<accounts, tokens, kind, minted, verdicts, reply>>
          PROVE  IInv'
      <3> DEFINE c == [bearer[r] EXCEPT !.role = row.role]
      <3>1. row.role \in Roles
        BY <1>2, <2>1, <2>2 DEF Rows
      <3>2. c \in Passwords /\ c.sub = bearer[r].sub
        BY <2>1, <3>1, PasswordFields
      <3>3. bearer' = [bearer EXCEPT ![r] = c]
        BY <2>2, <1>1 DEF TypeOK
      <3>4. Entitled(kind[r], row)
        BY <2>1, <2>2 DEF Entitled
      <3> HIDE DEF c
      <3>5. Passes(r, "flush", c)
        BY <2>1, <2>2, <3>2, <3>3, <3>4 DEF Passes
      <3>6. QED
        BY <3>2, <3>5, PassStep
    <2>3. QED
      BY <1>5, <2>2, CloseStep DEF AuthenticateUser
  <1>6. CASE IssueTokens(r)
    <2>1. pc[r] = "flush" /\ kind[r] = "login" /\ bearer[r].role \in Roles /\ TRUE \in verdicts[r]
      BY <1>1, <1>6, PasswordFields DEF IssueTokens, Credentials, Verdicts
    <2>2. CASE Close(r, 0, {})
      BY <2>2, CloseStep
    <2>3. CASE Mint(r, bearer[r].role)
      BY <2>1, <2>3, MintStep
    <2>4. QED
      BY <1>6, <2>2, <2>3 DEF IssueTokens
  <1>7. CASE Respond(r) \/ Abandon(r)
    BY <1>7, CloseStep DEF Respond, Abandon
  <1>8. QED
    BY <1>3, <1>4, <1>5, <1>6, <1>7

-----------------------------------------------------------------------------
(***************************************************************************)
(* The steps around the requests, and the theorems.                        *)
(***************************************************************************)

LEMMA TickStep == IInv /\ Tick => IInv'
  <1> SUFFICES ASSUME IInv, Tick PROVE IInv'
    OBVIOUS
  <1>1. TypeOK /\ GivenTokensDie /\ tokens \in SUBSET Tokens
        /\ \A r \in Requests : minted[r] \in SUBSET Tokens
    BY DEF IInv, TypeOK
  <1>2. /\ tokens' = Aged(tokens) /\ minted' = [r \in Requests |-> Aged(minted[r])]
        /\ UNCHANGED <<accounts, pc, kind, bearer, verdicts, reply>>
    BY DEF Tick
  <1>3. tokens' \in SUBSET Tokens /\ \A r \in Requests : minted'[r] \in SUBSET Tokens
    BY <1>1, <1>2, AgedTokens
  <1>4. TypeOK'
    BY <1>1, <1>2, <1>3 DEF TypeOK
  <1>5. GivenTokensDie'
    BY <1>1, <1>2, AgedTwins DEF GivenTokensDie
  <1>6. ASSUME NEW r \in Requests PROVE (Credentials(r) /\ Verdicts(r))'
    <2>1. Credentials(r) /\ Verdicts(r)
      BY DEF IInv
    <2>2. \A t \in minted'[r] : t.holder = "owner"
      BY <1>1, <1>2, <2>1, AgedTokens DEF Credentials
    <2>3. QED
      BY <1>2, <2>1, <2>2 DEF Credentials, Verdicts, Entitled
  <1>7. QED
    BY <1>4, <1>5, <1>6 DEF IInv

\* A change of an account adds the verdict of its new row.
LEMMA ChangeStep ==
    ASSUME IInv, NEW i \in Ids, NEW row \in Rows \cup {NoAccount}, ChangeAccount(i, row)
    PROVE  IInv'
  <1> DEFINE e(r) == Entitled(kind[r], row)
  <1>1. /\ accounts' = [accounts EXCEPT ![i] = row]
        /\ UNCHANGED <<tokens, pc, kind, bearer, minted, reply>>
        /\ verdicts' = [r \in Requests |-> IF bearer[r] # NoToken /\ bearer[r].sub = i
                                           THEN verdicts[r] \cup {e(r)} ELSE verdicts[r]]
    BY DEF ChangeAccount
  <1>2. \A r : e(r) \in BOOLEAN
    BY DEF Entitled
  <1> HIDE DEF e
  <1>3. TypeOK'
    <2>1. \A r \in Requests : verdicts[r] \cup {e(r)} \in SUBSET BOOLEAN
      BY <1>2 DEF IInv, TypeOK
    <2>2. verdicts' \in [Requests -> SUBSET BOOLEAN]
      BY <1>1, <2>1 DEF IInv, TypeOK
    <2>3. QED
      BY <1>1, <2>2 DEF IInv, TypeOK
  <1>4. GivenTokensDie'
    BY <1>1 DEF IInv, GivenTokensDie
  <1>5. ASSUME NEW r \in Requests PROVE (Credentials(r) /\ Verdicts(r))'
    <2>1. Credentials(r) /\ Verdicts(r) /\ verdicts[r] \subseteq verdicts'[r]
      BY <1>1 DEF IInv
    <2>2. Credentials(r)'
      BY <1>1, <2>1 DEF Credentials
    <2>3. CASE pc[r] # "idle" /\ bearer[r].sub = i
      <3>1. bearer[r] # NoToken
        BY <2>3, OwnPart, SessionSentinels
      <3>2. e(r) \in verdicts'[r]
        BY <1>1, <2>3, <3>1
      <3>3. Entitled(kind[r], accounts[bearer[r].sub])' <=> e(r)
        BY <1>1, <2>3 DEF IInv, TypeOK, e, Entitled
      <3>4. (e(r) => TRUE \in verdicts'[r]) /\ (~ e(r) => FALSE \in verdicts'[r])
        BY <1>2, <3>2
      <3>5. QED
        BY <1>1, <2>1, <2>2, <3>3, <3>4 DEF Verdicts
    <2>4. CASE pc[r] = "idle" \/ bearer[r].sub # i
      <3>1. pc[r] # "idle" => accounts'[bearer[r].sub] = accounts[bearer[r].sub]
        BY <1>1, <2>4 DEF IInv, TypeOK
      <3>2. QED
        BY <1>1, <2>1, <2>2, <2>4, <3>1 DEF Verdicts, Entitled
    <2>5. QED
      BY <2>3, <2>4
  <1>6. QED
    BY <1>3, <1>4, <1>5 DEF IInv

LEMMA ShareStep == IInv /\ Share => IInv'
  <1> SUFFICES ASSUME IInv, Share PROVE IInv'
    OBVIOUS
  <1>1. PICK t \in tokens :
            t.type = "access" /\ tokens' = tokens \cup {[t EXCEPT !.holder = "guest"]}
    BY DEF Share
  <1> DEFINE g == [t EXCEPT !.holder = "guest"]
  <1>2. t \in Tokens /\ TypeOK /\ GivenTokensDie
    BY DEF IInv, TypeOK
  <1>3. g \in Tokens
    BY <1>1, <1>2, TokenFields
  <1>4. g.type = "access" /\ [g EXCEPT !.holder = "owner"] = [t EXCEPT !.holder = "owner"]
    BY <1>1, <1>2 DEF Tokens
  <1>5. [t EXCEPT !.holder = "owner"] \in tokens
    <2>1. CASE t.holder = "guest"
      BY <1>2, <2>1 DEF GivenTokensDie
    <2>2. CASE t.holder = "owner"
      <3>1. [t EXCEPT !.holder = "owner"] = t
        BY <1>2, <2>2 DEF Tokens
      <3>2. QED
        BY <3>1
    <2>3. QED
      BY <1>2, <2>1, <2>2, TokenFields DEF People
  <1>6. UNCHANGED <<accounts, pc, kind, bearer, minted, verdicts, reply>>
    BY DEF Share, request
  <1> HIDE DEF g
  <1>7. TypeOK'
    BY <1>1, <1>2, <1>3, <1>6 DEF TypeOK, g
  <1>8. GivenTokensDie'
    BY <1>1, <1>2, <1>4, <1>5 DEF GivenTokensDie, g
  <1>9. QED
    BY <1>6, <1>7, <1>8 DEF IInv, Credentials, Verdicts, Entitled

LEMMA NextIInv == IInv /\ [Next]_vars => IInv'
  <1> SUFFICES ASSUME IInv, [Next]_vars PROVE IInv'
    OBVIOUS
  <1>1. CASE UNCHANGED vars
    BY <1>1 DEF vars, request, IInv, TypeOK, GivenTokensDie, Credentials, Verdicts, Entitled
  <1>2. CASE Next
    BY <1>2, SendStep, ServeStep, ChangeStep, TickStep, ShareStep DEF Next
  <1>3. QED
    BY <1>1, <1>2

THEOREM Invariance == Spec => []IInv
  BY InitIInv, NextIInv, PTL DEF Spec

\* Every variable keeps its type.
THEOREM TypeCorrect == Spec => []TypeOK
  BY Invariance, PTL DEF IInv

\* Nobody prolongs an access token he was given, through any number of refreshes.
THEOREM GivenTokensExpire == Spec => []GivenTokensDie
  BY Invariance, PTL DEF IInv

\* Every request is judged by a row its account had while the request was under way,
\* never by what its token claims.
THEOREM JudgedByCurrentRow == Spec => JudgedInTime
  <1>1. ASSUME IInv, Next, NEW r \in Requests
        PROVE  /\ pc[r] = "respond" /\ reply'[r] = 200 => TRUE \in verdicts[r]
               /\ pc[r] = "select" /\ reply'[r] \in {401, 403} => FALSE \in verdicts[r]
    <2>1. Credentials(r) /\ Verdicts(r) /\ TypeOK
      BY <1>1, OwnPart
    <2>a. pc[r] = "respond" => TRUE \in verdicts[r]
      BY <2>1 DEF Verdicts
    <2>b. pc[r] = "select" =>
              reply[r] = 0 /\ (~ Entitled(kind[r], accounts[bearer[r].sub]) => FALSE \in verdicts[r])
      BY <2>1 DEF Verdicts
    <2> SUFFICES ASSUME pc[r] = "select", reply'[r] \in {401, 403},
                        Entitled(kind[r], accounts[bearer[r].sub])
                 PROVE  FALSE
      BY <2>a, <2>b
    <2>2. reply[r] = 0
      BY <2>b
    <2>3. ASSUME NEW q \in Requests, NEW status, NEW answer, Close(q, status, answer)
          PROVE  q = r /\ status \in {401, 403}
      BY <2>1, <2>2, <2>3 DEF Close, TypeOK
    <2>4. \E q \in Requests : GetCurrentUser(q) \/ RefreshToken(q) \/ AuthenticateUser(q)
      BY <1>1, <2>1, <2>2, <2>3
      DEF Next, SendLogin, SendToken, Arrive, IssueTokens, Respond, Abandon, Mint, ChangeAccount,
          Tick, Share, request, TypeOK
    <2>5. PICK q \in Requests : GetCurrentUser(q) \/ RefreshToken(q) \/ AuthenticateUser(q)
      BY <2>4
    <2>6. CASE GetCurrentUser(q)
      BY <2>1, <2>2, <2>3, <2>6 DEF GetCurrentUser, Dependency, CurrentAdmin, Entitled
    <2>7. CASE RefreshToken(q)
      BY <2>1, <2>2, <2>3, <2>7 DEF RefreshToken, MayRefresh, Mint, Entitled
    <2>8. CASE AuthenticateUser(q)
      BY <2>1, <2>2, <2>3, <2>8 DEF AuthenticateUser, Entitled
    <2>9. QED
      BY <2>5, <2>6, <2>7, <2>8
  <1>2. IInv /\ [Next]_vars =>
            [\A r \in Requests :
                /\ pc[r] = "respond" /\ reply'[r] = 200 => TRUE \in verdicts[r]
                /\ pc[r] = "select" /\ reply'[r] \in {401, 403} => FALSE \in verdicts[r]]_vars
    BY <1>1
  <1>3. QED
    BY <1>2, Invariance, PTL DEF Spec, JudgedInTime
=============================================================================
