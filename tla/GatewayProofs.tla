----------------------------- MODULE GatewayProofs -----------------------------
(***************************************************************************)
(* Theorems about Gateway, for a pool of any size and any number of        *)
(* requests.                                                               *)
(***************************************************************************)
EXTENDS Gateway, FiniteSetTheorems, TLAPS

-----------------------------------------------------------------------------
(***************************************************************************)
(* The inductive invariant.                                                *)
(***************************************************************************)

\* Each request has one session at most, and the row is locked by one that is about to
\* commit.
Sound ==
    /\ IsFiniteSet(held)
    /\ held \subseteq Requests \X {"get_db"}
    /\ lock # NoRequest => pc[lock] = "commit"

\* Where a request stands tells what became of its write; an outage it ran into has not
\* been forgotten.
Told(r) ==
    /\ pc[r] = "commit" => SessionsOf(r) # {}
    /\ pc[r] = "commit" /\ call[r].writes /\ call[r].body # "invalid" =>
           effect[r] = "made" \/ SessionsOf(r) \cap broken # {}
    /\ pc[r] = "respond" /\ call[r].writes => effect[r] = "kept"
    /\ effect[r] = "kept" => outage[r] = TRUE \/ pc[r] = "respond"
    /\ effect[r] = "made" => pc[r] = "commit"
    /\ pc[r] = "idle" => effect[r] = "none"
    /\ ~ up /\ pc[r] # "idle" => outage[r] = TRUE
    /\ SessionsOf(r) \cap broken # {} => outage[r] = TRUE

IInv == PoolInv /\ Sound /\ \A r \in Requests : Told(r)

-----------------------------------------------------------------------------
(***************************************************************************)
(* The stack, and sessions.                                                *)
(***************************************************************************)

\* An update of two fields.
LEMMA TwoFields ==
    ASSUME NEW a, NEW b, NEW c, NEW f, NEW e, NEW s, NEW x,
           x = [exception |-> a, status |-> b, logged |-> c, cors |-> f]
    PROVE  [x EXCEPT !.exception = e, !.status = s]
               = [exception |-> e, status |-> s, logged |-> c, cors |-> f]
  <1> DEFINE y == [x EXCEPT !.exception = e]
  <1>1. y = [exception |-> e, status |-> b, logged |-> c, cors |-> f]
    OBVIOUS
  <1>2. [x EXCEPT !.exception = e, !.status = s] = [y EXCEPT !.status = s]
    OBVIOUS
  <1> HIDE DEF y
  <1>3. [y EXCEPT !.status = s] = [exception |-> e, status |-> s, logged |-> c, cors |-> f]
    BY <1>1
  <1>4. QED
    BY <1>2, <1>3

\* Every outcome is logged with the status that is sent, and only a server error goes
\* out without CORS headers.
LEMMA Outcomes ==
    ASSUME NEW e \in Exceptions \cup {"none"}
    PROVE  /\ Outcome[e] \in Answers /\ Outcome[e] # Unanswered
           /\ Outcome[e].logged = Outcome[e].status
           /\ Outcome[e].cors <=> Outcome[e].status # 500
           /\ Outcome[e].status = 200 <=> e = "none"
           /\ Outcome[e].status = 500 <=> e = "other"
  <1> DEFINE c0 == IF e = "none" THEN 200 ELSE 0
             u == Unanswered
             x0 == [u EXCEPT !.exception = e, !.status = c0]
             x1 == Through("Exception", x0)
             x2 == Through("CORS", x1)
             x3 == Through("Logging", x2)
             x4 == Through("ServerError", x3)
             code == CASE e = "none" -> 200 [] e = "other" -> 500 [] OTHER -> HandledStatus(e)
             left == IF e = "other" THEN "other" ELSE "none"
             seen == IF e = "other" THEN 0 ELSE code
             plain == FALSE
             with == e # "other"
  <1>u. u = [exception |-> "none", status |-> 0, logged |-> 0, cors |-> plain]
    BY DEF Unanswered
  <1> HIDE DEF u, plain
  <1>0. x0 = [exception |-> e, status |-> c0, logged |-> 0, cors |-> plain]
    <2>1. x0 = [u EXCEPT !.exception = e, !.status = c0]
      OBVIOUS
    <2> HIDE DEF c0, x0
    <2>2. QED
      BY <1>u, <2>1, TwoFields
  <1>1. x1 = [exception |-> left, status |-> seen, logged |-> 0, cors |-> plain]
    <2> HIDE DEF x0
    <2>1. CASE e \in {"none", "other"}
      <3>1. x1 = x0
        BY <1>0, <2>1 DEF Through
      <3>2. QED
        BY <1>0, <2>1, <3>1
    <2>2. CASE e \notin {"none", "other"}
      <3>1. x1 = [x0 EXCEPT !.exception = "none", !.status = HandledStatus(e)]
        BY <1>0, <2>2 DEF Through
      <3>2. left = "none" /\ seen = HandledStatus(e)
        BY <2>2
      <3> HIDE DEF left, seen, x1
      <3>3. QED
        BY <1>0, <3>1, <3>2, TwoFields
    <2>3. QED
      BY <2>1, <2>2
  <1> HIDE DEF x0, x1
  <1>2. x2 = [exception |-> left, status |-> seen, logged |-> 0, cors |-> with]
    <2>1. CASE e = "other"
      <3>1. x2 = x1
        BY <1>1, <2>1 DEF Through
      <3>2. with = plain
        BY <2>1 DEF plain
      <3> HIDE DEF x2, with
      <3>3. QED
        BY <1>1, <3>1, <3>2
    <2>2. CASE e # "other"
      <3> DEFINE yes == TRUE
      <3>1. x2 = [x1 EXCEPT !.cors = yes]
        BY <1>1, <2>2 DEF Through
      <3>2. with = yes
        BY <2>2
      <3> HIDE DEF x2, with, yes
      <3>3. QED
        BY <1>1, <3>1, <3>2
    <2>3. QED
      BY <2>1, <2>2
  <1> HIDE DEF x2, with
  <1>3. x3 = [exception |-> left, status |-> seen, logged |-> code, cors |-> with]
    BY <1>2 DEF Through
  <1> HIDE DEF x3
  <1>4. x4 = [exception |-> left, status |-> code, logged |-> code, cors |-> with]
    BY <1>3 DEF Through
  <1> HIDE DEF x4
  <1>5. Outcome[e] = x4
    BY DEF Outcome, Stack, Added, u, x0, x1, x2, x3, x4
  <1>6. /\ code \in {200, 400, 404, 409, 422, 500}
        /\ code = 200 <=> e = "none"
        /\ code = 500 <=> e = "other"
    BY DEF HandledStatus, Exceptions
  <1> HIDE DEF code
  <1>7. /\ Outcome[e].logged = code /\ Outcome[e].status = code
        /\ Outcome[e].cors = with
    BY <1>4, <1>5
  <1>8. with \in BOOLEAN /\ (with <=> e # "other")
    BY DEF with
  <1>9. Outcome[e] \in Answers
    <2>1. left \in Exceptions \cup {"none"}
      BY DEF Exceptions
    <2> HIDE DEF left
    <2>2. QED
      BY <1>4, <1>5, <1>6, <1>8, <2>1 DEF Answers
  <1>10. Outcome[e] # Unanswered
    BY <1>6, <1>7 DEF Unanswered
  <1>11. Outcome[e].cors <=> e # "other"
    BY <1>7, <1>8
  <1>12. QED
    BY <1>6, <1>7, <1>9, <1>10, <1>11

\* The session of a request is held, or none is.
LEMMA OneSession ==
    ASSUME Sound, NEW r \in Requests
    PROVE  /\ SessionsOf(r) = IF <<r, "get_db">> \in held THEN {<<r, "get_db">>} ELSE {}
           /\ Session(r) = <<r, "get_db">>
           /\ \A s \in held : s = <<s[1], "get_db">> /\ s[1] \in Requests
  <1>1. ASSUME NEW s \in held PROVE s = <<s[1], "get_db">> /\ s[1] \in Requests
    BY DEF Sound
  <1>2. QED
    BY <1>1 DEF SessionsOf, Session, SessionOf

\* Giving back the session of a request leaves a correct pool.
LEMMA GiveBackPool ==
    ASSUME PoolInv, Sound, NEW r \in Requests, GiveBack(SessionsOf(r))
    PROVE  /\ held' = held \ {<<r, "get_db">>} /\ broken' = broken \ {<<r, "get_db">>}
           /\ IsFiniteSet(held') /\ broken' \subseteq held'
           /\ held' \subseteq Sessions /\ held' \subseteq Requests \X {"get_db"}
           /\ live' \in Nat /\ stale' \in Nat /\ opened' \in Nat
           /\ opened' = Cardinality(held') + live' + stale'
           /\ opened' <= Limit /\ live' + stale' <= PoolSize
           /\ ~ up => live' = 0 /\ broken' = held'
  <1> DEFINE x == <<r, "get_db">>
             S == SessionsOf(r)
             n == Cardinality(S)
             dead == Cardinality(S \cap broken)
  <1>1. S = IF x \in held THEN {x} ELSE {}
    BY OneSession
  <1>2. /\ held' = held \ S /\ broken' = broken \ S
        /\ stale' = stale + (IF dead > 0 THEN Kept(n) ELSE 0)
        /\ live' = live + (IF dead > 0 THEN 0 ELSE Kept(n))
        /\ opened' = opened - (n - Kept(n))
    BY DEF GiveBack
  <1>3. held' = held \ {x} /\ broken' = broken \ {x}
    BY <1>1, <1>2 DEF PoolInv, TypeOK
  <1>4. n = (IF x \in held THEN 1 ELSE 0) /\ dead = (IF x \in held /\ x \in broken THEN 1 ELSE 0)
    <2>1. x \notin held => S = {} /\ S \cap broken = {}
      BY <1>1
    <2>2. x \in held => S = {x} /\ S \cap broken = (IF x \in broken THEN {x} ELSE {})
      BY <1>1
    <2>3. QED
      BY <2>1, <2>2, FS_EmptySet, FS_Singleton
  <1>5. /\ IsFiniteSet(held') /\ Cardinality(held) \in Nat /\ Cardinality(held') \in Nat
        /\ Cardinality(held') = Cardinality(held) - n
    <2>1. IsFiniteSet(held)
      BY DEF Sound
    <2>2. QED
      BY <1>3, <1>4, <2>1, FS_RemoveElement, FS_CardinalityType
  <1>6. /\ live \in Nat /\ stale \in Nat /\ opened \in Nat /\ live + stale <= PoolSize
        /\ opened = Cardinality(held) + live + stale /\ opened <= Limit /\ Limit \in Nat
        /\ PoolSize \in Nat
    BY GatewayAssumption DEF PoolInv, TypeOK, Limit
  <1> HIDE DEF S, n, dead
  <1>7. n \in {0, 1} /\ dead \in {0, n}
    BY <1>4
  <1>8. Kept(n) \in Nat /\ Kept(n) <= n /\ live + stale + Kept(n) <= PoolSize
    BY <1>6, <1>7 DEF Kept
  <1>9. /\ live' \in Nat /\ stale' \in Nat /\ opened' \in Nat
        /\ opened' = Cardinality(held') + live' + stale'
        /\ opened' <= Limit /\ live' + stale' <= PoolSize
    BY <1>2, <1>5, <1>6, <1>7, <1>8
  <1>10. /\ broken' \subseteq held' /\ held' \subseteq Sessions
         /\ held' \subseteq Requests \X {"get_db"}
    BY <1>3 DEF PoolInv, TypeOK, Sound
  <1>11. ASSUME ~ up PROVE live' = 0 /\ broken' = held'
    <2>1. live = 0 /\ broken = held
      BY <1>11 DEF PoolInv
    <2>2. dead = n
      BY <2>1, <1>4
    <2>3. dead > 0 \/ Kept(n) = 0
      BY <2>2, <1>7, <1>8
    <2>4. QED
      BY <2>1, <2>3, <1>2, <1>3
  <1>12. QED
    BY <1>3, <1>5, <1>9, <1>10, <1>11

\* So does handing one out.
LEMMA TakePool ==
    ASSUME PoolInv, Sound, NEW r \in Requests, NEW s, s = <<r, "get_db">>, s \notin held, Take(s)
    PROVE  /\ held' = held \cup {s} /\ broken' = broken
           /\ IsFiniteSet(held') /\ held' \subseteq Sessions /\ held' \subseteq Requests \X {"get_db"}
           /\ live' \in Nat /\ stale' \in Nat /\ opened' \in Nat
           /\ opened' = Cardinality(held') + live' + stale'
           /\ opened' <= Limit /\ live' + stale' <= PoolSize
  <1>1. held' = held \cup {s}
    BY DEF Take
  <1>2. broken' = broken
    <2>1. broken \ {s} = broken
      BY DEF PoolInv, TypeOK
    <2>2. broken' = broken \/ broken' = broken \ {s}
      BY DEF Take, PrePing
    <2>3. QED
      BY <2>1, <2>2
  <1>3. /\ IsFiniteSet(held') /\ Cardinality(held) \in Nat /\ Cardinality(held') \in Nat
        /\ Cardinality(held') = Cardinality(held) + 1
    <2>1. IsFiniteSet(held)
      BY DEF Sound
    <2>2. QED
      BY <1>1, <2>1, FS_AddElement, FS_CardinalityType
  <1>4. held' \subseteq Sessions /\ held' \subseteq Requests \X {"get_db"}
    BY <1>1 DEF PoolInv, TypeOK, Sound, Sessions
  <1>5. /\ live \in Nat /\ stale \in Nat /\ opened \in Nat /\ live + stale <= PoolSize
        /\ opened = Cardinality(held) + live + stale /\ opened <= Limit /\ Limit \in Nat
        /\ PoolSize \in Nat
    BY GatewayAssumption DEF PoolInv, TypeOK, Limit
  <1>6. /\ live' \in Nat /\ stale' \in Nat /\ opened' \in Nat
        /\ opened' = Cardinality(held) + 1 + live' + stale'
        /\ opened' <= Limit /\ live' + stale' <= PoolSize
    <2>1. CASE live > 0 /\ live' = live - 1 /\ UNCHANGED <<stale, opened>>
      BY <1>3, <1>5, <2>1
    <2>2. CASE stale > 0 /\ stale' = stale - 1 /\ UNCHANGED <<live, opened>>
      BY <1>3, <1>5, <2>2
    <2>3. CASE live + stale = 0 /\ opened < Limit /\ opened' = opened + 1 /\ UNCHANGED <<live, stale>>
      BY <1>3, <1>5, <2>3
    <2>4. QED
      BY <2>1, <2>2, <2>3 DEF Take
  <1>7. QED
    BY <1>1, <1>2, <1>3, <1>4, <1>6

-----------------------------------------------------------------------------
(***************************************************************************)
(* The steps of a request.                                                 *)
(***************************************************************************)

LEMMA InitIInv == Init => IInv
  <1> SUFFICES ASSUME Init PROVE IInv
    OBVIOUS
  <1>1. TypeOK
    BY GatewayAssumption DEF Init, TypeOK, Unanswered, Answers, Exceptions
  <1>2. PoolInv
    BY <1>1, FS_EmptySet, GatewayAssumption DEF Init, PoolInv, Limit
  <1>3. Sound
    BY FS_EmptySet DEF Init, Sound
  <1>4. ASSUME NEW r \in Requests PROVE Told(r)
    BY DEF Init, Told, SessionsOf
  <1>5. QED
    BY <1>2, <1>3, <1>4 DEF IInv

\* What the invariant says of the pool alone.
Counts ==
    /\ opened = Cardinality(held) + live + stale
    /\ opened <= Limit /\ live + stale <= PoolSize
    /\ ~ up => live = 0 /\ broken = held
    /\ IsFiniteSet(held) /\ held \subseteq Requests \X {"get_db"}

\* The other requests and their sessions stand where they stood.
OthersKept(r) ==
    /\ \A q \in Requests \ {r} :
           /\ pc'[q] = pc[q] /\ call'[q] = call[q] /\ effect'[q] = effect[q]
           /\ outage'[q] = outage[q]
    /\ held' \ {<<r, "get_db">>} = held \ {<<r, "get_db">>}
    /\ broken' \ {<<r, "get_db">>} = broken \ {<<r, "get_db">>}
    /\ up' = up

LEMMA OwnPart ==
    ASSUME IInv, NEW r \in Requests
    PROVE  /\ TypeOK /\ PoolInv /\ Sound /\ Counts /\ Told(r)
           /\ <<r, "get_db">> \in held => pc[r] \in {"caller", "endpoint", "commit"}
           /\ <<r, "get_db">> \in held <=> SessionsOf(r) # {}
           /\ <<r, "get_db">> \in broken <=> SessionsOf(r) \cap broken # {}
           /\ Session(r) = <<r, "get_db">>
           /\ lock = r => pc[r] = "commit"
  <1>1. TypeOK /\ PoolInv /\ Sound /\ Counts /\ Told(r)
    BY DEF IInv, PoolInv, Sound, Counts
  <1>2. /\ SessionsOf(r) = IF <<r, "get_db">> \in held THEN {<<r, "get_db">>} ELSE {}
        /\ Session(r) = <<r, "get_db">>
    BY <1>1, OneSession
  <1>3. <<r, "get_db">> \in held => pc[r] \in {"caller", "endpoint", "commit"}
    BY <1>1 DEF PoolInv
  <1>4. lock = r => pc[r] = "commit"
    BY <1>1, GatewayAssumption DEF Sound
  <1>5. QED
    BY <1>1, <1>2, <1>3, <1>4 DEF TypeOK

\* A step of r keeps the invariant when it keeps the pool correct and r's part.
LEMMA RequestStep ==
    ASSUME IInv, NEW r \in Requests, TypeOK', Counts', OthersKept(r), Told(r)',
           <<r, "get_db">> \in held' => pc'[r] \in {"caller", "endpoint", "commit"},
           \/ lock' = Unlocked(r)
           \/ lock' = lock /\ lock # r
           \/ /\ lock' = r /\ up /\ pc'[r] = "commit"
              /\ <<r, "get_db">> \in held' /\ <<r, "get_db">> \notin broken'
    PROVE  IInv'
  <1> DEFINE x(q) == <<q, "get_db">>
  <1>1. TypeOK /\ PoolInv /\ Sound
    BY DEF IInv, PoolInv
  <1>2. \A s \in held' : s = x(s[1]) /\ s[1] \in Requests
    BY DEF Counts
  <1>3. ASSUME NEW q \in Requests
        PROVE  /\ SessionsOf(q)' = IF x(q) \in held' THEN {x(q)} ELSE {}
               /\ SessionsOf(q) = IF x(q) \in held THEN {x(q)} ELSE {}
    <2>1. SessionsOf(q)' = IF x(q) \in held' THEN {x(q)} ELSE {}
      BY <1>2 DEF SessionsOf
    <2>2. QED
      BY <1>1, <2>1, OneSession
  <1>4. ASSUME NEW q \in Requests, q # r
        PROVE  SessionsOf(q)' = SessionsOf(q) /\ (SessionsOf(q) \cap broken)' = SessionsOf(q) \cap broken
    <2>1. x(q) # x(r)
      BY <1>4
    <2>2. (x(q) \in held' <=> x(q) \in held) /\ (x(q) \in broken' <=> x(q) \in broken)
      BY <2>1 DEF OthersKept
    <2>3. QED
      BY <1>3, <2>2
  <1>5. ASSUME NEW q \in Requests PROVE Told(q)'
    <2>1. CASE q # r
      <3>1. Told(q)
        BY DEF IInv
      <3>2. /\ pc'[q] = pc[q] /\ call'[q] = call[q] /\ effect'[q] = effect[q]
            /\ outage'[q] = outage[q] /\ up' = up
        BY <2>1 DEF OthersKept
      <3>3. QED
        BY <1>4, <2>1, <3>1, <3>2 DEF Told
    <2>2. QED
      BY <2>1
  <1>6. ASSUME NEW s \in held' PROVE pc'[s[1]] \in {"caller", "endpoint", "commit"}
    <2>1. CASE s[1] # r
      <3>1. s \in held
        BY <1>2, <1>6, <2>1 DEF OthersKept
      <3>2. QED
        BY <1>1, <1>2, <1>6, <2>1, <3>1 DEF PoolInv, OthersKept
    <2>2. QED
      BY <1>2, <1>6, <2>1
  <1>7. ASSUME lock' # NoRequest
        PROVE  /\ pc'[lock'] = "commit" /\ up
               /\ SessionsOf(lock)' # {} /\ (SessionsOf(lock) \cap broken)' = {}
    <2>1. CASE lock' = lock /\ lock \in Requests /\ lock # r
      <3>1. /\ SessionsOf(lock) # {} /\ SessionsOf(lock) \cap broken = {} /\ up
            /\ pc[lock] = "commit"
        BY <1>1, <1>7, <2>1 DEF PoolInv, Sound
      <3>2. QED
        BY <1>4, <2>1, <3>1 DEF OthersKept
    <2>2. CASE /\ lock' = r /\ up /\ pc'[r] = "commit"
               /\ <<r, "get_db">> \in held' /\ <<r, "get_db">> \notin broken'
      <3>1. SessionsOf(r)' = {x(r)}
        BY <1>3, <2>2
      <3>2. QED
        BY <2>2, <3>1
    <2>3. QED
      BY <1>1, <1>7, <2>1, <2>2 DEF Unlocked, TypeOK
  <1>8. PoolInv' /\ Sound'
    BY <1>6, <1>7 DEF PoolInv, Sound, Counts, OthersKept
  <1>9. QED
    BY <1>5, <1>8 DEF IInv

\* The end of a request, with its session rolled back or committed and closed.
LEMMA EndStep ==
    ASSUME IInv, NEW r \in Requests, NEW e \in Exceptions \cup {"none"},
           Finish(r, e), up' = up,
           \/ GiveBack(SessionsOf(r)) /\ lock' = Unlocked(r)
           \/ pc[r] \in {"idle", "respond"} /\ UNCHANGED <<pool, lock>>
    PROVE  IInv'
  <1> DEFINE x == <<r, "get_db">>
  <1>1. TypeOK /\ PoolInv /\ Sound /\ Counts
    BY OwnPart
  <1>2. /\ held' \ {x} = held \ {x} /\ broken' \ {x} = broken \ {x}
        /\ x \notin held' /\ Counts'
        /\ held' \subseteq Sessions /\ broken' \subseteq held'
        /\ live' \in Nat /\ stale' \in Nat /\ opened' \in Nat
    <2>1. CASE GiveBack(SessionsOf(r))
      <3>1. /\ held' = held \ {x} /\ broken' = broken \ {x}
            /\ IsFiniteSet(held') /\ broken' \subseteq held'
            /\ held' \subseteq Sessions /\ held' \subseteq Requests \X {"get_db"}
            /\ live' \in Nat /\ stale' \in Nat /\ opened' \in Nat
            /\ opened' = Cardinality(held') + live' + stale'
            /\ opened' <= Limit /\ live' + stale' <= PoolSize
            /\ ~ up => live' = 0 /\ broken' = held'
        BY <1>1, <2>1, GiveBackPool
      <3>2. Counts'
        BY <3>1 DEF Counts
      <3>3. QED
        BY <3>1, <3>2
    <2>2. CASE pc[r] \in {"idle", "respond"} /\ UNCHANGED <<pool, lock>>
      <3>1. x \notin held
        BY <2>2, OwnPart
      <3>2. UNCHANGED <<held, broken, live, stale, opened>>
        BY <2>2 DEF pool
      <3>3. Counts'
        BY <1>1, <3>2 DEF Counts
      <3>4. QED
        BY <1>1, <3>1, <3>2, <3>3 DEF TypeOK
    <2>3. QED
      BY <2>1, <2>2
  <1>3. lock' = Unlocked(r) \/ (lock' = lock /\ lock # r)
    <2>1. lock = r => pc[r] = "commit"
      BY OwnPart
    <2>2. CASE GiveBack(SessionsOf(r)) /\ lock' = Unlocked(r)
      BY <2>2
    <2>3. CASE pc[r] \in {"idle", "respond"} /\ UNCHANGED <<pool, lock>>
      BY <2>1, <2>3
    <2>4. QED
      BY <2>2, <2>3
  <1>4. lock' \in Requests \cup {NoRequest}
    BY <1>1, <1>3 DEF Unlocked, TypeOK
  <1>5. TypeOK'
    <2>1. Outcome[e] \in Answers
      BY Outcomes
    <2>2. pc' \in [Requests -> {"idle", "caller", "endpoint", "commit", "respond"}]
          /\ call' \in [Requests -> Calls \cup {NoCall}]
          /\ effect' \in [Requests -> {"none", "made", "kept"}]
          /\ outage' \in [Requests -> BOOLEAN]
      BY <1>1 DEF TypeOK, Finish, Goto
    <2>3. sent' \in Answers /\ up' \in BOOLEAN
      BY <1>1, <2>1 DEF TypeOK, Finish
    <2>4. QED
      BY <1>2, <1>4, <2>2, <2>3 DEF TypeOK
  <1>6. /\ pc'[r] = "idle" /\ effect'[r] = "none"
        /\ \A q \in Requests \ {r} : /\ pc'[q] = pc[q] /\ call'[q] = call[q]
                                     /\ effect'[q] = effect[q] /\ outage'[q] = outage[q]
    BY <1>1 DEF TypeOK, Finish, Goto
  <1>7. OthersKept(r)
    BY <1>2, <1>6 DEF OthersKept
  <1>8. Told(r)'
    <2>1. (SessionsOf(r) \cap broken)' = {}
      <3>1. \A s \in held' : s = <<s[1], "get_db">>
        BY <1>2 DEF Counts
      <3>2. QED
        BY <1>2, <3>1 DEF SessionsOf
    <2>2. QED
      BY <1>6, <2>1 DEF Told
  <1>9. QED
    BY <1>2, <1>3, <1>5, <1>7, <1>8, RequestStep

LEMMA RaiseStep ==
    ASSUME IInv, NEW r \in Requests, NEW e \in Exceptions, Raise(r, e)
    PROVE  IInv'
  BY EndStep DEF Raise

\* What r's own part comes to, told by its session.
LEMMA ToldIf ==
    ASSUME TypeOK', Counts', NEW r \in Requests,
           pc'[r] # "idle",
           pc'[r] = "commit" => <<r, "get_db">> \in held',
           pc'[r] = "commit" /\ call'[r].writes /\ call'[r].body # "invalid" =>
               effect'[r] = "made" \/ <<r, "get_db">> \in broken',
           pc'[r] = "respond" /\ call'[r].writes => effect'[r] = "kept",
           effect'[r] = "kept" => outage'[r] = TRUE \/ pc'[r] = "respond",
           effect'[r] = "made" => pc'[r] = "commit",
           ~ up' => outage'[r] = TRUE,
           <<r, "get_db">> \in broken' => outage'[r] = TRUE
    PROVE  Told(r)'
  <1>1. \A s \in held' : s = <<s[1], "get_db">>
    BY DEF Counts
  <1>2. /\ SessionsOf(r)' = IF <<r, "get_db">> \in held' THEN {<<r, "get_db">>} ELSE {}
    BY <1>1 DEF SessionsOf
  <1>3. /\ SessionsOf(r)' # {} <=> <<r, "get_db">> \in held'
        /\ (SessionsOf(r) \cap broken)' # {} <=> <<r, "get_db">> \in broken'
    BY <1>2 DEF TypeOK
  <1>4. QED
    BY <1>3 DEF Told

\* What r's own part was, told by its session.
LEMMA ToldThen ==
    ASSUME IInv, NEW r \in Requests
    PROVE  /\ pc[r] = "commit" => <<r, "get_db">> \in held
           /\ pc[r] = "commit" /\ call[r].writes /\ call[r].body # "invalid" =>
                  effect[r] = "made" \/ <<r, "get_db">> \in broken
           /\ pc[r] = "respond" /\ call[r].writes => effect[r] = "kept"
           /\ effect[r] = "kept" => outage[r] = TRUE \/ pc[r] = "respond"
           /\ effect[r] = "made" => pc[r] = "commit"
           /\ pc[r] = "idle" => effect[r] = "none"
           /\ ~ up /\ pc[r] # "idle" => outage[r] = TRUE
           /\ <<r, "get_db">> \in broken => outage[r] = TRUE
  BY OwnPart DEF Told

\* A request goes on without the pool: after its arrival, its caller or its statement.
LEMMA GoOnStep ==
    ASSUME IInv, NEW r \in Requests, NEW stage \in {"caller", "endpoint", "commit"},
           pc' = [pc EXCEPT ![r] = stage], UNCHANGED <<pool, up>>, Silent,
           \/ /\ pc[r] = "idle" /\ stage # "commit" /\ UNCHANGED <<effect, lock>>
              /\ outage' = [outage EXCEPT ![r] = ~ up]
              /\ \E c \in Calls : call' = [call EXCEPT ![r] = c]
           \/ /\ pc[r] = "caller" /\ <<r, "get_db">> \in held
              /\ stage = "commit" => call[r].body = "invalid"
              /\ UNCHANGED <<call, effect, lock, outage>>
           \/ /\ pc[r] = "endpoint" /\ <<r, "get_db">> \in held /\ stage = "commit"
              /\ ~ call[r].writes /\ UNCHANGED <<call, effect, lock, outage>>
           \/ /\ pc[r] = "endpoint" /\ <<r, "get_db">> \in held /\ stage = "commit"
              /\ <<r, "get_db">> \notin broken /\ lock = NoRequest /\ lock' = r
              /\ effect' = [effect EXCEPT ![r] = "made"] /\ UNCHANGED <<call, outage>>
    PROVE  IInv'
  <1> DEFINE x == <<r, "get_db">>
  <1>1. TypeOK /\ PoolInv /\ Sound /\ Counts
    BY OwnPart
  <1>2. UNCHANGED <<held, broken, live, stale, opened, up>> /\ Counts' /\ sent' \in Answers
    BY <1>1 DEF pool, Counts, Silent, Unanswered, Answers, Exceptions
  <1>3. /\ pc' \in [Requests -> {"idle", "caller", "endpoint", "commit", "respond"}]
        /\ effect' \in [Requests -> {"none", "made", "kept"}]
    BY <1>1 DEF TypeOK
  <1>4. call' \in [Requests -> Calls \cup {NoCall}]
    BY <1>1 DEF TypeOK
  <1>5. outage' \in [Requests -> BOOLEAN] /\ (pc[r] = "idle" => outage'[r] = ~ up)
    BY <1>1 DEF TypeOK
  <1>6. TypeOK'
    BY <1>1, <1>2, <1>3, <1>4, <1>5 DEF TypeOK
  <1>7. OthersKept(r)
    <2>1. \A q \in Requests \ {r} : /\ pc'[q] = pc[q] /\ call'[q] = call[q]
                                    /\ effect'[q] = effect[q]
      BY <1>1 DEF TypeOK
    <2>2. \A q \in Requests \ {r} : outage'[q] = outage[q]
      BY <1>1 DEF TypeOK
    <2>3. QED
      BY <1>2, <2>1, <2>2 DEF OthersKept
  <1>8. (pc'[r] = stage /\ effect'[r] # "kept") \/ effect'[r] = effect[r]
    BY <1>1 DEF TypeOK
  <1>9. Told(r)'
    <2>1. pc[r] # "idle" => outage'[r] = outage[r]
      OBVIOUS
    <2>2. ASSUME ~ up' PROVE outage'[r] = TRUE
      <3>1. CASE pc[r] = "idle"
        <4>1. ~ up
          BY <1>2, <2>2
        <4>2. outage'[r] = ~ up
          BY <1>5, <3>1
        <4>3. QED
          BY <4>1, <4>2
      <3>2. CASE pc[r] # "idle"
        <4>1. ~ up
          BY <1>2, <2>2
        <4>2. outage[r] = TRUE
          BY <3>2, <4>1, ToldThen
        <4>3. QED
          BY <2>1, <3>2, <4>2
      <3>3. QED
        BY <3>1, <3>2
    <2>3. <<r, "get_db">> \in broken' => outage'[r] = TRUE
      BY <1>1, <1>2, <2>1, OwnPart, ToldThen DEF TypeOK
    <2>4. pc'[r] = stage
      BY <1>1 DEF TypeOK
    <2>5. effect'[r] = "made" => stage = "commit"
      BY ToldThen
    <2>6. effect'[r] = "kept" => outage'[r] = TRUE
      BY <1>1, <2>1, ToldThen DEF TypeOK
    <2>7. /\ stage = "commit" => x \in held'
          /\ stage = "commit" /\ call'[r].writes /\ call'[r].body # "invalid" =>
                 effect'[r] = "made"
      BY <1>1, <1>2 DEF TypeOK
    <2>8. QED
      BY <1>2, <1>6, <2>2, <2>3, <2>4, <2>5, <2>6, <2>7, ToldIf
  <1>10. /\ x \in held' => pc'[r] \in {"caller", "endpoint", "commit"}
         /\ \/ lock' = lock /\ lock # r
            \/ lock' = r /\ up /\ pc'[r] = "commit" /\ x \in held' /\ x \notin broken'
    <2>1. pc'[r] = stage
      BY <1>1 DEF TypeOK
    <2>2. x \in held /\ x \notin broken => up
      BY <1>1 DEF Counts
    <2>3. lock = r => pc[r] = "commit"
      BY OwnPart
    <2>4. QED
      BY <1>2, <2>1, <2>2, <2>3
  <1>11. QED
    BY <1>2, <1>6, <1>7, <1>9, <1>10, RequestStep

\* The first statement takes a connection.
LEMMA CheckoutStep ==
    ASSUME IInv, NEW r \in Requests, Checkout(r)
    PROVE  IInv'
  <1> DEFINE x == <<r, "get_db">>
  <1>1. TypeOK /\ PoolInv /\ Sound /\ Counts /\ Session(r) = x
    BY OwnPart
  <1>2. CASE ~ up /\ Raise(r, "other")
    BY <1>2, RaiseStep DEF Exceptions
  <1>3. CASE /\ up /\ Take(x) /\ Silent
             /\ UNCHANGED <<pc, call, effect, lock, up, outage>>
    <2>1. x \notin held /\ pc[r] \in {"caller", "endpoint"}
      BY <1>1 DEF Checkout, WantsConnection
    <2>2. /\ held' = held \cup {x} /\ broken' = broken
          /\ IsFiniteSet(held') /\ held' \subseteq Sessions /\ held' \subseteq Requests \X {"get_db"}
          /\ live' \in Nat /\ stale' \in Nat /\ opened' \in Nat
          /\ opened' = Cardinality(held') + live' + stale'
          /\ opened' <= Limit /\ live' + stale' <= PoolSize
      BY <1>1, <1>3, <2>1, TakePool
    <2>3. Counts'
      BY <1>3, <2>2 DEF Counts
    <2>4. sent' \in Answers
      BY <1>3 DEF Silent, Unanswered, Answers, Exceptions
    <2>5. TypeOK'
      BY <1>1, <1>3, <2>2, <2>4 DEF TypeOK
    <2>6. OthersKept(r)
      BY <1>3, <2>2 DEF OthersKept
    <2>7. Told(r)'
      <3>1. x \notin broken'
        BY <1>1, <2>1, <2>2 DEF TypeOK
      <3>2. /\ effect[r] # "kept" \/ outage[r] = TRUE
            /\ effect[r] # "made"
        BY <2>1, ToldThen
      <3>3. /\ pc'[r] \in {"caller", "endpoint"} /\ up'
            /\ effect'[r] = effect[r] /\ outage'[r] = outage[r]
        BY <1>3, <2>1
      <3>4. QED
        BY <2>3, <2>5, <3>1, <3>2, <3>3, ToldIf
    <2>8. lock' = lock /\ lock # r
      BY <1>3, <2>1, OwnPart
    <2>9. QED
      BY <1>3, <2>1, <2>3, <2>5, <2>6, <2>7, <2>8, RequestStep
  <1>4. QED
    BY <1>1, <1>2, <1>3 DEF Checkout

\* get_db goes on behind its yield: what was made is there for good, unless the connection
\* was lost.
LEMMA CommitStep ==
    ASSUME IInv, NEW r \in Requests, Commit(r)
    PROVE  IInv'
  <1> DEFINE x == <<r, "get_db">>
  <1>1. TypeOK /\ PoolInv /\ Sound /\ Counts
    BY OwnPart
  <1>2. CASE SessionsOf(r) \cap broken # {} /\ Raise(r, "other")
    BY <1>2, RaiseStep DEF Exceptions
  <1>3. CASE /\ GiveBack(SessionsOf(r)) /\ lock' = Unlocked(r)
             /\ Finish(r, "RequestValidationError") /\ up' = up
    BY <1>3, EndStep DEF Exceptions
  <1>4. CASE /\ SessionsOf(r) \cap broken = {} /\ call[r].body # "invalid"
             /\ GiveBack(SessionsOf(r)) /\ lock' = Unlocked(r)
             /\ Goto(r, "respond") /\ Silent
             /\ effect' = [effect EXCEPT ![r] = IF @ = "made" THEN "kept" ELSE @]
             /\ UNCHANGED <<call, outage, up>>
    <2>1. pc[r] = "commit" /\ x \notin broken
      BY <1>4, OwnPart DEF Commit
    <2>2. /\ held' = held \ {x} /\ broken' = broken \ {x}
          /\ IsFiniteSet(held') /\ broken' \subseteq held'
          /\ held' \subseteq Sessions /\ held' \subseteq Requests \X {"get_db"}
          /\ live' \in Nat /\ stale' \in Nat /\ opened' \in Nat
          /\ opened' = Cardinality(held') + live' + stale'
          /\ opened' <= Limit /\ live' + stale' <= PoolSize
          /\ ~ up => live' = 0 /\ broken' = held'
      BY <1>1, <1>4, GiveBackPool
    <2>3. Counts'
      BY <1>4, <2>2 DEF Counts
    <2>4. /\ sent' \in Answers /\ lock' \in Requests \cup {NoRequest}
          /\ pc' \in [Requests -> {"idle", "caller", "endpoint", "commit", "respond"}]
          /\ effect' \in [Requests -> {"none", "made", "kept"}]
      <3>1. sent' \in Answers
        BY <1>4 DEF Silent, Unanswered, Answers, Exceptions
      <3>2. lock' \in Requests \cup {NoRequest}
        BY <1>1, <1>4 DEF Unlocked, TypeOK
      <3>3. /\ pc' \in [Requests -> {"idle", "caller", "endpoint", "commit", "respond"}]
            /\ effect' \in [Requests -> {"none", "made", "kept"}]
        BY <1>1, <1>4 DEF TypeOK, Goto
      <3>4. QED
        BY <3>1, <3>2, <3>3
    <2>5. TypeOK'
      BY <1>1, <1>4, <2>2, <2>4 DEF TypeOK
    <2>6. OthersKept(r)
      <3>1. \A q \in Requests \ {r} : /\ pc'[q] = pc[q] /\ call'[q] = call[q]
                                      /\ effect'[q] = effect[q] /\ outage'[q] = outage[q]
        BY <1>1, <1>4 DEF TypeOK, Goto
      <3>2. QED
        BY <1>4, <2>2, <3>1 DEF OthersKept
    <2>7. /\ pc'[r] = "respond" /\ call'[r] = call[r] /\ outage'[r] = outage[r]
          /\ effect'[r] = (IF effect[r] = "made" THEN "kept" ELSE effect[r])
      BY <1>1, <1>4 DEF TypeOK, Goto
    <2>8. Told(r)'
      <3>1. effect'[r] # "made"
        BY <2>7
      <3>2. call'[r].writes => effect'[r] = "kept"
        <4>1. call[r].writes => effect[r] = "made" \/ x \in broken
          BY <1>4, <2>1, ToldThen
        <4>2. QED
          BY <2>1, <2>7, <4>1
      <3>3. ASSUME ~ up' PROVE outage'[r] = TRUE
        <4>1. ~ up /\ pc[r] # "idle"
          BY <1>4, <2>1, <3>3
        <4>2. outage[r] = TRUE
          BY <4>1, ToldThen
        <4>3. QED
          BY <2>7, <4>2
      <3>4. x \notin broken'
        BY <2>2
      <3>5. QED
        BY <2>3, <2>5, <2>7, <3>1, <3>2, <3>3, <3>4, ToldIf
    <2>9. QED
      BY <1>4, <2>2, <2>3, <2>5, <2>6, <2>8, RequestStep
  <1>5. QED
    BY <1>2, <1>3, <1>4 DEF Commit

LEMMA ReceiveStep ==
    ASSUME IInv, NEW r \in Requests, NEW c \in Calls, Receive(r, c)
    PROVE  IInv'
  <1>1. ASSUME NEW e \in Objections(c), Raise(r, e) PROVE IInv'
    <2>1. e \in Exceptions
      BY DEF Objections, Exceptions
    <2>2. QED
      BY <1>1, <2>1, RaiseStep
  <1>2. CASE c.route = "health" /\ Finish(r, "none") /\ UNCHANGED <<pool, lock, up>>
    BY <1>2, EndStep DEF Receive
  <1>3. CASE /\ Goto(r, IF Authenticates(c) THEN "caller" ELSE "endpoint")
             /\ call' = [call EXCEPT ![r] = c]
             /\ outage' = [outage EXCEPT ![r] = ~ up]
             /\ Silent
             /\ UNCHANGED <<effect, pool, lock, up>>
    <2> DEFINE stage == IF Authenticates(c) THEN "caller" ELSE "endpoint"
    <2>1. stage \in {"caller", "endpoint"}
      OBVIOUS
    <2>2. pc[r] = "idle" /\ pc' = [pc EXCEPT ![r] = stage]
      BY <1>3 DEF Receive, Goto
    <2> HIDE DEF stage
    <2>3. stage \in {"caller", "endpoint", "commit"} /\ stage # "commit"
      BY <2>1
    <2>4. QED
      BY <1>3, <2>2, <2>3, GoOnStep
  <1>4. QED
    BY <1>1, <1>2, <1>3 DEF Receive

LEMMA CallerStep ==
    ASSUME IInv, NEW r \in Requests, GetCurrentUser(r)
    PROVE  IInv'
  <1>1. pc[r] = "caller" /\ <<r, "get_db">> \in held
    BY OwnPart DEF GetCurrentUser, Statement
  <1>2. CASE Raise(r, "other") \/ Raise(r, "HTTPException")
    BY <1>2, RaiseStep DEF Exceptions
  <1>3. CASE /\ Goto(r, IF call[r].body = "invalid" THEN "commit" ELSE "endpoint")
             /\ Silent
             /\ UNCHANGED <<call, effect, pool, lock, up, outage>>
    <2> DEFINE stage == IF call[r].body = "invalid" THEN "commit" ELSE "endpoint"
    <2>1. /\ stage \in {"caller", "endpoint", "commit"}
          /\ stage = "commit" => call[r].body = "invalid"
      OBVIOUS
    <2>2. pc' = [pc EXCEPT ![r] = stage]
      BY <1>3 DEF Goto
    <2> HIDE DEF stage
    <2>3. QED
      BY <1>1, <1>3, <2>1, <2>2, GoOnStep
  <1>4. QED
    BY <1>2, <1>3 DEF GetCurrentUser

LEMMA EndpointStep ==
    ASSUME IInv, NEW r \in Requests, Endpoint(r)
    PROVE  IInv'
  <1>1. pc[r] = "endpoint" /\ <<r, "get_db">> \in held
    BY OwnPart DEF Endpoint, Statement
  <1>2. ASSUME NEW e \in Exceptions, Raise(r, e) PROVE IInv'
    BY <1>2, RaiseStep
  <1>3. CASE /\ Session(r) \notin broken /\ Goto(r, "commit")
             /\ \/ ~ call[r].writes /\ UNCHANGED <<lock, effect>>
                \/ /\ call[r].writes /\ lock = NoRequest
                   /\ lock' = r
                   /\ effect' = [effect EXCEPT ![r] = "made"]
             /\ Silent
             /\ UNCHANGED <<call, pool, up, outage>>
    <2>1. pc' = [pc EXCEPT ![r] = "commit"] /\ <<r, "get_db">> \notin broken
      BY <1>3, OwnPart DEF Goto
    <2>2. QED
      BY <1>1, <1>3, <2>1, GoOnStep
  <1>4. QED
    BY <1>2, <1>3 DEF Endpoint, Exceptions

-----------------------------------------------------------------------------
(***************************************************************************)
(* The steps of the database.                                              *)
(***************************************************************************)

\* A failure takes every connection, lock and open write with it.
LEMMA DatabaseFailsStep ==
    ASSUME IInv, NEW done \in SUBSET {r \in Requests : pc[r] = "commit"}, DatabaseFails(done)
    PROVE  IInv'
  <1>1. TypeOK /\ PoolInv /\ Sound
    BY DEF IInv, PoolInv
  <1>2. /\ held' = held /\ broken' = held /\ live' = 0 /\ stale' = live + stale
        /\ opened' = opened /\ lock' = NoRequest /\ up' = FALSE
        /\ pc' = pc /\ call' = call
    BY DEF DatabaseFails
  <1>3. TypeOK'
    <2>1. /\ effect' \in [Requests -> {"none", "made", "kept"}]
          /\ outage' \in [Requests -> BOOLEAN]
      BY <1>1 DEF TypeOK, DatabaseFails
    <2>2. sent' \in Answers
      BY DEF DatabaseFails, Silent, Unanswered, Answers, Exceptions
    <2>3. up' \in BOOLEAN
      BY <1>2
    <2>4. live' \in Nat /\ stale' \in Nat /\ opened' \in Nat /\ broken' \subseteq held'
      BY <1>1, <1>2 DEF TypeOK
    <2>5. /\ pc' \in [Requests -> {"idle", "caller", "endpoint", "commit", "respond"}]
          /\ call' \in [Requests -> Calls \cup {NoCall}]
          /\ held' \subseteq Sessions /\ lock' \in Requests \cup {NoRequest}
      BY <1>1, <1>2 DEF TypeOK
    <2>6. QED
      BY <2>1, <2>2, <2>3, <2>4, <2>5 DEF TypeOK
  <1>4. PoolInv'
    <2>1. /\ opened' = Cardinality(held') + live' + stale'
          /\ opened' <= Limit /\ live' + stale' <= PoolSize
      <3>1. /\ live \in Nat /\ stale \in Nat /\ Cardinality(held) \in Nat
            /\ opened = Cardinality(held) + live + stale
            /\ opened <= Limit /\ live + stale <= PoolSize
        BY <1>1, FS_CardinalityType DEF PoolInv, TypeOK, Sound
      <3>2. Cardinality(held') = Cardinality(held)
        BY <1>2
      <3>3. QED
        BY <1>2, <3>1, <3>2
    <2>2. \A s \in held' : pc'[s[1]] \in {"caller", "endpoint", "commit"}
      BY <1>1, <1>2 DEF PoolInv
    <2>3. QED
      BY <1>2, <1>3, <2>1, <2>2 DEF PoolInv
  <1>5. Sound'
    BY <1>1, <1>2 DEF Sound
  <1>6. ASSUME NEW r \in Requests PROVE Told(r)'
    <2>1. /\ effect[r] = "kept" => outage[r] = TRUE \/ pc[r] = "respond"
          /\ pc[r] = "commit" => <<r, "get_db">> \in held
          /\ pc[r] = "respond" /\ call[r].writes => effect[r] = "kept"
          /\ pc[r] = "idle" => effect[r] = "none"
          /\ effect[r] = "made" => pc[r] = "commit"
      BY ToldThen
    <2>2. <<r, "get_db">> \in held => pc[r] # "idle"
      BY OwnPart
    <2>3. /\ outage'[r] = (pc[r] # "idle")
          /\ effect'[r] = (IF effect[r] # "made" THEN effect[r]
                           ELSE IF r \in done THEN "kept" ELSE "none")
      BY DEF DatabaseFails
    <2>4. pc[r] # "idle" => outage'[r] = TRUE
      BY <2>3
    <2>5. /\ effect'[r] # "made"
          /\ effect'[r] = "kept" => effect[r] \in {"kept", "made"}
          /\ effect[r] # "made" => effect'[r] = effect[r]
      BY <2>3
    <2>6. SessionsOf(r)' = SessionsOf(r) /\ (SessionsOf(r) \cap broken)' = SessionsOf(r)
      BY <1>2 DEF SessionsOf
    <2>7. /\ <<r, "get_db">> \in held <=> SessionsOf(r) # {}
      BY OwnPart
    <2>8. CASE pc[r] = "idle"
      BY <1>2, <2>1, <2>2, <2>5, <2>6, <2>7, <2>8 DEF Told
    <2>9. CASE pc[r] # "idle"
      BY <1>2, <2>1, <2>4, <2>5, <2>6, <2>7, <2>9 DEF Told
    <2>10. QED
      BY <2>8, <2>9
  <1>7. QED
    BY <1>4, <1>5, <1>6 DEF IInv

LEMMA DatabaseReturnsStep ==
    ASSUME IInv, DatabaseReturns
    PROVE  IInv'
  <1>1. TypeOK /\ PoolInv /\ Sound
    BY DEF IInv, PoolInv
  <1>2. /\ UNCHANGED <<pc, call, effect, held, broken, live, stale, opened, lock, outage>>
        /\ up' = TRUE /\ sent' \in Answers
    BY DEF DatabaseReturns, pool, Silent, Unanswered, Answers, Exceptions
  <1>3. PoolInv'
    BY <1>1, <1>2 DEF PoolInv, TypeOK, SessionsOf
  <1>4. Sound'
    BY <1>1, <1>2 DEF Sound
  <1>5. ASSUME NEW r \in Requests PROVE Told(r)'
    <2>1. Told(r)
      BY DEF IInv
    <2>2. QED
      BY <1>2, <2>1 DEF Told, SessionsOf
  <1>6. QED
    BY <1>3, <1>4, <1>5 DEF IInv

LEMMA NextIInv == IInv /\ [Next]_vars => IInv'
  <1> SUFFICES ASSUME IInv, [Next]_vars PROVE IInv'
    OBVIOUS
  <1>1. ASSUME NEW r \in Requests, Step(r) PROVE IInv'
    <2>1. CASE Respond(r)
      BY <2>1, EndStep DEF Respond
    <2>2. QED
      BY <1>1, <2>1, CheckoutStep, CallerStep, EndpointStep, CommitStep DEF Step
  <1>2. ASSUME NEW r \in Requests, PoolTimeout(r) PROVE IInv'
    BY <1>2, RaiseStep DEF PoolTimeout, Exceptions
  <1>3. ASSUME NEW r \in Requests, NEW c \in Calls, Receive(r, c) PROVE IInv'
    BY <1>3, ReceiveStep
  <1>4. CASE UNCHANGED vars
    <2>1. UNCHANGED <<pc, call, effect, held, broken, live, stale, opened, lock, up, outage, sent>>
      BY <1>4 DEF vars, pool
    <2>2. ASSUME NEW r \in Requests PROVE Told(r)'
      <3>1. Told(r)
        BY DEF IInv
      <3>2. QED
        BY <2>1, <3>1 DEF Told, SessionsOf
    <2>3. PoolInv' /\ Sound'
      BY <2>1 DEF IInv, PoolInv, Sound, TypeOK, SessionsOf
    <2>4. QED
      BY <2>2, <2>3 DEF IInv
  <1>5. QED
    BY <1>1, <1>2, <1>3, <1>4, DatabaseFailsStep, DatabaseReturnsStep DEF Next

-----------------------------------------------------------------------------
(***************************************************************************)
(* The theorems.                                                           *)
(***************************************************************************)

\* The inductive invariant holds in every state of every behaviour.
THEOREM Invariance == Spec => []IInv
  <1>1. QED
    BY InitIInv, NextIInv, PTL DEF Spec

\* Whatever requests end how, and whenever the database fails and returns, no connection
\* is lost, counted twice or kept by a request that was answered, and the pool stays
\* within its limits (session.py:13-19, 31-39).
THEOREM PoolCorrect == Spec => []PoolInv
  <1>1. IInv => PoolInv
    BY DEF IInv
  <1>2. QED
    BY <1>1, Invariance, PTL

-----------------------------------------------------------------------------
(***************************************************************************)
(* What clients are told.                                                  *)
(***************************************************************************)

\* AnswersJustified of one step.
Justified ==
    /\ sent'.logged = sent'.status
    /\ sent' # Unanswered => (sent'.cors <=> sent'.status # 500)
    /\ \A r \in Requests : pc[r] # "idle" /\ pc'[r] = "idle" =>
           /\ sent'.status = 200 /\ call[r].writes => effect[r] = "kept"
           /\ sent'.status # 200 /\ effect[r] = "kept" => outage[r]
           /\ sent'.status = 500 =>
                  \/ outage[r]
                  \/ WantsConnection(r) /\ Exhausted
                  \/ Statement(r, "endpoint")

LEMMA SilentIsJustified ==
    ASSUME Silent, \A q \in Requests : pc[q] # "idle" => pc'[q] # "idle"
    PROVE  Justified
  BY DEF Silent, Justified, Unanswered

\* A request is told of success behind its commit, and of nothing else there.
LEMMA FinishIsJustified ==
    ASSUME IInv, NEW r \in Requests, NEW e \in Exceptions \cup {"none"}, Finish(r, e),
           pc[r] = "respond" <=> pc[r] # "idle" /\ e = "none",
           e = "other" => \/ outage[r] = TRUE
                          \/ WantsConnection(r) /\ Exhausted
                          \/ Statement(r, "endpoint")
    PROVE  Justified
  <1>1. /\ sent'.logged = sent'.status
        /\ sent'.cors <=> sent'.status # 500
        /\ sent'.status = 200 <=> e = "none"
        /\ sent'.status = 500 <=> e = "other"
    BY Outcomes DEF Finish
  <1>2. \A q \in Requests \ {r} : pc'[q] = pc[q]
    BY OwnPart DEF Finish, Goto, TypeOK
  <1>3. /\ pc[r] = "respond" /\ call[r].writes => effect[r] = "kept"
        /\ effect[r] = "kept" => outage[r] = TRUE \/ pc[r] = "respond"
    BY ToldThen
  <1>4. QED
    BY <1>1, <1>2, <1>3 DEF Justified

LEMMA RaiseIsJustified ==
    ASSUME IInv, NEW r \in Requests, NEW e \in Exceptions, Raise(r, e), pc[r] # "respond",
           e = "other" => \/ outage[r] = TRUE
                          \/ WantsConnection(r) /\ Exhausted
                          \/ Statement(r, "endpoint")
    PROVE  Justified
  <1>1. e \in Exceptions \cup {"none"} /\ e # "none" /\ Finish(r, e)
    BY DEF Exceptions, Raise
  <1>2. QED
    BY <1>1, FinishIsJustified

LEMMA StepIsJustified ==
    ASSUME IInv, NEW r \in Requests, Step(r)
    PROVE  Justified
  <1>1. TypeOK
    BY OwnPart
  <1>2. ASSUME NEW stage \in {"caller", "endpoint", "commit", "respond"}, Goto(r, stage), Silent
        PROVE  Justified
    BY <1>1, <1>2, SilentIsJustified DEF TypeOK, Goto
  <1>3. "other" \in Exceptions /\ "HTTPException" \in Exceptions
        /\ "RequestValidationError" \in Exceptions
    BY DEF Exceptions
  <1>4. <<r, "get_db">> \in broken => outage[r] = TRUE
    BY ToldThen
  <1>5. Session(r) = <<r, "get_db">> /\ (SessionsOf(r) \cap broken # {} => outage[r] = TRUE)
    BY <1>4, OwnPart
  <1>6. CASE Checkout(r)
    <2>1. pc[r] \in {"caller", "endpoint"}
      BY <1>6 DEF Checkout, WantsConnection
    <2>2. CASE Silent /\ pc' = pc
      BY <2>2, SilentIsJustified
    <2>3. CASE ~ up /\ Raise(r, "other")
      <3>1. outage[r] = TRUE
        BY <2>1, <2>3, ToldThen
      <3>2. QED
        BY <1>3, <2>1, <2>3, <3>1, RaiseIsJustified
    <2>4. QED
      BY <1>6, <2>2, <2>3 DEF Checkout
  <1>7. CASE GetCurrentUser(r)
    <2>1. pc[r] = "caller"
      BY <1>7 DEF GetCurrentUser, Statement
    <2>2. CASE Session(r) \in broken /\ Raise(r, "other")
      BY <1>3, <1>4, <1>5, <2>1, <2>2, RaiseIsJustified
    <2>3. CASE Raise(r, "HTTPException")
      BY <1>3, <2>1, <2>3, RaiseIsJustified
    <2>4. QED
      BY <1>2, <1>7, <2>2, <2>3 DEF GetCurrentUser
  <1>8. CASE Endpoint(r)
    <2>1. pc[r] = "endpoint" /\ Statement(r, "endpoint")
      BY <1>8 DEF Endpoint, Statement
    <2>2. ASSUME NEW e \in Exceptions, Raise(r, e) PROVE Justified
      BY <2>1, <2>2, RaiseIsJustified
    <2>3. QED
      BY <1>2, <1>3, <1>8, <2>2 DEF Endpoint
  <1>9. CASE Commit(r)
    <2>1. pc[r] = "commit"
      BY <1>9 DEF Commit
    <2>2. CASE SessionsOf(r) \cap broken # {} /\ Raise(r, "other")
      BY <1>3, <1>5, <2>1, <2>2, RaiseIsJustified
    <2>3. CASE Finish(r, "RequestValidationError")
      BY <1>3, <2>1, <2>3, FinishIsJustified
    <2>4. QED
      BY <1>2, <1>9, <2>2, <2>3 DEF Commit
  <1>10. CASE Respond(r)
    BY <1>10, FinishIsJustified DEF Respond
  <1>11. QED
    BY <1>6, <1>7, <1>8, <1>9, <1>10 DEF Step

LEMMA NextIsJustified == IInv /\ Next => Justified
  <1> SUFFICES ASSUME IInv, Next PROVE Justified
    OBVIOUS
  <1>1. ASSUME NEW r \in Requests, PoolTimeout(r) PROVE Justified
    <2>1. pc[r] \in {"caller", "endpoint"} /\ WantsConnection(r) /\ Exhausted /\ Raise(r, "other")
      BY <1>1 DEF PoolTimeout, WantsConnection
    <2>2. "other" \in Exceptions
      BY DEF Exceptions
    <2>3. QED
      BY <2>1, <2>2, RaiseIsJustified
  <1>2. ASSUME NEW r \in Requests, NEW c \in Calls, Receive(r, c) PROVE Justified
    <2>1. pc[r] = "idle" /\ TypeOK
      BY <1>2, OwnPart DEF Receive
    <2>2. ASSUME NEW e \in Objections(c), Raise(r, e) PROVE Justified
      <3>1. e \in Exceptions /\ e # "other"
        BY DEF Objections, Exceptions
      <3>2. QED
        BY <2>1, <2>2, <3>1, RaiseIsJustified
    <2>3. CASE Finish(r, "none")
      BY <2>1, <2>3, FinishIsJustified
    <2>4. CASE Goto(r, IF Authenticates(c) THEN "caller" ELSE "endpoint") /\ Silent
      BY <2>1, <2>4, SilentIsJustified DEF TypeOK, Goto
    <2>5. QED
      BY <1>2, <2>2, <2>3, <2>4 DEF Receive
  <1>3. ASSUME NEW done, DatabaseFails(done) PROVE Justified
    BY <1>3, SilentIsJustified DEF DatabaseFails
  <1>4. CASE DatabaseReturns
    BY <1>4, SilentIsJustified DEF DatabaseReturns
  <1>5. QED
    BY <1>1, <1>2, <1>3, <1>4, StepIsJustified DEF Next

\* Clients are told the truth, through every outage: success only of what is there for
\* good, anything else only of what is not, unless the database failed at the commit; a
\* 500 has a cause; the log says what was sent (session.py:16, logging.py:16-33).
THEOREM AnswersTrue == Spec => AnswersJustified
  <1>1. IInv /\ [Next]_vars => [Justified]_vars
    BY NextIsJustified
  <1>2. Spec => [][Justified]_vars
    BY <1>1, Invariance, PTL DEF Spec
  <1>3. QED
    BY <1>2 DEF AnswersJustified, Justified
=============================================================================
