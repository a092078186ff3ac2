------------------------------- MODULE Gateway -------------------------------
(***************************************************************************)
(* One worker: the stack of app/main.py that every request passes, its     *)
(* exception handlers and its log, and the pool of connections of          *)
(* app/db/session.py that the requests share.                              *)
(*                                                                         *)
(* A request opens its session without a connection and takes one at its   *)
(* first statement, the SELECT of the caller; it keeps it while it waits   *)
(* for locks and gives it back when get_db commits or rolls back, before   *)
(* it is answered.  The database may fail and return at any time.  What    *)
(* endpoints do is in Accounts, TaskStore and Listing: here they read,     *)
(* write one contended row, refuse, or fail.                               *)
(***************************************************************************)
EXTENDS Integers, FiniteSets, Sequences

CONSTANTS
    Requests,
    Calls,        \* what clients send
    PoolSize,     \* pool_size, connections kept when idle
    MaxOverflow,  \* max_overflow, connections beyond them
    NoRequest, NoCall

AllCalls ==
    [route : {"api", "health", "unknown"},
     auth : {"required", "optional", "public"},  \* the dependency of the endpoint
     credentials : BOOLEAN,                      \* there is a token that verifies
     body : {"valid", "invalid", "malformed"},   \* for Pydantic, or not even JSON
     writes : BOOLEAN]

Limit == PoolSize + MaxOverflow

ASSUME GatewayAssumption ==
    /\ Calls \subseteq AllCalls
    /\ PoolSize \in Nat \ {0} /\ MaxOverflow \in Nat
    /\ NoRequest \notin Requests /\ NoCall \notin AllCalls

\* An HTTPException has a status of its own; 400 stands for all of them but 404.
Exceptions ==
    {"HTTPException", "NotFound", "RequestValidationError", "IntegrityError", "other"}

Answers ==
    [exception : Exceptions \cup {"none"}, status : {0, 200, 400, 404, 409, 422, 500},
     logged : {0, 200, 400, 404, 409, 422, 500}, cors : BOOLEAN]

VARIABLES
    pc, call,    \* where a request stands and what it asks for
    effect,      \* what became of its write
    held,        \* sessions with a connection
    broken,      \* those whose connection the database has dropped
    live, stale, \* connections in the pool: usable, and to be replaced
    opened,      \* the pool's own count of all its connections
    lock,        \* who has written the contended row
    up,          \* the database accepts connections
    outage,      \* history: it was down, or went down, since the request arrived
    sent         \* what the last step answered, with the status that was logged

pool == <<held, broken, live, stale, opened>>
vars == <<pc, call, effect, pool, lock, up, outage, sent>>

Unanswered == [exception |-> "none", status |-> 0, logged |-> 0, cors |-> FALSE]

Init ==
    /\ pc = [r \in Requests |-> "idle"]
    /\ call = [r \in Requests |-> NoCall]
    /\ effect = [r \in Requests |-> "none"]
    /\ held = {} /\ broken = {}
    /\ live = 0 /\ stale = 0 /\ opened = 0
    /\ lock = NoRequest
    /\ up = TRUE
    /\ outage = [r \in Requests |-> FALSE]
    /\ sent = Unanswered

-----------------------------------------------------------------------------
(***************************************************************************)
(* From an exception to an answer.                                         *)
(***************************************************************************)

\* add_middleware in the order of create_app.
Added == <<"CORS", "Logging">>

\* The handlers of ExceptionMiddleware: FastAPI's own for an HTTPException, and
\* those of register_exception_handlers.
HandledStatus(e) ==
    CASE e = "HTTPException" -> 400
      [] e = "NotFound" -> 404
      [] e = "RequestValidationError" -> 422
      [] e = "IntegrityError" -> 409

\* What leaves a layer, given what comes to it from within.
Through(layer, x) ==
    CASE layer = "Exception" /\ x.exception \notin {"none", "other"} ->
             [x EXCEPT !.exception = "none", !.status = HandledStatus(x.exception)]
      [] layer = "CORS" /\ x.exception = "none" -> [x EXCEPT !.cors = TRUE]
      [] layer = "Logging" ->
             [x EXCEPT !.logged = IF x.exception = "none" THEN x.status ELSE 500]
      [] layer = "ServerError" /\ x.exception # "none" -> [x EXCEPT !.status = 500]
      [] OTHER -> x

\* Starlette puts each added layer outside of the one before, all of them inside
\* ServerErrorMiddleware, and ExceptionMiddleware inside of all.
Stack(x) ==
    Through("ServerError", Through(Added[2], Through(Added[1], Through("Exception", x))))

\* The answer of an endpoint that returned, and that to each exception.
Outcome ==
    [e \in Exceptions \cup {"none"} |->
        Stack([Unanswered EXCEPT !.exception = e, !.status = IF e = "none" THEN 200 ELSE 0])]

-----------------------------------------------------------------------------
(***************************************************************************)
(* The pool.                                                               *)
(***************************************************************************)

\* Mutation: Depends(get_db, use_cache=False).
OwnSession(r, dependent) == <<r, dependent>>

\* FastAPI caches get_db within a request: get_current_user and the endpoint that
\* depends on it are given the same session.
SessionOf(r, dependent) == <<r, "get_db">>

Sessions == Requests \X {"get_db", "caller", "endpoint"}

SessionsOf(r) == {s \in held : s[1] = r}

Exhausted == live + stale = 0 /\ opened = Limit

\* Mutation: pool_pre_ping=False.
NoPrePing(s) == broken \cup {s}

\* A connection that does not answer is replaced before it is handed out.
PrePing(s) == broken \ {s}

Take(s) ==
    /\ held' = held \cup {s}
    /\ \/ /\ live > 0
          /\ live' = live - 1
          /\ UNCHANGED <<stale, opened, broken>>
       \/ /\ stale > 0
          /\ stale' = stale - 1
          /\ broken' = PrePing(s)
          /\ UNCHANGED <<live, opened>>
       \/ /\ live + stale = 0 /\ opened < Limit
          /\ opened' = opened + 1
          /\ UNCHANGED <<live, stale, broken>>

\* Mutation: connections beyond PoolSize are kept.
KeptAll(n) == n

\* Of n connections, how many the queue has room for; the others are closed.
Kept(n) == IF n <= PoolSize - live - stale THEN n ELSE PoolSize - live - stale

GiveBack(S) ==
    LET n == Cardinality(S)
        dead == Cardinality(S \cap broken)
        kept == Kept(n)
    IN /\ held' = held \ S
       /\ broken' = broken \ S
       /\ stale' = stale + IF dead > 0 THEN kept ELSE 0
       /\ live' = live + IF dead > 0 THEN 0 ELSE kept
       /\ opened' = opened - (n - kept)

-----------------------------------------------------------------------------
(***************************************************************************)
(* The life of a request.                                                  *)
(***************************************************************************)

Goto(r, stage) == pc' = [pc EXCEPT ![r] = stage]

\* Nothing is answered.
Silent == sent' = Unanswered

Unlocked(r) == IF lock = r THEN NoRequest ELSE lock

Finish(r, e) ==
    /\ Goto(r, "idle")
    /\ sent' = Outcome[e]
    /\ call' = [call EXCEPT ![r] = NoCall]
    /\ effect' = [effect EXCEPT ![r] = "none"]
    /\ outage' = [outage EXCEPT ![r] = FALSE]

\* The session is rolled back and closed, and the exception walks up the stack.
Raise(r, e) ==
    /\ Finish(r, e)
    /\ GiveBack(SessionsOf(r))
    /\ lock' = Unlocked(r)
    /\ UNCHANGED up

\* The dependency selects the caller.
Authenticates(c) == c.auth # "public" /\ c.credentials

\* What is wrong with a call before any statement: the body is parsed first, then
\* dependencies run, then the rest of the call is validated.
Objections(c) ==
    CASE c.route = "unknown" -> {"NotFound", "HTTPException"}
      [] c.route = "health" -> {}
      [] c.body = "malformed" -> {"RequestValidationError"}
      [] c.auth = "required" /\ ~ c.credentials -> {"HTTPException"}
      [] ~ Authenticates(c) /\ c.body = "invalid" -> {"RequestValidationError"}
      [] OTHER -> {}

\* Neither health nor the root asks for a session.
Receive(r, c) ==
    /\ pc[r] = "idle"
    /\ \/ \E e \in Objections(c) : Raise(r, e)
       \/ /\ c.route = "health"
          /\ Finish(r, "none")
          /\ UNCHANGED <<pool, lock, up>>
       \/ /\ c.route = "api" /\ Objections(c) = {}
          /\ Goto(r, IF Authenticates(c) THEN "caller" ELSE "endpoint")
          /\ call' = [call EXCEPT ![r] = c]
          /\ outage' = [outage EXCEPT ![r] = ~ up]
          /\ Silent
          /\ UNCHANGED <<effect, pool, lock, up>>

Session(r) == SessionOf(r, pc[r])

WantsConnection(r) == pc[r] \in {"caller", "endpoint"} /\ Session(r) \notin held

\* The first statement of a session.  It cannot connect while the database is down.
Checkout(r) ==
    /\ WantsConnection(r) /\ ~ Exhausted
    /\ \/ /\ up
          /\ Take(Session(r)) /\ Silent
          /\ UNCHANGED <<pc, call, effect, lock, up, outage>>
       \/ ~ up /\ Raise(r, "other")

\* After pool_timeout, 30 seconds by default.
PoolTimeout(r) == WantsConnection(r) /\ Exhausted /\ Raise(r, "other")

Statement(r, stage) == pc[r] = stage /\ Session(r) \in held

\* get_current_user and its kin.  get_db commits also when the call is found
\* invalid after them, and the error is raised then.
GetCurrentUser(r) ==
    /\ Statement(r, "caller")
    /\ \/ Session(r) \in broken /\ Raise(r, "other")
       \/ /\ Session(r) \notin broken
          /\ \/ call[r].auth = "required" /\ Raise(r, "HTTPException")
             \/ /\ Goto(r, IF call[r].body = "invalid" THEN "commit" ELSE "endpoint")
                /\ Silent
                /\ UNCHANGED <<call, effect, pool, lock, up, outage>>

\* A write waits for whoever has written the row, with its connection in hand.
Endpoint(r) ==
    /\ Statement(r, "endpoint")
    /\ \/ Session(r) \in broken /\ Raise(r, "other")
       \/ /\ Session(r) \notin broken
          /\ \E e \in Exceptions \ {"RequestValidationError"} : Raise(r, e)
       \/ /\ Session(r) \notin broken
          /\ Goto(r, "commit")
          /\ \/ ~ call[r].writes /\ UNCHANGED <<lock, effect>>
             \/ /\ call[r].writes /\ lock = NoRequest
                /\ lock' = r
                /\ effect' = [effect EXCEPT ![r] = "made"]
          /\ Silent
          /\ UNCHANGED <<call, pool, up, outage>>

\* get_db goes on behind its yield.
Commit(r) ==
    /\ pc[r] = "commit"
    /\ \/ SessionsOf(r) \cap broken # {} /\ Raise(r, "other")
       \/ /\ SessionsOf(r) \cap broken = {}
          /\ GiveBack(SessionsOf(r))
          /\ lock' = Unlocked(r)
          /\ \/ /\ call[r].body = "invalid"
                /\ Finish(r, "RequestValidationError")
             \/ /\ call[r].body # "invalid"
                /\ Goto(r, "respond") /\ Silent
                /\ effect' = [effect EXCEPT ![r] = IF @ = "made" THEN "kept" ELSE @]
                /\ UNCHANGED <<call, outage>>
          /\ UNCHANGED up

Respond(r) ==
    /\ pc[r] = "respond"
    /\ Finish(r, "none")
    /\ UNCHANGED <<pool, lock, up>>

-----------------------------------------------------------------------------
(***************************************************************************)
(* The database.                                                           *)
(***************************************************************************)

\* Commits that are on their way (done) may have taken place.
DatabaseFails(done) ==
    /\ up /\ up' = FALSE
    /\ broken' = held
    /\ live' = 0 /\ stale' = live + stale
    /\ lock' = NoRequest
    /\ effect' = [r \in Requests |->
                     IF effect[r] # "made" THEN effect[r]
                     ELSE IF r \in done THEN "kept" ELSE "none"]
    /\ outage' = [r \in Requests |-> pc[r] # "idle"]
    /\ Silent
    /\ UNCHANGED <<pc, call, held, opened>>

DatabaseReturns ==
    /\ ~ up /\ up' = TRUE
    /\ Silent
    /\ UNCHANGED <<pc, call, effect, pool, lock, outage>>

Step(r) ==
    \/ Checkout(r) \/ GetCurrentUser(r) \/ Endpoint(r) \/ Commit(r) \/ Respond(r)

Next ==
    \/ \E r \in Requests : Step(r) \/ PoolTimeout(r) \/ \E c \in Calls : Receive(r, c)
    \/ \E done \in SUBSET {r \in Requests : pc[r] = "commit"} : DatabaseFails(done)
    \/ DatabaseReturns

Spec == Init /\ [][Next]_vars

\* Those who wait for a connection or a lock are served in turn.
FairSpec == Spec /\ \A r \in Requests : SF_vars(Step(r))

-----------------------------------------------------------------------------
(***************************************************************************)
(* Properties.                                                             *)
(***************************************************************************)

TypeOK ==
    /\ pc \in [Requests -> {"idle", "caller", "endpoint", "commit", "respond"}]
    /\ call \in [Requests -> Calls \cup {NoCall}]
    /\ effect \in [Requests -> {"none", "made", "kept"}]
    /\ sent \in Answers
    /\ held \subseteq Sessions /\ broken \subseteq held
    /\ live \in Nat /\ stale \in Nat /\ opened \in Nat
    /\ lock \in Requests \cup {NoRequest}
    /\ up \in BOOLEAN
    /\ outage \in [Requests -> BOOLEAN]

\* No connection is lost, counted twice or kept by a request that was answered, on
\* whatever way it ended: the pool's count is that of the connections there are, at
\* most thirty, of which at most ten are idle; a lock is held with a connection
\* that works, and none works while the database is down (session.py:13-19, 31-39).
PoolInv ==
    /\ TypeOK
    /\ opened = Cardinality(held) + live + stale
    /\ opened <= Limit /\ live + stale <= PoolSize
    /\ \A s \in held : pc[s[1]] \in {"caller", "endpoint", "commit"}
    /\ lock # NoRequest => SessionsOf(lock) # {} /\ SessionsOf(lock) \cap broken = {}
    /\ ~ up => live = 0 /\ broken = held /\ lock = NoRequest

\* A client is told of success only when the write is there for good, and of
\* anything else only when it is not, unless the database failed at the commit.  A
\* 500 has a cause while the request ran: the database failed, the pool was
\* exhausted or the endpoint raised; connections that broke while nobody used them
\* are no cause (session.py:16).  The log has the status that was sent, although
\* the logging layer is outside of one that makes statuses and inside of another
\* (logging.py:16-33); and just the 500s come without CORS headers.
AnswersJustified ==
    [][/\ sent'.logged = sent'.status
       /\ sent' # Unanswered => (sent'.cors <=> sent'.status # 500)
       /\ \A r \in Requests : pc[r] # "idle" /\ pc'[r] = "idle" =>
              /\ sent'.status = 200 /\ call[r].writes => effect[r] = "kept"
              /\ sent'.status # 200 /\ effect[r] = "kept" => outage[r]
              /\ sent'.status = 500 =>
                     \/ outage[r]
                     \/ WantsConnection(r) /\ Exhausted
                     \/ Statement(r, "endpoint")]_vars

\* Every request is answered, without any being given up by a timeout: each needs
\* one connection only, so whoever waits for a lock with a connection in hand waits
\* for somebody who has all he needs (deps.py:18, session.py:17-18).
Served == \A r \in Requests : pc[r] # "idle" ~> pc[r] = "idle"
=============================================================================
