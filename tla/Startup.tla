------------------------------ MODULE Startup ------------------------------
(***************************************************************************)
(* Several processes create the tables when they start: the API's workers  *)
(* (main.py, lifespan) and the seed script (scripts/seed.py).              *)
(*                                                                         *)
(* create_tables runs SQLAlchemy's create_all in one transaction, in three *)
(* phases over the classes that the process has imported.  It asks for     *)
(* each table whether it is there; then for the enum types of each class,  *)
(* whether its table was there or not, and creates those that are not;     *)
(* then it creates the tables that were not there.  PostgreSQL makes a     *)
(* CREATE wait for another transaction that has created the same name, and *)
(* refuses it once that one has committed.                                 *)
(***************************************************************************)
EXTENDS Naturals, Sequences, SequencesExt

CONSTANTS
    Workers, Seeds,
    Classes,     \* the mapped classes, in the order of their tables
    Imported,    \* those that the code a process runs imports, in the same order
    References,  \* the classes that a class's relationships name
    MaxCrashes   \* bound: how often a process is killed

Processes == Workers \cup Seeds

ASSUME ImportsAssumption ==
    /\ Workers \cap Seeds = {}
    /\ \A p \in Processes : Imported[p] \in Seq(ToSet(Classes))
    /\ MaxCrashes \in Nat

Mapped(p) == ToSet(Imported[p])

\* What the catalog holds for a class: its enum types, taken together, and its table.
Types(c) == <<"types", c>>

Table(c) == <<"table", c>>

Objects == {"types", "table"} \X ToSet(Classes)

VARIABLES
    catalog,  \* the committed objects
    made,     \* those a process's transaction has created
    pc,       \* where a process stands
    todo,     \* the classes that the phase it is in has yet to treat
    missing,  \* those whose tables were not there when it asked
    before,   \* the catalog when it began
    crashes

process == <<pc, todo, missing, before>>
vars == <<catalog, made, process, crashes>>

TypeOK ==
    /\ catalog \subseteq Objects
    /\ made \in [Processes -> SUBSET Objects]
    /\ pc \in [Processes -> {"down", "inspect", "check", "types", "table", "commit",
                             "started", "serving", "failed", "broken"}]
    /\ {todo, missing} \subseteq [Processes -> Seq(ToSet(Classes))]
    /\ \A p \in Processes : ToSet(todo[p]) \cup ToSet(missing[p]) \subseteq Mapped(p)
    /\ before \in [Processes -> SUBSET Objects]
    /\ crashes \in 0..MaxCrashes

Init ==
    /\ catalog = {}
    /\ made = [p \in Processes |-> {}]
    /\ pc = [p \in Processes |-> "down"]
    /\ todo = [p \in Processes |-> <<>>]
    /\ missing = [p \in Processes |-> <<>>]
    /\ before = [p \in Processes |-> {}]
    /\ crashes = 0

-----------------------------------------------------------------------------
(***************************************************************************)
(* create_tables                                                           *)
(***************************************************************************)

Goto(p, stage) == pc' = [pc EXCEPT ![p] = stage]

\* Mutation: the metadata has the tables of classes that are not imported.
AllTables(p) == Classes

\* Base.metadata.
Tables(p) == Imported[p]

\* A worker's container is started again when it has exited, a script by hand.
Begin(p) ==
    /\ pc[p] \in {"down", "failed", "broken"}
    /\ Goto(p, "inspect")
    /\ todo' = [todo EXCEPT ![p] = Tables(p)]
    /\ missing' = [missing EXCEPT ![p] = <<>>]
    /\ before' = [before EXCEPT ![p] = catalog]
    /\ UNCHANGED <<catalog, made, crashes>>

\* Mutation: checkfirst is False.
AbsentUnchecked(c) == TRUE

Absent(c) == Table(c) \notin catalog

InspectTable(p) ==
    /\ pc[p] = "inspect" /\ todo[p] # <<>>
    /\ todo' = [todo EXCEPT ![p] = Tail(@)]
    /\ missing' = [missing EXCEPT ![p] = IF Absent(Head(todo[p])) THEN Append(@, Head(todo[p]))
                                                                ELSE @]
    /\ UNCHANGED <<catalog, made, pc, before, crashes>>

\* All tables have been asked about, or the types of all classes have.
NextPhase(p) ==
    /\ todo[p] = <<>>
    /\ \/ /\ pc[p] = "inspect"
          /\ todo' = [todo EXCEPT ![p] = Tables(p)]
          /\ Goto(p, "check")
       \/ /\ pc[p] = "check"
          /\ todo' = [todo EXCEPT ![p] = missing[p]]
          /\ Goto(p, IF missing[p] = <<>> THEN "commit" ELSE "table")
    /\ UNCHANGED <<catalog, made, missing, before, crashes>>

\* The before_create event of the metadata.
CheckTypes(p) ==
    /\ pc[p] = "check" /\ todo[p] # <<>>
    /\ \/ /\ Types(Head(todo[p])) \in catalog
          /\ todo' = [todo EXCEPT ![p] = Tail(@)]
          /\ UNCHANGED pc
       \/ /\ Types(Head(todo[p])) \notin catalog
          /\ Goto(p, "types")
          /\ UNCHANGED todo
    /\ UNCHANGED <<catalog, made, missing, before, crashes>>

\* No other transaction has created o, for p to wait for.
Unheld(p, o) == \A q \in Processes \ {p} : o \notin made[q]

\* Mutation: DDL is committed statement by statement.
MakeAtOnce(p, o) ==
    /\ Unheld(p, o) /\ o \notin catalog
    /\ catalog' = catalog \cup {o}
    /\ UNCHANGED made

Make(p, o) ==
    /\ Unheld(p, o) /\ o \notin catalog
    /\ made' = [made EXCEPT ![p] = @ \cup {o}]
    /\ UNCHANGED catalog

CreateTypes(p) ==
    /\ pc[p] = "types"
    /\ Make(p, Types(Head(todo[p])))
    /\ todo' = [todo EXCEPT ![p] = Tail(@)]
    /\ Goto(p, "check")
    /\ UNCHANGED <<missing, before, crashes>>

CreateTable(p) ==
    /\ pc[p] = "table"
    /\ Make(p, Table(Head(todo[p])))
    /\ todo' = [todo EXCEPT ![p] = Tail(@)]
    /\ Goto(p, IF Tail(todo[p]) = <<>> THEN "commit" ELSE "table")
    /\ UNCHANGED <<missing, before, crashes>>

CommitTables(p) ==
    /\ pc[p] = "commit"
    /\ catalog' = catalog \cup made[p]
    /\ made' = [made EXCEPT ![p] = {}]
    /\ Goto(p, "started")
    /\ UNCHANGED <<todo, missing, before, crashes>>

\* Mutation: the transaction stays open.
RollbackLeaking(p) == UNCHANGED made

Rollback(p) == made' = [made EXCEPT ![p] = {}]

\* Mutation: lifespan logs the exception and does not raise it again.
FailServing(p) == Goto(p, "started")

\* lifespan raises, so does seed: the process ends.
Fail(p) == Goto(p, "failed")

\* The name has been committed since it was found to be free.
CreateRefused(p) ==
    /\ \/ pc[p] = "types" /\ Types(Head(todo[p])) \in catalog
       \/ pc[p] = "table" /\ Table(Head(todo[p])) \in catalog
    /\ Rollback(p)
    /\ Fail(p)
    /\ UNCHANGED <<catalog, todo, missing, before, crashes>>

-----------------------------------------------------------------------------
(***************************************************************************)
(* After it.                                                               *)
(***************************************************************************)

\* SQLAlchemy resolves the relationships of all imported classes by name.
Configurable(p) == \A c \in Mapped(p) : References[c] \subseteq Mapped(p)

\* The first query of a mapped class, by a worker's first request or by seed.  In
\* seed it is also the last: user.py names Task, which nothing that seed.py imports
\* defines; so what follows in seed is never reached, and is not modelled.
FirstQuery(p) ==
    /\ pc[p] = "started"
    /\ \/ Configurable(p) /\ Goto(p, "serving")
       \/ ~ Configurable(p) /\ Goto(p, "broken")
    /\ UNCHANGED <<catalog, made, todo, missing, before, crashes>>

Crash(p) ==
    /\ pc[p] \notin {"down", "failed", "broken"} /\ crashes < MaxCrashes
    /\ crashes' = crashes + 1
    /\ Rollback(p)
    /\ Goto(p, "down")
    /\ UNCHANGED <<catalog, todo, missing, before>>

-----------------------------------------------------------------------------

Step(p) ==
    \/ InspectTable(p) \/ NextPhase(p) \/ CheckTypes(p) \/ CreateTypes(p)
    \/ CreateTable(p) \/ CommitTables(p) \/ CreateRefused(p) \/ FirstQuery(p)

Next == \E p \in Processes : Begin(p) \/ Step(p) \/ Crash(p)

Spec == Init /\ [][Next]_vars

\* The containers have restart: unless-stopped; nobody has to run the script.
FairSpec ==
    /\ Spec
    /\ \A p \in Processes : WF_vars(Step(p))
    /\ \A w \in Workers : WF_vars(Begin(w))

-----------------------------------------------------------------------------
(***************************************************************************)
(* Properties.                                                             *)
(***************************************************************************)

\* The catalog never shows part of what a process creates: a class has both its
\* types and its table or neither, so no later start finds one without the other
\* (session.py:42-44).
WholeClasses == \A c \in ToSet(Classes) : Types(c) \in catalog <=> Table(c) \in catalog

\* A worker that takes requests has all of its tables, also when it lost the race
\* for them and when the seed script made only some (main.py:32-37).
ServesWithTables ==
    \A w \in Workers : pc[w] \in {"started", "serving"} =>
        \A c \in Mapped(w) : Table(c) \in catalog

\* A start fails only if another process has created something since it began.
FailsOnlyInRaces ==
    [][\A p \in Processes : pc[p] # "failed" /\ pc'[p] = "failed" => catalog # before[p]]_vars

\* Every worker serves in the end, whoever else starts, fails or is killed.
WorkersServe == \A w \in Workers : pc[w] # "serving" ~> pc[w] = "serving"

\* Any number of workers can be started together (README.md:377).
WorkersStartTogether == \A w \in Workers : pc[w] # "failed"

\* The seed script gets to look for the administrator (scripts/seed.py:2, 23).
SeedCanQuery == \A s \in Seeds : pc[s] # "broken"
=============================================================================
