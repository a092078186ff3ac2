----------------------------- MODULE MCStartup -----------------------------
(***************************************************************************)
(* Instances of Startup for TLC.  main.py imports both classes by way of   *)
(* the router, seed.py only User by way of user_service.                   *)
(***************************************************************************)
EXTENDS Startup

MCClasses == <<"User", "Task">>

MCImported == [p \in Processes |-> IF p \in Workers THEN MCClasses ELSE <<"User">>]

MCReferences == [User |-> {"Task"}, Task |-> {"User"}]
=============================================================================
