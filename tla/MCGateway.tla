------------------------------ MODULE MCGateway ------------------------------
(***************************************************************************)
(* An instance of Gateway for TLC: a pool of one connection and one more.  *)
(***************************************************************************)
EXTENDS Gateway

Api(auth, credentials, body, writes) ==
    [route |-> "api", auth |-> auth, credentials |-> credentials, body |-> body,
     writes |-> writes]

Open(route) == [Api("public", FALSE, "valid", FALSE) EXCEPT !.route = route]

\* Every way to be turned down before a statement, and writes and a read with and
\* without a caller.
MCCalls ==
    {Open("unknown"), Open("health"),
     Api("required", TRUE, "malformed", TRUE), Api("required", FALSE, "invalid", TRUE),
     Api("public", FALSE, "invalid", TRUE),
     Api("required", TRUE, "invalid", TRUE), Api("required", TRUE, "valid", TRUE),
     Api("optional", FALSE, "valid", FALSE)}
=============================================================================
