---------------------------- MODULE MCWebClient ----------------------------
(***************************************************************************)
(* An instance of WebClient for TLC: a user and an administrator take      *)
(* turns in one tab.                                                       *)
(***************************************************************************)
EXTENDS WebClient, Integers

MCAccounts == {"ann", "bob"}

MCAdmins == {"bob"}

MCSlots == 1..2
=============================================================================
