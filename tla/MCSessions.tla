----------------------------- MODULE MCSessions -----------------------------
(***************************************************************************)
(* An instance of Sessions for TLC: one account, its owner and a guest.    *)
(***************************************************************************)
EXTENDS Sessions

MCIds == {"ann"}
=============================================================================
