----------------------------- MODULE MCL3Queue -----------------------------
(* An instance of L3Queue for TLC. *)
EXTENDS L3Queue, TLC

CONSTANTS k1, k2

\* k1 is set and deleted, k2 only set.
KindsTried == (k1 :> {"set", "delete"}) @@ (k2 :> {"set"})
=============================================================================
