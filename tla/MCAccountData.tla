----------------------------- MODULE MCAccountData -----------------------------
(* An instance of AccountData for TLC. *)
EXTENDS AccountData

CONSTANTS r1, r2, first
=============================================================================
