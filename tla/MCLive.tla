------------------------------- MODULE MCLive -------------------------------
(* An instance of Live for TLC: two tabs of one user. *)
EXTENDS Live

CONSTANTS w1, w2
=============================================================================
