--------------------------- MODULE MCAuthSessions ---------------------------
(* Instances of AuthSessions for TLC. *)
EXTENDS AuthSessions

CONSTANTS t1, t2, t3, l1, l2, r1, r2
=============================================================================
