------------------------------ MODULE MCHarness ------------------------------
(* Instances of Harness for TLC. *)
EXTENDS Harness

CONSTANTS r1, r2, c1, c2, pii

(* One skill that two bad verdicts would retire. *)
KnownSkills == <<[content |-> c1, score |-> -1]>>
=============================================================================
