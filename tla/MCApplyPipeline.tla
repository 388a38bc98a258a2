-------------------------- MODULE MCApplyPipeline --------------------------
(* Instances of ApplyPipeline for TLC. *)
EXTENDS ApplyPipeline, TLC

CONSTANTS a1, a2, c1, c2, j1

OneJob == [a \in Apps |-> j1]

Sym == Permutations(Clients)

(* Everything but the history, which no action and no property of            *)
(* PipelineRows reads.                                                       *)
Present == <<status, requests, queue, stage, copy>>
=============================================================================
