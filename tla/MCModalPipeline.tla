-------------------------- MODULE MCModalPipeline --------------------------
(* Instances of ModalPipeline for TLC. *)
EXTENDS ModalPipeline, TLC

CONSTANTS a1, a2

Permutation == Permutations(Attempts)
============================================================================
