------------------------ MODULE MCAttemptLifecycle ------------------------
(* Instances of AttemptLifecycle for TLC. *)
EXTENDS AttemptRefinement, TLC

Symmetry == Permutations(Attempts)
===========================================================================
