--------------------------- MODULE MCPostFirstPass ---------------------------
(* Instances of PostFirstPass for TLC. *)
EXTENDS PostFirstPass

CONSTANTS t1, t2

MCOutcomes ==
  {[norm |-> "queued", patch |-> "text", signals |-> {}],
   [norm |-> "precheck_failed", patch |-> "text", signals |-> {}],
   [norm |-> "no_patch", patch |-> "empty", signals |-> {"delegated"}]}
============================================================================
