--------------------------- MODULE AttemptClasses ---------------------------
(***************************************************************************)
(* What the tools that run after a first pass read off the files of one    *)
(* attempt: its class (controller/post_first_pass.py), whether it gets a   *)
(* continuation, and whether a bundle takes its patch or why not           *)
(* (controller/eval_bundle.py).  The files of an attempt are abstracted to *)
(*   dir      its directory exists                                         *)
(*   norm     normalized.json: "missing", "unreadable", or the outcome it  *)
(*            records, "none" for neither of the three                     *)
(*   patch    patch.diff: "missing", "empty", "blank" (white space only)   *)
(*            or "text"                                                    *)
(*   done     the DONE marker exists                                       *)
(*   signals  what logs, events and subprocess record give away            *)
(***************************************************************************)

Signal == {"timeout", "infra", "no_fix", "length", "malformed", "delegated",
           "midstream"}

Facts ==
  [dir : BOOLEAN,
   norm : {"missing", "unreadable", "queued", "precheck_failed", "no_patch", "none"},
   patch : {"missing", "empty", "blank", "text"},
   done : BOOLEAN,
   signals : SUBSET Signal]

AttemptClass ==
  {"clean_patch", "stopped_no_patch", "malformed_tool_prose_no_patch",
   "delegated_or_midstream_no_patch", "output_length_no_patch",
   "explicit_no_fix", "precheck_failed", "timeout",
   "subprocess_provider_infra_failure", "incomplete", "unknown"}

ContinuationEligible ==
  {"stopped_no_patch", "malformed_tool_prose_no_patch",
   "delegated_or_midstream_no_patch", "output_length_no_patch"}

\* classify_attempt for a finished attempt without a patch.
NoPatchClass(signals) ==
  IF "no_fix" \in signals THEN "explicit_no_fix"
  ELSE IF "length" \in signals THEN "output_length_no_patch"
  ELSE IF "malformed" \in signals THEN "malformed_tool_prose_no_patch"
  ELSE IF signals \cap {"delegated", "midstream"} # {}
       THEN "delegated_or_midstream_no_patch"
  ELSE "stopped_no_patch"

\* Mutant of Class: the patch file is not looked at.
ClassUnread(f) ==
  IF ~f.dir THEN "incomplete"
  ELSE IF f.norm = "queued" THEN "clean_patch"
  ELSE IF "timeout" \in f.signals THEN "timeout"
  ELSE IF "infra" \in f.signals THEN "subprocess_provider_infra_failure"
  ELSE IF f.norm = "missing" \/ ~f.done THEN "incomplete"
  ELSE IF f.norm = "precheck_failed" THEN "precheck_failed"
  ELSE IF f.norm = "no_patch" \/ f.patch # "text" THEN NoPatchClass(f.signals)
  ELSE "unknown"

\* classify_attempt.  For clean_patch the patch counts by its size, so a blank
\* one does; an unreadable normalized.json reads as an empty one.
Class(f) ==
  IF ~f.dir THEN "incomplete"
  ELSE IF f.norm = "queued" /\ f.patch \in {"blank", "text"} THEN "clean_patch"
  ELSE IF "timeout" \in f.signals THEN "timeout"
  ELSE IF "infra" \in f.signals THEN "subprocess_provider_infra_failure"
  ELSE IF f.norm = "missing" \/ ~f.done THEN "incomplete"
  ELSE IF f.norm = "precheck_failed" THEN "precheck_failed"
  ELSE IF f.norm = "no_patch" \/ f.patch # "text" THEN NoPatchClass(f.signals)
  ELSE "unknown"

Eligible(f) == Class(f) \in ContinuationEligible

-----------------------------------------------------------------------------

ExclusionReason ==
  {"precheck_failed", "no_patch", "attempt_incomplete", "attempt_missing",
   "artifact_inconsistent"}

\* Mutant of Decide: a missing patch file has a reason of its own.
DecideUnlisted(f) ==
  IF ~f.dir THEN "attempt_missing"
  ELSE IF f.norm \in {"missing", "unreadable"} THEN "attempt_incomplete"
  ELSE IF f.norm = "queued"
       THEN (IF f.patch = "text" THEN "included" ELSE "patch_missing")
  ELSE IF f.norm \in {"precheck_failed", "no_patch"} THEN f.norm
  ELSE "attempt_incomplete"

\* decide_attempt: "included" or the reason why not.
Decide(f) ==
  IF ~f.dir THEN "attempt_missing"
  ELSE IF f.norm \in {"missing", "unreadable"} THEN "attempt_incomplete"
  ELSE IF f.norm = "queued"
       THEN (IF f.patch = "text" THEN "included" ELSE "artifact_inconsistent")
  ELSE IF f.norm \in {"precheck_failed", "no_patch"} THEN f.norm
  ELSE "attempt_incomplete"

\* _final_exclusion_reason: the continuation's reason goes first.
FinalReason(cont, first, class) ==
  IF Decide(cont) \in ExclusionReason THEN Decide(cont)
  ELSE IF Decide(first) \in ExclusionReason THEN Decide(first)
  ELSE IF class = "precheck_failed" THEN "precheck_failed"
  ELSE IF class = "incomplete" THEN "attempt_incomplete"
  ELSE "no_patch"

\* Mutant of FinalDecision: the classification is not asked.
FinalDecisionUnasked(cont, first, class, allowed) ==
  IF Decide(cont) = "included" THEN "continuation"
  ELSE IF Decide(first) = "included" THEN "first_pass"
  ELSE FinalReason(cont, first, class)

\* prepare_post_continuation_eval_bundle for one task: "continuation",
\* "first_pass" or the reason.  allowed: the classification at hand says that
\* the task is eligible, or there is none.
FinalDecision(cont, first, class, allowed) ==
  IF allowed /\ Decide(cont) = "included" THEN "continuation"
  ELSE IF Decide(first) = "included" THEN "first_pass"
  ELSE FinalReason(cont, first, class)

Sources == {"continuation", "first_pass"}
============================================================================
