-------------------------- MODULE AttemptRefinement --------------------------
(***************************************************************************)
(* The run loop of AttemptLifecycle implements AttemptOutcome: what its    *)
(* files say at any moment, also between two writes and after a kill, is a *)
(* state of the promise, and every step keeps to it.                       *)
(***************************************************************************)
EXTENDS AttemptLifecycle

\* A clear under way, or cut short and not done again, voids the promise.
StatusOf(a) ==
  IF ~Settled(a) THEN "withdrawn"
  ELSE IF "DONE" \in files[a] THEN "published" ELSE "open"

Backed(a) == StatusOf(a) = "published" /\ "RSYNC_DONE" \in files[a]

\* The execution that contents stem from; those of a mixture count as none.
OneOf(present, v) ==
  IF Artifact \subseteq present /\ \A c \in Content : v[c] = v["events"]
    THEN v["events"] ELSE 0

Status == [a \in Attempts |-> StatusOf(a)]

Result ==
  [a \in Attempts |->
     IF StatusOf(a) = "published" THEN OneOf(files[a], ver[a]) ELSE 0]

Archived ==
  [a \in Attempts |-> IF Backed(a) THEN OneOf(backup[a], bver[a]) ELSE 0]

KeptTrees == {a \in Attempts : worktree[a] \in {"fresh", "used"}}

Promise ==
  INSTANCE AttemptOutcome
  WITH status <- Status, executions <- runs, result <- Result,
       archived <- Archived, kept <- KeptTrees, granted <- force

\* The detailed run loop keeps the promise of AttemptOutcome (run_attempts and
\* everything it calls).
KeepsPromise == Promise!OutcomeSpec

=============================================================================
