---------------------------- MODULE BackupRestore ----------------------------
(***************************************************************************)
(* The run loop on a pod that can be reclaimed: the container disk is lost *)
(* with the driver, the latest backup is copied to a new pod and becomes   *)
(* its run root (the Mac backup drill of scripts/dry_run_gate.py).         *)
(***************************************************************************)
EXTENDS AttemptLifecycle

CONSTANT MaxRestores     \* bound on reclaimed pods

ASSUME RestoreAssumption == MaxRestores \in Nat

VARIABLES
  restores,
  torn   \* attempts whose latest mirror was cut, or copied a broken attempt

rvars == <<vars, restores, torn>>

RestoreTypeOK == TypeOK /\ restores \in Nat /\ torn \subseteq Attempts

RestoreInit == Init /\ restores = 0 /\ torn = {}

\* A copy is torn from its first file until RSYNC_DONE is written for it.
Tearing ==
  torn' = IF pc = "copy" /\ pc' = "copy" THEN torn \cup {cur}
          ELSE IF pc = "copy" /\ copying = {} /\ pc' # "off"
            THEN torn \ ({cur} \ interrupted)
            ELSE torn

\* What the copy of the snapshot leaves on the new pod.  The repo cache, its
\* leases and the worktrees are on no backup list, summary.json is written
\* anew at the end of the next run.
Reclaim ==
  /\ restores < MaxRestores
  /\ restores' = restores + 1
  /\ files' = backup
  /\ ver' = [a \in Attempts |->
               [c \in Content |-> IF c \in backup[a] THEN bver[a][c] ELSE 0]]
  /\ worktree' = [a \in Attempts |-> "absent"]
  /\ registered' = {} /\ repoLease' = {} /\ leased' = {}
  /\ summary' = [a \in Attempts |-> 0]
  /\ interrupted' = torn
  /\ ProcessExit
  /\ UNCHANGED <<saved, runs, crashes, failures, forced, cached, torn>>

RestoreNext ==
  \/ Next /\ Tearing /\ UNCHANGED restores
  \/ Reclaim

RestoreSpec == RestoreInit /\ [][RestoreNext]_rvars

-----------------------------------------------------------------------------

\* The contents stem from one execution of the agent.
OneExecution(v) == v["events"] > 0 /\ \A c \in Content : v[c] = v["events"]

\* A snapshot holds an attempt as a whole or not at all: either it was never
\* mirrored, or its markers and artifacts are those of one execution
\* (backup_paths, mirror; only a mirror cut short is excepted).
SnapshotIsWhole ==
  \A a \in Attempts \ torn :
    \/ backup[a] = {}
    \/ /\ PhaseMarker \cup Artifact \subseteq backup[a]
       /\ OneExecution(bver[a])

\* On whatever pod, after whatever restores: a DONE attempt has its artifacts,
\* and they belong together, so that resuming from a snapshot never mixes two
\* executions (clear_for_rerun, _mirror_attempt, next_phase).
RestoredIsWhole ==
  \A a \in Attempts :
    Settled(a) /\ "DONE" \in files[a] =>
      /\ PhaseMarker \cup Artifact \subseteq files[a]
      /\ OneExecution(ver[a])

\* RSYNC_DONE is a promise: losing the pod does not cost that result.
SavedSurvives ==
  [][\A a \in Attempts :
       Reclaim /\ Settled(a) /\ "RSYNC_DONE" \in files[a] =>
         /\ Artifact \cup {"DONE"} \subseteq files'[a]
         /\ ver'[a] = ver[a]]_rvars
=============================================================================
