-------------------------- MODULE AttemptLifecycle --------------------------
(***************************************************************************)
(* The run loop of controller/core.py: one driver process walks a list of  *)
(* attempts through SETUP, RUN, CAPTURE and DONE, records every phase as a *)
(* marker file, mirrors finished attempts to the backup target and deletes *)
(* worktrees when the disk is nearly full.  The process may be killed      *)
(* between any two durable writes and be started again on the same run     *)
(* root, with or without --force-rerun.                                    *)
(*                                                                         *)
(* One step is one durable effect (a rename, an unlink, a directory made   *)
(* or removed): atomic_write_bytes makes a file appear all at once, and    *)
(* everything the driver holds in memory is lost when it dies.             *)
(***************************************************************************)
EXTENDS Naturals, FiniteSets

CONSTANTS
  Attempts,      \* attempt ids of the run root
  None,          \* no attempt in hand
  Boundary,      \* a boundary proof is written for each attempt
  MaxCrashes,    \* bound on kills of the driver
  MaxFailures,   \* bound on exceptions raised by the environment
  MaxForced      \* bound on invocations with --force-rerun

ASSUME LifecycleAssumption ==
  /\ None \notin Attempts
  /\ Boundary \in BOOLEAN
  /\ MaxCrashes \in Nat /\ MaxFailures \in Nat /\ MaxForced \in Nat

-----------------------------------------------------------------------------
(* Files of an attempt directory.                                          *)

PhaseMarker == {"SETUP_DONE", "RUN_DONE", "CAPTURE_DONE", "DONE"}
Artifact    == {"patch", "normalized", "log", "events"}
Content     == {"patch", "normalized", "events"}
File        == PhaseMarker \cup Artifact
                 \cup {"proof", "RSYNC_DONE", "WORKTREE_CLEANED"}

\* The order in which clear_for_rerun unlinks: artifacts first, then markers.
ClearRank ==
  [patch |-> 1, normalized |-> 2, log |-> 3, events |-> 4, proof |-> 5,
   SETUP_DONE |-> 6, RUN_DONE |-> 7, CAPTURE_DONE |-> 8, DONE |-> 9,
   RSYNC_DONE |-> 10, WORKTREE_CLEANED |-> 11]

\* backup_paths is sorted by name, so capitalised markers are copied first.
CopyRank ==
  [CAPTURE_DONE |-> 1, DONE |-> 2, RSYNC_DONE |-> 3, RUN_DONE |-> 4,
   SETUP_DONE |-> 5, WORKTREE_CLEANED |-> 6, proof |-> 7, normalized |-> 8,
   events |-> 9, patch |-> 10, log |-> 11]

FirstBy(rank, S, f) == f \in S /\ \A g \in S : rank[f] <= rank[g]

\* The first phase whose marker is missing; "none" when all are present.
NextPhase(fs) ==
  IF "SETUP_DONE" \notin fs THEN "SETUP"
  ELSE IF "RUN_DONE" \notin fs THEN "RUN"
  ELSE IF "CAPTURE_DONE" \notin fs THEN "CAPTURE"
  ELSE IF "DONE" \notin fs THEN "DONE" ELSE "none"

VARIABLES
  files,         \* files[a]: names present in the attempt directory
  ver,           \* ver[a][c]: which agent execution the content stems from
  worktree,      \* "absent", "fresh", "used" (the agent ran in it), "torn"
  registered,    \* attempts whose worktree path git has on record
  repoLease,     \* attempts with a lease file in the repo cache
  leased,        \* attempts with a lease.json
  runs,          \* runs[a]: agent executions so far
  backup,        \* names present in the attempt's backup directory
  bver,          \* the executions the backed up contents stem from
  summary        \* summary.json: the execution counted for each attempt

\* What the driver process holds in memory.
VARIABLES pc, cur, ids, todo, force, copying, stage, scan

\* Counters behind the bounds, the attempts whose clear was cut short, and those
\* whose worktree comes from git: the others get a fixture (_setup).
VARIABLES crashes, failures, forced, interrupted, cached

trees   == <<worktree, registered, repoLease>>
disk    == <<files, ver, trees, leased>>
saved   == <<backup, bver>>
outcome == <<saved, runs, summary>>
memory  == <<cur, ids, todo, force, copying, stage, scan>>
counts  == <<crashes, failures, forced, interrupted, cached>>
vars    == <<disk, outcome, pc, memory, counts>>

Label ==
  {"off", "pick", "clear", "cleartree", "check", "recover", "acquire",
   "dispatch", "checkout", "setupmark", "running", "runmark", "capturing",
   "capturemark", "mirror", "copy", "proof", "release", "unlock", "sweep",
   "deleting", "cleanmark", "finalscan", "runmirror"}

\* Between attempts the driver has none in hand (or the last one mirrored).
Between == {"off", "pick", "sweep", "finalscan", "runmirror"}

TypeOK ==
  /\ files \in [Attempts -> SUBSET File]
  /\ ver \in [Attempts -> [Content -> Nat]]
  /\ worktree \in [Attempts -> {"absent", "fresh", "used", "torn"}]
  /\ registered \subseteq Attempts /\ repoLease \subseteq Attempts
  /\ leased \subseteq Attempts
  /\ runs \in [Attempts -> Nat]
  /\ backup \in [Attempts -> SUBSET File]
  /\ bver \in [Attempts -> [Content -> Nat]]
  /\ summary \in [Attempts -> Nat]
  /\ pc \in Label
  /\ cur \in Attempts \cup {None}
  /\ pc \notin Between => cur \in Attempts
  /\ ids \subseteq Attempts /\ todo \subseteq Attempts
  /\ force \subseteq Attempts /\ scan \subseteq Attempts
  /\ copying \subseteq File
  /\ stage \in {"first", "second", "final"}
  /\ crashes \in Nat /\ failures \in Nat /\ forced \in Nat
  /\ interrupted \subseteq Attempts /\ cached \subseteq Attempts

NoContent == [c \in Content |-> 0]

Init ==
  /\ files = [a \in Attempts |-> {}]
  /\ ver = [a \in Attempts |-> NoContent]
  /\ worktree = [a \in Attempts |-> "absent"]
  /\ registered = {} /\ repoLease = {} /\ leased = {}
  /\ runs = [a \in Attempts |-> 0]
  /\ backup = [a \in Attempts |-> {}]
  /\ bver = [a \in Attempts |-> NoContent]
  /\ summary = [a \in Attempts |-> 0]
  /\ pc = "off" /\ cur = None /\ ids = {} /\ todo = {} /\ force = {}
  /\ copying = {} /\ stage = "first" /\ scan = {}
  /\ crashes = 0 /\ failures = 0 /\ forced = 0 /\ interrupted = {}
  /\ cached \in SUBSET Attempts

Goto(l) == pc' = l

Create(a, fs) == files' = [files EXCEPT ![a] = @ \cup fs]

Stay == UNCHANGED <<disk, outcome>>

\* A step that only adds files to the attempt in hand.
Mark(fs, l) ==
  /\ Create(cur, fs)
  /\ Goto(l)
  /\ UNCHANGED <<ver, trees, leased, outcome, memory, counts>>

\* The process is gone, by return, by exception or by a kill.
ProcessExit ==
  /\ pc' = "off" /\ cur' = None /\ ids' = {} /\ todo' = {} /\ force' = {}
  /\ copying' = {} /\ stage' = "first" /\ scan' = {}

\* An exception escapes run_attempts: nothing is cleaned up on the way out.
Raise ==
  /\ failures < MaxFailures
  /\ failures' = failures + 1
  /\ ProcessExit
  /\ UNCHANGED <<crashes, forced, interrupted, cached>>

-----------------------------------------------------------------------------
(* run_attempts: start, pick, force-rerun clear, skip.                     *)

\* The operator starts a driver for ids S; F of them are to be run again.
Start(S, F) ==
  /\ pc = "off" /\ S # {} /\ F \subseteq S
  /\ F = {} \/ forced < MaxForced
  /\ forced' = IF F = {} THEN forced ELSE forced + 1
  /\ ids' = S /\ todo' = S /\ force' = F
  /\ Goto("pick")
  /\ UNCHANGED <<disk, outcome, cur, copying, stage, scan, crashes, failures,
                 interrupted, cached>>

\* Mutant of PickAttempt: the attempt in hand is not remembered.
PickAttemptForgets(a) ==
  /\ pc = "pick" /\ a \in todo
  /\ todo' = todo \ {a}
  /\ Goto(IF a \in force THEN "clear" ELSE "check")
  /\ UNCHANGED <<disk, outcome, cur, ids, force, copying, stage, scan,
                 counts>>

\* Mutant of PickAttempt: an attempt with a lease left over starts anew.
PickAttemptClearsLeased(a) ==
  /\ pc = "pick" /\ a \in todo
  /\ cur' = a /\ todo' = todo \ {a}
  /\ Goto(IF a \in force \cup leased THEN "clear" ELSE "check")
  /\ UNCHANGED <<disk, outcome, ids, force, copying, stage, scan, counts>>

\* The list is the operator's, so any order of the ids may be the next.
PickAttempt(a) ==
  /\ pc = "pick" /\ a \in todo
  /\ cur' = a /\ todo' = todo \ {a}
  /\ Goto(IF a \in force THEN "clear" ELSE "check")
  /\ UNCHANGED <<disk, outcome, ids, force, copying, stage, scan, counts>>

ClearFile(f) ==
  /\ pc = "clear" /\ FirstBy(ClearRank, files[cur], f)
  /\ files' = [files EXCEPT ![cur] = @ \ {f}]
  /\ ver' = IF f \in Content THEN [ver EXCEPT ![cur][f] = 0] ELSE ver
  /\ UNCHANGED <<trees, leased, outcome, pc, memory, counts>>

\* Mutant of ClearLease: the state markers are left out of the clear.
ClearLeaseKeepsMarkers ==
  /\ pc = "clear" /\ files[cur] \cap Artifact = {}
  /\ leased' = leased \ {cur}
  /\ Goto("cleartree")
  /\ UNCHANGED <<files, ver, trees, outcome, memory, counts>>

ClearLease ==
  /\ pc = "clear" /\ files[cur] = {}
  /\ leased' = leased \ {cur}
  /\ Goto("cleartree")
  /\ UNCHANGED <<files, ver, trees, outcome, memory, counts>>

\* rmtree of the worktree; a kill can leave it half removed.
ClearTreeBegin ==
  /\ pc = "cleartree" /\ worktree[cur] \in {"fresh", "used"}
  /\ worktree' = [worktree EXCEPT ![cur] = "torn"]
  /\ UNCHANGED <<files, ver, registered, repoLease, leased, outcome, pc,
                 memory, counts>>

\* The FORCE_RERUN event makes phase-log.jsonl anew.
ClearTreeEnd ==
  /\ pc = "cleartree" /\ worktree[cur] \in {"absent", "torn"}
  /\ worktree' = [worktree EXCEPT ![cur] = "absent"]
  /\ Create(cur, {"log"})
  /\ interrupted' = interrupted \ {cur}
  /\ Goto("check")
  /\ UNCHANGED <<ver, registered, repoLease, leased, outcome, memory,
                 crashes, failures, forced, cached>>

\* Mutant of SkipDone: the lease a killed driver left stays.
SkipDoneKeepsLease ==
  /\ pc = "check" /\ "DONE" \in files[cur]
  /\ cur' = None
  /\ Goto("pick")
  /\ UNCHANGED <<disk, outcome, ids, todo, force, copying, stage, scan,
                 counts>>

SkipDone ==
  /\ pc = "check" /\ "DONE" \in files[cur]
  /\ leased' = leased \ {cur}
  /\ cur' = None
  /\ Goto("pick")
  /\ UNCHANGED <<files, ver, trees, outcome, ids, todo, force, copying,
                 stage, scan, counts>>

-----------------------------------------------------------------------------
(* _wait_for_ram, then _run_one_attempt: lease and phases.                 *)

RamBelowWatermark ==
  /\ pc = "check" /\ "DONE" \notin files[cur]
  /\ Goto("recover")
  /\ UNCHANGED <<disk, outcome, memory, counts>>

\* max_ram_pause_checks readings above the watermark end the whole run.
RamStaysAbove ==
  /\ pc = "check" /\ "DONE" \notin files[cur]
  /\ Raise
  /\ Stay

\* Mutant of RecoverLease: a stale lease is never taken over.
RecoverLeaseNever ==
  /\ pc = "recover" /\ cur \notin leased
  /\ Goto("acquire")
  /\ UNCHANGED <<disk, outcome, memory, counts>>

\* No lease, or one of a killed driver that has grown stale.  How old a lease
\* is (stale_after_seconds) shows only here.
RecoverLease ==
  /\ pc = "recover"
  /\ leased' = leased \ {cur}
  /\ Create(cur, IF cur \in leased THEN {"log"} ELSE {})
  /\ Goto("acquire")
  /\ UNCHANGED <<ver, trees, outcome, memory, counts>>

\* ActiveLeaseError: the lease of a killed driver is not old enough yet.
LeaseStillActive ==
  /\ pc = "recover" /\ cur \in leased
  /\ ProcessExit
  /\ UNCHANGED <<disk, outcome, counts>>

AcquireLease ==
  /\ pc = "acquire"
  /\ leased' = leased \cup {cur}
  /\ Goto("dispatch")
  /\ UNCHANGED <<files, ver, trees, outcome, memory, counts>>

InPhase(p) == pc = "dispatch" /\ NextPhase(files[cur]) = p

\* acquire_worktree takes the repo lease first; a fixture worktree is made if
\* it is not there.
SetupBegin ==
  /\ InPhase("SETUP")
  /\ Create(cur, {"log"})
  /\ IF cur \in cached
       THEN /\ repoLease' = repoLease \cup {cur}
            /\ Goto("checkout")
            /\ UNCHANGED worktree
       ELSE /\ worktree' = [worktree EXCEPT
                              ![cur] = IF @ = "absent" THEN "fresh" ELSE @]
            /\ Goto("setupmark")
            /\ UNCHANGED repoLease
  /\ UNCHANGED <<ver, registered, leased, outcome, memory, counts>>

RemovePartialWorktree ==
  /\ pc = "checkout" /\ worktree[cur] # "absent"
  /\ worktree' = [worktree EXCEPT ![cur] = "absent"]
  /\ UNCHANGED <<files, ver, registered, repoLease, leased, outcome, pc,
                 memory, counts>>

Checkout ==
  /\ pc = "checkout" /\ worktree[cur] = "absent" /\ cur \notin registered
  /\ worktree' = [worktree EXCEPT ![cur] = "fresh"]
  /\ registered' = registered \cup {cur}
  /\ Goto("setupmark")
  /\ UNCHANGED <<files, ver, repoLease, leased, outcome, memory, counts>>

\* git refuses "worktree add" at a path it has on record whose directory is
\* missing; the outcome repo_clone_failed is raised by _setup.
CheckoutRefused ==
  /\ pc = "checkout" /\ worktree[cur] = "absent" /\ cur \in registered
  /\ repoLease' = repoLease \ {cur}
  /\ ProcessExit
  /\ UNCHANGED <<files, ver, worktree, registered, leased, outcome, counts>>

\* Clone or fetch fails, or the base commit is missing: the old worktree may
\* or may not have been removed by then, a new one is not there.
CheckoutFails ==
  /\ pc = "checkout"
  /\ repoLease' = repoLease \ {cur}
  /\ Raise
  /\ UNCHANGED <<files, ver, worktree, registered, leased, outcome>>

MarkSetup ==
  /\ pc = "setupmark"
  /\ Mark({"SETUP_DONE"}, "dispatch")

\* adapter.run: the agent works in the worktree.
RunAgent ==
  /\ InPhase("RUN")
  /\ Create(cur, {"log"})
  /\ runs' = [runs EXCEPT ![cur] = @ + 1]
  /\ worktree' = [worktree EXCEPT ![cur] = "used"]
  /\ Goto("running")
  /\ UNCHANGED <<ver, registered, repoLease, leased, saved, summary, memory,
                 counts>>

AgentFails ==
  /\ pc = "running"
  /\ Raise
  /\ Stay

WriteEvents ==
  /\ pc = "running"
  /\ Create(cur, {"events"})
  /\ ver' = [ver EXCEPT ![cur]["events"] = runs[cur]]
  /\ Goto("runmark")
  /\ UNCHANGED <<trees, leased, outcome, memory, counts>>

\* Mutant of MarkRun: the marker does not reach the disk.
MarkRunUnwritten ==
  /\ pc = "runmark"
  /\ Goto("dispatch")
  /\ UNCHANGED <<disk, outcome, memory, counts>>

MarkRun ==
  /\ pc = "runmark"
  /\ Mark({"RUN_DONE"}, "dispatch")

\* _capture derives patch and telemetry from the recorded events.
WritePatch ==
  /\ InPhase("CAPTURE")
  /\ Create(cur, {"patch", "log"})
  /\ ver' = [ver EXCEPT ![cur]["patch"] = ver[cur]["events"]]
  /\ Goto("capturing")
  /\ UNCHANGED <<trees, leased, outcome, memory, counts>>

WriteNormalized ==
  /\ pc = "capturing"
  /\ Create(cur, {"normalized"})
  /\ ver' = [ver EXCEPT ![cur]["normalized"] = ver[cur]["events"]]
  /\ Goto("capturemark")
  /\ UNCHANGED <<trees, leased, outcome, memory, counts>>

\* enqueue_attempt raises (unreadable bundle or task row, not an account stop,
\* which it reports as not enqueued); _capture logs it and re-raises.
EnqueueFails ==
  /\ pc = "capturemark"
  /\ Raise
  /\ Stay

MarkCapture ==
  /\ pc = "capturemark"
  /\ Mark({"CAPTURE_DONE"}, "dispatch")

\* Mutant of MarkDone: the lease is given back before the mirror.
MarkDoneUnlocks ==
  /\ InPhase("DONE")
  /\ Create(cur, {"DONE", "log"})
  /\ leased' = leased \ {cur}
  /\ stage' = "first"
  /\ Goto("mirror")
  /\ UNCHANGED <<ver, trees, outcome, cur, ids, todo, force, copying, scan,
                 counts>>

MarkDone ==
  /\ InPhase("DONE")
  /\ Create(cur, {"DONE", "log"})
  /\ stage' = "first"
  /\ Goto("mirror")
  /\ UNCHANGED <<ver, trees, leased, outcome, cur, ids, todo, force, copying,
                 scan, counts>>

-----------------------------------------------------------------------------
(* _mirror_attempt, the boundary proof and the releases.                   *)

AfterMirror ==
  CASE stage = "first" /\ Boundary -> "proof"
    [] stage = "final"             -> "finalscan"
    [] OTHER                       -> "release"

\* Mutant of BackupUnreachable: RSYNC_DONE is written although nothing was
\* copied.
BackupUnreachableMarked ==
  /\ pc = "mirror"
  /\ Mark({"RSYNC_DONE", "log"}, AfterMirror)

BackupUnreachable ==
  /\ pc = "mirror"
  /\ Mark({"log"}, AfterMirror)

\* Mutant of MirrorBegin: the event stream is not on the backup list.
MirrorBeginDropsEvents ==
  /\ pc = "mirror"
  /\ copying' = files[cur] \ {"events"}
  /\ Goto("copy")
  /\ UNCHANGED <<disk, outcome, cur, ids, todo, force, stage, scan, counts>>

MirrorBegin ==
  /\ pc = "mirror"
  /\ copying' = files[cur]
  /\ Goto("copy")
  /\ UNCHANGED <<disk, outcome, cur, ids, todo, force, stage, scan, counts>>

CopyFile(f) ==
  /\ pc = "copy" /\ FirstBy(CopyRank, copying, f)
  /\ backup' = [backup EXCEPT ![cur] = @ \cup {f}]
  /\ bver' = IF f \in Content THEN [bver EXCEPT ![cur][f] = ver[cur][f]]
                              ELSE bver
  /\ copying' = copying \ {f}
  /\ UNCHANGED <<disk, runs, summary, pc, cur, ids, todo, force, stage, scan,
                 counts>>

\* rsync ends with an error part of the way: copied is empty, no marker.
CopyFails ==
  /\ pc = "copy" /\ copying # {}
  /\ copying' = {}
  /\ Create(cur, {"log"})
  /\ Goto(AfterMirror)
  /\ UNCHANGED <<ver, trees, leased, outcome, cur, ids, todo, force, stage,
                 scan, counts>>

\* A local target raises (disk full, permissions); nothing catches it.
MirrorRaises ==
  /\ pc \in {"mirror", "copy"}
  /\ Raise
  /\ Stay

MarkBackedUp ==
  /\ pc = "copy" /\ copying = {}
  /\ Mark({"RSYNC_DONE", "log"}, AfterMirror)

WriteBoundaryProof ==
  /\ pc = "proof"
  /\ Create(cur, {"proof", "log"})
  /\ stage' = "second"
  /\ Goto("mirror")
  /\ UNCHANGED <<ver, trees, leased, outcome, cur, ids, todo, force, copying,
                 scan, counts>>

ReleaseWorktree ==
  /\ pc = "release"
  /\ repoLease' = repoLease \ {cur}
  /\ Goto("unlock")
  /\ UNCHANGED <<files, ver, worktree, registered, leased, outcome, memory,
                 counts>>

\* The lease goes, and cleanup_completed_worktrees reads the disk watermark.
ReleaseLease ==
  /\ pc = "unlock"
  /\ leased' = leased \ {cur}
  /\ cur' = None
  /\ scan' \in {{}, Attempts}
  /\ Goto("sweep")
  /\ UNCHANGED <<files, ver, trees, outcome, ids, todo, force, copying,
                 stage, counts>>

-----------------------------------------------------------------------------
(* cleanup_completed_worktrees.                                            *)

DurableSet == {"patch", "normalized", "log"}

\* Mutant of Sweepable: the backup marker is not asked for.
SweepableDone(a) ==
  /\ {"DONE"} \cup DurableSet \subseteq files[a]
  /\ worktree[a] # "absent"

Sweepable(a) ==
  /\ {"DONE", "RSYNC_DONE"} \cup DurableSet \subseteq files[a]
  /\ worktree[a] # "absent"

\* Why the sweep logs WORKTREE_CLEANUP_PAUSED for a finished attempt.
Paused(a) ==
  /\ "DONE" \in files[a]
  /\ \/ "RSYNC_DONE" \notin files[a] /\ worktree[a] # "absent"
     \/ "RSYNC_DONE" \in files[a] /\ ~(DurableSet \subseteq files[a])

\* Mutant of SweepPass: a paused worktree is tried again at once.
SweepPassRetries(a) ==
  /\ pc = "sweep" /\ a \in scan /\ ~Sweepable(a)
  /\ scan' = IF Paused(a) THEN scan ELSE scan \ {a}
  /\ Create(a, IF Paused(a) THEN {"log"} ELSE {})
  /\ UNCHANGED <<ver, trees, leased, outcome, pc, cur, ids, todo, force,
                 copying, stage, counts>>

SweepPass(a) ==
  /\ pc = "sweep" /\ a \in scan /\ ~Sweepable(a)
  /\ scan' = scan \ {a}
  /\ Create(a, IF Paused(a) THEN {"log"} ELSE {})
  /\ UNCHANGED <<ver, trees, leased, outcome, pc, cur, ids, todo, force,
                 copying, stage, counts>>

SweepDelete(a) ==
  /\ pc = "sweep" /\ a \in scan /\ Sweepable(a)
  /\ cur' = a /\ scan' = scan \ {a}
  /\ worktree' = [worktree EXCEPT ![a] = "torn"]
  /\ Goto("deleting")
  /\ UNCHANGED <<files, ver, registered, repoLease, leased, outcome, ids,
                 todo, force, copying, stage, counts>>

SweepRmdir ==
  /\ pc = "deleting"
  /\ worktree' = [worktree EXCEPT ![cur] = "absent"]
  /\ Create(cur, {"log"})
  /\ Goto("cleanmark")
  /\ UNCHANGED <<ver, registered, repoLease, leased, outcome, memory,
                 counts>>

MarkCleaned ==
  /\ pc = "cleanmark"
  /\ Create(cur, {"WORKTREE_CLEANED"})
  /\ cur' = None
  /\ Goto("sweep")
  /\ UNCHANGED <<ver, trees, leased, outcome, ids, todo, force, copying,
                 stage, scan, counts>>

SweepEnd ==
  /\ pc = "sweep" /\ scan = {}
  /\ Goto("pick")
  /\ UNCHANGED <<disk, outcome, memory, counts>>

-----------------------------------------------------------------------------
(* The tail of run_attempts.                                               *)

\* Mutant of MirrorCompleted: only this invocation's mirrors count.
MirrorCompletedSkips ==
  /\ pc = "pick" /\ todo = {}
  /\ scan' = {}
  /\ stage' = "final"
  /\ Goto("finalscan")
  /\ UNCHANGED <<disk, outcome, cur, ids, todo, force, copying, counts>>

MirrorCompleted ==
  /\ pc = "pick" /\ todo = {}
  /\ scan' = {a \in Attempts : "DONE" \in files[a]}
  /\ stage' = "final"
  /\ Goto("finalscan")
  /\ UNCHANGED <<disk, outcome, cur, ids, todo, force, copying, counts>>

MirrorNext(a) ==
  /\ pc = "finalscan" /\ a \in scan
  /\ cur' = a /\ scan' = scan \ {a}
  /\ Goto("mirror")
  /\ UNCHANGED <<disk, outcome, ids, todo, force, copying, stage, counts>>

WriteSummary ==
  /\ pc = "finalscan" /\ scan = {}
  /\ summary' = [a \in Attempts |->
                   IF "normalized" \in files[a]
                     THEN ver[a]["normalized"] ELSE 0]
  /\ Goto("runmirror")
  /\ UNCHANGED <<disk, saved, runs, memory, counts>>

\* _mirror_run_level copies summary.json and the run log, no attempt file.
MirrorRunLevel ==
  /\ pc = "runmirror"
  /\ ProcessExit
  /\ UNCHANGED <<disk, outcome, counts>>

-----------------------------------------------------------------------------
(* The environment: the driver is killed.                                   *)

Crash ==
  /\ pc # "off" /\ crashes < MaxCrashes
  /\ crashes' = crashes + 1
  /\ interrupted' = IF pc \in {"clear", "cleartree"}
                      THEN interrupted \cup {cur} ELSE interrupted
  /\ ProcessExit
  /\ UNCHANGED <<disk, outcome, failures, forced, cached>>

-----------------------------------------------------------------------------

Clear == (\E f \in File : ClearFile(f)) \/ ClearLease \/ ClearTreeBegin
           \/ ClearTreeEnd
Gate == SkipDone \/ RamBelowWatermark \/ RecoverLease \/ LeaseStillActive
          \/ AcquireLease
SetupPhase == SetupBegin \/ RemovePartialWorktree \/ Checkout
                \/ CheckoutRefused \/ MarkSetup
RunPhase == RunAgent \/ WriteEvents \/ MarkRun
CapturePhase == WritePatch \/ WriteNormalized \/ MarkCapture
Mirror == BackupUnreachable \/ MirrorBegin \/ (\E f \in File : CopyFile(f))
            \/ CopyFails \/ MarkBackedUp
Finish == MarkDone \/ WriteBoundaryProof \/ ReleaseWorktree \/ ReleaseLease
Sweep == (\E a \in Attempts : SweepPass(a) \/ SweepDelete(a)) \/ SweepRmdir
           \/ MarkCleaned \/ SweepEnd
Tail == MirrorCompleted \/ (\E a \in Attempts : MirrorNext(a))
          \/ WriteSummary \/ MirrorRunLevel

\* What the driver does of itself, as long as nothing goes wrong.
DriverStep ==
  \/ \E a \in Attempts : PickAttempt(a)
  \/ Clear \/ Gate \/ SetupPhase \/ RunPhase \/ CapturePhase
  \/ Mirror \/ Finish \/ Sweep \/ Tail

Trouble == RamStaysAbove \/ CheckoutFails \/ AgentFails \/ EnqueueFails
             \/ MirrorRaises \/ Crash

Resume == Start(Attempts, {})

Next ==
  \/ \E S \in SUBSET Attempts : \E F \in SUBSET S : Start(S, F)
  \/ DriverStep
  \/ Trouble

Spec == Init /\ [][Next]_vars

\* The process is scheduled, the operator keeps invoking the same run id for
\* the whole list, and a lease left behind is stale in the end.
Fairness ==
  /\ WF_vars(DriverStep)
  /\ SF_vars(Resume)
  /\ \A a \in Attempts : SF_vars(RecoverLease /\ cur = a)

FairSpec == Spec /\ Fairness

-----------------------------------------------------------------------------
(* Properties.                                                             *)

\* No clear of the attempt is under way, and none was cut short by a kill
\* without having been done again in full.
Settled(a) ==
  /\ a \notin interrupted
  /\ ~(pc \in {"clear", "cleartree"} /\ cur = a)

\* The DONE marker is truthful: all four artifacts are there and stem from the
\* last execution of the agent, whatever kills and re-captures came before
\* (_capture, next_phase; only an interrupted clear is excepted).
DoneIsComplete ==
  \A a \in Attempts :
    Settled(a) /\ "DONE" \in files[a] =>
      /\ Artifact \cup PhaseMarker \subseteq files[a]
      /\ \A c \in Content : ver[a][c] = runs[a]

\* The RSYNC_DONE marker is truthful: the backup holds every artifact of the
\* attempt, in the version that is on disk (_mirror_attempt).
SavedIsCurrent ==
  \A a \in Attempts :
    Settled(a) /\ "RSYNC_DONE" \in files[a] =>
      /\ Artifact \subseteq backup[a]
      /\ \A c \in Content : bver[a][c] = ver[a][c]

ResultsSaved(a) ==
  /\ Artifact \cup {"DONE"} \subseteq files[a]
  /\ Artifact \subseteq backup[a]
  /\ \A c \in Content : bver[a][c] = ver[a][c]

SweptNow(a) == pc = "sweep" /\ worktree'[a] # worktree[a]

\* Disk pressure never costs a result: cleanup_completed_worktrees touches a
\* worktree only when the attempt is DONE and its artifacts are saved.
SweepSparesUnsaved ==
  [][\A a \in Attempts : SweptNow(a) /\ Settled(a) => ResultsSaved(a)]_vars

Kept(a) ==
  files[a] \subseteq files'[a] /\ ver'[a] = ver[a] /\ runs'[a] = runs[a]

\* A DONE attempt loses no file, changes no result and is not executed again
\* unless this very invocation forces it (run_attempts, clear_for_rerun).
DoneIsFinal ==
  [][\A a \in Attempts : "DONE" \in files[a] /\ a \notin force => Kept(a)]_vars

\* No duplicated work: each execution of an agent after the first is owed to a
\* kill, a failure or a forced rerun (the phase markers carry a restart past
\* a finished RUN).
NoNeedlessRuns ==
  \A a \in Attempts : runs[a] <= 1 + crashes + failures + forced

\* A run that gets to its end has every requested attempt DONE, left no
\* attempt lease behind and counts the last execution in summary.json.
FinishedRunIsComplete ==
  pc = "runmirror" =>
    \A a \in ids :
      /\ "DONE" \in files[a] /\ a \notin leased
      /\ a \notin interrupted => summary[a] = runs[a]

\* The driver holds the lease of the attempt it works on, from before the
\* first phase until after the last mirror (_run_one_attempt).
WorksUnderLease ==
  pc \in {"dispatch", "checkout", "setupmark", "running", "runmark",
         "capturing", "capturemark", "proof", "release", "unlock"} =>
    cur \in leased

\* A run ends: it returns, or an exception or a kill stops it.
RunEnds == (pc # "off") ~> (pc = "off")

\* git has the worktree on record and SETUP is to be done again: an attempt
\* killed in SETUP, or cleared by force after it.
Unstartable(a) == a \in registered /\ "SETUP_DONE" \notin files[a]

\* Same run id, run again after any number of kills: every attempt gets DONE for
\* good, except one for which git refuses a second worktree (run_attempts,
\* next_phase; the plan, section 7, has no exception: NoAttemptLost).
EveryAttemptDone ==
  <>[](\A a \in Attempts : "DONE" \in files[a] \/ Unstartable(a))

\* If the backup target can be reached now and then and rsync errors cease, the
\* result of every attempt ends up in the backup, also when its first mirror
\* was a no-op or was cut short (_mirror_completed_attempts; but for a clear cut
\* short and an attempt that cannot be set up again).
BackupRecovers ==
  /\ <>[][~CopyFails]_vars
  /\ \A a \in Attempts : SF_vars(MirrorBegin /\ cur = a)

EveryResultSaved ==
  BackupRecovers =>
    <>[](\A a \in Attempts :
           a \in interrupted \/ Unstartable(a) \/ ResultsSaved(a))

-----------------------------------------------------------------------------
(* What the repository's documents say without the exceptions above.       *)

\* The resume drill: kill the driver, invoke the run again, and no attempt is
\* lost.  Refuted: git refuses a second worktree at a path it has on record
\* (acquire_worktree).
NoAttemptLost == <>[](\A a \in Attempts : "DONE" \in files[a])

\* A worktree is swept only after its durable artifacts were backed up.  Refuted: a
\* clear cut short between DONE and RSYNC_DONE leaves the RSYNC_DONE of the old
\* backup to the results of the rerun (clear_for_rerun).
SweepOnlyAfterBackup ==
  [][\A a \in Attempts : SweptNow(a) => ResultsSaved(a)]_vars

=============================================================================
