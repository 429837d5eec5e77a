# oco-benchmark in TLA+

The repository runs a coding agent (OCO) on the 731 tasks of SWE-bench Pro: a
controller process walks a list of *attempts* through the phases SETUP, RUN,
CAPTURE and DONE, writes one directory of files per attempt, sends each patch
to an evaluator (Modal) and mirrors the results off the pod.  What stopped
without a patch is continued in a second run root, and the patches of both are
bundled for the evaluator.  A full run takes days on a pod that may be killed or
reclaimed at any time, so the code's main promise is about restarts: run the
same command again, and nothing that was finished is lost or done twice, and no
file says more than what is behind it.  That is what this directory models,
checks and, for the safety part, largely proves.

| file | what it is |
|---|---|
| `AttemptLifecycle` | the run loop: phases, markers, leases, mirror, sweep, kills |
| `AttemptOutcome`, `AttemptRefinement` | what an attempt promises to a reader of the run root, and the mapping under which the run loop implements it |
| `BackupRestore` | the run loop on pods that are lost and restored from the backup |
| `ModalPipeline` | the evaluation pipeline: driver and worker threads |
| `AgentRun` | RUN and CAPTURE with the real adapter: agent, git, strace, telemetry, precheck, boundary proof |
| `Telemetry`, `VersionGate`, `TraceBoundary` | the operators `AgentRun` is built from |
| `ParallelDrivers` | several drivers on one run root and repository cache |
| `ConfigPolicy` | what a production configuration becomes in a run's snapshot |
| `PostFirstPass` | task list, classification, continuation, bundles |
| `AttemptClasses` | the decision tables of those tools |
| `*_proofs` | theorems about them, checked by TLAPS |
| `MC*`, `*.cfg` | instances for TLC |
| `PROJECT.json` | components, runs, mutants, source map, findings, hazards, theorems |

`tlc -config X.cfg M` is a run (module and configuration stand in
`PROJECT.json`), `tlapm M_proofs.tla` checks the proofs of a module.

## 1. Inventory of the system

All state that outlives a process is files under a run root and a repository
cache.  A driver is sequential; concurrency comes from the threads of the
evaluation pool, from the agent's own process, from kills and restarts, from
commands run while drivers work, and from a second driver on the same run root.

| component | source under `src/` | state it keeps | what makes it correct | modelled in |
|---|---|---|---|---|
| run loop, phase machine | `controller/core.py`, `phases.py`, `cli.py` | phase markers, `summary.json` | DONE means complete and of one execution; finished work is neither redone nor changed; worktrees go only when results are safe | `AttemptLifecycle`, `ParallelDrivers` |
| artifacts | `controller/artifacts.py`, `atomic.py` | attempt directory | a file is there whole or not at all; a clear cut short does not look like a result | `AttemptLifecycle` |
| attempt lease | `controller/leases.py` | `lease.json` | work only under the lease; a dead driver's lease does not block for ever | `AttemptLifecycle`, `ParallelDrivers` |
| backup | `controller/backup.py` | files at the target | RSYNC_DONE is true; a failed mirror is made up for | `AttemptLifecycle`, `BackupRestore` |
| watermarks | `controller/watermarks.py` | none | a watermark pauses and does not block | `AttemptLifecycle` (as choices) |
| repo cache | `controller/repo_cache.py` | mirror clone, worktree registrations, repo leases, lock | no worktree from a torn clone; an attempt can be set up again | `AttemptLifecycle`, `ParallelDrivers` |
| evaluation pipeline | `controller/modal_eval.py` | `submissions.json`, `account-stop.json`, `modal-result.json`, pool | no attempt paid for twice, no outcome lost or overwritten, the summary true at the end | `ModalPipeline` |
| OCO adapter | `controller/real_oco.py` | agent process, base commit | the patch is the net change of the attempt | `AgentRun`, `ParallelDrivers` |
| boundary monitor | `controller/boundary.py` | before-snapshot, trace, proof | a write outside the worktree is reported | `TraceBoundary`, `AgentRun` |
| telemetry, precheck, version gate | `controller/telemetry.py`, `precheck.py`, `version_gate.py` | none | agreement with a definition by other means | `Telemetry`, `VersionGate`, `AgentRun` |
| materializer | `controller/materializer.py` | `oco-config-snapshot/` | all attempts of a run see one complete snapshot that leaves the agent nothing to ask | `ConfigPolicy`, `ParallelDrivers` |
| task loading | `controller/pro_tasks.py` | task list | the list is the whole dataset | `PostFirstPass` |
| post first pass, bundle | `controller/post_first_pass.py`, `eval_bundle.py`, scripts | classification, continuation root, bundle and manifest | every attempt falls into one class, both readers agree, a cut bundle can be told | `AttemptClasses`, `PostFirstPass` |
| gates and drivers | `scripts/dry_run_gate.py`, `run_benchmark.py`, `smoke_*.py` | - | define what a restore and a first pass are | `BackupRestore`, `AttemptLifecycle`, `PostFirstPass` |
| seed, constants, fixtures, integration scripts, paper, prompts, docs | | none | - | not modelled |

Interactions.  The run loop calls every other component of the controller.
Before its first attempt it takes the configuration snapshot; `_setup` calls the
repo cache, `_run` the adapter, `_capture` telemetry, precheck and
`enqueue_attempt`; after DONE come mirror, boundary proof, mirror again, release
of worktree and lease; the sweep follows each attempt; the end of a run drains
the pool, mirrors all DONE attempts, writes the summary, lets the pipeline add
its part and mirrors the run level.  Worker threads meet the driver in the
submission file (under a file lock) and in `summary.json` and `normalized.json`
(under none).  Two drivers meet in the snapshot directory, the lease files and,
under a `flock`, in the repository cache.  The tools of the post first pass read
the attempt directories without any lock while drivers write them.
`run_benchmark.py` builds a controller with a repo cache and a boundary monitor
but neither backup nor pipeline, `cli.py` one with a backup and without a repo
cache; the core takes every combination, and the instances below use those that
are built, plus repo cache with backup.

What is hard: kills between any two durable writes, with stale leases and
half-removed trees found later; forced reruns on top of that; mirrors that stop
half-way; late answers of the evaluator; read-modify-write of shared JSON
without a lock; check and use of lease and snapshot in separate steps; threads that raise; a trace
that names files by descriptors.  `PROJECT.json` lists each as a hazard at its
line.

## 2. The run loop

### AttemptLifecycle

One step is one durable effect.  `atomic_write_bytes` writes a temporary file,
syncs and renames, so a file is in the set `files[a]` or not; `rmtree` is two
steps, because a kill leaves half a tree.  Contents are abstracted to the
number of the agent execution they stem from (`ver`, `runs`): that is all a
property has to tell apart.  `pc` is the place in the code, `cur` the attempt in
hand, `todo`, `force`, `copying`, `scan` are local variables of the driver.
A kill (`Crash`), an exception (`Raise`) and a return all forget them.

| actions | code |
|---|---|
| `Start`, `PickAttempt`, `ClearFile` .. `ClearTreeEnd`, `SkipDone` | head of the loop of `run_attempts`, `clear_for_rerun` |
| `RamBelowWatermark`, `RamStaysAbove` | `_wait_for_ram` |
| `RecoverLease`, `LeaseStillActive`, `AcquireLease` | `LeaseManager` |
| `SetupBegin` .. `MarkSetup` | `_setup`, `acquire_worktree` |
| `RunAgent`, `AgentFails`, `WriteEvents`, `MarkRun` | `_run` |
| `WritePatch`, `WriteNormalized`, `EnqueueFails`, `MarkCapture` | `_capture` |
| `MarkDone` | `_done` |
| `MirrorBegin`, `CopyFile`, `CopyFails`, `BackupUnreachable`, `MirrorRaises`, `MarkBackedUp` | `_mirror_attempt`, `BackupHook.mirror` |
| `WriteBoundaryProof`, `ReleaseWorktree`, `ReleaseLease` | the `finally` of `_run_one_attempt` |
| `SweepPass`, `SweepDelete`, `SweepRmdir`, `MarkCleaned`, `SweepEnd` | `cleanup_completed_worktrees` |
| `MirrorCompleted`, `MirrorNext`, `WriteSummary`, `MirrorRunLevel` | tail of `run_attempts` |

Abstractions.  The age of a lease shows only in the choice between
`RecoverLease` and `LeaseStillActive`; the watermarks only in the choices of
`RamStaysAbove` and of the sweep's `scan`.  Whether an attempt gets its worktree
from the repo cache or a fixture directory is up to its row and the controller
(`core.py:340`): `cached` is any set of attempts, fixed in the initial state.  The list of attempts comes from the
operator, so any order is allowed, and so is any order in which directory
scans visit the attempts.  Patch and telemetry share one provenance (the event
stream).  Git's refusal to add a worktree at a path it has on record although
the directory is missing (`CheckoutRefused`) is git's behaviour, not the
repository's; attempts it will refuse are `Unstartable`.  `interrupted` records attempts whose clear was cut short by a
kill; the safety properties except these (`Settled`), and what goes wrong for
them is a finding.  Writes of the evaluation pool to `normalized.json` after
the attempt's first mirror belong to `ModalPipeline`.

* `DoneIsComplete`: DONE means all markers and artifacts, of the last execution.
* `SavedIsCurrent`: RSYNC_DONE means the backup holds the versions on disk.
* `NoNeedlessRuns`: executions beyond the first are each owed to a kill, a
  failure or a forced rerun.
* `FinishedRunIsComplete`: a run that returns has every requested attempt DONE,
  unleased and counted in the summary.
* `WorksUnderLease`: no phase runs without the attempt's lease.
* `SweepSparesUnsaved`: the disk sweep deletes only what is DONE and saved.
* `DoneIsFinal`: an invocation changes no DONE attempt it does not force.
* `RunEnds`, `EveryAttemptDone`, `EveryResultSaved`: liveness, the last two but
  for attempts that git refuses a second worktree.
* `NoAttemptLost`: the resume drill of the plan, without that exception; refuted, a
  finding.  `SweepOnlyAfterBackup`: `SweepSparesUnsaved` without the exception of
  clears cut short; refuted, a finding.

Fairness (`Fairness`).  The driver thread is scheduled (WF of `DriverStep`; the
waits in it are bounded: `max_ram_pause_checks`, retry limits).  The operator
invokes the same run id again (SF of `Resume`), which is what the plan tells
him to do.  A lease left behind gets older than `stale_after_seconds`, so
recovery wins in the end (SF of `RecoverLease`).  `EveryResultSaved`
assumes in addition that the target can be reached now and then and that rsync
errors cease; both stand in its statement (`BackupRecovers`).

### AttemptOutcome and AttemptRefinement

`AttemptOutcome` says what a reader of the run root may rely on, without files
or phases: an attempt is open, published or withdrawn; it is executed only while
it is not published; what is published is the latest execution, and it changes
only when an invocation that was granted the right withdraws it; a
worktree may be discarded while its attempt is published only if that result is
archived.  `AttemptRefinement` maps the run loop to it: published is a DONE
marker of a settled attempt, the result is the execution all four artifacts
agree on (none, if one is missing or they are of two executions), archived the
same for the backup behind RSYNC_DONE.  `KeepsPromise` is checked in
`lifecycle_two` and proved.  An attempt whose clear was cut short stays
withdrawn until it is cleared in full: nothing is promised of it, which is the
gap the run `stale_backup_marker` shows.

### BackupRestore

Extends the run loop with `Reclaim`: the container disk is lost with the
process, and the backup becomes the run root of a new pod, as in
`gate_mac_backup`.  The repo cache, worktrees and leases are on no
backup list and are gone.  `torn` marks attempts whose latest mirror was cut or
that were copied while broken.  `SnapshotIsWhole` and `RestoredIsWhole` say that
artifacts and markers of an attempt belong to one execution, in the snapshot and
on whatever pod; `SavedSurvives` that RSYNC_DONE is a promise that survives the
pod.

## 3. ModalPipeline

The driver (captures, enqueues, drains, writes the summary) and `Workers`
threads.  SETUP and RUN touch none of this state and are left out.  Durable: one
record per attempt in `submissions.json`, the account-stop file, the outcome in
`modal-result.json`, the state of `normalized.json`, the modal part of
`summary.json`, the backup's copy of the outcome.  `update_run_summary` is two
steps (`ReadResults`/`WriteSummary`, `DriverReads`/`DriverWrites`), because
nothing locks it; the locked section of `enqueue_attempt` is two (`Look`,
`PutRecord`) and `StoreRecord` waits for it.  A bundle that fails conformance
(`unfit`, any set) takes the worker's path on the driver thread.

`_run_submission` catches `ModalClientError` and nothing else.  Any other exception of
the client, or of `update_run_summary`, ends the submission where it is
(`WorkerRaises`); the future keeps it, and `drain` raises it again (`DrainRaises`):
the tail of the run is skipped, the interpreter waits for the pool and leaves
(`ReturnRaised`), and what was in progress stays on record for ever.  `lost`
collects these attempts and those cut off by a kill.

* `OneBudgetPerAttempt`: kills, recaptures and forced reruns together never
  cost more than one retry budget of calls per attempt.
* `RecordsSettled`, `FinishedSummaryIsTrue`, `LateOutcomeSaved`: what a finished
  run leaves in the records, in the summary and in the backup.
* `OutcomeIsFinal`: an outcome is replaced only after a forced rerun.
* `SomeoneGoesOn`, `RunWindsDown`: driver, pool and threads never wait for each
  other, and every step of a run lowers the driver's work, or leaves it alone and
  lowers that of one submission.  Together: a run ends, if threads are scheduled and
  calls of the evaluator return (one that hangs is stopped by its own watchdog,
  outside this code).  As an invariant and an action property they need no
  fairness, and both are proved.
* `QueuedIsSubmitted`: refuted, a finding.

## 4. AgentRun and its operators

One attempt with the real adapter, from the version gate to the boundary proof.
The content of the worktree is the set of changes it shows against the recorded
base commit; `tree`, `index` and `head` are git's three places.  The agent
(`AgentStep`) edits, stages, commits, writes events to stdout, opens and closes
directories and writes through absolute and relative paths, in any order; it
ends, fails, is timed out in mid-line, or is killed with the driver (`Crash`).  It
consists of tasks as `strace -f` numbers them, threads that share descriptors and
children that have a copy (`Spawn`).  `table` is the parser's memory of descriptors,
one for each task number, `fds` the kernel's, one for each process: close and dup are
not traced, so they drift apart.  A call that another task's call interrupts stands in
the trace as two halves, neither of which is a line the parser reads (`Split`), and
absolute paths below `/dev`, `/proc` and `/sys` are passed over (`Ignored`).

| definitions | code |
|---|---|
| `Gate`, `GateReason`, `GatePasses` | `version_gate.py` |
| `RunBegin` (git rev-parse may fail), `AgentEnds`, `WriteEvents` | `RealOcoAdapter.run` |
| `Tracked`, `Untracked`, `ExtractPatch` | patch extraction of `real_oco.py` |
| `Pass`, `Absorb`, `Normalize`, `AggregateRun` | `telemetry.py` |
| `PrecheckVerdict` | `precheck.py` |
| `TableAfterOpenDir`, `TraceFinding`, `ProofPasses` | `boundary.py` |

* `PatchIsNetChange`: what is queued is everything the worktree shows against
  the base, committed or not, but for what a killed execution had committed (the
  next one takes its HEAD for the base).
* `ToolsAttributed`: the one pass over the events (`Pass`) gives every step its
  tools, counts the calls and tells delegation as a definition by positions
  does, on streams of cut executions too.
* `ProofIsTruthful`: a proof that passes speaks for the whole last execution but for
  what the trace cannot show (`Hidden`): writes by an absolute path below an ignored
  prefix, writes whose line is cut, and writes below a descriptor whose opening the
  parser has not followed (`blind`).
* `OutsideWritesReported`: the same without the exception; refuted, a finding.

`MCAgentRun` also states, as assumptions TLC evaluates, that percentile, median,
aggregation agree with definitions by other means.

## 5. ParallelDrivers and ConfigPolicy

Any number of drivers on one run root.  The phases are those of the run loop,
contracted to what drivers share: the snapshot of the configuration
(`LookForDirectory` .. `Report`, one step per file operation), the lease of an
attempt (`ReadLease`, `Recover`, `Acquire`: read, judge and replace are three
steps), the cache (`LockCache`, `Clone`, `Fetch`, `Checkout`, `Refuse`).  The prompts
are copied as they are then, after the configuration was read (`CopyPrompts`).  A
clone that a kill has cut is taken for the cache and fetched into, which may or may
not complete it; that no worktree is made of it otherwise is the guard of `Checkout`,
`has_commit`.  `Evict` has no caller in the repository but
`tests/test_repo_cache.py:129`, so it is a step of the environment.  A clock
(`Tick`) ages leases, `Kill` is SIGKILL at any step and releases only the flock,
and the production configuration is edited (`EditProduction`) under the run.
`ConfigPolicy` is `materializer.py` as operators: which agents stay, the
permission policy, prompts, provider and manifest.

* `SnapshotServes`: unless two drivers materialize at once, every execution runs
  under one and the same complete snapshot, which leaves an agent whose
  permissions are rules nothing to ask.  Its prompts may be of a later version.
* `LeaseExcludes`: two drivers work on one attempt only when one had read the
  lease just before the other took it, or when the lease was overdue.  Both
  exceptions happen; they are the content of the property.
* `CacheInUseStays`: the clone is whole, with a lease, under every worktree in
  use of an attempt not shared by two drivers; a clone that was cut is not taken
  for one.

## 6. PostFirstPass and AttemptClasses

From the task list to the bundles.  `AttemptClasses` holds the decision tables
over the files of one attempt: `Class` (`classify_attempt`), `Decide`
(`decide_attempt`), `FinalDecision` (final bundle).  `PostFirstPass` runs the
commands around them, one after another, each killed between any two of its
writes: `LoadPage` (any rows of the dataset in a page, any number of them, and any
total or none stated with it, another one each time), `Classify`, `PrepareBegin` ..
`PrepareCut` (the continuation root, plain or forced), `FirstBundle`, `FinalBundle`,
`Validate`.  The removal and the copying of a directory are two steps each
(`PrepareRemove`, `PrepareRemoved`; `PrepareCopy`, `PrepareCopied`): a removal that is
cut leaves any part of the attempt (`Remnants`), a copy that is cut a `partial` tree,
and a source that goes while it is copied spoils the copy (`Spoils`).
Drivers write the attempts of both roots under them, file by file
(`FirstPassStep`, `ContinuationStep`), clear them for a forced rerun
(`ClearBegin` .. `ClearCut`) and prune worktrees (`Prune`).  `current` records
which products stem from their inputs as they are now.  One assumption is about the
operator: a driver on the continuation root, which is given `prepared-ids.txt`, does
not run while a preparation does.

* `ListIsWholeDataset`: a task list on disk is the whole dataset.
* `FirstBundleIsClean`: bundle and classification, two readers with different
  rules, agree on every attempt, half cleared ones included.
* `FinalCoversFirst`: the final bundle has a patch for every task the first pass has
  one of, and takes a continuation's only where the classification as it is asks
  for one.
* `VerifiedBundleIsWhole`: the digest finds every cut between the three files.
* `RunsOnWholeTree`: no agent of a continuation starts where there is no worktree or
  on a copy that was cut.  Two cases with parts missing are named in it: a source
  that was being deleted, and what a cut `rmtree` of `--force` has left with
  SETUP_DONE still there, in an attempt that an old `prepared-ids.txt` names.
* `MissingMeansMissing`: refuted, a finding.

## 7. Runs

Distinct states and times are those of two TLC workers.

| run | instance | size | shows |
|---|---|---|---|
| `lifecycle_one` | 1 attempt on a git worktree or a fixture, boundary proof, 1 kill, 1 failure, 1 forced rerun | 197 k, 55 s | state invariants, `DoneIsFinal` and liveness of the run loop |
| `lifecycle_two` | 2 attempts (symmetric), each on a git worktree or a fixture, 1 kill, 1 failure | 3.8 M, 2:20 | no interference between attempts; the sweep; the refinement |
| `restore` | 1 attempt of either kind, 1 kill, 1 failure, 1 forced rerun, 2 restores | 1.2 M, 20 s | snapshots and restored pods |
| `modal` | 2 attempts (symmetric), 2 threads, 2 tries, 1 kill, 1 exception, 1 forced rerun | 5.5 M, 1:50 | the pipeline: budget, records, summary, backup, no deadlock, every step lowers the work left |
| `capture` | 1 edit, 2 new files, 1 of them a plan, 1 step event, 2 tasks, 2 descriptors, 2 places (a root of its own, a device), 1 cut line, 4 calls of the agent, 1 kill, 1 git failure | 2.1 M, 1:10 | patch, telemetry, boundary proof |
| `drivers` | 2 drivers, 2 attempts (symmetric), 2 starts, clock to 2 with leases stale at 1, 1 edit, a sound, a broken and an edited configuration | 2.8 M, 1:10 | snapshot, lease, cache |
| `continuation` | 2 tasks, 1 of them run, 3 outcomes, pages and totals up to 3, 1 forced rerun, 1 prune, 4 commands | 3.9 M, 2:00 | the tools after the first pass |

Bounds.  Attempts share only the driver, the sweep, the tail, the pool and the
cache, so two attempts show every interference; one attempt is affected by
another at one place at a time.  One kill and one failure cover a kill during
the recovery from the other, one forced rerun a clear on top of either; a
forced rerun with two attempts is beyond TLC's time and is covered by the proofs
(`DoneFinal`, `PromiseKept`).  Two worker threads and the driver give every race
on the summary, two drivers every race on lease and snapshot.  Four calls of the
agent reach a descriptor that is opened, closed, opened again by another path and
written through, in one task or two; a device is the one place outside that the parser
passes over in one form and reports in another, and other places are covered by
`trace_missed` and the proofs.  Steps that name tools of their own are covered by
the assumptions TLC evaluates and the proofs.  Two tasks make pages that overlap, end early
or are too long, and three is a total above the true one;
four commands reach a final bundle after a repeated classification.

Deadlock is checked except in `continuation`, `drivers` and `masked_reason`,
whose commands and process starts are bounded and may be used up.  Each property
of a passing run has a mutant in `PROJECT.json`: the definition of the code with a
plausible bug (a guard dropped, an order swapped), under which TLC refutes
the property in the same instance.  Mutants too long for a line stand next to the
definition they change, as `...`-variants marked "Mutant of".

Violation runs, each a disagreement of code and documents (`findings`):

| run | what happens |
|---|---|
| `stale_backup_marker` | a kill cuts the clear of a forced rerun after DONE is unlinked and before RSYNC_DONE is; the next invocation runs the attempt again, cannot reach the backup, and the sweep takes the old RSYNC_DONE for a backup of the new results and deletes their worktree |
| `stuck_worktree` | a kill between `git worktree add` and SETUP_DONE: the directory is removed but not git's record of it, and git refuses the path in every later invocation |
| `modal_lost` | the submission record is written before the call; after a kill it is taken for a duplicate for ever |
| `trace_missed` | a directory opened by a relative path leaves the parser's entry for its descriptor as it was; a write outside is taken for one inside |
| `masked_reason` | the final bundle gives `attempt_missing` as the reason of a first-pass attempt that is there |

`stale_backup_marker` happens to attempts on fixture worktrees: a cleared attempt on a
git worktree runs into the other finding first.  A clear cut before DONE is
unlinked leaves DONE and RSYNC_DONE on an attempt without its artifacts; there the
sweep pauses (`core.py:482`), and the attempt is skipped for ever.

Seen while modelling, without a run of their own: the boundary proof comes after
DONE, and a kill in between loses it, as later runs skip the attempt; files are
mirrored in name order, DONE before the patch, so a cut mirror restores as a DONE
attempt without results (`torn`); a permission that is a bare word survives the
headless policy (`MCWord`); `docs/post-first-pass-continuation-and-eval-prep.md` lets
a second driver start once `oco-config-snapshot/` exists, but the directory is there
before the configuration in it (`raced`); line 72 of that document gives
"continuation patches" precedence "for continued attempts": when the first pass was
rerun into a patch after its task had been continued, and classified again, the code
takes the first pass's patch (`FinalCoversFirst` says so), which is right if "continued"
means what the classification says and wrong if it means what was done; the manifest
states non-streaming whatever the debug knob says (`Manifest`).

## 8. Proofs

Everything here holds for every value of the constants under the assumptions
named in the modules.  These are types and disjointness of the constants, and in
`PostFirstPassAssumption` one fact about the code outside the module: an
outcome that is queued has a patch with text in it (`precheck.py:36` strips
before it judges).  `AgentRunAssumption` gives the shapes of the events an agent
can write.  The theorems about the end of runs have one hypothesis more, that
`Attempts` is finite, as the list `run_attempts` is given.

| module | proves | invariant |
|---|---|---|
| `AttemptLifecycle_proofs` | all state invariants of `lifecycle_one`, `SweepSparesUnsaved`, `DoneIsFinal`; `InvocationWindsDown` | `IInv`, `Open` |
| `AttemptRefinement_proofs` | `KeepsPromise` | `IInv`, `Plain`, `Executed` |
| `BackupRestore_proofs` | `SnapshotIsWhole`, `RestoredIsWhole`, `SavedSurvives`; `PodWindsDown` | `RInv`, `Open` |
| `ModalPipeline_proofs` | all properties of `modal` | `Inv`, `Lined` |
| `ParallelDrivers_proofs` | all properties of `drivers`; `DriversWindDown`, `LockComesBack`; the policy leaves nothing to ask and settles | `Typed`, `CacheInv`, `LeaseInv`, `SnapshotInv` |
| `PostFirstPass_proofs` | all properties of `continuation`; `PreparationWindsDown`; agreement of the two readers; the final reason needs no class | `Typed`, `DigestsTell`, `TreesTell`, `CurrentTell` |
| `AgentRun_proofs` | all properties of `capture` | `Inv`, `RunInv` |
| `Telemetry_proofs` | the pass is its definition by positions, the figures of two attempts add up, the index of the percentile | by induction on the stream |

None of the properties is inductive.  The arguments:

*The run loop.*  `IInv` is a conjunction of named parts, each proved by a lemma
with a case per action.  `Control`: what each place of the driver implies for the
files of the attempt in hand.  `LeaseHeld`: an attempt being worked on is leased,
and only it or one left by a dead driver is.  `Progress`: the order of markers
and artifacts in a settled attempt.  `Results`: what is on disk, and behind
RSYNC_DONE in the backup, stems from the last execution.  `Credit`: while RUN_DONE
is missing, a kill, failure or forced rerun has been spent that is not used up;
without this the bound on executions is not inductive, since a rerun would have
nothing to be charged to.  `Counted`: which requested attempts are DONE at each
place of the tail.

*The refinement.*  `Plain`, which follows from `Results`, reduces the mapped
result and archive to the status and the count of executions, before and after a
step; then a step either leaves status and backup marker of every attempt alone
(`SteadyInvokes`), or is one of the few that publish, archive, withdraw, reopen,
execute, or make and remove trees, each with a lemma of its own.  `Executed` adds
what `IInv` lacks: a finished RUN has executed the agent, and the tree the sweep is
removing is already torn.

*Restores.*  On a restored pod the results on disk are not those of the last
execution, so `IInv` fails.  What is left of it is `Whole`: they are those of one
execution, namely of the events on disk.  It holds of every step of the run
loop (`WholeStep`) and, because the snapshot of an attempt that is not torn is
whole, of a restore (`ReclaimWhole`).

*The pipeline.*  `JobsInv`: an attempt has at most one submission in a run.
`CallsInv`: nothing is called for that has no record, and a record is not put
twice; hence the budget.  `RecordsInv`: a record in progress has someone who will
settle it, or was lost in a kill or by an exception.  `OutcomesInv`: what is known of an outcome
before it is written.  `EndInv`: after the drain nobody but the driver writes, so
the last view of the results is the true one, although earlier ones were not.

*Parallel drivers.*  The lock excludes because place and `flock` agree (`Typed`);
`CacheInv`: who holds a worktree left a lease file that eviction sees; `LeaseInv`:
the lease file of a driver at work is the one it wrote, unless it was overdue or
contended; `SnapshotInv`: while
nobody materializes, the snapshot is the one all executions have used.

*After the first pass.*  `DigestsTell`: a manifest's digest is that of its own
decisions; `TreesTell`: SETUP is marked after the copy; `CurrentTell`: a product
that counts as current is what its definition gives for the files as they are.

*The boundary.*  `TableTells`: a task's entry for an open descriptor of its process
that is not blind for it is right; `TraceTells`: a trace without findings has missed
only what it cannot show; `ProofIsLast`: nothing is executed after the verdict.

*The patch.*  `Phases`: which markers there are at each place of the driver.
`BaseIsLost`: the base of an execution is what killed ones before it had
committed; HEAD is that commit whenever no execution is under way.  `PatchKept`:
from its extraction on, the patch is the net change against that base, first in
hand and then as what `Normalize` reads from the event file; it is this detour
through the event stream, where the agent has written too, that needs
`LastPatchCounts`.  `Captured`: the files of CAPTURE are made from the event file
as it is.

*Telemetry.*  `Pass` is a recursive function on the length of the stream, and
`StepsAttributed` compares it with sets of positions that are not computed event
by event.  Its invariant (`PassAttributes`) says what the pending list holds: the
tools that have run since the latest start or end of a step.  The induction
theorems of the library take an operator as a parameter, which the provers
cannot instantiate; so induction is stated over sets of numbers
(`NatSetInduction`, `UpToInduction`) and derived from the library's fact that < is
well-founded on the naturals.

*Ends.*  For each component that loops, a natural number is given that every step
lowers: `StepsLeft` and `PrepareLeft`.  It is lexicographic: attempts still to be
picked weigh more than all the work on one, and in the pipeline a step of the
driver more than a whole submission with its retries.  The number exists only
where the code never starts over; in the run loop that takes `Open`: a phase is
entered for want of its marker, so a marker is set once in an invocation.  For drivers in
parallel there is one number per driver, which the steps of others leave alone.
`SomeoneGoesOn` and `LockComesBack` are the other half, that somebody can always
move: they say by the guards of the actions who waits and for whom.  `Lined`, that
each queued submission is in the queue, is what they need beyond `Inv`.  Together
with fairness this is the argument that runs end, for every value of
the constants, except for the last step, from fairness to liveness.

Only model-checked: liveness (`RunEnds`, `EveryAttemptDone`, `EveryResultSaved`),
since fairness and ENABLED are beyond the prover.  The assumptions of `MCAgentRun`
and `MCParallelDrivers` compare over bounded inputs what is only partly proved:
the values of percentile and median (proved is the index into the sorted list),
and which production configurations are accepted and what becomes of them.

## 9. Not modelled

* In modelled files: `append_jsonl_atomic` (a read-modify-write of logs no step
  reads back), `package_delegated_diagnostics` (copies files), the upstream
  schema probe of the bundle, validation before a manifest exists, the coercion
  of dataset rows, JSONC parsing, rounding, the ratios of the watermarks, the
  number of retries of git and rsync.
* In the boundary: what a read of an open file may change, links from inside a root
  to outside and links moved after a write, calls the code does not take for writes
  (truncate, chmod, mknod), task numbers the kernel uses twice.
* Processes that outlive the driver: when the timeout kills strace, the agent may
  go on untraced.  This is outside a model whose agent ends with its execution.
* A forced rerun by one of two drivers, more than one repository in the cache,
  and steps within one `rmtree` or one copy of the prompts in `ParallelDrivers`.
* The class-based fallbacks in `FinalReason` are translated but can never be
  reached (`ReasonNeedsNoClass`).
* `seed.py` (a hash), `fixtures.py` and `constants.py` (test doubles, literals),
  the opt-in integration scripts (calls of outside services), paper, prompts and
  docs (text).

## 10. How the modules were ordered, and what could follow

The order was that of importance: the run loop with its proofs, restores, the
pipeline, the promise and its refinement, then drivers in parallel, the agent's
run, and the tools after the first pass.  What could follow: two repositories
and a watermark in the cache; a forced rerun in `ParallelDrivers`; and orphaned
agents in `AgentRun`.
