------------------------ MODULE BackupRestore_proofs ------------------------
(***************************************************************************)
(* Proofs about pods that are reclaimed, for any number of attempts, kills,*)
(* failures, forced reruns and restores.  On a restored pod the results on *)
(* disk are not those of the last execution, so the invariant of           *)
(* AttemptLifecycle_proofs does not hold: what is left of it is that they  *)
(* are those of one execution.                                             *)
(***************************************************************************)
EXTENDS BackupRestore, AttemptLifecycle_proofs

Durable == PhaseMarker \cup Artifact

\* The content is there and stems from the execution whose events are there.
Intact(a, c) == c \in files[a] /\ ver[a][c] = ver[a]["events"]

MarkersWhole(a) ==
  /\ "SETUP_DONE" \in files[a] => "log" \in files[a]
  /\ "RUN_DONE" \in files[a] =>
       {"SETUP_DONE", "events"} \subseteq files[a] /\ ver[a]["events"] > 0
  /\ "CAPTURE_DONE" \in files[a] =>
       "RUN_DONE" \in files[a] /\ Intact(a, "patch") /\ Intact(a, "normalized")
  /\ "DONE" \in files[a] => "CAPTURE_DONE" \in files[a]
  /\ "RSYNC_DONE" \in files[a] => /\ "DONE" \in files[a]
                                  /\ \A f \in Durable : Copied(a, f)

\* The same of a phase under way, before its marker is written.
PhaseWhole(a) ==
  /\ pc \in {"checkout", "setupmark"} => "log" \in files[a]
  /\ pc \in {"running", "runmark"} => /\ "SETUP_DONE" \in files[a]
                                      /\ "RUN_DONE" \notin files[a]
  /\ pc = "running" => runs[a] > 0
  /\ pc = "runmark" => "events" \in files[a] /\ ver[a]["events"] > 0
  /\ pc \in {"capturing", "capturemark"} => /\ "RUN_DONE" \in files[a]
                                            /\ "CAPTURE_DONE" \notin files[a]
                                            /\ Intact(a, "patch")
  /\ pc = "capturemark" => Intact(a, "normalized")
  /\ pc = "copy" => \A f \in Durable : f \in copying \/ Copied(a, f)

Whole == \A a \in Attempts : Settled(a) => MarkersWhole(a) /\ (cur = a => PhaseWhole(a))

RInv == RestoreTypeOK /\ Control /\ Whole /\ SnapshotIsWhole

-----------------------------------------------------------------------------
(* The steps of the run loop.                                              *)

\* Every step of the run loop writes a marker only once what the marker says is
\* on disk, of one execution; true also of results another pod has made.
LEMMA WholeStep ==
  ASSUME TypeOK, Control, Whole, [Next]_vars PROVE Whole'
<1> USE DEF TypeOK, Between, Control, Phases, Clearing, Ending, Whole,
            Settled, MarkersWhole, PhaseWhole, Intact, Copied, Durable, Goto, Create,
            Stay, Mark, trees, disk, outcome, saved, memory, counts,
            PhaseMarker, Artifact, Content, File
<1>1. ASSUME NEW S \in SUBSET Attempts, NEW F \in SUBSET S, Start(S, F)
      PROVE  Whole'
  BY <1>1 DEF Start
<1>2. ASSUME NEW a \in Attempts, PickAttempt(a) PROVE Whole'
  BY <1>2 DEF PickAttempt
<1>3. CASE Clear
  <2>1. ASSUME NEW f \in File, ClearFile(f) PROVE Whole'
    BY <2>1 DEF ClearFile
  <2>2. CASE ClearLease BY <2>2 DEF ClearLease
  <2>3. CASE ClearTreeBegin BY <2>3 DEF ClearTreeBegin
  <2>4. CASE ClearTreeEnd BY <2>4 DEF ClearTreeEnd
  <2> QED BY <1>3, <2>1, <2>2, <2>3, <2>4 DEF Clear
<1>4. CASE Gate
  <2>1. CASE SkipDone BY <2>1 DEF SkipDone
  <2>2. CASE RamBelowWatermark BY <2>2 DEF RamBelowWatermark
  <2>3. CASE RecoverLease BY <2>3 DEF RecoverLease
  <2>4. CASE LeaseStillActive BY <2>4 DEF LeaseStillActive, ProcessExit
  <2>5. CASE AcquireLease BY <2>5 DEF AcquireLease
  <2> QED BY <1>4, <2>1, <2>2, <2>3, <2>4, <2>5 DEF Gate
<1>5. CASE SetupPhase
  <2>1. CASE SetupBegin BY <2>1 DEF SetupBegin, InPhase
  <2>2. CASE RemovePartialWorktree BY <2>2 DEF RemovePartialWorktree
  <2>3. CASE Checkout BY <2>3 DEF Checkout
  <2>4. CASE CheckoutRefused BY <2>4 DEF CheckoutRefused, ProcessExit
  <2>5. CASE MarkSetup BY <2>5 DEF MarkSetup
  <2> QED BY <1>5, <2>1, <2>2, <2>3, <2>4, <2>5 DEF SetupPhase
<1>6. CASE RunPhase
  <2>1. CASE RunAgent
    <3>1. "SETUP_DONE" \in files[cur] /\ "RUN_DONE" \notin files[cur]
      BY <2>1 DEF RunAgent, InPhase, NextPhase
    <3> QED BY <2>1, <3>1 DEF RunAgent, InPhase
  <2>2. CASE WriteEvents BY <2>2 DEF WriteEvents
  <2>3. CASE MarkRun BY <2>3 DEF MarkRun
  <2> QED BY <1>6, <2>1, <2>2, <2>3 DEF RunPhase
<1>7. CASE CapturePhase
  <2>1. CASE WritePatch
    <3>1. "RUN_DONE" \in files[cur] /\ "CAPTURE_DONE" \notin files[cur]
      BY <2>1 DEF WritePatch, InPhase, NextPhase
    <3> QED BY <2>1, <3>1 DEF WritePatch, InPhase
  <2>2. CASE WriteNormalized BY <2>2 DEF WriteNormalized
  <2>3. CASE MarkCapture BY <2>3 DEF MarkCapture
  <2> QED BY <1>7, <2>1, <2>2, <2>3 DEF CapturePhase
<1>8. CASE Mirror
  <2>1. CASE BackupUnreachable BY <2>1 DEF BackupUnreachable, AfterMirror
  <2>2. CASE MirrorBegin BY <2>2 DEF MirrorBegin
  <2>3. ASSUME NEW f \in File, CopyFile(f) PROVE Whole'
    BY <2>3 DEF CopyFile
  <2>4. CASE CopyFails BY <2>4 DEF CopyFails, AfterMirror
  <2>5. CASE MarkBackedUp BY <2>5 DEF MarkBackedUp, AfterMirror
  <2> QED BY <1>8, <2>1, <2>2, <2>3, <2>4, <2>5 DEF Mirror
<1>9. CASE Finish
  <2>1. CASE MarkDone
    <3>1. "CAPTURE_DONE" \in files[cur]
      BY <2>1 DEF MarkDone, InPhase, NextPhase
    <3> QED BY <2>1, <3>1 DEF MarkDone, InPhase
  <2>2. CASE WriteBoundaryProof BY <2>2 DEF WriteBoundaryProof
  <2>3. CASE ReleaseWorktree BY <2>3 DEF ReleaseWorktree
  <2>4. CASE ReleaseLease BY <2>4 DEF ReleaseLease
  <2> QED BY <1>9, <2>1, <2>2, <2>3, <2>4 DEF Finish
<1>10. CASE Sweep
  <2>1. ASSUME NEW a \in Attempts, SweepPass(a) PROVE Whole'
    BY <2>1 DEF SweepPass
  <2>2. ASSUME NEW a \in Attempts, SweepDelete(a) PROVE Whole'
    BY <2>2 DEF SweepDelete
  <2>3. CASE SweepRmdir BY <2>3 DEF SweepRmdir
  <2>4. CASE MarkCleaned BY <2>4 DEF MarkCleaned
  <2>5. CASE SweepEnd BY <2>5 DEF SweepEnd
  <2> QED BY <1>10, <2>1, <2>2, <2>3, <2>4, <2>5 DEF Sweep
<1>11. CASE Tail
  <2>1. CASE MirrorCompleted BY <2>1 DEF MirrorCompleted
  <2>2. ASSUME NEW a \in Attempts, MirrorNext(a) PROVE Whole'
    BY <2>2 DEF MirrorNext
  <2>3. CASE WriteSummary BY <2>3 DEF WriteSummary
  <2>4. CASE MirrorRunLevel BY <2>4 DEF MirrorRunLevel, ProcessExit
  <2> QED BY <1>11, <2>1, <2>2, <2>3, <2>4 DEF Tail
<1>12. CASE Trouble
  <2>1. CASE RamStaysAbove BY <2>1 DEF RamStaysAbove, Raise, ProcessExit
  <2>2. CASE CheckoutFails BY <2>2 DEF CheckoutFails, Raise, ProcessExit
  <2>3. CASE AgentFails BY <2>3 DEF AgentFails, Raise, ProcessExit
  <2>4. CASE EnqueueFails BY <2>4 DEF EnqueueFails, Raise, ProcessExit
  <2>5. CASE MirrorRaises BY <2>5 DEF MirrorRaises, Raise, ProcessExit
  <2>6. CASE Crash BY <2>6 DEF Crash, ProcessExit
  <2> QED BY <1>12, <2>1, <2>2, <2>3, <2>4, <2>5, <2>6 DEF Trouble
<1>13. CASE UNCHANGED vars BY <1>13 DEF vars
<1> QED
  BY <1>1, <1>2, <1>3, <1>4, <1>5, <1>6, <1>7, <1>8, <1>9, <1>10, <1>11,
     <1>12, <1>13 DEF Next, DriverStep

-----------------------------------------------------------------------------
(* The restore.                                                            *)

\* The files of the new pod are of their types, and its driver is not running.
LEMMA ReclaimType == ASSUME RestoreTypeOK, Reclaim PROVE TypeOK'
BY DEF RestoreTypeOK, TypeOK, Reclaim, ProcessExit, saved, Content, Label, Between

\* The driver of a new pod is at no place that implies anything.
LEMMA ReclaimControl == ASSUME RestoreTypeOK, Reclaim PROVE Control'
BY DEF Reclaim, ProcessExit, Control, Working, Clearing, Phases, Ending

\* What is settled on the new pod was whole in the snapshot.
LEMMA ReclaimWhole ==
  ASSUME RestoreTypeOK, SnapshotIsWhole, Reclaim PROVE Whole'
<1> SUFFICES ASSUME NEW a \in Attempts, a \notin torn
             PROVE  MarkersWhole(a)' /\ (cur' # a)
  BY DEF Whole, Settled, Reclaim, ProcessExit, RestoreTypeOK
<1>1. files'[a] = backup[a] /\ UNCHANGED <<backup, bver>>
  BY DEF Reclaim, saved, RestoreTypeOK, TypeOK
<1>2. \A c \in Content : c \in backup[a] => ver'[a][c] = bver[a][c]
  BY DEF Reclaim, RestoreTypeOK, TypeOK
<1>3. cur' # a BY LifecycleAssumption DEF Reclaim, ProcessExit
<1>4. CASE backup[a] = {} BY <1>1, <1>3, <1>4 DEF MarkersWhole
<1>5. CASE Durable \subseteq backup[a] /\ OneExecution(bver[a])
  <2>1. \A c \in Content : c \in backup[a] /\ ver'[a][c] = bver[a][c]
    BY <1>2, <1>5 DEF Durable, Artifact, Content
  <2>2. Durable \subseteq files'[a] /\ \A f \in Durable : Copied(a, f)'
    BY <1>1, <1>5, <2>1 DEF Copied
  <2>3. OneExecution(ver'[a]) BY <1>5, <2>1 DEF OneExecution, Content
  <2> QED BY <1>3, <2>2, <2>3 DEF MarkersWhole, Intact, OneExecution, Durable, PhaseMarker,
             Artifact, Content
<1> QED BY <1>4, <1>5 DEF SnapshotIsWhole, Durable

-----------------------------------------------------------------------------
(* The snapshot.                                                           *)

\* Only a copy changes the backup, and only that of the attempt it is of.
LEMMA SavedSteps ==
  ASSUME TypeOK, Next
  PROVE  \/ UNCHANGED saved
         \/ /\ pc = "copy" /\ pc' = "copy"
            /\ \A a \in Attempts \ {cur} : backup'[a] = backup[a] /\ bver'[a] = bver[a]
<1> USE DEF outcome, Stay, Mark
<1>1. ASSUME NEW f \in File, CopyFile(f)
      PROVE  /\ pc = "copy" /\ pc' = "copy"
             /\ \A a \in Attempts \ {cur} : backup'[a] = backup[a] /\ bver'[a] = bver[a]
  BY <1>1 DEF CopyFile, TypeOK
<1>2. CASE Mirror /\ ~\E f \in File : CopyFile(f)
  BY <1>2 DEF Mirror, BackupUnreachable, MirrorBegin, CopyFails, MarkBackedUp
<1>3. CASE Trouble
  BY <1>3 DEF Trouble, RamStaysAbove, CheckoutFails, AgentFails, EnqueueFails, MirrorRaises,
              Crash
<1>4. CASE Clear \/ Gate \/ SetupPhase \/ RunPhase
  BY <1>4 DEF Clear, ClearFile, ClearLease, ClearTreeBegin, ClearTreeEnd, Gate, SkipDone,
              RamBelowWatermark, RecoverLease, LeaseStillActive, AcquireLease, SetupPhase,
              SetupBegin, RemovePartialWorktree, Checkout, CheckoutRefused, MarkSetup,
              RunPhase, RunAgent, WriteEvents, MarkRun
<1>5. CASE CapturePhase \/ Finish \/ Sweep \/ Tail
  BY <1>5 DEF CapturePhase, WritePatch, WriteNormalized, MarkCapture, Finish, MarkDone,
              WriteBoundaryProof, ReleaseWorktree, ReleaseLease, Sweep, SweepPass,
              SweepDelete, SweepRmdir, MarkCleaned, SweepEnd, Tail, MirrorCompleted,
              MirrorNext, WriteSummary, MirrorRunLevel
<1>6. CASE \/ \E S \in SUBSET Attempts : \E F \in SUBSET S : Start(S, F)
           \/ \E a \in Attempts : PickAttempt(a)
  BY <1>6 DEF Start, PickAttempt
<1> QED BY <1>1, <1>2, <1>3, <1>4, <1>5, <1>6 DEF Next, DriverStep, Mirror

\* A copy of a settled attempt that got through all its files is whole.
LEMMA CopyWhole ==
  ASSUME TypeOK, Control, Whole, pc = "copy", copying = {}, cur \notin interrupted
  PROVE  Durable \subseteq backup[cur] /\ OneExecution(bver[cur])
<1>1. cur \in Attempts /\ Settled(cur) BY DEF TypeOK, Between, Settled
<1>2. \A f \in Durable : Copied(cur, f) BY <1>1 DEF Whole, PhaseWhole
<1>3. "DONE" \in files[cur] BY DEF Control, Ending
<1>4. OneExecution(ver[cur])
  BY <1>1, <1>3 DEF Whole, MarkersWhole, Intact, OneExecution, Content
<1> QED BY <1>2, <1>4 DEF Copied, OneExecution, Durable, Artifact, Content

\* An attempt counts as torn while it is copied, and until a copy got through.
LEMMA SnapshotStep ==
  ASSUME TypeOK, Control, Whole, SnapshotIsWhole, Next, Tearing PROVE SnapshotIsWhole'
<1> SUFFICES ASSUME NEW a \in Attempts, a \notin torn'
             PROVE  \/ backup'[a] = {}
                    \/ Durable \subseteq backup'[a] /\ OneExecution(bver'[a])
  BY DEF SnapshotIsWhole, Durable, OneExecution
<1>1. CASE a \in torn
  <2>1. pc = "copy" /\ pc' # "copy" /\ copying = {} /\ a = cur /\ cur \notin interrupted
    BY <1>1 DEF Tearing
  <2>2. UNCHANGED <<backup, bver>> BY <2>1, SavedSteps DEF saved
  <2> QED BY <2>1, <2>2, CopyWhole
<1>2. CASE a \notin torn
  <2>1. backup'[a] = backup[a] /\ bver'[a] = bver[a] BY SavedSteps DEF saved, Tearing
  <2> QED BY <1>2, <2>1 DEF SnapshotIsWhole, Durable
<1> QED BY <1>1, <1>2

\* Steps of the run loop, of a restore, and stuttering keep the invariant.
LEMMA RInvStep == RInv /\ [RestoreNext]_rvars => RInv'
<1> SUFFICES ASSUME RInv, [RestoreNext]_rvars PROVE RInv' OBVIOUS
<1> USE DEF RInv
<1>1. CASE Next /\ Tearing /\ UNCHANGED restores
  <2>1. TypeOK /\ [Next]_vars BY <1>1 DEF RestoreTypeOK
  <2>2. TypeOK' /\ Control' /\ Whole' BY <2>1, TypeStep, ControlStep, WholeStep
  <2>3. SnapshotIsWhole' BY <1>1, <2>1, SnapshotStep
  <2>4. torn' \subseteq Attempts
    BY <1>1 DEF Tearing, RestoreTypeOK, TypeOK, Between
  <2> QED BY <1>1, <2>2, <2>3, <2>4 DEF RestoreTypeOK
<1>2. CASE Reclaim
  <2>1. restores' \in Nat /\ torn' = torn /\ UNCHANGED <<backup, bver>>
    BY <1>2 DEF Reclaim, RestoreTypeOK, saved
  <2>2. RestoreTypeOK' BY <1>2, <2>1, ReclaimType DEF RestoreTypeOK
  <2>3. SnapshotIsWhole' BY <2>1 DEF SnapshotIsWhole, OneExecution
  <2> QED BY <1>2, <2>2, <2>3, ReclaimControl, ReclaimWhole
<1>3. CASE UNCHANGED rvars
  <2>1. TypeOK' /\ Control' /\ Whole'
    <3>1. TypeOK /\ [Next]_vars BY <1>3 DEF RestoreTypeOK, rvars
    <3> QED BY <3>1, TypeStep, ControlStep, WholeStep
  <2>2. SnapshotIsWhole'
    BY <1>3 DEF rvars, vars, outcome, saved, SnapshotIsWhole, OneExecution
  <2> QED BY <1>3, <2>1, <2>2 DEF RestoreTypeOK, rvars
<1> QED BY <1>1, <1>2, <1>3 DEF RestoreNext

\* The first pod starts with nothing on disk.
LEMMA RInvInit == RestoreInit => RInv
<1> SUFFICES ASSUME RestoreInit PROVE RInv OBVIOUS
<1> USE LifecycleAssumption DEF RestoreInit, Init
<1>1. TypeOK BY DEF TypeOK, NoContent, Label, Between, Content
<1>2. Control BY DEF Control, Working, Clearing, Phases, Ending
<1>3. Whole BY DEF Whole, Settled, MarkersWhole, PhaseWhole
<1>4. SnapshotIsWhole BY DEF SnapshotIsWhole
<1> QED BY <1>1, <1>2, <1>3, <1>4 DEF RInv, RestoreTypeOK

\* The invariant of run loop, snapshot and restore, from which the rest follows.
THEOREM RestoreInvariant == RestoreSpec => []RInv
BY RInvInit, RInvStep, PTL DEF RestoreSpec

-----------------------------------------------------------------------------

\* Every variable keeps its type, on the first pod and on those restored.
THEOREM RestoreTypeCorrect == RestoreSpec => []RestoreTypeOK
<1>1. RInv => RestoreTypeOK BY DEF RInv
<1> QED BY RestoreInvariant, <1>1, PTL

\* An attempt in the snapshot is whole and of one execution, unless its latest
\* copy was cut.
THEOREM SnapshotsWhole == RestoreSpec => []SnapshotIsWhole
<1>1. RInv => SnapshotIsWhole BY DEF RInv
<1> QED BY RestoreInvariant, <1>1, PTL

\* DONE means the artifacts of one execution, whatever pods the attempt came by.
THEOREM RestoredWhole == RestoreSpec => []RestoredIsWhole
<1>1. RInv => RestoredIsWhole
  <2> SUFFICES ASSUME RInv, NEW a \in Attempts, Settled(a), "DONE" \in files[a]
               PROVE  PhaseMarker \cup Artifact \subseteq files[a] /\ OneExecution(ver[a])
    BY DEF RestoredIsWhole
  <2>1. MarkersWhole(a) BY DEF RInv, Whole
  <2> QED BY <2>1 DEF MarkersWhole, Intact, OneExecution, PhaseMarker, Artifact, Content
<1> QED BY RestoreInvariant, <1>1, PTL

\* A pod that is lost takes no result with it that RSYNC_DONE was written for.
THEOREM SavedResultsSurvive == RestoreSpec => SavedSurvives
<1>1. RInv /\ [RestoreNext]_rvars
        => [\A a \in Attempts :
              Reclaim /\ Settled(a) /\ "RSYNC_DONE" \in files[a] =>
                /\ Artifact \cup {"DONE"} \subseteq files'[a]
                /\ ver'[a] = ver[a]]_rvars
  <2> SUFFICES ASSUME RInv, NEW a \in Attempts, Reclaim, Settled(a), "RSYNC_DONE" \in files[a]
               PROVE  Artifact \cup {"DONE"} \subseteq files'[a] /\ ver'[a] = ver[a]
    OBVIOUS
  <2>1. \A f \in Durable : Copied(a, f) BY DEF RInv, Whole, MarkersWhole
  <2>2. files'[a] = backup[a] BY DEF Reclaim
  <2>3. \A c \in Content : ver'[a][c] = ver[a][c]
    BY <2>1 DEF Reclaim, Copied, Durable, Content, Artifact
  <2>4. ver'[a] \in [Content -> Nat] /\ ver[a] \in [Content -> Nat]
    BY ReclaimType DEF RInv, RestoreTypeOK, TypeOK
  <2>5. ver'[a] = ver[a] BY <2>3, <2>4
  <2> QED BY <2>1, <2>2, <2>5 DEF Copied, Durable, PhaseMarker
<1> QED BY RestoreInvariant, <1>1, PTL DEF RestoreSpec, SavedSurvives
-----------------------------------------------------------------------------
(* Winding down on a restored pod.                                         *)

\* What InvocationWindsDown says, with restores: the files of a restored pod are
\* none that a run on that pod would have left, and yet a run that starts on them
\* comes closer to its end with every step; a pod that is lost ends its run.
PodWindsDown ==
  [][pc # "off" => StepsLeft \in Nat /\ StepsLeft' \in 0 .. StepsLeft - 1]_rvars

\* A restore leaves no phase under way.
LEMMA OpenRestored == ASSUME RestoreTypeOK, Open, [RestoreNext]_rvars PROVE Open'
<1>1. CASE Next
  BY <1>1, OpenStep DEF RestoreTypeOK
<1>2. CASE Reclaim BY <1>2 DEF Reclaim, ProcessExit, Open
<1>3. CASE UNCHANGED rvars
  BY <1>3, OpenStep DEF RestoreTypeOK, rvars
<1> QED BY <1>1, <1>2, <1>3 DEF RestoreNext

\* With a lost pod its run has nothing left to do.
LEMMA ReclaimEnds ==
  ASSUME Bounded, IsFiniteSet(Attempts), Reclaim, pc # "off"
  PROVE  StepsLeft \in Nat /\ StepsLeft' \in 0 .. StepsLeft - 1
<1>1. pc' = "off" /\ todo' = {} /\ stage' = "first" BY DEF Reclaim, ProcessExit
<1>2. Work' = 0 BY <1>1 DEF Work, Ending, Phases
<1>3. Most \in Nat BY Sizes DEF Most
<1>4. StepsLeft' = 0
  <2>1. Cardinality(todo') = 0 BY <1>1, FS_EmptySet
  <2>2. StepsLeft' = Cardinality(todo') * Most + Work' BY DEF StepsLeft, Most
  <2> QED BY <1>2, <1>3, <2>1, <2>2
<1>5. Cardinality(todo) \in Nat
  BY Sizes DEF Bounded, TypeOK
<1>6. Cardinality(todo) * Most \in Nat BY <1>3, <1>5
<1>7. Work \in Nat /\ Work > 0 BY <1>3 DEF Bounded
<1> QED BY <1>4, <1>6, <1>7 DEF StepsLeft

\* An invocation ends on every pod, first or restored.
THEOREM PodRunsEnd == ASSUME IsFiniteSet(Attempts) PROVE RestoreSpec => PodWindsDown
<1>1. RestoreInit => Open BY DEF RestoreInit, Init, Open
<1>2. RestoreSpec => []Open
  BY <1>1, OpenRestored, RestoreTypeCorrect, PTL DEF RestoreSpec
<1>3. RInv /\ Open => Bounded BY WorkBound DEF RInv, RestoreTypeOK, Bounded
<1>4. RestoreSpec => []Bounded BY <1>2, <1>3, RestoreInvariant, PTL
<1>5. Bounded /\ Bounded' /\ [RestoreNext]_rvars
        => [pc # "off" => StepsLeft \in Nat /\ StepsLeft' \in 0 .. StepsLeft - 1]_rvars
  BY StepDown, ReclaimEnds DEF RestoreNext
<1> QED BY <1>4, <1>5, PTL DEF RestoreSpec, PodWindsDown
=============================================================================
