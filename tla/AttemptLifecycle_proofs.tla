----------------------- MODULE AttemptLifecycle_proofs -----------------------
(***************************************************************************)
(* Proofs about the run loop, for any set of attempts and any bounds.      *)
(***************************************************************************)
EXTENDS AttemptLifecycle, FiniteSetTheorems, TLAPS

-----------------------------------------------------------------------------
(* The inductive invariant, in the parts the theorems use.                 *)

Clearing == {"clear", "cleartree"}
Phases   == {"recover", "acquire", "dispatch", "checkout", "setupmark",
             "running", "runmark", "capturing", "capturemark"}
Ending   == {"mirror", "copy", "proof", "release", "unlock"}

\* The driver is between picking a and letting it go.
Working(a) ==
  /\ cur = a /\ stage # "final"
  /\ pc \in Clearing \cup {"check"} \cup Phases \cup Ending

\* What the place in the program says of the attempt in hand.
Control ==
  /\ pc \in Clearing => cur \in force
  /\ pc = "cleartree" => files[cur] = {}
  /\ pc \in Phases => "DONE" \notin files[cur]
  /\ pc \in Ending => "DONE" \in files[cur]
  /\ \A a \in Attempts : Working(a) => a \notin todo
  /\ stage = "final" => /\ pc \in {"finalscan", "mirror", "copy", "runmirror"}
                        /\ todo = {}
                        /\ \A a \in scan : "DONE" \in files[a]
  /\ pc \in {"finalscan", "runmirror"} => stage = "final"

LeaseHeld ==
  pc \in (Phases \ {"recover", "acquire"}) \cup Ending /\ stage # "final" =>
    cur \in leased

\* A requested attempt is waiting, in hand, or finished.
Progress ==
  \A a \in ids : \/ a \in todo
                  \/ Working(a)
                  \/ ("DONE" \in files[a] /\ a \notin leased)

Current(a, c) == c \in files[a] /\ ver[a][c] = runs[a]

Copied(a, f) == f \in backup[a] /\ (f \in Content => bver[a][f] = ver[a][f])

\* What the markers on disk promise.
MarkersHold(a) ==
  /\ "SETUP_DONE" \in files[a] => "log" \in files[a]
  /\ "RUN_DONE" \in files[a] =>
       "SETUP_DONE" \in files[a] /\ Current(a, "events")
  /\ "CAPTURE_DONE" \in files[a] => /\ "RUN_DONE" \in files[a]
                                    /\ Current(a, "patch")
                                    /\ Current(a, "normalized")
  /\ "DONE" \in files[a] => "CAPTURE_DONE" \in files[a]
  /\ "RSYNC_DONE" \in files[a] => /\ "DONE" \in files[a]
                                  /\ \A f \in Artifact : Copied(a, f)

\* What a phase under way has achieved before its marker is written.
PhaseHolds(a) ==
  /\ pc \in {"checkout", "setupmark"} => "log" \in files[a]
  /\ pc \in {"running", "runmark"} => /\ "SETUP_DONE" \in files[a]
                                      /\ "RUN_DONE" \notin files[a]
  /\ pc = "runmark" => Current(a, "events")
  /\ pc \in {"capturing", "capturemark"} => /\ "RUN_DONE" \in files[a]
                                            /\ "CAPTURE_DONE" \notin files[a]
                                            /\ Current(a, "patch")
  /\ pc = "capturemark" => Current(a, "normalized")
  /\ pc = "copy" => \A f \in Artifact : f \in copying \/ Copied(a, f)

Results ==
  \A a \in Attempts :
    Settled(a) => MarkersHold(a) /\ (cur = a => PhaseHolds(a))

\* Each execution is charged to the kill, failure or forced run that made it
\* necessary; one that is still to come must not be charged already.
Charged == crashes + failures + forced

Credit ==
  \A a \in Attempts :
    /\ runs[a] <= 1 + Charged
    /\ /\ "RUN_DONE" \notin files[a]
       /\ ~(cur = a /\ pc \in {"running", "runmark"})
       => runs[a] <= Charged
    /\ a \in force /\ (a \in todo \/ (cur = a /\ pc = "clear"))
         => runs[a] <= Charged

\* The summary was written from the results that are on disk.
Counted ==
  pc = "runmirror" =>
    \A a \in Attempts :
      a \notin interrupted /\ "DONE" \in files[a] => summary[a] = runs[a]

IInv ==
  Control /\ LeaseHeld /\ Progress /\ Results /\ Credit /\ Counted

-----------------------------------------------------------------------------
\* Every step of the run loop keeps files, versions, leases and the driver's
\* memory within their types.
LEMMA TypeStep == ASSUME TypeOK, [Next]_vars PROVE TypeOK'
<1> USE DEF TypeOK, Label, Between, Goto, Create, ProcessExit, Raise, Stay,
            Mark, trees, disk, outcome, saved, memory, counts
<1>1. ASSUME NEW S \in SUBSET Attempts, NEW F \in SUBSET S, Start(S, F)
      PROVE  TypeOK'
  BY <1>1 DEF Start
<1>2. ASSUME NEW a \in Attempts, PickAttempt(a) PROVE TypeOK'
  BY <1>2 DEF PickAttempt
<1>3. CASE Clear
  <2>1. ASSUME NEW f \in File, ClearFile(f) PROVE TypeOK'
    BY <2>1 DEF ClearFile
  <2>2. CASE ClearLease BY <2>2 DEF ClearLease
  <2>3. CASE ClearTreeBegin BY <2>3 DEF ClearTreeBegin
  <2>4. CASE ClearTreeEnd BY <2>4 DEF ClearTreeEnd, File, Artifact
  <2> QED BY <1>3, <2>1, <2>2, <2>3, <2>4 DEF Clear
<1>4. CASE Gate
  <2>1. CASE SkipDone BY <2>1 DEF SkipDone
  <2>2. CASE RamBelowWatermark BY <2>2 DEF RamBelowWatermark
  <2>3. CASE RecoverLease BY <2>3 DEF RecoverLease, File, Artifact
  <2>4. CASE LeaseStillActive BY <2>4 DEF LeaseStillActive
  <2>5. CASE AcquireLease BY <2>5 DEF AcquireLease
  <2> QED BY <1>4, <2>1, <2>2, <2>3, <2>4, <2>5 DEF Gate
<1>5. CASE SetupPhase
  <2>1. CASE SetupBegin BY <2>1 DEF SetupBegin, InPhase, File, Artifact
  <2>2. CASE RemovePartialWorktree BY <2>2 DEF RemovePartialWorktree
  <2>3. CASE Checkout BY <2>3 DEF Checkout
  <2>4. CASE CheckoutRefused BY <2>4 DEF CheckoutRefused
  <2>5. CASE MarkSetup BY <2>5 DEF MarkSetup, File, PhaseMarker
  <2> QED BY <1>5, <2>1, <2>2, <2>3, <2>4, <2>5 DEF SetupPhase
<1>6. CASE RunPhase
  <2>1. CASE RunAgent BY <2>1 DEF RunAgent, InPhase, File, Artifact
  <2>2. CASE WriteEvents
    BY <2>2 DEF WriteEvents, InPhase, File, Artifact, Content
  <2>3. CASE MarkRun BY <2>3 DEF MarkRun, File, PhaseMarker
  <2> QED BY <1>6, <2>1, <2>2, <2>3 DEF RunPhase
<1>7. CASE CapturePhase
  <2>1. CASE WritePatch
    BY <2>1 DEF WritePatch, InPhase, File, Artifact, Content
  <2>2. CASE WriteNormalized
    BY <2>2 DEF WriteNormalized, File, Artifact, Content
  <2>3. CASE MarkCapture BY <2>3 DEF MarkCapture, File, PhaseMarker
  <2> QED BY <1>7, <2>1, <2>2, <2>3 DEF CapturePhase
<1>8. CASE Mirror
  <2>1. CASE BackupUnreachable
    BY <2>1 DEF BackupUnreachable, AfterMirror, File, Artifact
  <2>2. CASE MirrorBegin BY <2>2 DEF MirrorBegin
  <2>3. ASSUME NEW f \in File, CopyFile(f) PROVE TypeOK'
    BY <2>3 DEF CopyFile
  <2>4. CASE CopyFails BY <2>4 DEF CopyFails, AfterMirror, File, Artifact
  <2>5. CASE MarkBackedUp
    BY <2>5 DEF MarkBackedUp, AfterMirror, File, Artifact
  <2> QED BY <1>8, <2>1, <2>2, <2>3, <2>4, <2>5 DEF Mirror
<1>9. CASE Finish
  <2>1. CASE MarkDone
    BY <2>1 DEF MarkDone, InPhase, File, PhaseMarker, Artifact
  <2>2. CASE WriteBoundaryProof
    BY <2>2 DEF WriteBoundaryProof, File, Artifact
  <2>3. CASE ReleaseWorktree BY <2>3 DEF ReleaseWorktree
  <2>4. CASE ReleaseLease BY <2>4 DEF ReleaseLease
  <2> QED BY <1>9, <2>1, <2>2, <2>3, <2>4 DEF Finish
<1>10. CASE Sweep
  <2>1. ASSUME NEW a \in Attempts, SweepPass(a) PROVE TypeOK'
    BY <2>1 DEF SweepPass, File, Artifact
  <2>2. ASSUME NEW a \in Attempts, SweepDelete(a) PROVE TypeOK'
    BY <2>2 DEF SweepDelete
  <2>3. CASE SweepRmdir BY <2>3 DEF SweepRmdir, File, Artifact
  <2>4. CASE MarkCleaned BY <2>4 DEF MarkCleaned, File
  <2>5. CASE SweepEnd BY <2>5 DEF SweepEnd
  <2> QED BY <1>10, <2>1, <2>2, <2>3, <2>4, <2>5 DEF Sweep
<1>11. CASE Tail
  <2>1. CASE MirrorCompleted BY <2>1 DEF MirrorCompleted
  <2>2. ASSUME NEW a \in Attempts, MirrorNext(a) PROVE TypeOK'
    BY <2>2 DEF MirrorNext
  <2>3. CASE WriteSummary BY <2>3 DEF WriteSummary, Content
  <2>4. CASE MirrorRunLevel BY <2>4 DEF MirrorRunLevel
  <2> QED BY <1>11, <2>1, <2>2, <2>3, <2>4 DEF Tail
<1>12. CASE Trouble
  <2>1. CASE RamStaysAbove BY <2>1 DEF RamStaysAbove
  <2>2. CASE CheckoutFails BY <2>2 DEF CheckoutFails
  <2>3. CASE AgentFails BY <2>3 DEF AgentFails
  <2>4. CASE EnqueueFails BY <2>4 DEF EnqueueFails
  <2>5. CASE MirrorRaises BY <2>5 DEF MirrorRaises
  <2>6. CASE Crash BY <2>6 DEF Crash
  <2> QED BY <1>12, <2>1, <2>2, <2>3, <2>4, <2>5, <2>6 DEF Trouble
<1>13. CASE UNCHANGED vars BY <1>13 DEF vars
<1> QED
  BY <1>1, <1>2, <1>3, <1>4, <1>5, <1>6, <1>7, <1>8, <1>9, <1>10, <1>11,
     <1>12, <1>13 DEF Next, DriverStep

\* TypeOK is inductive.
THEOREM TypeCorrect == Spec => []TypeOK
<1>1. Init => TypeOK
  BY DEF Init, TypeOK, NoContent, Label, Between, Content
<1>2. QED BY <1>1, TypeStep, PTL DEF Spec

-----------------------------------------------------------------------------
(* The parts of the invariant, one lemma each.                             *)

\* Every step keeps Control: the place in the program and the markers of the
\* attempt in hand agree.
LEMMA ControlStep ==
  ASSUME TypeOK, Control, [Next]_vars PROVE Control'
<1> USE DEF TypeOK, Between, Control, Working, Clearing, Phases, Ending, Goto,
            Create, Stay, Mark, trees, disk, outcome, saved, memory, counts
<1>1. ASSUME NEW S \in SUBSET Attempts, NEW F \in SUBSET S, Start(S, F)
      PROVE  Control'
  BY <1>1 DEF Start
<1>2. ASSUME NEW a \in Attempts, PickAttempt(a) PROVE Control'
  BY <1>2 DEF PickAttempt
<1>3. CASE Clear
  <2>1. ASSUME NEW f \in File, ClearFile(f) PROVE Control'
    BY <2>1 DEF ClearFile
  <2>2. CASE ClearLease BY <2>2 DEF ClearLease
  <2>3. CASE ClearTreeBegin BY <2>3 DEF ClearTreeBegin
  <2>4. CASE ClearTreeEnd BY <2>4 DEF ClearTreeEnd
  <2> QED BY <1>3, <2>1, <2>2, <2>3, <2>4 DEF Clear
<1>4. CASE Gate
  BY <1>4 DEF Gate, SkipDone, RamBelowWatermark, RecoverLease, AcquireLease,
     LeaseStillActive, ProcessExit
<1>5. CASE SetupPhase
  BY <1>5 DEF SetupPhase, SetupBegin, RemovePartialWorktree, Checkout, InPhase,
     CheckoutRefused, MarkSetup, ProcessExit
<1>6. CASE RunPhase
  BY <1>6 DEF RunPhase, RunAgent, WriteEvents, MarkRun, InPhase
<1>7. CASE CapturePhase
  <2>1. CASE WritePatch BY <2>1 DEF WritePatch, InPhase
  <2>2. CASE WriteNormalized BY <2>2 DEF WriteNormalized
  <2>3. CASE MarkCapture BY <2>3 DEF MarkCapture
  <2> QED BY <1>7, <2>1, <2>2, <2>3 DEF CapturePhase
<1>8. CASE Mirror
  BY <1>8, SMTT(60) DEF Mirror, BackupUnreachable, MirrorBegin, CopyFile, CopyFails,
     MarkBackedUp, AfterMirror
<1>9. CASE Finish
  BY <1>9 DEF Finish, MarkDone, WriteBoundaryProof, ReleaseWorktree,
     ReleaseLease, InPhase
<1>10. CASE Sweep
  BY <1>10 DEF Sweep, SweepPass, SweepDelete, SweepRmdir, MarkCleaned, SweepEnd
<1>11. CASE Tail
  BY <1>11 DEF Tail, MirrorCompleted, MirrorNext, WriteSummary, MirrorRunLevel,
     ProcessExit
<1>12. CASE Trouble
  BY <1>12 DEF Trouble, RamStaysAbove, CheckoutFails, AgentFails, EnqueueFails,
     MirrorRaises, Crash, Raise, ProcessExit
<1>13. CASE UNCHANGED vars BY <1>13 DEF vars
<1> QED
  BY <1>1, <1>2, <1>3, <1>4, <1>5, <1>6, <1>7, <1>8, <1>9, <1>10, <1>11,
     <1>12, <1>13 DEF Next, DriverStep

\* Every step keeps LeaseHeld: the lease is taken before the first phase and
\* given back after the last mirror.
LEMMA LeaseStep ==
  ASSUME TypeOK, Control, LeaseHeld, [Next]_vars PROVE LeaseHeld'
<1> USE DEF TypeOK, Between, Control, LeaseHeld, Phases, Ending, Goto, Stay,
            Mark, trees, disk, outcome, saved, memory, counts
<1>1. ASSUME NEW S \in SUBSET Attempts, NEW F \in SUBSET S, Start(S, F)
      PROVE  LeaseHeld'
  BY <1>1 DEF Start
<1>2. ASSUME NEW a \in Attempts, PickAttempt(a) PROVE LeaseHeld'
  BY <1>2 DEF PickAttempt
<1>3. CASE Clear
  BY <1>3 DEF Clear, ClearFile, ClearLease, ClearTreeBegin, ClearTreeEnd
<1>4. CASE Gate
  BY <1>4 DEF Gate, SkipDone, RamBelowWatermark, RecoverLease, AcquireLease,
     LeaseStillActive, ProcessExit
<1>5. CASE SetupPhase
  BY <1>5 DEF SetupPhase, SetupBegin, RemovePartialWorktree, Checkout, InPhase,
     CheckoutRefused, MarkSetup, ProcessExit
<1>6. CASE RunPhase
  BY <1>6 DEF RunPhase, RunAgent, WriteEvents, MarkRun, InPhase
<1>7. CASE CapturePhase
  BY <1>7 DEF CapturePhase, WritePatch, WriteNormalized, MarkCapture, InPhase
<1>8. CASE Mirror
  BY <1>8 DEF Mirror, BackupUnreachable, MirrorBegin, CopyFile, CopyFails,
     MarkBackedUp, AfterMirror
<1>9. CASE Finish
  BY <1>9 DEF Finish, MarkDone, WriteBoundaryProof, ReleaseWorktree,
     ReleaseLease, InPhase
<1>10. CASE Sweep
  BY <1>10 DEF Sweep, SweepPass, SweepDelete, SweepRmdir, MarkCleaned, SweepEnd
<1>11. CASE Tail
  BY <1>11 DEF Tail, MirrorCompleted, MirrorNext, WriteSummary, MirrorRunLevel,
     ProcessExit
<1>12. CASE Trouble
  BY <1>12 DEF Trouble, RamStaysAbove, CheckoutFails, AgentFails, EnqueueFails,
     MirrorRaises, Crash, Raise, ProcessExit
<1>13. CASE UNCHANGED vars BY <1>13 DEF vars
<1> QED
  BY <1>1, <1>2, <1>3, <1>4, <1>5, <1>6, <1>7, <1>8, <1>9, <1>10, <1>11,
     <1>12, <1>13 DEF Next, DriverStep

\* Every step keeps Progress: run_attempts lets no requested attempt slip.
LEMMA ProgressStep ==
  ASSUME TypeOK, Control, Progress, [Next]_vars PROVE Progress'
<1> USE DEF TypeOK, Between, Control, Progress, Working, Clearing, Phases,
            Ending, Goto, Create, Stay, Mark, trees, disk, outcome, saved,
            memory, counts
<1>1. ASSUME NEW S \in SUBSET Attempts, NEW F \in SUBSET S, Start(S, F)
      PROVE  Progress'
  BY <1>1 DEF Start
<1>2. ASSUME NEW a \in Attempts, PickAttempt(a) PROVE Progress'
  BY <1>2 DEF PickAttempt
<1>3. CASE Clear
  BY <1>3 DEF Clear, ClearFile, ClearLease, ClearTreeBegin, ClearTreeEnd
<1>4. CASE Gate
  BY <1>4 DEF Gate, SkipDone, RamBelowWatermark, RecoverLease, AcquireLease,
     LeaseStillActive, ProcessExit
<1>5. CASE SetupPhase
  BY <1>5 DEF SetupPhase, SetupBegin, RemovePartialWorktree, Checkout, InPhase,
     CheckoutRefused, MarkSetup, ProcessExit
<1>6. CASE RunPhase
  BY <1>6 DEF RunPhase, RunAgent, WriteEvents, MarkRun, InPhase
<1>7. CASE CapturePhase
  BY <1>7 DEF CapturePhase, WritePatch, WriteNormalized, MarkCapture, InPhase
<1>8. CASE Mirror
  BY <1>8 DEF Mirror, BackupUnreachable, MirrorBegin, CopyFile, CopyFails,
     MarkBackedUp, AfterMirror
<1>9. CASE Finish
  BY <1>9 DEF Finish, MarkDone, WriteBoundaryProof, ReleaseWorktree,
     ReleaseLease, InPhase
<1>10. CASE Sweep
  <2>1. ASSUME NEW a \in Attempts, SweepPass(a) PROVE Progress' BY <2>1 DEF SweepPass
  <2>2. ASSUME NEW a \in Attempts, SweepDelete(a) PROVE Progress' BY <2>2 DEF SweepDelete
  <2>3. CASE SweepRmdir \/ MarkCleaned \/ SweepEnd
    BY <2>3 DEF SweepRmdir, MarkCleaned, SweepEnd
  <2> QED BY <1>10, <2>1, <2>2, <2>3 DEF Sweep
<1>11. CASE Tail
  BY <1>11 DEF Tail, MirrorCompleted, MirrorNext, WriteSummary, MirrorRunLevel,
     ProcessExit
<1>12. CASE Trouble
  BY <1>12 DEF Trouble, RamStaysAbove, CheckoutFails, AgentFails, EnqueueFails,
     MirrorRaises, Crash, Raise, ProcessExit
<1>13. CASE UNCHANGED vars BY <1>13 DEF vars
<1> QED
  BY <1>1, <1>2, <1>3, <1>4, <1>5, <1>6, <1>7, <1>8, <1>9, <1>10, <1>11,
     <1>12, <1>13 DEF Next, DriverStep

\* Every step keeps Credit: RUN is entered only without RUN_DONE, which only a
\* forced clear removes.
LEMMA CreditStep ==
  ASSUME TypeOK, Control, Credit, [Next]_vars PROVE Credit'
<1> USE DEF TypeOK, Between, Control, Working, Clearing, Phases, Ending,
            Credit, Charged, Goto, Create, Stay, Mark, trees, disk, outcome,
            saved, memory, counts
<1>1. ASSUME NEW S \in SUBSET Attempts, NEW F \in SUBSET S, Start(S, F)
      PROVE  Credit'
  BY <1>1 DEF Start
<1>2. ASSUME NEW a \in Attempts, PickAttempt(a) PROVE Credit'
  BY <1>2 DEF PickAttempt
<1>3. CASE Clear
  BY <1>3 DEF Clear, ClearFile, ClearLease, ClearTreeBegin, ClearTreeEnd
<1>4. CASE Gate
  BY <1>4 DEF Gate, SkipDone, RamBelowWatermark, RecoverLease, AcquireLease,
     LeaseStillActive, ProcessExit
<1>5. CASE SetupPhase
  <2>1. CASE SetupBegin BY <2>1 DEF SetupBegin, InPhase
  <2>2. CASE RemovePartialWorktree BY <2>2 DEF RemovePartialWorktree
  <2>3. CASE Checkout BY <2>3 DEF Checkout
  <2>4. CASE CheckoutRefused BY <2>4 DEF CheckoutRefused, ProcessExit
  <2>5. CASE MarkSetup BY <2>5 DEF MarkSetup
  <2> QED BY <1>5, <2>1, <2>2, <2>3, <2>4, <2>5 DEF SetupPhase
<1>6. CASE RunPhase
  <2>1. CASE RunAgent
    <3>1. "RUN_DONE" \notin files[cur] /\ cur \in Attempts /\ cur \notin todo
      BY <2>1 DEF RunAgent, InPhase, NextPhase
    <3> QED BY <2>1, <3>1 DEF RunAgent, InPhase
  <2>2. CASE WriteEvents BY <2>2 DEF WriteEvents
  <2>3. CASE MarkRun BY <2>3 DEF MarkRun
  <2> QED BY <1>6, <2>1, <2>2, <2>3 DEF RunPhase
<1>7. CASE CapturePhase
  <2>1. CASE WritePatch BY <2>1 DEF WritePatch, InPhase
  <2>2. CASE WriteNormalized BY <2>2 DEF WriteNormalized
  <2>3. CASE MarkCapture BY <2>3 DEF MarkCapture
  <2> QED BY <1>7, <2>1, <2>2, <2>3 DEF CapturePhase
<1>8. CASE Mirror
  BY <1>8 DEF Mirror, BackupUnreachable, MirrorBegin, CopyFile, CopyFails,
     MarkBackedUp, AfterMirror
<1>9. CASE Finish
  BY <1>9 DEF Finish, MarkDone, WriteBoundaryProof, ReleaseWorktree,
     ReleaseLease, InPhase
<1>10. CASE Sweep
  BY <1>10 DEF Sweep, SweepPass, SweepDelete, SweepRmdir, MarkCleaned, SweepEnd
<1>11. CASE Tail
  BY <1>11 DEF Tail, MirrorCompleted, MirrorNext, WriteSummary, MirrorRunLevel,
     ProcessExit
<1>12. CASE Trouble
  BY <1>12 DEF Trouble, RamStaysAbove, CheckoutFails, AgentFails, EnqueueFails,
     MirrorRaises, Crash, Raise, ProcessExit
<1>13. CASE UNCHANGED vars BY <1>13 DEF vars
<1> QED
  BY <1>1, <1>2, <1>3, <1>4, <1>5, <1>6, <1>7, <1>8, <1>9, <1>10, <1>11,
     <1>12, <1>13 DEF Next, DriverStep

\* Every step keeps Results: a marker is written only once what it promises is
\* on disk.
LEMMA ResultsStep ==
  ASSUME TypeOK, Control, Results, [Next]_vars PROVE Results'
<1> USE DEF TypeOK, Between, Control, Phases, Clearing, Ending, Results,
            Settled, MarkersHold, PhaseHolds, Current, Copied, Goto, Create,
            Stay, Mark, trees, disk, outcome, saved, memory, counts,
            PhaseMarker, Artifact, Content, File
<1>1. ASSUME NEW S \in SUBSET Attempts, NEW F \in SUBSET S, Start(S, F)
      PROVE  Results'
  BY <1>1 DEF Start
<1>2. ASSUME NEW a \in Attempts, PickAttempt(a) PROVE Results'
  BY <1>2 DEF PickAttempt
<1>3. CASE Clear
  <2>1. ASSUME NEW f \in File, ClearFile(f) PROVE Results'
    BY <2>1 DEF ClearFile
  <2>2. CASE ClearLease BY <2>2 DEF ClearLease
  <2>3. CASE ClearTreeBegin BY <2>3 DEF ClearTreeBegin
  <2>4. CASE ClearTreeEnd BY <2>4 DEF ClearTreeEnd
  <2> QED BY <1>3, <2>1, <2>2, <2>3, <2>4 DEF Clear
<1>4. CASE Gate
  <2>1. CASE SkipDone BY <2>1 DEF SkipDone
  <2>2. CASE RamBelowWatermark BY <2>2 DEF RamBelowWatermark
  <2>3. CASE RecoverLease BY <2>3 DEF RecoverLease
  <2>4. CASE LeaseStillActive BY <2>4 DEF LeaseStillActive, ProcessExit
  <2>5. CASE AcquireLease BY <2>5 DEF AcquireLease
  <2> QED BY <1>4, <2>1, <2>2, <2>3, <2>4, <2>5 DEF Gate
<1>5. CASE SetupPhase
  <2>1. CASE SetupBegin BY <2>1 DEF SetupBegin, InPhase
  <2>2. CASE RemovePartialWorktree BY <2>2 DEF RemovePartialWorktree
  <2>3. CASE Checkout BY <2>3 DEF Checkout
  <2>4. CASE CheckoutRefused BY <2>4 DEF CheckoutRefused, ProcessExit
  <2>5. CASE MarkSetup BY <2>5 DEF MarkSetup
  <2> QED BY <1>5, <2>1, <2>2, <2>3, <2>4, <2>5 DEF SetupPhase
<1>6. CASE RunPhase
  <2>1. CASE RunAgent
    <3>1. "SETUP_DONE" \in files[cur] /\ "RUN_DONE" \notin files[cur]
      BY <2>1 DEF RunAgent, InPhase, NextPhase
    <3> QED BY <2>1, <3>1 DEF RunAgent, InPhase
  <2>2. CASE WriteEvents BY <2>2 DEF WriteEvents
  <2>3. CASE MarkRun BY <2>3 DEF MarkRun
  <2> QED BY <1>6, <2>1, <2>2, <2>3 DEF RunPhase
<1>7. CASE CapturePhase
  <2>1. CASE WritePatch
    <3>1. "RUN_DONE" \in files[cur] /\ "CAPTURE_DONE" \notin files[cur]
      BY <2>1 DEF WritePatch, InPhase, NextPhase
    <3> QED BY <2>1, <3>1 DEF WritePatch, InPhase
  <2>2. CASE WriteNormalized BY <2>2 DEF WriteNormalized
  <2>3. CASE MarkCapture BY <2>3 DEF MarkCapture
  <2> QED BY <1>7, <2>1, <2>2, <2>3 DEF CapturePhase
<1>8. CASE Mirror
  <2>1. CASE BackupUnreachable BY <2>1 DEF BackupUnreachable, AfterMirror
  <2>2. CASE MirrorBegin BY <2>2 DEF MirrorBegin
  <2>3. ASSUME NEW f \in File, CopyFile(f) PROVE Results'
    BY <2>3 DEF CopyFile
  <2>4. CASE CopyFails BY <2>4 DEF CopyFails, AfterMirror
  <2>5. CASE MarkBackedUp BY <2>5 DEF MarkBackedUp, AfterMirror
  <2> QED BY <1>8, <2>1, <2>2, <2>3, <2>4, <2>5 DEF Mirror
<1>9. CASE Finish
  <2>1. CASE MarkDone
    <3>1. "CAPTURE_DONE" \in files[cur]
      BY <2>1 DEF MarkDone, InPhase, NextPhase
    <3> QED BY <2>1, <3>1 DEF MarkDone, InPhase
  <2>2. CASE WriteBoundaryProof BY <2>2 DEF WriteBoundaryProof
  <2>3. CASE ReleaseWorktree BY <2>3 DEF ReleaseWorktree
  <2>4. CASE ReleaseLease BY <2>4 DEF ReleaseLease
  <2> QED BY <1>9, <2>1, <2>2, <2>3, <2>4 DEF Finish
<1>10. CASE Sweep
  <2>1. ASSUME NEW a \in Attempts, SweepPass(a) PROVE Results'
    BY <2>1 DEF SweepPass
  <2>2. ASSUME NEW a \in Attempts, SweepDelete(a) PROVE Results'
    BY <2>2 DEF SweepDelete
  <2>3. CASE SweepRmdir BY <2>3 DEF SweepRmdir
  <2>4. CASE MarkCleaned BY <2>4 DEF MarkCleaned
  <2>5. CASE SweepEnd BY <2>5 DEF SweepEnd
  <2> QED BY <1>10, <2>1, <2>2, <2>3, <2>4, <2>5 DEF Sweep
<1>11. CASE Tail
  <2>1. CASE MirrorCompleted BY <2>1 DEF MirrorCompleted
  <2>2. ASSUME NEW a \in Attempts, MirrorNext(a) PROVE Results'
    BY <2>2 DEF MirrorNext
  <2>3. CASE WriteSummary BY <2>3 DEF WriteSummary
  <2>4. CASE MirrorRunLevel BY <2>4 DEF MirrorRunLevel, ProcessExit
  <2> QED BY <1>11, <2>1, <2>2, <2>3, <2>4 DEF Tail
<1>12. CASE Trouble
  <2>1. CASE RamStaysAbove BY <2>1 DEF RamStaysAbove, Raise, ProcessExit
  <2>2. CASE CheckoutFails BY <2>2 DEF CheckoutFails, Raise, ProcessExit
  <2>3. CASE AgentFails BY <2>3 DEF AgentFails, Raise, ProcessExit
  <2>4. CASE EnqueueFails BY <2>4 DEF EnqueueFails, Raise, ProcessExit
  <2>5. CASE MirrorRaises BY <2>5 DEF MirrorRaises, Raise, ProcessExit
  <2>6. CASE Crash BY <2>6 DEF Crash, ProcessExit
  <2> QED BY <1>12, <2>1, <2>2, <2>3, <2>4, <2>5, <2>6 DEF Trouble
<1>13. CASE UNCHANGED vars BY <1>13 DEF vars
<1> QED
  BY <1>1, <1>2, <1>3, <1>4, <1>5, <1>6, <1>7, <1>8, <1>9, <1>10, <1>11,
     <1>12, <1>13 DEF Next, DriverStep

\* Every step keeps Counted: write_summary reads what DONE attempts left.
LEMMA CountedStep ==
  ASSUME TypeOK, Control, Results, Counted, [Next]_vars PROVE Counted'
<1> USE DEF Counted, Goto, ProcessExit, Stay, Mark, trees, disk, outcome,
            memory, counts
<1>1. ASSUME NEW S \in SUBSET Attempts, NEW F \in SUBSET S, Start(S, F)
      PROVE  Counted'
  BY <1>1 DEF Start
<1>2. ASSUME NEW a \in Attempts, PickAttempt(a) PROVE Counted'
  BY <1>2 DEF PickAttempt
<1>3. CASE Clear
  BY <1>3 DEF Clear, ClearFile, ClearLease, ClearTreeBegin, ClearTreeEnd
<1>4. CASE Gate
  BY <1>4 DEF Gate, SkipDone, RamBelowWatermark, RecoverLease, AcquireLease,
     LeaseStillActive
<1>5. CASE SetupPhase
  BY <1>5 DEF SetupPhase, SetupBegin, RemovePartialWorktree, Checkout, InPhase,
     CheckoutRefused, MarkSetup
<1>6. CASE RunPhase
  BY <1>6 DEF RunPhase, RunAgent, WriteEvents, MarkRun, InPhase
<1>7. CASE CapturePhase
  BY <1>7 DEF CapturePhase, WritePatch, WriteNormalized, MarkCapture, InPhase
<1>8. CASE Mirror
  BY <1>8 DEF Mirror, BackupUnreachable, MirrorBegin, CopyFile, CopyFails,
     MarkBackedUp, AfterMirror
<1>9. CASE Finish
  BY <1>9 DEF Finish, MarkDone, WriteBoundaryProof, ReleaseWorktree,
     ReleaseLease, InPhase
<1>10. CASE Sweep
  BY <1>10 DEF Sweep, SweepPass, SweepDelete, SweepRmdir, MarkCleaned, SweepEnd
<1>11. CASE Tail
  <2>1. CASE WriteSummary
    <3>1. ASSUME NEW a \in Attempts, a \notin interrupted, "DONE" \in files[a]
          PROVE  Current(a, "normalized")
      BY <2>1, <3>1 DEF WriteSummary, Results, Settled, MarkersHold
    <3> QED BY <2>1, <3>1 DEF WriteSummary, Current
  <2>2. CASE Tail /\ ~WriteSummary
    BY <2>2 DEF Tail, MirrorCompleted, MirrorNext, MirrorRunLevel
  <2> QED BY <1>11, <2>1, <2>2
<1>12. CASE Trouble
  BY <1>12 DEF Trouble, RamStaysAbove, CheckoutFails, AgentFails, EnqueueFails,
     MirrorRaises, Crash, Raise
<1>13. CASE UNCHANGED vars BY <1>13 DEF vars
<1> QED
  BY <1>1, <1>2, <1>3, <1>4, <1>5, <1>6, <1>7, <1>8, <1>9, <1>10, <1>11,
     <1>12, <1>13 DEF Next, DriverStep

-----------------------------------------------------------------------------
(* The invariant, and what follows from it.                                *)

\* IInv is inductive relative to TypeOK: whatever the order of kills,
\* failures, forced reruns and sweeps, the markers on disk keep their promise.
THEOREM Inductive == Spec => []IInv
<1>1. Init => IInv
  BY LifecycleAssumption
  DEF Init, IInv, Control, LeaseHeld, Progress, Results, Credit, Counted,
      Working, Clearing, Phases, Ending, Settled, MarkersHold, PhaseHolds,
      Charged, NoContent
<1>2. TypeOK /\ IInv /\ [Next]_vars => IInv'
  BY ControlStep, LeaseStep, ProgressStep, ResultsStep, CreditStep, CountedStep
  DEF IInv
<1>3. QED BY <1>1, <1>2, TypeCorrect, PTL DEF Spec

\* A DONE marker means four artifacts of the last execution, for any number of
\* attempts, kills, failures and forced reruns.
THEOREM DoneTruthful == Spec => []DoneIsComplete
<1>1. IInv => DoneIsComplete
  BY DEF IInv, Results, MarkersHold, Current, DoneIsComplete, PhaseMarker,
         Artifact, Content
<1>2. QED BY <1>1, Inductive, PTL

\* An RSYNC_DONE marker means that the backup holds what is on disk.
THEOREM BackupTruthful == Spec => []SavedIsCurrent
<1>1. TypeOK /\ IInv => SavedIsCurrent
  <2> SUFFICES ASSUME Results, NEW a \in Attempts, Settled(a),
                      "RSYNC_DONE" \in files[a]
               PROVE  /\ Artifact \subseteq backup[a]
                      /\ \A c \in Content : bver[a][c] = ver[a][c]
    BY DEF IInv, SavedIsCurrent
  <2>1. \A f \in Artifact : Copied(a, f)
    BY DEF Results, MarkersHold
  <2> QED BY <2>1 DEF Copied, Artifact, Content
<1>2. QED BY <1>1, Inductive, TypeCorrect, PTL

\* The number of executions is bounded by the troubles that caused them.
THEOREM NoNeedlessRunsHolds == Spec => []NoNeedlessRuns
<1>1. TypeOK /\ IInv => NoNeedlessRuns
  BY DEF TypeOK, IInv, Credit, Charged, NoNeedlessRuns
<1>2. QED BY <1>1, Inductive, TypeCorrect, PTL

\* No phase runs without the attempt's lease in place.
THEOREM UnderLease == Spec => []WorksUnderLease
<1>1. TypeOK /\ IInv => WorksUnderLease
  BY DEF TypeOK, Label, IInv, Control, LeaseHeld, Phases, Ending,
         WorksUnderLease
<1>2. QED BY <1>1, Inductive, TypeCorrect, PTL

\* The end of run_attempts is reached only with every requested attempt DONE,
\* unleased and counted in its last version.
THEOREM FinishedComplete == Spec => []FinishedRunIsComplete
<1>1. TypeOK /\ IInv => FinishedRunIsComplete
  <2> SUFFICES ASSUME TypeOK, IInv, pc = "runmirror", NEW a \in ids
               PROVE  /\ "DONE" \in files[a] /\ a \notin leased
                      /\ a \notin interrupted => summary[a] = runs[a]
    BY DEF FinishedRunIsComplete
  <2>1. a \in Attempts /\ a \notin todo /\ ~Working(a)
    BY DEF TypeOK, IInv, Control, Working
  <2> QED BY <2>1 DEF IInv, Progress, Counted
<1>2. QED BY <1>1, Inductive, TypeCorrect, PTL

\* The sweep deletes nothing whose results are not saved.
THEOREM SweepSafe == Spec => SweepSparesUnsaved
<1>1. TypeOK /\ IInv /\ [Next]_vars
        => [\A a \in Attempts :
              SweptNow(a) /\ Settled(a) => ResultsSaved(a)]_vars
  <2> SUFFICES ASSUME TypeOK, IInv, [Next]_vars, NEW a \in Attempts,
                      SweptNow(a), Settled(a)
               PROVE  ResultsSaved(a)
    OBVIOUS
  <2>1. SweepDelete(a)
    <3> USE DEF SweptNow, Stay, Mark, trees, disk, outcome, counts, memory
    <3>1. CASE Sweep
      BY <3>1 DEF Sweep, SweepPass, SweepDelete, SweepRmdir, MarkCleaned,
         SweepEnd, TypeOK
    <3>2. CASE Trouble
      BY <3>2 DEF Trouble, RamStaysAbove, CheckoutFails, AgentFails,
         EnqueueFails, MirrorRaises, Crash
    <3>3. CASE UNCHANGED vars BY <3>3 DEF vars
    <3>4. CASE Next /\ ~Sweep /\ ~Trouble
      BY <3>4 DEF Next, DriverStep, Start, PickAttempt, Clear, ClearFile,
         ClearLease, ClearTreeBegin, ClearTreeEnd, Gate, SkipDone,
         RamBelowWatermark, RecoverLease, LeaseStillActive, AcquireLease,
         SetupPhase, SetupBegin, RemovePartialWorktree, Checkout,
         CheckoutRefused, MarkSetup, InPhase, RunPhase, RunAgent, WriteEvents,
         MarkRun, CapturePhase, WritePatch, WriteNormalized, MarkCapture,
         Mirror, BackupUnreachable, MirrorBegin, CopyFile, CopyFails,
         MarkBackedUp, Finish, MarkDone, WriteBoundaryProof, ReleaseWorktree,
         ReleaseLease, Tail, MirrorCompleted, MirrorNext, WriteSummary,
         MirrorRunLevel
    <3> QED BY <3>1, <3>2, <3>3, <3>4
  <2>2. "RSYNC_DONE" \in files[a]
    BY <2>1 DEF SweepDelete, Sweepable
  <2>3. \A f \in Artifact : Copied(a, f)
    BY <2>2 DEF IInv, Results, MarkersHold
  <2>4. Artifact \cup {"DONE"} \subseteq files[a]
    BY <2>2 DEF IInv, Results, MarkersHold, Current, Artifact
  <2> QED BY <2>3, <2>4 DEF ResultsSaved, Copied, Artifact, Content
<1>2. QED BY <1>1, Inductive, TypeCorrect, PTL DEF Spec, SweepSparesUnsaved

\* A DONE attempt that is not forced keeps its files, its results and its
\* count of executions.
THEOREM DoneFinal == Spec => DoneIsFinal
<1>1. TypeOK /\ IInv /\ [Next]_vars
        => [\A a \in Attempts :
              "DONE" \in files[a] /\ a \notin force => Kept(a)]_vars
  <2> SUFFICES ASSUME TypeOK, Control, [Next]_vars, NEW a \in Attempts,
                      "DONE" \in files[a], a \notin force
               PROVE  Kept(a)
    BY DEF IInv
  <2> USE DEF Kept, TypeOK, Between, Control, Clearing, Phases, Goto, Create,
              Stay, Mark, trees, disk, outcome, saved, memory, counts
  <2>1. ASSUME NEW S \in SUBSET Attempts, NEW F \in SUBSET S, Start(S, F)
        PROVE  Kept(a)
    BY <2>1 DEF Start
  <2>2. ASSUME NEW b \in Attempts, PickAttempt(b) PROVE Kept(a)
    BY <2>2 DEF PickAttempt
  <2>3. CASE Clear
    <3>1. cur # a BY <2>3 DEF Clear, ClearFile, ClearLease, ClearTreeBegin, ClearTreeEnd
    <3>2. ASSUME NEW f \in File, ClearFile(f) PROVE Kept(a) BY <3>1, <3>2 DEF ClearFile
    <3>3. CASE ClearLease \/ ClearTreeBegin \/ ClearTreeEnd
      BY <3>1, <3>3 DEF ClearLease, ClearTreeBegin, ClearTreeEnd
    <3> QED BY <2>3, <3>2, <3>3 DEF Clear
  <2>4. CASE Gate
    BY <2>4 DEF Gate, SkipDone, RamBelowWatermark, RecoverLease, AcquireLease,
       LeaseStillActive
  <2>5. CASE SetupPhase
    BY <2>5 DEF SetupPhase, SetupBegin, RemovePartialWorktree, Checkout,
       InPhase, CheckoutRefused, MarkSetup
  <2>6. CASE RunPhase
    BY <2>6 DEF RunPhase, RunAgent, WriteEvents, MarkRun, InPhase
  <2>7. CASE CapturePhase
    BY <2>7 DEF CapturePhase, WritePatch, WriteNormalized, MarkCapture, InPhase
  <2>8. CASE Mirror
    BY <2>8 DEF Mirror, BackupUnreachable, MirrorBegin, CopyFile, CopyFails,
       MarkBackedUp
  <2>9. CASE Finish
    BY <2>9 DEF Finish, MarkDone, WriteBoundaryProof, ReleaseWorktree,
       ReleaseLease, InPhase
  <2>10. CASE Sweep
    BY <2>10 DEF Sweep, SweepPass, SweepDelete, SweepRmdir, MarkCleaned,
       SweepEnd
  <2>11. CASE Tail
    BY <2>11 DEF Tail, MirrorCompleted, MirrorNext, WriteSummary,
       MirrorRunLevel
  <2>12. CASE Trouble
    BY <2>12 DEF Trouble, RamStaysAbove, CheckoutFails, AgentFails,
       EnqueueFails, MirrorRaises, Crash
  <2>13. CASE UNCHANGED vars BY <2>13 DEF vars
  <2> QED
    BY <2>1, <2>2, <2>3, <2>4, <2>5, <2>6, <2>7, <2>8, <2>9, <2>10, <2>11,
       <2>12, <2>13 DEF Next, DriverStep
<1>2. QED BY <1>1, Inductive, TypeCorrect, PTL DEF Spec, DoneIsFinal

-----------------------------------------------------------------------------
(* An invocation ends: what it still has to do, as a number of steps.      *)

\* Markers of phases an attempt has still to go through.
Missing(a) == Cardinality(PhaseMarker \ files[a])

\* Steps of an invocation after its last attempt, from the mirror in hand.
TailWork ==
  CASE pc = "mirror"    -> 20 * Cardinality(scan) + 17
    [] pc = "copy"      -> 20 * Cardinality(scan) + 3 + Cardinality(copying)
    [] pc = "finalscan" -> 20 * Cardinality(scan) + 2
    [] OTHER            -> 1

\* Steps between the DONE marker of an attempt and the release of its lease.
FinishWork ==
  CASE pc = "mirror" /\ stage = "first" -> 36
    [] pc = "copy" /\ stage = "first"   -> 18 + Cardinality(copying)
    [] pc = "proof"                     -> 17
    [] pc = "mirror" /\ stage # "first" -> 16
    [] pc = "copy" /\ stage # "first"   -> 3 + Cardinality(copying)
    [] pc = "release"                   -> 2
    [] OTHER                            -> 1

\* Steps of the phases an attempt has still to go through.
PhaseWork ==
  10 * Missing(cur) -
    CASE pc = "dispatch" -> 0
      [] pc = "checkout" -> IF worktree[cur] = "absent" THEN 3 ELSE 2
      [] pc \in {"running", "capturing"} -> 4
      [] OTHER -> 5

\* Steps before the first phase.
GateWork ==
  CASE pc = "clear"     -> 6 + Cardinality(files[cur])
    [] pc = "cleartree" -> IF worktree[cur] \in {"fresh", "used"} THEN 5 ELSE 4
    [] pc = "check"     -> 3
    [] pc = "recover"   -> 2
    [] OTHER            -> 1

\* Steps of the sweep, which tries every attempt of the run root once.
SweepWork ==
  4 * Cardinality(scan) +
    CASE pc = "deleting" -> 4
      [] pc = "cleanmark" -> 3
      [] OTHER -> 1

\* Steps with the attempt in hand, and of all that comes before the next one is
\* picked: the sweep waits behind the release, the tail behind the sweep.
Work ==
  LET n == Cardinality(Attempts)
  IN IF stage = "final" THEN TailWork
     ELSE CASE pc = "off" -> 0
            [] pc = "pick" -> 20 * n + 3
            [] pc \in {"sweep", "deleting", "cleanmark"} -> 20 * n + 3 + SweepWork
            [] pc \in Ending -> 24 * n + 4 + FinishWork
            [] pc \in Phases \ {"recover", "acquire"} -> 24 * n + 40 + PhaseWork
            [] OTHER -> 24 * n + 80 + GateWork

Most == 24 * Cardinality(Attempts) + 100

StepsLeft == Cardinality(todo) * Most + Work

\* Whatever happens to it, an invocation comes closer to its end with every
\* step: no wait, no retry, no pass of the sweep and no mirror starts over.
InvocationWindsDown ==
  [][pc # "off" => StepsLeft \in Nat /\ StepsLeft' \in 0 .. StepsLeft - 1]_vars

\* Eleven names, four of them phase markers.
LEMMA FileCounts ==
  /\ IsFiniteSet(File) /\ Cardinality(File) = 11
  /\ IsFiniteSet(PhaseMarker) /\ Cardinality(PhaseMarker) = 4
<1> DEFINE M1 == {"SETUP_DONE"}
           M2 == M1 \cup {"RUN_DONE"}
           M3 == M2 \cup {"CAPTURE_DONE"}
           A1 == PhaseMarker \cup {"patch"}
           A2 == A1 \cup {"normalized"}
           A3 == A2 \cup {"log"}
           A4 == A3 \cup {"events"}
           A5 == A4 \cup {"proof"}
           A6 == A5 \cup {"RSYNC_DONE"}
<1>1. IsFiniteSet(M1) /\ Cardinality(M1) = 1 BY FS_Singleton
<1>2. IsFiniteSet(M2) /\ Cardinality(M2) = 2 BY <1>1, FS_AddElement
<1>3. IsFiniteSet(M3) /\ Cardinality(M3) = 3 BY <1>2, FS_AddElement
<1>4. PhaseMarker = M3 \cup {"DONE"} BY DEF PhaseMarker
<1>5. IsFiniteSet(PhaseMarker) /\ Cardinality(PhaseMarker) = 4
  BY <1>3, <1>4, FS_AddElement
<1>6. IsFiniteSet(A1) /\ Cardinality(A1) = 5 BY <1>5, FS_AddElement DEF PhaseMarker
<1>7. IsFiniteSet(A2) /\ Cardinality(A2) = 6 BY <1>6, FS_AddElement DEF PhaseMarker
<1>8. IsFiniteSet(A3) /\ Cardinality(A3) = 7 BY <1>7, FS_AddElement DEF PhaseMarker
<1>9. IsFiniteSet(A4) /\ Cardinality(A4) = 8 BY <1>8, FS_AddElement DEF PhaseMarker
<1>10. IsFiniteSet(A5) /\ Cardinality(A5) = 9 BY <1>9, FS_AddElement DEF PhaseMarker
<1>11. IsFiniteSet(A6) /\ Cardinality(A6) = 10 BY <1>10, FS_AddElement DEF PhaseMarker
<1>12. File = A6 \cup {"WORKTREE_CLEANED"} BY DEF File, Artifact
<1>13. "WORKTREE_CLEANED" \notin A6 BY DEF PhaseMarker
<1> HIDE DEF A6
<1>14. IsFiniteSet(File) /\ Cardinality(File) = 11 BY <1>11, <1>12, <1>13, FS_AddElement
<1> QED BY <1>5, <1>14

\* How much there can be of what the driver walks through.
LEMMA Sizes ==
  ASSUME IsFiniteSet(Attempts)
  PROVE  /\ Cardinality(Attempts) \in Nat
         /\ \A S \in SUBSET Attempts :
              IsFiniteSet(S) /\ Cardinality(S) \in 0 .. Cardinality(Attempts)
         /\ \A S \in SUBSET File : IsFiniteSet(S) /\ Cardinality(S) \in 0 .. 11
         /\ \A S : Cardinality(PhaseMarker \ S) \in 0 .. 4
<1>1. \A S \in SUBSET Attempts :
        IsFiniteSet(S) /\ Cardinality(S) \in Nat /\ Cardinality(S) <= Cardinality(Attempts)
  BY FS_Subset, FS_CardinalityType
<1>2. \A S \in SUBSET File :
        IsFiniteSet(S) /\ Cardinality(S) \in Nat /\ Cardinality(S) <= 11
  BY FileCounts, FS_Subset, FS_CardinalityType
<1>3. \A S \in SUBSET PhaseMarker : Cardinality(S) \in Nat /\ Cardinality(S) <= 4
  BY FileCounts, FS_Subset, FS_CardinalityType
<1>4. Cardinality(Attempts) \in Nat BY FS_CardinalityType
<1>5. \A S \in SUBSET Attempts :
        IsFiniteSet(S) /\ Cardinality(S) \in 0 .. Cardinality(Attempts)
  BY <1>1, <1>4
<1>6. \A S \in SUBSET File : IsFiniteSet(S) /\ Cardinality(S) \in 0 .. 11 BY <1>2
<1>7. ASSUME NEW S PROVE Cardinality(PhaseMarker \ S) \in 0 .. 4
  <2>1. PhaseMarker \ S \in SUBSET PhaseMarker OBVIOUS
  <2> QED BY <1>3, <2>1
<1> QED BY <1>4, <1>5, <1>6, <1>7

\* The marker of a phase under way is not on disk.
Open ==
  /\ pc \in {"checkout", "setupmark"} => "SETUP_DONE" \notin files[cur]
  /\ pc \in {"running", "runmark"} => "RUN_DONE" \notin files[cur]
  /\ pc \in {"capturing", "capturemark"} => "CAPTURE_DONE" \notin files[cur]

\* Every step keeps Open: a phase starts for want of its marker and touches no
\* other.
LEMMA OpenStep == ASSUME TypeOK, Open, [Next]_vars PROVE Open'
<1> USE DEF TypeOK, Between, Open, Goto, Create, Stay, Mark, trees, disk, outcome, saved,
            memory, counts
<1>1. ASSUME NEW S \in SUBSET Attempts, NEW F \in SUBSET S, Start(S, F) PROVE Open'
  BY <1>1 DEF Start
<1>2. ASSUME NEW a \in Attempts, PickAttempt(a) PROVE Open'
  BY <1>2 DEF PickAttempt
<1>3. CASE Clear
  BY <1>3 DEF Clear, ClearFile, ClearLease, ClearTreeBegin, ClearTreeEnd
<1>4. CASE Gate
  BY <1>4 DEF Gate, SkipDone, RamBelowWatermark, RecoverLease, LeaseStillActive,
     AcquireLease, ProcessExit
<1>5. CASE SetupPhase
  BY <1>5 DEF SetupPhase, SetupBegin, RemovePartialWorktree, Checkout, CheckoutRefused,
     MarkSetup, InPhase, NextPhase, ProcessExit
<1>6. CASE RunPhase
  BY <1>6 DEF RunPhase, RunAgent, WriteEvents, MarkRun, InPhase, NextPhase
<1>7. CASE CapturePhase
  <2>1. CASE WritePatch BY <2>1 DEF WritePatch, InPhase, NextPhase
  <2>2. CASE WriteNormalized BY <2>2 DEF WriteNormalized
  <2>3. CASE MarkCapture BY <2>3 DEF MarkCapture
  <2> QED BY <1>7, <2>1, <2>2, <2>3 DEF CapturePhase
<1>8. CASE Mirror
  BY <1>8 DEF Mirror, BackupUnreachable, MirrorBegin, CopyFile, CopyFails, MarkBackedUp,
     AfterMirror
<1>9. CASE Finish
  BY <1>9 DEF Finish, MarkDone, WriteBoundaryProof, ReleaseWorktree, ReleaseLease, InPhase
<1>10. CASE Sweep
  BY <1>10 DEF Sweep, SweepPass, SweepDelete, SweepRmdir, MarkCleaned, SweepEnd
<1>11. CASE Tail
  BY <1>11 DEF Tail, MirrorCompleted, MirrorNext, WriteSummary, MirrorRunLevel, ProcessExit
<1>12. CASE Trouble
  BY <1>12 DEF Trouble, RamStaysAbove, CheckoutFails, AgentFails, EnqueueFails,
     MirrorRaises, Crash, Raise, ProcessExit
<1>13. CASE UNCHANGED vars BY <1>13 DEF vars
<1> QED
  BY <1>1, <1>2, <1>3, <1>4, <1>5, <1>6, <1>7, <1>8, <1>9, <1>10, <1>11, <1>12, <1>13
     DEF Next, DriverStep


\* One element fewer is one step fewer.
LEMMA OneLess ==
  ASSUME NEW S, IsFiniteSet(S), NEW x \in S
  PROVE  Cardinality(S \ {x}) = Cardinality(S) - 1
BY FS_RemoveElement

\* A marker that is written is one that is missing no more.
LEMMA OneMarkerLess ==
  ASSUME NEW a, NEW m \in PhaseMarker, m \notin files[a], files'[a] = files[a] \cup {m}
  PROVE  Missing(a)' = Missing(a) - 1
<1>1. PhaseMarker \ files'[a] = (PhaseMarker \ files[a]) \ {m} OBVIOUS
<1>2. IsFiniteSet(PhaseMarker \ files[a]) BY FileCounts, FS_Subset
<1> QED BY <1>1, <1>2, OneLess DEF Missing

\* Short of taking the next attempt and of leaving, a step of the driver does
\* some of the work that is left for the attempt in hand or for the tail.
LEMMA WorkStep ==
  ASSUME TypeOK, TypeOK', Control, Open, IsFiniteSet(Attempts), DriverStep,
         pc' # "off", \A a \in Attempts : ~PickAttempt(a)
  PROVE  todo' = todo /\ Work' < Work
<1> USE DEF Between, Goto, Create, Stay, Mark, trees, disk, outcome, saved, memory,
            counts, Ending, Phases
<1>1. /\ Cardinality(Attempts) \in Nat
      /\ Cardinality(scan) \in 0 .. Cardinality(Attempts)
      /\ Cardinality(scan') \in 0 .. Cardinality(Attempts)
      /\ Cardinality(copying) \in 0 .. 11 /\ Cardinality(copying') \in 0 .. 11
  <2>1. /\ scan \in SUBSET Attempts /\ scan' \in SUBSET Attempts
        /\ copying \in SUBSET File /\ copying' \in SUBSET File
    BY DEF TypeOK
  <2> QED BY <2>1, Sizes
<1>2. \A a \in Attempts : /\ Cardinality(files[a]) \in 0 .. 11
                          /\ Cardinality(files'[a]) \in 0 .. 11
                          /\ Missing(a) \in 0 .. 4 /\ Missing(a)' \in 0 .. 4
  <2>1. \A a \in Attempts : files[a] \in SUBSET File /\ files'[a] \in SUBSET File
    BY DEF TypeOK
  <2> QED BY <2>1, Sizes DEF Missing
<1>3. CASE Clear
  <2> USE <1>1, <1>2 DEF Work, GateWork, TypeOK, Control
  <2>1. ASSUME NEW f \in File, ClearFile(f) PROVE todo' = todo /\ Work' < Work
    <3>1. /\ pc = "clear" /\ pc' = "clear" /\ cur \in Attempts /\ cur' = cur /\ todo' = todo
          /\ stage' = stage /\ files'[cur] = files[cur] \ {f} /\ f \in files[cur]
      BY <2>1 DEF ClearFile, FirstBy
    <3>2. Cardinality(files'[cur]) = Cardinality(files[cur]) - 1
      <4>1. files[cur] \in SUBSET File BY <3>1
      <4> QED BY <3>1, <4>1, Sizes, OneLess
    <3>3. stage # "final" BY <3>1
    <3>4. Cardinality(files[cur]) \in 0 .. 11 BY <3>1
    <3> HIDE DEF TypeOK, Control
    <3> QED BY <3>1, <3>2, <3>3, <3>4
  <2>2. CASE ClearLease
    <3>1. /\ pc = "clear" /\ pc' = "cleartree" /\ cur \in Attempts /\ todo' = todo
          /\ cur' = cur /\ stage' = stage /\ stage # "final"
      BY <2>2 DEF ClearLease
    <3>2. Cardinality(files[cur]) \in 0 .. 11 BY <3>1
    <3> QED BY <3>1, <3>2
  <2>3. CASE ClearTreeBegin
    <3>1. /\ pc = "cleartree" /\ pc' = "cleartree" /\ cur \in Attempts /\ todo' = todo
          /\ cur' = cur /\ stage' = stage /\ stage # "final"
          /\ worktree[cur] \in {"fresh", "used"} /\ worktree'[cur] = "torn"
      BY <2>3 DEF ClearTreeBegin
    <3> QED BY <3>1
  <2>4. CASE ClearTreeEnd
    <3>1. /\ pc = "cleartree" /\ pc' = "check" /\ cur \in Attempts /\ todo' = todo
          /\ cur' = cur /\ stage' = stage /\ stage # "final"
      BY <2>4 DEF ClearTreeEnd
    <3> QED BY <3>1
  <2> QED BY <1>3, <2>1, <2>2, <2>3, <2>4 DEF Clear
<1>4. CASE Gate
  <2> USE <1>1, <1>2 DEF Work, GateWork, PhaseWork, TypeOK, Control
  <2>1. CASE SkipDone BY <2>1 DEF SkipDone
  <2>2. CASE RamBelowWatermark BY <2>2 DEF RamBelowWatermark
  <2>3. CASE RecoverLease BY <2>3 DEF RecoverLease
  <2>4. CASE AcquireLease BY <2>4, SMTT(30) DEF AcquireLease
  <2> QED BY <1>4, <2>1, <2>2, <2>3, <2>4 DEF Gate, LeaseStillActive, ProcessExit
<1>5. CASE SetupPhase
  <2> USE <1>1 DEF Work, PhaseWork, TypeOK, Control
  <2>1. CASE SetupBegin
    <3>1. /\ pc = "dispatch" /\ pc' \in {"checkout", "setupmark"} /\ cur \in Attempts /\ cur' = cur
          /\ stage' = stage /\ stage # "final" /\ todo' = todo
          /\ PhaseMarker \ files'[cur] = PhaseMarker \ files[cur]
      BY <2>1 DEF SetupBegin, InPhase, PhaseMarker
    <3>2. Missing(cur)' = Missing(cur) BY <3>1 DEF Missing
    <3>3. Missing(cur) \in 0 .. 4 BY <3>1, <1>2
    <3> QED BY <3>1, <3>2, <3>3
  <2>2. CASE RemovePartialWorktree
    <3>1. /\ pc = "checkout" /\ pc' = "checkout" /\ cur \in Attempts /\ cur' = cur
          /\ stage' = stage /\ stage # "final" /\ todo' = todo
          /\ worktree[cur] # "absent" /\ worktree'[cur] = "absent"
          /\ PhaseMarker \ files'[cur] = PhaseMarker \ files[cur]
      BY <2>2 DEF RemovePartialWorktree, PhaseMarker
    <3>2. Missing(cur)' = Missing(cur) BY <3>1 DEF Missing
    <3>3. Missing(cur) \in 0 .. 4 BY <3>1, <1>2
    <3> QED BY <3>1, <3>2, <3>3
  <2>3. CASE Checkout
    <3>1. /\ pc = "checkout" /\ pc' = "setupmark" /\ cur \in Attempts /\ cur' = cur
          /\ stage' = stage /\ stage # "final" /\ todo' = todo
          /\ PhaseMarker \ files'[cur] = PhaseMarker \ files[cur]
      BY <2>3 DEF Checkout, PhaseMarker
    <3>2. Missing(cur)' = Missing(cur) BY <3>1 DEF Missing
    <3>3. Missing(cur) \in 0 .. 4 BY <3>1, <1>2
    <3> QED BY <3>1, <3>2, <3>3
  <2>4. CASE MarkSetup
    <3>1. /\ pc = "setupmark" /\ pc' = "dispatch" /\ cur \in Attempts /\ cur' = cur
          /\ stage' = stage /\ stage # "final" /\ todo' = todo
          /\ files'[cur] = files[cur] \cup {"SETUP_DONE"} /\ "SETUP_DONE" \notin files[cur]
      BY <2>4 DEF MarkSetup, Open
    <3>2. Missing(cur)' = Missing(cur) - 1 BY <3>1, OneMarkerLess DEF PhaseMarker
    <3>3. Missing(cur) \in 0 .. 4 BY <3>1, <1>2
    <3> QED BY <3>1, <3>2, <3>3
  <2> QED BY <1>5, <2>1, <2>2, <2>3, <2>4 DEF SetupPhase, CheckoutRefused, ProcessExit
<1>6. CASE RunPhase
  <2> USE <1>1 DEF Work, PhaseWork, TypeOK, Control
  <2>1. CASE RunAgent
    <3>1. /\ pc = "dispatch" /\ pc' = "running" /\ cur \in Attempts /\ cur' = cur
          /\ stage' = stage /\ stage # "final" /\ todo' = todo
          /\ PhaseMarker \ files'[cur] = PhaseMarker \ files[cur]
      BY <2>1 DEF RunAgent, InPhase, PhaseMarker
    <3>2. Missing(cur)' = Missing(cur) BY <3>1 DEF Missing
    <3>3. Missing(cur) \in 0 .. 4 BY <3>1, <1>2
    <3> QED BY <3>1, <3>2, <3>3
  <2>2. CASE WriteEvents
    <3>1. /\ pc = "running" /\ pc' = "runmark" /\ cur \in Attempts /\ cur' = cur
          /\ stage' = stage /\ stage # "final" /\ todo' = todo
          /\ PhaseMarker \ files'[cur] = PhaseMarker \ files[cur]
      BY <2>2 DEF WriteEvents, PhaseMarker
    <3>2. Missing(cur)' = Missing(cur) BY <3>1 DEF Missing
    <3>3. Missing(cur) \in 0 .. 4 BY <3>1, <1>2
    <3> QED BY <3>1, <3>2, <3>3
  <2>3. CASE MarkRun
    <3>1. /\ pc = "runmark" /\ pc' = "dispatch" /\ cur \in Attempts /\ cur' = cur
          /\ stage' = stage /\ stage # "final" /\ todo' = todo
          /\ files'[cur] = files[cur] \cup {"RUN_DONE"} /\ "RUN_DONE" \notin files[cur]
      BY <2>3 DEF MarkRun, Open
    <3>2. Missing(cur)' = Missing(cur) - 1 BY <3>1, OneMarkerLess DEF PhaseMarker
    <3>3. Missing(cur) \in 0 .. 4 BY <3>1, <1>2
    <3> QED BY <3>1, <3>2, <3>3
  <2> QED BY <1>6, <2>1, <2>2, <2>3 DEF RunPhase
<1>7. CASE CapturePhase
  <2> USE <1>1 DEF Work, PhaseWork, TypeOK, Control
  <2>1. CASE WritePatch
    <3>1. /\ pc = "dispatch" /\ pc' = "capturing" /\ cur \in Attempts /\ cur' = cur
          /\ stage' = stage /\ stage # "final" /\ todo' = todo
          /\ PhaseMarker \ files'[cur] = PhaseMarker \ files[cur]
      BY <2>1 DEF WritePatch, InPhase, PhaseMarker
    <3>2. Missing(cur)' = Missing(cur) BY <3>1 DEF Missing
    <3>3. Missing(cur) \in 0 .. 4 BY <3>1, <1>2
    <3> QED BY <3>1, <3>2, <3>3
  <2>2. CASE WriteNormalized
    <3>1. /\ pc = "capturing" /\ pc' = "capturemark" /\ cur \in Attempts /\ cur' = cur
          /\ stage' = stage /\ stage # "final" /\ todo' = todo
          /\ PhaseMarker \ files'[cur] = PhaseMarker \ files[cur]
      BY <2>2 DEF WriteNormalized, PhaseMarker
    <3>2. Missing(cur)' = Missing(cur) BY <3>1 DEF Missing
    <3>3. Missing(cur) \in 0 .. 4 BY <3>1, <1>2
    <3> QED BY <3>1, <3>2, <3>3
  <2>3. CASE MarkCapture
    <3>1. /\ pc = "capturemark" /\ pc' = "dispatch" /\ cur \in Attempts /\ cur' = cur
          /\ stage' = stage /\ stage # "final" /\ todo' = todo
          /\ files'[cur] = files[cur] \cup {"CAPTURE_DONE"} /\ "CAPTURE_DONE" \notin files[cur]
      BY <2>3 DEF MarkCapture, Open
    <3>2. Missing(cur)' = Missing(cur) - 1 BY <3>1, OneMarkerLess DEF PhaseMarker
    <3>3. Missing(cur) \in 0 .. 4 BY <3>1, <1>2
    <3> QED BY <3>1, <3>2, <3>3
  <2> QED BY <1>7, <2>1, <2>2, <2>3 DEF CapturePhase
<1>8. CASE Mirror
  <2> USE <1>1 DEF Work, FinishWork, TailWork, TypeOK, Control
  <2>1. CASE BackupUnreachable
    <3>1. /\ pc = "mirror" /\ pc' = AfterMirror /\ stage' = stage /\ scan' = scan /\ todo' = todo
          /\ stage \in {"first", "second", "final"} /\ AfterMirror # "off"
      BY <2>1 DEF BackupUnreachable, AfterMirror
    <3>2. CASE stage = "first"
      <4>1. pc' \in {"proof", "release"} BY <3>1, <3>2, Zenon DEF AfterMirror
      <4> QED BY <3>1, <3>2, <4>1
    <3>3. CASE stage = "second" BY <3>1, <3>3 DEF AfterMirror
    <3>4. CASE stage = "final" BY <3>1, <3>4 DEF AfterMirror
    <3> QED BY <3>1, <3>2, <3>3, <3>4
  <2>2. CASE MirrorBegin BY <2>2 DEF MirrorBegin
  <2>3. ASSUME NEW f \in File, CopyFile(f) PROVE todo' = todo /\ Work' < Work
    <3>1. /\ pc = "copy" /\ pc' = "copy" /\ todo' = todo /\ scan' = scan
          /\ stage' = stage /\ f \in copying /\ copying' = copying \ {f}
      BY <2>3 DEF CopyFile, FirstBy
    <3>2. Cardinality(copying') = Cardinality(copying) - 1
      <4>1. copying \in SUBSET File OBVIOUS
      <4> QED BY <3>1, <4>1, Sizes, OneLess
    <3> QED BY <3>1, <3>2
  <2>4. CASE CopyFails
    <3>1. /\ pc = "copy" /\ pc' = AfterMirror /\ stage' = stage /\ scan' = scan /\ todo' = todo
          /\ stage \in {"first", "second", "final"} /\ AfterMirror # "off"
      BY <2>4 DEF CopyFails, AfterMirror
    <3>2. CASE stage = "first"
      <4>1. pc' \in {"proof", "release"} BY <3>1, <3>2, Zenon DEF AfterMirror
      <4> QED BY <3>1, <3>2, <4>1
    <3>3. CASE stage = "second" BY <3>1, <3>3 DEF AfterMirror
    <3>4. CASE stage = "final" BY <3>1, <3>4 DEF AfterMirror
    <3> QED BY <3>1, <3>2, <3>3, <3>4
  <2>5. CASE MarkBackedUp
    <3>1. /\ pc = "copy" /\ pc' = AfterMirror /\ stage' = stage /\ scan' = scan /\ todo' = todo
          /\ stage \in {"first", "second", "final"} /\ AfterMirror # "off"
      BY <2>5 DEF MarkBackedUp, AfterMirror
    <3>2. CASE stage = "first"
      <4>1. pc' \in {"proof", "release"} BY <3>1, <3>2, Zenon DEF AfterMirror
      <4> QED BY <3>1, <3>2, <4>1
    <3>3. CASE stage = "second" BY <3>1, <3>3 DEF AfterMirror
    <3>4. CASE stage = "final" BY <3>1, <3>4 DEF AfterMirror
    <3> QED BY <3>1, <3>2, <3>3, <3>4
  <2> QED BY <1>8, <2>1, <2>2, <2>3, <2>4, <2>5 DEF Mirror
<1>9. CASE Finish
  <2> USE <1>1 DEF Work, FinishWork, SweepWork, TypeOK, Control
  <2>1. CASE MarkDone
    <3>1. /\ pc = "dispatch" /\ pc' = "mirror" /\ stage' = "first" /\ stage # "final"
          /\ todo' = todo /\ cur \in Attempts /\ "DONE" \notin files[cur]
      BY <2>1 DEF MarkDone, InPhase
    <3>2. Missing(cur) \in 0 .. 4 BY <3>1, <1>2
    <3>3. Work' = 24 * Cardinality(Attempts) + 40
      <4>1. FinishWork' = 36 BY <3>1
      <4>2. Work' = 24 * Cardinality(Attempts) + 4 + FinishWork' BY <3>1
      <4> QED BY <1>1, <4>1, <4>2
    <3>4. Work = 24 * Cardinality(Attempts) + 40 + PhaseWork BY <3>1
    <3>5. Missing(cur) # 0
      <4>1. IsFiniteSet(PhaseMarker \ files[cur]) BY FileCounts, FS_Subset
      <4>2. "DONE" \in PhaseMarker \ files[cur] BY <3>1 DEF PhaseMarker
      <4> QED BY <4>1, <4>2, FS_EmptySet DEF Missing
    <3>6. PhaseWork = 10 * Missing(cur) BY <3>1, <3>2 DEF PhaseWork
    <3> QED BY <3>1, <3>2, <3>3, <3>4, <3>5, <3>6
  <2>2. CASE WriteBoundaryProof BY <2>2 DEF WriteBoundaryProof
  <2>3. CASE ReleaseWorktree BY <2>3 DEF ReleaseWorktree
  <2>4. CASE ReleaseLease BY <2>4 DEF ReleaseLease
  <2> QED BY <1>9, <2>1, <2>2, <2>3, <2>4 DEF Finish
<1>10. CASE Sweep
  <2> USE <1>1 DEF Work, SweepWork, TypeOK, Control
  <2>1. ASSUME NEW a \in scan PROVE Cardinality(scan \ {a}) = Cardinality(scan) - 1
    <3>1. scan \in SUBSET Attempts OBVIOUS
    <3> QED BY <2>1, <3>1, Sizes, OneLess
  <2>2. ASSUME NEW a \in Attempts, SweepPass(a) PROVE todo' = todo /\ Work' < Work
    <3>1. /\ pc = "sweep" /\ pc' = "sweep" /\ todo' = todo /\ stage' = stage
          /\ Cardinality(scan') = Cardinality(scan) - 1
      BY <2>1, <2>2 DEF SweepPass
    <3> QED BY <3>1
  <2>3. ASSUME NEW a \in Attempts, SweepDelete(a) PROVE todo' = todo /\ Work' < Work
    BY <2>1, <2>3 DEF SweepDelete
  <2>4. CASE SweepRmdir BY <2>4 DEF SweepRmdir
  <2>5. CASE MarkCleaned BY <2>5 DEF MarkCleaned
  <2>6. CASE SweepEnd BY <2>6 DEF SweepEnd
  <2> QED BY <1>10, <2>2, <2>3, <2>4, <2>5, <2>6 DEF Sweep
<1>11. CASE Tail
  <2> USE <1>1 DEF Work, TailWork, TypeOK, Control
  <2>1. CASE MirrorCompleted BY <2>1 DEF MirrorCompleted
  <2>2. ASSUME NEW a \in Attempts, MirrorNext(a) PROVE todo' = todo /\ Work' < Work
    <3>1. Cardinality(scan') = Cardinality(scan) - 1
      <4>1. scan \in SUBSET Attempts OBVIOUS
      <4> QED BY <2>2, <4>1, Sizes, OneLess DEF MirrorNext
    <3> QED BY <2>2, <3>1 DEF MirrorNext
  <2>3. CASE WriteSummary BY <2>3 DEF WriteSummary
  <2> QED BY <1>11, <2>1, <2>2, <2>3 DEF Tail, MirrorRunLevel, ProcessExit
<1> QED
  BY <1>3, <1>4, <1>5, <1>6, <1>7, <1>8, <1>9, <1>10, <1>11 DEF DriverStep

\* The work with one attempt in hand has a bound.
LEMMA WorkBound ==
  ASSUME TypeOK, Control, IsFiniteSet(Attempts)
  PROVE  Work \in 0 .. Most - 1 /\ (pc # "off" => Work > 0)
<1> DEFINE n == Cardinality(Attempts)
<1>1. /\ n \in Nat /\ Cardinality(scan) \in 0 .. n /\ Cardinality(copying) \in 0 .. 11
  <2>1. scan \in SUBSET Attempts /\ copying \in SUBSET File BY DEF TypeOK
  <2> QED BY <2>1, Sizes
<1>2. ASSUME cur \in Attempts
      PROVE  Cardinality(files[cur]) \in 0 .. 11 /\ Missing(cur) \in 0 .. 4
  <2>1. files[cur] \in SUBSET File BY <1>2 DEF TypeOK
  <2> QED BY <2>1, Sizes DEF Missing
<1>3. TailWork \in 1 .. 20 * n + 17 BY <1>1 DEF TailWork
<1>4. FinishWork \in 0 .. 36 BY <1>1 DEF FinishWork
<1>5. SweepWork \in 0 .. 4 * n + 4 BY <1>1 DEF SweepWork
<1>6. pc \notin Between => PhaseWork \in -5 .. 40 /\ GateWork \in 0 .. 17
  <2> SUFFICES ASSUME pc \notin Between PROVE PhaseWork \in -5 .. 40 /\ GateWork \in 0 .. 17
    OBVIOUS
  <2>1. cur \in Attempts BY DEF TypeOK
  <2>2. PhaseWork \in -5 .. 40 BY <1>2, <2>1 DEF PhaseWork
  <2>3. GateWork \in 0 .. 17 BY <1>2, <2>1 DEF GateWork
  <2> QED BY <2>2, <2>3
<1> HIDE DEF n
<1>7. n = Cardinality(Attempts) BY DEF n
<1>8. CASE stage = "final" BY <1>1, <1>3, <1>7, <1>8 DEF Work, Most
<1>9. CASE stage # "final"
  <2>1. CASE pc \in Between \ {"off", "pick", "sweep"}
    BY <1>9, <2>1 DEF Control, Between
  <2>2. CASE pc \in {"off", "pick", "sweep"}
    BY <1>1, <1>5, <1>7, <1>9, <2>2 DEF Work, Most, Ending, Phases
  <2>3. CASE pc \notin Between
    BY <1>1, <1>4, <1>5, <1>6, <1>7, <1>9, <2>3 DEF Work, Most, Between, Ending, Phases
  <2> QED BY <2>1, <2>2, <2>3
<1> QED BY <1>8, <1>9

\* One product less.
LEMMA OneLessTimes == \A t, m \in Nat : t > 0 => (t - 1) * m = t * m - m /\ t * m \in Nat
OBVIOUS

\* A step that leaves the invocation forgets all the driver holds, and trouble
\* always leaves it.
LEMMA ExitIsAll ==
  ASSUME Next, pc # "off"
  PROVE  /\ pc' = "off" => todo' = {} /\ stage' = "first"
         /\ Trouble => pc' = "off"
<1> USE DEF Goto, Mark, Create, Stay, Raise, ProcessExit, AfterMirror
<1>1. Trouble => pc' = "off" /\ todo' = {} /\ stage' = "first"
  BY DEF Trouble, RamStaysAbove, CheckoutFails, AgentFails, EnqueueFails, MirrorRaises, Crash
<1>2. ASSUME DriverStep, pc' = "off" PROVE todo' = {} /\ stage' = "first"
  <2>1. ASSUME NEW a \in Attempts, PickAttempt(a) PROVE FALSE
    BY <1>2, <2>1 DEF PickAttempt
  <2>2. CASE Clear BY <1>2, <2>2 DEF Clear, ClearFile, ClearLease, ClearTreeBegin, ClearTreeEnd
  <2>3. CASE Gate
    BY <1>2, <2>3 DEF Gate, SkipDone, RamBelowWatermark, RecoverLease, LeaseStillActive,
       AcquireLease
  <2>4. CASE SetupPhase
    BY <1>2, <2>4 DEF SetupPhase, SetupBegin, RemovePartialWorktree, Checkout,
       CheckoutRefused, MarkSetup
  <2>5. CASE RunPhase BY <1>2, <2>5 DEF RunPhase, RunAgent, WriteEvents, MarkRun
  <2>6. CASE CapturePhase
    BY <1>2, <2>6 DEF CapturePhase, WritePatch, WriteNormalized, MarkCapture
  <2>7. CASE Mirror
    BY <1>2, <2>7 DEF Mirror, BackupUnreachable, MirrorBegin, CopyFile, CopyFails, MarkBackedUp
  <2>8. CASE Finish
    BY <1>2, <2>8 DEF Finish, MarkDone, WriteBoundaryProof, ReleaseWorktree, ReleaseLease
  <2>9. CASE Sweep
    BY <1>2, <2>9 DEF Sweep, SweepPass, SweepDelete, SweepRmdir, MarkCleaned, SweepEnd
  <2>10. CASE Tail
    BY <1>2, <2>10 DEF Tail, MirrorCompleted, MirrorNext, WriteSummary, MirrorRunLevel
  <2> QED
    BY <1>2, <2>1, <2>2, <2>3, <2>4, <2>5, <2>6, <2>7, <2>8, <2>9, <2>10 DEF DriverStep
<1> QED BY <1>1, <1>2 DEF Next, Start

\* The measure is below the weight of an attempt, and spent only at rest.
Bounded ==
  TypeOK /\ Control /\ Open /\ Work \in 0 .. Most - 1 /\ (pc # "off" => Work > 0)

\* Every step brings the invocation under way closer to its end.
LEMMA StepDown ==
  ASSUME Bounded, Bounded', IsFiniteSet(Attempts), Next, pc # "off"
  PROVE  StepsLeft \in Nat /\ StepsLeft' \in 0 .. StepsLeft - 1
<1>1. /\ Most \in Nat /\ Most > 0
      /\ IsFiniteSet(todo) /\ Cardinality(todo) \in Nat /\ Cardinality(todo') \in Nat
  <2>1. todo \in SUBSET Attempts /\ todo' \in SUBSET Attempts BY DEF Bounded, TypeOK
  <2>2. Cardinality(Attempts) \in Nat BY Sizes
  <2> QED BY <2>1, <2>2, Sizes DEF Most
<1>2. Work \in 0 .. Most - 1 /\ Work' \in 0 .. Most - 1 BY DEF Bounded, Most
<1>3. /\ Cardinality(todo) * Most \in Nat /\ Cardinality(todo') * Most \in Nat
  BY <1>1
<1>4. StepsLeft \in Nat BY <1>2, <1>3 DEF StepsLeft
<1>5. StepsLeft' = Cardinality(todo') * Most + Work' BY DEF StepsLeft, Most
<1>6. CASE \E a \in Attempts : PickAttempt(a)
  <2>1. Cardinality(todo) > 0 /\ Cardinality(todo') = Cardinality(todo) - 1
    <3>1. PICK a \in Attempts : PickAttempt(a) BY <1>6
    <3>2. a \in todo /\ todo' = todo \ {a} BY <3>1 DEF PickAttempt
    <3> QED BY <1>1, <3>2, OneLess
  <2>2. Cardinality(todo') * Most = Cardinality(todo) * Most - Most
    BY <1>1, <2>1, OneLessTimes
  <2>3. StepsLeft = Cardinality(todo) * Most + Work BY DEF StepsLeft
  <2>4. StepsLeft' = Cardinality(todo) * Most - Most + Work' BY <1>5, <2>2
  <2>5. Cardinality(todo) * Most - Most \in Nat BY <1>3, <2>2
  <2>6. StepsLeft' \in Nat BY <1>2, <2>4, <2>5
  <2>7. StepsLeft' < StepsLeft BY <1>1, <1>2, <1>3, <2>3, <2>4
  <2> QED BY <1>4, <2>6, <2>7
<1>7. CASE todo' = todo /\ Work' < Work
  BY <1>2, <1>3, <1>4, <1>5, <1>7 DEF StepsLeft
<1>8. CASE pc' = "off"
  <2>1. todo' = {} /\ stage' = "first" BY <1>8, ExitIsAll
  <2>2. Work' = 0 BY <1>8, <2>1 DEF Work, Ending, Phases
  <2>3. Cardinality(todo') = 0 BY <2>1, FS_EmptySet
  <2>4. StepsLeft' = 0 BY <1>1, <1>5, <2>2, <2>3
  <2>5. StepsLeft > 0 BY <1>2, <1>3 DEF StepsLeft, Bounded
  <2> QED BY <1>4, <2>4, <2>5
<1>9. CASE DriverStep /\ pc' # "off" /\ ~(\E a \in Attempts : PickAttempt(a))
  <2>1. todo' = todo /\ Work' < Work BY <1>9, WorkStep DEF Bounded
  <2> QED BY <1>7, <2>1
<1> QED BY <1>6, <1>8, <1>9, ExitIsAll DEF Next, Start

\* An invocation ends: with whatever attempts, kills and failures, every step
\* of it takes StepsLeft down, and StepsLeft is a natural number.  (run_attempts
\* is given a list, so Attempts is finite.)
THEOREM InvocationsEnd == ASSUME IsFiniteSet(Attempts) PROVE Spec => InvocationWindsDown
<1>1. Init => Open BY DEF Init, Open
<1>2. Spec => []Open BY <1>1, OpenStep, TypeCorrect, PTL DEF Spec
<1>3. IInv => Control BY DEF IInv
<1>4. Spec => []Control BY <1>3, Inductive, PTL
<1>5. TypeOK /\ Control /\ Open => Bounded BY WorkBound DEF Bounded
<1>6. Spec => []Bounded BY <1>2, <1>4, <1>5, TypeCorrect, PTL
<1>7. Bounded /\ Bounded' /\ [Next]_vars
        => [pc # "off" => StepsLeft \in Nat /\ StepsLeft' \in 0 .. StepsLeft - 1]_vars
  BY StepDown
<1> QED BY <1>6, <1>7, PTL DEF Spec, InvocationWindsDown
=============================================================================
