---------------------- MODULE AttemptRefinement_proofs ----------------------
(***************************************************************************)
(* The run loop implements AttemptOutcome, for any set of attempts and any *)
(* bounds.  The invariant of AttemptLifecycle_proofs reduces the mapped    *)
(* result of an attempt to its status and its count of executions; then    *)
(* each step of the loop is one step of the promise or none.               *)
(***************************************************************************)
EXTENDS AttemptRefinement, AttemptLifecycle_proofs

\* What the mapping needs beyond IInv: a finished RUN has executed the agent,
\* and the sweep goes on with the tree it has torn.
Executed ==
  /\ \A a \in Attempts :
       "RUN_DONE" \in files[a] \/ (cur = a /\ pc \in {"running", "runmark"})
         => runs[a] > 0
  /\ pc = "deleting" => worktree[cur] = "torn"

\* Executed is inductive: only MarkRun makes RUN_DONE, after RunAgent has
\* counted, and SweepDelete tears the tree it hands to SweepRmdir.
THEOREM ExecutedHolds == Spec => []Executed
<1>1. Init => Executed
  BY DEF Init, Executed
<1>2. TypeOK /\ Executed /\ [Next]_vars => Executed'
  <2> SUFFICES ASSUME TypeOK, Executed, [Next]_vars PROVE Executed'
    OBVIOUS
  <2> USE DEF Executed, TypeOK, Between, Goto, Create, Mark, Stay, Raise,
              ProcessExit, trees, disk, outcome, saved, memory, counts
  <2>1. ASSUME NEW S \in SUBSET Attempts, NEW F \in SUBSET S, Start(S, F)
        PROVE  Executed'
    BY <2>1 DEF Start
  <2>2. ASSUME NEW b \in Attempts, PickAttempt(b) PROVE Executed'
    BY <2>2 DEF PickAttempt
  <2>3. CASE Clear
    BY <2>3, SMTT(60) DEF Clear, ClearFile, ClearLease, ClearTreeBegin, ClearTreeEnd
  <2>4. CASE Gate
    BY <2>4 DEF Gate, SkipDone, RamBelowWatermark, RecoverLease, AcquireLease,
       LeaseStillActive
  <2>5. CASE SetupPhase
    BY <2>5, SMTT(60) DEF SetupPhase, SetupBegin, RemovePartialWorktree, Checkout,
       InPhase, CheckoutRefused, MarkSetup
  <2>6. CASE RunPhase
    BY <2>6 DEF RunPhase, RunAgent, WriteEvents, MarkRun, InPhase
  <2>7. CASE CapturePhase
    <3>1. CASE WritePatch BY <3>1 DEF WritePatch, InPhase
    <3>2. CASE WriteNormalized BY <3>2 DEF WriteNormalized
    <3>3. CASE MarkCapture BY <3>3 DEF MarkCapture
    <3> QED BY <2>7, <3>1, <3>2, <3>3 DEF CapturePhase
  <2>8. CASE Mirror
    <3> USE DEF AfterMirror
    <3>1. CASE BackupUnreachable BY <3>1 DEF BackupUnreachable
    <3>2. CASE MirrorBegin BY <3>2 DEF MirrorBegin
    <3>3. ASSUME NEW f \in File, CopyFile(f) PROVE Executed'
      BY <3>3 DEF CopyFile
    <3>4. CASE CopyFails BY <3>4 DEF CopyFails
    <3>5. CASE MarkBackedUp BY <3>5 DEF MarkBackedUp
    <3> QED BY <2>8, <3>1, <3>2, <3>3, <3>4, <3>5 DEF Mirror
  <2>9. CASE Finish
    <3>1. CASE MarkDone BY <3>1 DEF MarkDone, InPhase
    <3>2. CASE WriteBoundaryProof BY <3>2 DEF WriteBoundaryProof, InPhase
    <3>3. CASE ReleaseWorktree BY <3>3 DEF ReleaseWorktree, InPhase
    <3>4. CASE ReleaseLease BY <3>4 DEF ReleaseLease, InPhase
    <3> QED BY <2>9, <3>1, <3>2, <3>3, <3>4 DEF Finish
  <2>10. CASE Sweep
    <3>1. ASSUME NEW a \in Attempts, SweepPass(a) PROVE Executed'
      BY <3>1 DEF SweepPass
    <3>2. ASSUME NEW a \in Attempts, SweepDelete(a) PROVE Executed'
      BY <3>2 DEF SweepDelete
    <3>3. CASE SweepRmdir BY <3>3 DEF SweepRmdir
    <3>4. CASE MarkCleaned BY <3>4 DEF MarkCleaned
    <3>5. CASE SweepEnd BY <3>5 DEF SweepEnd
    <3> QED BY <2>10, <3>1, <3>2, <3>3, <3>4, <3>5 DEF Sweep
  <2>11. CASE Tail
    BY <2>11 DEF Tail, MirrorCompleted, MirrorNext, WriteSummary,
       MirrorRunLevel
  <2>12. CASE Trouble
    BY <2>12 DEF Trouble, RamStaysAbove, CheckoutFails, AgentFails,
       EnqueueFails, MirrorRaises, Crash
  <2>13. CASE UNCHANGED vars BY <2>13 DEF vars
  <2> QED
    BY <2>1, <2>2, <2>3, <2>4, <2>5, <2>6, <2>7, <2>8, <2>9, <2>10, <2>11,
       <2>12, <2>13 DEF Next, DriverStep
<1>3. QED BY <1>1, <1>2, TypeCorrect, PTL DEF Spec

-----------------------------------------------------------------------------

\* The mapped result and archive, once the invariant is known to hold.
Plain ==
  /\ Result = [a \in Attempts |->
                 IF StatusOf(a) = "published" THEN runs[a] ELSE 0]
  /\ Archived = [a \in Attempts |-> IF Backed(a) THEN runs[a] ELSE 0]

\* A published result is the latest execution, and so is a backed up one: the
\* artifacts are all there and of one version (Results).
THEOREM PlainHolds == Spec => []Plain
<1>1. TypeOK /\ IInv => Plain
  <2> SUFFICES ASSUME TypeOK, Results, NEW a \in Attempts,
                      StatusOf(a) = "published"
               PROVE  /\ OneOf(files[a], ver[a]) = runs[a]
                      /\ Backed(a) => OneOf(backup[a], bver[a]) = runs[a]
    BY DEF Plain, Result, Archived, IInv, Backed
  <2>1. Settled(a) /\ "DONE" \in files[a]
    BY DEF StatusOf
  <2>2. MarkersHold(a)
    BY <2>1 DEF Results
  <2>3. Artifact \subseteq files[a] /\ \A c \in Content : ver[a][c] = runs[a]
    BY <2>1, <2>2 DEF MarkersHold, Current, Artifact, Content
  <2>4. OneOf(files[a], ver[a]) = runs[a]
    BY <2>3 DEF OneOf, Content
  <2>5. ASSUME Backed(a) PROVE OneOf(backup[a], bver[a]) = runs[a]
    <3>1. \A f \in Artifact : Copied(a, f)
      BY <2>5, <2>2 DEF Backed, MarkersHold
    <3> QED BY <3>1, <2>3 DEF Copied, OneOf, Artifact, Content
  <2> QED BY <2>4, <2>5
<1>2. QED BY <1>1, TypeCorrect, Inductive, PTL

-----------------------------------------------------------------------------
(* Steps.                                                                  *)

\* Nobody's status changes, nor what is promised to be in the backup.
Steady ==
  \A a \in Attempts : StatusOf(a)' = StatusOf(a) /\ Backed(a)' = Backed(a)

\* A step that leaves status, backup marker and executions alone leaves what is mapped alone.
LEMMA SteadyMap ==
  ASSUME Plain, Plain', Steady, UNCHANGED runs
  PROVE  UNCHANGED <<Status, Result, Archived>>
<1>1. Status' = Status
  BY DEF Status, Steady
<1>2. Result' = Result /\ Archived' = Archived
  BY DEF Plain, Steady
<1> QED BY <1>1, <1>2

\* A step that changes none of it can at most begin or end an invocation.
LEMMA SteadyInvokes ==
  ASSUME TypeOK', Plain, Plain', Steady, UNCHANGED runs, UNCHANGED KeptTrees
  PROVE  Promise!OutcomeNext
<1>1. UNCHANGED <<Status, Result, Archived>>
  BY SteadyMap
<1>2. force' \in SUBSET Attempts
  BY DEF TypeOK
<1> QED BY <1>1, <1>2 DEF Promise!OutcomeNext, Promise!Invoke

\* The clear of a forced rerun withdraws, then discards, then reopens.
LEMMA ClearKeepsPromise ==
  ASSUME TypeOK, TypeOK', Control, Plain, Plain', Clear
  PROVE  Promise!OutcomeNext
<1> USE DEF TypeOK, Between, Goto, Create, trees, disk, outcome, saved, memory,
            counts
<1>1. ASSUME NEW f \in File, ClearFile(f) PROVE Promise!OutcomeNext
  <2>1. Steady /\ UNCHANGED runs /\ UNCHANGED KeptTrees
    BY <1>1 DEF ClearFile, Steady, StatusOf, Backed, Settled, KeptTrees
  <2> QED BY <2>1, SteadyInvokes
<1>2. CASE ClearLease
  <2>1. Steady /\ UNCHANGED runs /\ UNCHANGED KeptTrees
    BY <1>2 DEF ClearLease, Steady, StatusOf, Backed, Settled, KeptTrees
  <2> QED BY <2>1, SteadyInvokes
<1>3. CASE ClearTreeBegin
  <2>1. Steady /\ UNCHANGED runs /\ UNCHANGED force
    BY <1>3 DEF ClearTreeBegin, Steady, StatusOf, Backed, Settled
  <2>2. UNCHANGED <<Status, Result, Archived>>
    BY <2>1, SteadyMap
  <2>3. KeptTrees' = KeptTrees \ {cur}
    BY <1>3 DEF ClearTreeBegin, KeptTrees
  <2>4. cur \in Attempts /\ Status[cur] = "withdrawn"
    BY <1>3 DEF ClearTreeBegin, Status, StatusOf, Settled
  <2> QED BY <2>1, <2>2, <2>3, <2>4 DEF Promise!OutcomeNext, Promise!Discard
<1>4. CASE ClearTreeEnd
  <2>1. PICK c \in Attempts : c = cur
    BY <1>4 DEF ClearTreeEnd
  <2>2. KeptTrees' = KeptTrees \ {c} /\ UNCHANGED <<runs, force>>
    BY <1>4, <2>1 DEF ClearTreeEnd, KeptTrees
  <2>3. \A a \in Attempts \ {c} :
          StatusOf(a)' = StatusOf(a) /\ Backed(a)' = Backed(a)
    BY <1>4, <2>1 DEF ClearTreeEnd, StatusOf, Backed, Settled
  <2>4. StatusOf(c) = "withdrawn" /\ ~Backed(c)
    BY <1>4, <2>1 DEF ClearTreeEnd, StatusOf, Backed, Settled
  <2>5. StatusOf(c)' = "open" /\ ~Backed(c)'
    <3>1. Settled(c)'
      BY <1>4, <2>1 DEF ClearTreeEnd, Settled
    <3>2. files'[c] = {"log"}
      BY <1>4, <2>1 DEF ClearTreeEnd, Control
    <3> QED BY <3>1, <3>2 DEF StatusOf, Backed
  <2>6. Status[c] = "withdrawn" /\ Status' = [Status EXCEPT ![c] = "open"]
    BY <2>3, <2>4, <2>5 DEF Status
  <2>7. Result' = Result /\ Archived' = Archived
    BY <2>2, <2>3, <2>4, <2>5 DEF Plain
  <2> QED BY <2>2, <2>6, <2>7 DEF Promise!OutcomeNext, Promise!Reopen
<1> QED BY <1>1, <1>2, <1>3, <1>4 DEF Clear

\* A worktree may come or go as long as its attempt has no result.
LEMMA TreeStep ==
  ASSUME Plain, Plain', Steady, UNCHANGED <<runs, force>>,
         NEW c \in Attempts, StatusOf(c) # "published",
         KeptTrees' = KeptTrees \cup {c} \/ KeptTrees' = KeptTrees \ {c}
  PROVE  Promise!OutcomeNext
<1>1. UNCHANGED <<Status, Result, Archived>>
  BY SteadyMap
<1>2. Status[c] # "published"
  BY DEF Status
<1> QED
  BY <1>1, <1>2 DEF Promise!OutcomeNext, Promise!Prepare, Promise!Discard

\* An attempt that is picked for a forced rerun is withdrawn at that moment.
LEMMA PickKeepsPromise ==
  ASSUME TypeOK, TypeOK', Plain, Plain', NEW c \in Attempts, PickAttempt(c)
  PROVE  Promise!OutcomeNext
<1> USE DEF TypeOK, Goto, trees, disk, outcome, saved, counts
<1>1. UNCHANGED <<files, interrupted, runs, KeptTrees, force>>
  BY DEF PickAttempt, KeptTrees
<1>2. CASE c \notin force \/ ~Settled(c)
  <2>1. Steady
    BY <1>1, <1>2 DEF PickAttempt, Steady, StatusOf, Backed, Settled
  <2> QED BY <1>1, <2>1, SteadyInvokes
<1>3. CASE c \in force /\ Settled(c)
  <2>1. \A a \in Attempts \ {c} :
          StatusOf(a)' = StatusOf(a) /\ Backed(a)' = Backed(a)
    BY <1>1, <1>3 DEF PickAttempt, StatusOf, Backed, Settled
  <2>2. StatusOf(c)' = "withdrawn" /\ ~Backed(c)'
    BY <1>1, <1>3 DEF PickAttempt, StatusOf, Backed, Settled
  <2>3. Status' = [Status EXCEPT ![c] = "withdrawn"]
    BY <2>1, <2>2 DEF Status
  <2>4. /\ Result' = [Result EXCEPT ![c] = 0]
        /\ Archived' = [Archived EXCEPT ![c] = 0]
    BY <1>1, <2>1, <2>2 DEF Plain
  <2> QED BY <1>1, <1>3, <2>3, <2>4 DEF Promise!OutcomeNext, Promise!Withdraw
<1> QED BY <1>2, <1>3

\* SETUP builds the worktree of an attempt without a result.
LEMMA SetupKeepsPromise ==
  ASSUME TypeOK, TypeOK', Control, Plain, Plain', SetupPhase
  PROVE  Promise!OutcomeNext
<1> USE DEF TypeOK, Between, Goto, Create, Mark, ProcessExit, trees, disk,
            outcome, saved, memory, counts, InPhase
<1>1. PICK c \in Attempts : c = cur
  BY DEF SetupPhase, SetupBegin, RemovePartialWorktree, Checkout,
         CheckoutRefused, MarkSetup
<1>2. StatusOf(c) # "published"
  BY <1>1 DEF SetupPhase, SetupBegin, RemovePartialWorktree, Checkout,
         CheckoutRefused, MarkSetup, Control, Phases, StatusOf
<1>3. Steady /\ UNCHANGED runs
  <2>1. CASE SetupBegin
    BY <2>1 DEF SetupBegin, Steady, StatusOf, Backed, Settled
  <2>2. CASE RemovePartialWorktree
    BY <2>2 DEF RemovePartialWorktree, Steady, StatusOf, Backed, Settled
  <2>3. CASE Checkout
    BY <2>3 DEF Checkout, Steady, StatusOf, Backed, Settled
  <2>4. CASE CheckoutRefused
    BY <2>4 DEF CheckoutRefused, Steady, StatusOf, Backed, Settled
  <2>5. CASE MarkSetup
    BY <2>5 DEF MarkSetup, Steady, StatusOf, Backed, Settled
  <2> QED BY <2>1, <2>2, <2>3, <2>4, <2>5 DEF SetupPhase
<1>4. \/ UNCHANGED KeptTrees
      \/ /\ KeptTrees' = KeptTrees \cup {c} \/ KeptTrees' = KeptTrees \ {c}
         /\ UNCHANGED force
  <2>1. CASE SetupBegin
    BY <1>1, <2>1 DEF SetupBegin, KeptTrees
  <2>2. CASE RemovePartialWorktree
    BY <1>1, <2>2 DEF RemovePartialWorktree, KeptTrees
  <2>3. CASE Checkout
    BY <1>1, <2>3 DEF Checkout, KeptTrees
  <2>4. CASE CheckoutRefused
    BY <2>4 DEF CheckoutRefused, KeptTrees
  <2>5. CASE MarkSetup
    BY <2>5 DEF MarkSetup, KeptTrees
  <2> QED BY <2>1, <2>2, <2>3, <2>4, <2>5 DEF SetupPhase
<1> QED BY <1>2, <1>3, <1>4, SteadyInvokes, TreeStep

\* RUN counts an execution and leaves its traces in the worktree.
LEMMA RunKeepsPromise ==
  ASSUME TypeOK, TypeOK', Control, Plain, Plain', RunPhase
  PROVE  Promise!OutcomeNext
<1> USE DEF TypeOK, Between, Goto, Create, Mark, trees, disk, outcome, saved,
            memory, counts, InPhase
<1>1. CASE RunAgent
  <2>1. PICK c \in Attempts : c = cur
    BY <1>1 DEF RunAgent
  <2>2. StatusOf(c) # "published" /\ ~Backed(c)
    BY <1>1, <2>1 DEF RunAgent, Control, Phases, StatusOf, Backed
  <2>3. Steady /\ UNCHANGED force
    BY <1>1 DEF RunAgent, Steady, StatusOf, Backed, Settled
  <2>4. /\ runs' = [runs EXCEPT ![c] = @ + 1]
        /\ KeptTrees' = KeptTrees \cup {c}
    BY <1>1, <2>1 DEF RunAgent, KeptTrees
  <2>5. Status' = Status /\ Status[c] # "published"
    BY <2>2, <2>3 DEF Steady, Status
  <2>6. Result' = Result /\ Archived' = Archived
    BY <2>2, <2>3, <2>4 DEF Plain, Steady
  <2> QED BY <2>3, <2>4, <2>5, <2>6 DEF Promise!OutcomeNext, Promise!Execute
<1>2. CASE WriteEvents
  <2>1. Steady /\ UNCHANGED runs /\ UNCHANGED KeptTrees
    BY <1>2 DEF WriteEvents, Steady, StatusOf, Backed, Settled, KeptTrees
  <2> QED BY <2>1, SteadyInvokes
<1>3. CASE MarkRun
  <2>1. Steady /\ UNCHANGED runs /\ UNCHANGED KeptTrees
    BY <1>3 DEF MarkRun, Steady, StatusOf, Backed, Settled, KeptTrees
  <2> QED BY <2>1, SteadyInvokes
<1> QED BY <1>1, <1>2, <1>3 DEF RunPhase

\* DONE publishes the latest execution: there is one, and no old backup marker.
LEMMA DonePublishes ==
  ASSUME TypeOK, TypeOK', Control, Results, Executed, Plain, Plain', MarkDone
  PROVE  Promise!OutcomeNext
<1> USE DEF TypeOK, Between, Goto, Create, trees, disk, outcome, saved, counts
<1>1. PICK c \in Attempts : c = cur
  BY DEF MarkDone, InPhase
<1>2. UNCHANGED <<runs, KeptTrees, force, interrupted>>
  BY DEF MarkDone, KeptTrees
<1>3. \A a \in Attempts \ {c} :
        StatusOf(a)' = StatusOf(a) /\ Backed(a)' = Backed(a)
  BY <1>1 DEF MarkDone, InPhase, StatusOf, Backed, Settled
<1>4. CASE ~Settled(c)
  <2>1. StatusOf(c)' = StatusOf(c) /\ Backed(c)' = Backed(c)
    BY <1>1, <1>4 DEF MarkDone, InPhase, StatusOf, Backed, Settled
  <2> QED BY <1>2, <1>3, <2>1, SteadyInvokes DEF Steady
<1>5. CASE Settled(c)
  <2>1. "DONE" \notin files[c] /\ "RUN_DONE" \in files[c]
    BY <1>1 DEF MarkDone, InPhase, NextPhase, Control, Phases
  <2>2. "RSYNC_DONE" \notin files[c]
    BY <1>5, <2>1 DEF Results, MarkersHold
  <2>3. Settled(c)' /\ "DONE" \in files'[c] /\ "RSYNC_DONE" \notin files'[c]
    BY <1>1, <1>5, <2>2 DEF MarkDone, InPhase, Settled
  <2>4. /\ StatusOf(c) = "open" /\ StatusOf(c)' = "published"
        /\ ~Backed(c) /\ ~Backed(c)'
    BY <1>5, <2>1, <2>3 DEF StatusOf, Backed
  <2>5. runs[c] > 0
    BY <2>1 DEF Executed
  <2>6. Status[c] = "open" /\ Status' = [Status EXCEPT ![c] = "published"]
    BY <1>3, <2>4 DEF Status
  <2>7. /\ Result' = [Result EXCEPT ![c] = runs[c]]
        /\ Archived' = Archived
    BY <1>2, <1>3, <2>4 DEF Plain
  <2> QED BY <1>2, <2>5, <2>6, <2>7 DEF Promise!OutcomeNext, Promise!Publish
<1> QED BY <1>4, <1>5

\* RSYNC_DONE archives what DONE has published.
LEMMA BackupArchives ==
  ASSUME TypeOK, TypeOK', Control, Plain, Plain', MarkBackedUp
  PROVE  Promise!OutcomeNext
<1> USE DEF TypeOK, Between, Goto, Create, Mark, trees, disk, outcome, saved,
            memory, counts
<1>1. PICK c \in Attempts : c = cur
  BY DEF MarkBackedUp
<1>2. UNCHANGED <<runs, KeptTrees, force, interrupted>>
  BY DEF MarkBackedUp, KeptTrees
<1>3. \A a \in Attempts \ {c} :
        StatusOf(a)' = StatusOf(a) /\ Backed(a)' = Backed(a)
  BY <1>1 DEF MarkBackedUp, AfterMirror, StatusOf, Backed, Settled
<1>4. StatusOf(c)' = StatusOf(c)
  BY <1>1 DEF MarkBackedUp, AfterMirror, StatusOf, Settled
<1>5. CASE StatusOf(c) # "published" \/ "RSYNC_DONE" \in files[c]
  <2>1. Backed(c)' = Backed(c)
    BY <1>1, <1>4, <1>5 DEF MarkBackedUp, Backed
  <2> QED BY <1>2, <1>3, <1>4, <2>1, SteadyInvokes DEF Steady
<1>6. CASE StatusOf(c) = "published" /\ "RSYNC_DONE" \notin files[c]
  <2>1. ~Backed(c) /\ Backed(c)'
    BY <1>1, <1>4, <1>6 DEF MarkBackedUp, Backed
  <2>2. Status' = Status /\ Status[c] = "published"
    BY <1>3, <1>4, <1>6 DEF Status
  <2>3. Result' = Result /\ Result[c] = runs[c]
    BY <1>2, <1>3, <1>4, <1>6 DEF Plain
  <2>4. Archived' = [Archived EXCEPT ![c] = runs[c]]
    BY <1>2, <1>3, <2>1 DEF Plain
  <2> QED BY <1>2, <2>2, <2>3, <2>4 DEF Promise!OutcomeNext, Promise!Archive
<1> QED BY <1>5, <1>6

\* The sweep discards a tree only of an attempt that is archived, or that
\* promises nothing.
LEMMA SweepKeepsPromise ==
  ASSUME TypeOK, TypeOK', Executed, Plain, Plain', Sweep
  PROVE  Promise!OutcomeNext
<1> USE DEF TypeOK, Between, Goto, Create, trees, disk, outcome, saved, counts
<1>1. Steady /\ UNCHANGED runs
  <2>1. ASSUME NEW a \in Attempts, SweepPass(a)
        PROVE  Steady /\ UNCHANGED runs
    BY <2>1 DEF SweepPass, Steady, StatusOf, Backed, Settled
  <2>2. ASSUME NEW a \in Attempts, SweepDelete(a)
        PROVE  Steady /\ UNCHANGED runs
    BY <2>2 DEF SweepDelete, Steady, StatusOf, Backed, Settled
  <2>3. CASE SweepRmdir
    BY <2>3 DEF SweepRmdir, Steady, StatusOf, Backed, Settled, memory
  <2>4. CASE MarkCleaned
    BY <2>4 DEF MarkCleaned, Steady, StatusOf, Backed, Settled
  <2>5. CASE SweepEnd
    BY <2>5 DEF SweepEnd, Steady, StatusOf, Backed, Settled, memory
  <2> QED BY <2>1, <2>2, <2>3, <2>4, <2>5 DEF Sweep
<1>2. CASE \E a \in Attempts : SweepDelete(a)
  <2>1. PICK c \in Attempts : SweepDelete(c)
    BY <1>2
  <2>2. KeptTrees' = KeptTrees \ {c} /\ UNCHANGED force
    BY <2>1 DEF SweepDelete, KeptTrees
  <2>3. StatusOf(c) = "published" => Backed(c)
    BY <2>1 DEF SweepDelete, Sweepable, Backed
  <2>4. Status[c] = "published" => Archived[c] = Result[c]
    BY <2>3 DEF Plain, Status
  <2>5. UNCHANGED <<Status, Result, Archived>>
    BY <1>1, SteadyMap
  <2> QED
    BY <1>1, <2>2, <2>4, <2>5 DEF Promise!OutcomeNext, Promise!Discard
<1>3. CASE \A a \in Attempts : ~SweepDelete(a)
  <2>1. UNCHANGED KeptTrees
    BY <1>3 DEF Sweep, SweepPass, SweepRmdir, MarkCleaned, SweepEnd, KeptTrees,
       Executed
  <2> QED BY <1>1, <2>1, SteadyInvokes
<1> QED BY <1>2, <1>3

\* The rest of the driver changes nothing a reader may rely on.
LEMMA OthersKeepPromise ==
  ASSUME TypeOK, TypeOK', Plain, Plain',
         \/ \E S \in SUBSET Attempts : \E F \in SUBSET S : Start(S, F)
         \/ Gate \/ CapturePhase \/ Tail \/ Trouble
         \/ Mirror /\ ~MarkBackedUp
         \/ Finish /\ ~MarkDone
         \/ UNCHANGED vars
  PROVE  Promise!OutcomeNext
<1> USE DEF TypeOK, Between, Goto, Create, Mark, Stay, Raise, ProcessExit,
            trees, disk, outcome, saved, memory, counts, Steady, StatusOf,
            Backed, Settled, KeptTrees, InPhase
<1> DEFINE Calm == Steady /\ UNCHANGED runs /\ UNCHANGED KeptTrees
<1> SUFFICES Calm
  BY SteadyInvokes
<1>1. ASSUME NEW S \in SUBSET Attempts, NEW F \in SUBSET S, Start(S, F)
      PROVE  Calm
  BY <1>1 DEF Start
<1>2. CASE Gate
  <2>1. CASE SkipDone BY <2>1 DEF SkipDone
  <2>2. CASE RamBelowWatermark BY <2>2 DEF RamBelowWatermark
  <2>3. CASE RecoverLease BY <2>3 DEF RecoverLease
  <2>4. CASE LeaseStillActive BY <2>4 DEF LeaseStillActive
  <2>5. CASE AcquireLease BY <2>5 DEF AcquireLease
  <2> QED BY <1>2, <2>1, <2>2, <2>3, <2>4, <2>5 DEF Gate
<1>3. CASE CapturePhase
  <2>1. CASE WritePatch BY <2>1 DEF WritePatch
  <2>2. CASE WriteNormalized BY <2>2 DEF WriteNormalized
  <2>3. CASE MarkCapture BY <2>3 DEF MarkCapture
  <2> QED BY <1>3, <2>1, <2>2, <2>3 DEF CapturePhase
<1>4. CASE Tail
  <2>1. CASE MirrorCompleted BY <2>1 DEF MirrorCompleted
  <2>2. ASSUME NEW a \in Attempts, MirrorNext(a) PROVE Calm
    BY <2>2 DEF MirrorNext
  <2>3. CASE WriteSummary BY <2>3 DEF WriteSummary
  <2>4. CASE MirrorRunLevel BY <2>4 DEF MirrorRunLevel
  <2> QED BY <1>4, <2>1, <2>2, <2>3, <2>4 DEF Tail
<1>5. CASE Mirror /\ ~MarkBackedUp
  <2> USE DEF AfterMirror
  <2>1. CASE BackupUnreachable BY <2>1 DEF BackupUnreachable
  <2>2. CASE MirrorBegin BY <2>2 DEF MirrorBegin
  <2>3. ASSUME NEW f \in File, CopyFile(f) PROVE Calm
    BY <2>3 DEF CopyFile
  <2>4. CASE CopyFails BY <2>4 DEF CopyFails
  <2> QED BY <1>5, <2>1, <2>2, <2>3, <2>4 DEF Mirror
<1>6. CASE Finish /\ ~MarkDone
  <2>1. CASE WriteBoundaryProof BY <2>1 DEF WriteBoundaryProof
  <2>2. CASE ReleaseWorktree BY <2>2 DEF ReleaseWorktree
  <2>3. CASE ReleaseLease BY <2>3 DEF ReleaseLease
  <2> QED BY <1>6, <2>1, <2>2, <2>3 DEF Finish
<1>7. CASE Trouble
  <2>1. CASE RamStaysAbove BY <2>1 DEF RamStaysAbove
  <2>2. CASE CheckoutFails BY <2>2 DEF CheckoutFails
  <2>3. CASE AgentFails BY <2>3 DEF AgentFails
  <2>4. CASE EnqueueFails BY <2>4 DEF EnqueueFails
  <2>5. CASE MirrorRaises BY <2>5 DEF MirrorRaises
  <2>6. CASE Crash BY <2>6 DEF Crash
  <2> QED BY <1>7, <2>1, <2>2, <2>3, <2>4, <2>5, <2>6 DEF Trouble
<1>8. CASE UNCHANGED vars
  BY <1>8 DEF vars
<1> QED BY <1>1, <1>2, <1>3, <1>4, <1>5, <1>6, <1>7, <1>8

-----------------------------------------------------------------------------

\* The run loop implements the promise of AttemptOutcome: a published result is
\* the latest execution's, is withdrawn only by force, and no worktree is
\* discarded before its result is archived, for any number of attempts and
\* whatever kills, failures and restarts (run_attempts).
THEOREM PromiseKept == Spec => KeepsPromise
<1>1. Init => Promise!OutcomeInit
  BY DEF Init, Promise!OutcomeInit, Status, StatusOf, Result, Archived, Backed,
         Settled, KeptTrees
<1>2. /\ TypeOK /\ TypeOK' /\ IInv /\ Executed /\ Plain /\ Plain'
      /\ [Next]_vars
      => [Promise!OutcomeNext]_(Promise!outcomeVars)
  <2> SUFFICES ASSUME TypeOK, TypeOK', IInv, Executed, Plain, Plain',
                      [Next]_vars
               PROVE  Promise!OutcomeNext
    OBVIOUS
  <2> USE DEF IInv
  <2>1. ASSUME NEW a \in Attempts, PickAttempt(a) PROVE Promise!OutcomeNext
    BY <2>1, PickKeepsPromise
  <2>2. CASE Clear BY <2>2, ClearKeepsPromise
  <2>3. CASE SetupPhase BY <2>3, SetupKeepsPromise
  <2>4. CASE RunPhase BY <2>4, RunKeepsPromise
  <2>5. CASE MarkDone BY <2>5, DonePublishes
  <2>6. CASE MarkBackedUp BY <2>6, BackupArchives
  <2>7. CASE Sweep BY <2>7, SweepKeepsPromise
  <2>8. CASE \/ \E S \in SUBSET Attempts : \E F \in SUBSET S : Start(S, F)
             \/ Gate \/ CapturePhase \/ Tail \/ Trouble
             \/ Mirror /\ ~MarkBackedUp
             \/ Finish /\ ~MarkDone
             \/ UNCHANGED vars
    BY <2>8, OthersKeepPromise
  <2> QED
    BY <2>1, <2>2, <2>3, <2>4, <2>5, <2>6, <2>7, <2>8 DEF Next, DriverStep
<1>3. QED
  BY <1>1, <1>2, TypeCorrect, Inductive, ExecutedHolds, PlainHolds, PTL
  DEF Spec, KeepsPromise, Promise!OutcomeSpec

=============================================================================
