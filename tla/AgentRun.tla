------------------------------ MODULE AgentRun ------------------------------
(***************************************************************************)
(* RUN and CAPTURE of one attempt with the real adapter                    *)
(* (controller/real_oco.py): the agent works in a git worktree under       *)
(* strace, its stdout is parsed into events, git tells what it changed,    *)
(* the events are normalized, the patch is tried on the recorded base      *)
(* commit, and the boundary monitor writes its proof.  The driver, and the *)
(* agent with it, may be killed between any two steps and the attempt be   *)
(* resumed in the same worktree.  The worktree is that of SETUP.           *)
(*                                                                         *)
(* The content of the worktree is the set of changes it shows against the  *)
(* recorded base commit, so that commit itself is {}.                      *)
(***************************************************************************)
EXTENDS Telemetry, VersionGate, TraceBoundary, FiniteSets

CONSTANTS
  Edits,        \* changes of files the base commit has
  NewFiles,     \* files the base commit does not have
  Plans,        \* those of NewFiles that lie under specs/
  ToolEvents,   \* tool_use events of the agent
  StepEvents,   \* step_finish events of the agent
  Binaries,     \* agent binaries an invocation may find
  Fds,          \* descriptors the agent's processes use
  Targets,      \* places the agent's file system calls lead to
  MaxTasks,     \* bound on the threads and processes of the agent
  MaxOps,       \* bound on what the agent does
  MaxSplits,    \* bound on calls that another task's call interrupts in the trace
  MaxCrashes,   \* bound on kills
  MaxFailures   \* bound on git commands that fail

ASSUME AgentRunAssumption ==
  /\ Edits \cap NewFiles = {} /\ Plans \subseteq NewFiles
  /\ ToolEvents \subseteq ToolEvent /\ StepEvents \subseteq StepEvent
  /\ Fds \subseteq Nat \ {0} /\ Targets \subseteq Place
  /\ MaxTasks \in Nat \ {0} /\ MaxOps \in Nat /\ MaxSplits \in Nat
  /\ MaxCrashes \in Nat /\ MaxFailures \in Nat

\* The tasks strace -f follows; the first is the command itself.
Task == 1 .. MaxTasks

Changes == Edits \cup NewFiles

Patch == [add : SUBSET Changes, del : SUBSET Changes]

\* What the agent writes to stdout, line by line.
Line == [whole : BOOLEAN, event : [kind : {"start"}] \cup ToolEvents \cup StepEvents]

VARIABLES
  tree, index, head,  \* working tree, git index and HEAD commit
  marks,              \* phase markers
  findings, traced,   \* the trace file: what it shows, whether it is there
  evfile,             \* oco-events.ndjson
  patchfile,          \* model.patch
  normfile,           \* normalized.json
  proof,              \* boundary proof: "none", "pass", "fail"
  changed             \* places changed since the monitor's before-snapshot

\* The driver; based: the base commit is known.  The agent's tasks: the process
\* each belongs to (that of the task it began with; 0: not begun), the
\* descriptors of each process, the parser's table for each task.
VARIABLES pc, base, based, stream, outcome, patch, proc, fds, table, strace

\* Descriptors whose opening the parser has not followed, by task; what the
\* last execution wrote outside, and what of it the trace cannot show; what
\* killed executions had committed; a git command failed for the last patch.
VARIABLES blind, strayed, unseen, lost, gitFailed, ops, splits, crashes, failures

git     == <<tree, index, head>>
disk    == <<marks, findings, traced, evfile, patchfile, normfile, proof>>
tasks   == <<proc, fds, table, blind>>
process == <<base, based, stream, outcome, patch, proc, fds, table>>
ghosts  == <<blind, strayed, unseen, lost, gitFailed>>
counts  == <<ops, splits, crashes, failures>>
vars    == <<git, disk, changed, pc, process, strace, ghosts, counts>>

NoPatch  == [add |-> {}, del |-> {}]
NoResult == [status |-> "none"]
Closed   == [t \in Task |-> [f \in Fds |-> Unknown]]
NotBegun == [t \in Task |-> 0]
AllSeen  == [t \in Task |-> {}]

Label == {"off", "gate", "run", "agent", "extract", "events",
          "runmark", "capture", "normal", "capturemark", "donemark", "proof"}

TypeOK ==
  /\ tree \subseteq Changes /\ index \subseteq Changes /\ head \subseteq Changes
  /\ marks \subseteq {"RUN", "CAPTURE", "DONE"}
  /\ findings \subseteq Place \cup {"RELATIVE"} /\ traced \in BOOLEAN
  /\ evfile \in Seq(Event(Patch)) /\ patchfile \in Patch
  /\ normfile.status \in {"none", "no_patch", "queued", "precheck_failed"}
  /\ proof \in {"none", "pass", "fail"}
  /\ changed \subseteq Place
  /\ pc \in Label
  /\ base \subseteq Changes
  /\ outcome \in {"running", "ok", "failed"}
  /\ patch \in Patch /\ stream \in Seq(Line)
  /\ proc \in [Task -> {0} \cup Task]
  /\ fds \in [Task -> [Fds -> Place \cup {Unknown}]]
  /\ table \in [Task -> [Fds -> Place \cup {Unknown}]]
  /\ blind \in [Task -> SUBSET Fds]
  /\ strace \in BOOLEAN /\ gitFailed \in BOOLEAN /\ based \in BOOLEAN
  /\ strayed \subseteq Place /\ unseen \subseteq Place /\ lost \subseteq Changes
  /\ ops \in 0 .. MaxOps /\ splits \in 0 .. MaxSplits
  /\ crashes \in 0 .. MaxCrashes /\ failures \in 0 .. MaxFailures

Init ==
  /\ tree = {} /\ index = {} /\ head = {}
  /\ marks = {} /\ findings = {} /\ traced = FALSE
  /\ evfile = <<>> /\ patchfile = NoPatch /\ normfile = NoResult
  /\ proof = "none" /\ changed = {}
  /\ pc = "off"
  /\ base = {} /\ based = FALSE
  /\ stream = <<>> /\ outcome = "running" /\ patch = NoPatch
  /\ proc = NotBegun /\ fds = Closed /\ table = Closed /\ blind = AllSeen
  /\ strace \in BOOLEAN
  /\ strayed = {} /\ unseen = {} /\ lost = {} /\ gitFailed = FALSE
  /\ ops = 0 /\ splits = 0 /\ crashes = 0 /\ failures = 0

Goto(l) == pc' = l

\* The agent's tasks are gone, and their numbers with them.
TasksEnd == proc' = NotBegun /\ fds' = Closed /\ table' = Closed /\ blind' = AllSeen

\* Nothing in memory outlives the execution.
Forget ==
  /\ base' = {} /\ based' = FALSE
  /\ stream' = <<>> /\ outcome' = "running" /\ patch' = NoPatch

-----------------------------------------------------------------------------
(* The driver up to the agent's start.                                     *)

\* An invocation takes its before-snapshot and goes to the first open phase.
Start ==
  /\ pc = "off" /\ "DONE" \notin marks
  /\ changed' = {}
  /\ Goto(IF "RUN" \notin marks THEN "gate"
          ELSE IF "CAPTURE" \notin marks THEN "capture" ELSE "donemark")
  /\ UNCHANGED <<git, disk, process, strace, ghosts, counts>>

\* Mutant of Gate: an unusable binary sends the loop on to a phase it does not have.
GateFallsThrough(b) ==
  /\ pc = "gate"
  /\ Goto(IF GatePasses(b) THEN "run" ELSE "refused")
  /\ UNCHANGED <<git, disk, changed, process, strace, ghosts, counts>>

\* A refused binary ends the invocation before anything is touched.
Gate(b) ==
  /\ pc = "gate"
  /\ Goto(IF GatePasses(b) THEN "run" ELSE "off")
  /\ UNCHANGED <<git, disk, changed, process, strace, ghosts, counts>>

\* HEAD is recorded (git rev-parse may fail), the log files are emptied, the
\* agent is started under strace when there is one; a trace of an earlier
\* execution is overwritten.
RunBegin ==
  /\ pc = "run" /\ Goto("agent")
  /\ base' = head
  /\ \/ based' = TRUE /\ gitFailed' = FALSE /\ UNCHANGED failures
     \/ /\ failures < MaxFailures /\ failures' = failures + 1
        /\ based' = FALSE /\ gitFailed' = TRUE
  /\ stream' = <<>> /\ outcome' = "running" /\ patch' = NoPatch
  /\ proc' = [NotBegun EXCEPT ![1] = 1]
  /\ fds' = Closed /\ table' = Closed /\ blind' = AllSeen
  /\ findings' = {} /\ traced' = strace
  /\ strayed' = {} /\ unseen' = {}
  /\ UNCHANGED <<git, marks, evfile, patchfile, normfile, proof, changed, strace,
                 lost, ops, splits, crashes>>

-----------------------------------------------------------------------------
(* The agent.                                                              *)

Acting ==
  /\ pc = "agent" /\ ops < MaxOps
  /\ ops' = ops + 1
  /\ UNCHANGED <<pc, marks, traced, evfile, patchfile, normfile, proof, base, based,
                 outcome, patch, strace, lost, gitFailed, crashes, failures>>

\* A line on stdout.
Emit(e) ==
  /\ Acting
  /\ stream' = Append(stream, [whole |-> TRUE, event |-> e])
  /\ UNCHANGED <<git, findings, changed, tasks, strayed, unseen, splits>>

Work ==
  /\ Acting
  /\ UNCHANGED <<stream, findings, changed, tasks, strayed, unseen, splits>>

Change(c)  == Work /\ tree' = tree \cup {c} /\ c \notin tree /\ UNCHANGED <<index, head>>
Undo(c)    == Work /\ tree' = tree \ {c} /\ c \in tree /\ UNCHANGED <<index, head>>
GitAdd     == Work /\ index' = tree /\ index # tree /\ UNCHANGED <<tree, head>>
GitCommit  == Work /\ head' = index /\ head # index /\ UNCHANGED <<tree, index>>

\* The descriptors task t sees: those of its process.
Open(t) == fds[proc[t]]

\* The kernel hands out the lowest free descriptor.
Lowest(t, f) ==
  /\ proc[t] # 0 /\ f \in Fds /\ Open(t)[f] = Unknown
  /\ \A g \in Fds : g < f => Open(t)[g] # Unknown

\* The call's line is cut into "unfinished" and "resumed" because another task
\* called in between: neither part is a line the parser reads.
Split(split) ==
  /\ split => splits < MaxSplits
  /\ splits' = IF split THEN splits + 1 ELSE splits

\* A new task: a thread shares the descriptors, a process has a copy.  The
\* parser's table for its number is empty.
Spawn(t, u, thread) ==
  /\ Acting /\ proc[t] # 0 /\ proc[u] = 0
  /\ \A v \in Task : v < u => proc[v] # 0
  /\ proc' = [proc EXCEPT ![u] = IF thread THEN proc[t] ELSE u]
  /\ fds' = IF thread THEN fds ELSE [fds EXCEPT ![u] = Open(t)]
  /\ UNCHANGED <<git, stream, findings, changed, table, blind, strayed, unseen, splits>>

\* The parser does not follow an opening by a relative path whose parent it
\* does not know, or may know wrongly.
Blinds(t, path) ==
  \/ path.how = "cwd"
  \/ path.how = "fd" /\ (path.fd \in blind[t] \/ table[t][path.fd] = Unknown)

\* Descriptor f of t's process is new; the parser's table is right about it for
\* those who have followed, and may be out of date for the process's other tasks.
Opened(t, f, place, followed) ==
  /\ fds' = [fds EXCEPT ![proc[t]][f] = place]
  /\ blind' = [u \in Task |->
       IF proc[u] # proc[t] THEN blind[u]
       ELSE IF u \in followed THEN blind[u] \ {f} ELSE blind[u] \cup {f}]

OpenDir(t, f, path, split) ==
  /\ Acting /\ Lowest(t, f) /\ Split(split)
  /\ Opened(t, f, path.place, IF split \/ Blinds(t, path) THEN {} ELSE {t})
  /\ table' = IF split THEN table
              ELSE [table EXCEPT ![t] = TableAfterOpenDir(table[t], f, path)]
  /\ UNCHANGED <<git, stream, findings, changed, proc, strayed, unseen>>

\* The trace shows neither of the two.
DupDir(t, f, d) ==
  /\ Acting /\ Lowest(t, f) /\ Open(t)[d] # Unknown
  /\ Opened(t, f, Open(t)[d], {})
  /\ UNCHANGED <<git, stream, findings, changed, proc, table, strayed, unseen, splits>>

CloseDir(t, f) ==
  /\ Acting /\ proc[t] # 0 /\ Open(t)[f] # Unknown
  /\ fds' = [fds EXCEPT ![proc[t]][f] = Unknown]
  /\ UNCHANGED <<git, stream, findings, changed, proc, table, blind, strayed, unseen, splits>>

\* What the trace cannot show of a write: one by an absolute path below an
\* ignored prefix, one whose line is cut, one below a descriptor whose opening
\* the parser has not followed.
Hidden(t, path, split) ==
  \/ path.how = "abs" /\ path.place \in Ignored
  \/ split
  \/ path.how = "fd" /\ path.fd \in blind[t]

\* A call that makes, renames or unlinks a path, or opens a file to write it
\* (then it has the lowest descriptor for a moment: opened).
Write(t, path, opened, split) ==
  LET after == [f \in Fds |-> IF opened /\ ~split /\ Lowest(t, f) THEN Unknown
                              ELSE table[t][f]]
      out   == {path.place} \ (AllowedRoot \cup TraceAllowed)
  IN /\ Acting /\ proc[t] # 0 /\ Split(split)
     /\ opened => \E f \in Fds : Lowest(t, f)
     /\ table' = [table EXCEPT ![t] = after]
     /\ findings' = IF traced /\ ~split THEN findings \cup TraceFinding(after, path)
                    ELSE findings
     /\ changed' = changed \cup {path.place}
     /\ strayed' = strayed \cup out
     /\ unseen' = IF Hidden(t, path, split) THEN unseen \cup out ELSE unseen
     /\ UNCHANGED <<git, stream, proc, fds, blind>>

Path(t) ==
  {Absolute(p) : p \in Targets} \cup {RelativeCwd(p) : p \in Targets}
    \cup {RelativeTo(d, Open(t)[d]) : d \in {f \in Fds : Open(t)[f] # Unknown}}

FileCall(t) ==
  \/ \E u \in Task, thread \in BOOLEAN : Spawn(t, u, thread)
  \/ \E f \in Fds : CloseDir(t, f)
  \/ \E f, d \in Fds : DupDir(t, f, d)
  \/ \E path \in Path(t), split \in BOOLEAN :
       \/ \E f \in Fds : OpenDir(t, f, path, split)
       \/ \E opened \in BOOLEAN : Write(t, path, opened, split)

AgentStep ==
  \/ Emit([kind |-> "start"])
  \/ \E e \in ToolEvents \cup StepEvents : Emit(e)
  \/ \E c \in Changes : Change(c) \/ Undo(c)
  \/ GitAdd \/ GitCommit
  \/ \E t \in {u \in Task : proc[u] # 0} : FileCall(t)

\* The process ends by itself, or fails, or its time is up and it is killed;
\* then the last line of its output may be cut.
AgentEnds ==
  /\ pc = "agent" /\ Goto("extract")
  /\ TasksEnd
  /\ \/ outcome' \in {"ok", "failed"} /\ UNCHANGED stream
     \/ /\ outcome' = "failed" /\ stream # <<>>
        /\ stream' = [stream EXCEPT ![Len(stream)].whole = FALSE]
  /\ UNCHANGED <<git, disk, changed, base, based, patch, strace, strayed, unseen, lost,
                 gitFailed, counts>>

-----------------------------------------------------------------------------
(* The driver after the agent's end.                                       *)

\* Mutant of Tracked: the diff is taken against the HEAD the agent has left.
TrackedAgainstHead ==
  [add |-> {c \in tree \ head : c \in Edits \cup index},
   del |-> {c \in head : c \notin tree \/ c \in NewFiles \ index}]

\* git diff <base>: paths the index or the base knows.  Without a recorded base
\* it is git diff, against the index.
Tracked ==
  LET b == IF based THEN base ELSE index
  IN [add |-> {c \in tree \ b : c \in Edits \cup index},
      del |-> {c \in b : c \notin tree \/ c \in NewFiles \ index}]

\* git ls-files --others, without what lies under specs/.
Untracked == {c \in tree \ Plans : c \in NewFiles \ index}

\* Either command may fail; then its part of the patch is empty, and the
\* second part is not asked for.
ExtractPatch ==
  /\ pc = "extract" /\ Goto("events")
  /\ \/ /\ patch' = [Tracked EXCEPT !.add = @ \cup Untracked]
        /\ UNCHANGED <<gitFailed, failures>>
     \/ /\ failures < MaxFailures /\ failures' = failures + 1
        /\ gitFailed' = TRUE
        /\ patch' \in {[NoPatch EXCEPT !.add = Untracked], Tracked}
  /\ UNCHANGED <<git, disk, changed, base, based, stream, outcome, tasks, strace,
                 strayed, unseen, lost, ops, splits, crashes>>

WriteEvents ==
  /\ pc = "events" /\ Goto("runmark")
  /\ evfile' = ParseStream(stream)
                 \o (IF outcome = "ok" THEN <<>> ELSE <<TextEvent("none")>>)
                 \o <<[kind |-> "patch", diff |-> patch]>>
  /\ Forget
  /\ UNCHANGED <<git, marks, findings, traced, patchfile, normfile, proof, changed,
                 proc, fds, table, strace, ghosts, counts>>

Mark(from, m, to) ==
  /\ pc = from /\ Goto(to)
  /\ marks' = marks \cup {m}
  /\ UNCHANGED <<git, findings, traced, evfile, patchfile, normfile, proof, changed,
                 process, strace, ghosts, counts>>

MarkRun     == Mark("runmark", "RUN", "capture")
MarkCapture == Mark("capturemark", "CAPTURE", "donemark")
MarkDone    == Mark("donemark", "DONE", "proof")

WritePatch ==
  /\ pc = "capture" /\ Goto("normal")
  /\ patchfile' = Normalize(evfile).patch
  /\ UNCHANGED <<git, marks, findings, traced, evfile, normfile, proof, changed,
                 process, strace, ghosts, counts>>

\* evaluate_patch_precheck: what undoes a change the recorded base commit does
\* not have cannot apply to it; what adds may fail for other reasons.
PrecheckVerdict(p) ==
  IF p = NoPatch THEN {"no_patch"}
  ELSE {"precheck_failed"} \cup (IF p.del = {} THEN {"queued"} ELSE {})

WriteNormal ==
  /\ pc = "normal" /\ Goto("capturemark")
  /\ LET n == Normalize(evfile)
     IN \E v \in PrecheckVerdict(n.patch) :
          normfile' = [status |-> v, figures |-> [n EXCEPT !.patch = {}]]
  /\ UNCHANGED <<git, marks, findings, traced, evfile, patchfile, proof, changed,
                 process, strace, ghosts, counts>>

BoundaryFinish ==
  /\ pc = "proof" /\ Goto("off")
  /\ proof' = IF ProofPasses(changed, traced, findings) THEN "pass" ELSE "fail"
  /\ UNCHANGED <<git, marks, findings, traced, evfile, patchfile, normfile, changed,
                 process, strace, ghosts, counts>>

\* The driver and the agent are killed; what they hold in memory is lost.
Crash ==
  /\ pc # "off" /\ crashes < MaxCrashes /\ crashes' = crashes + 1
  /\ Goto("off")
  /\ Forget /\ TasksEnd
  /\ lost' = IF "RUN" \in marks THEN lost ELSE head
  /\ UNCHANGED <<git, disk, changed, strace, strayed, unseen, gitFailed, ops, splits,
                 failures>>

Finished == pc = "off" /\ "DONE" \in marks /\ UNCHANGED vars

DriverStep ==
  \/ Start \/ \E b \in Binaries : Gate(b)
  \/ RunBegin \/ ExtractPatch \/ WriteEvents \/ MarkRun
  \/ WritePatch \/ WriteNormal \/ MarkCapture \/ MarkDone \/ BoundaryFinish

Next == DriverStep \/ AgentStep \/ AgentEnds \/ Crash \/ Finished

Spec == Init /\ [][Next]_vars

-----------------------------------------------------------------------------
(* What must hold.                                                         *)

\* The patch that goes to the evaluation is everything the worktree shows
\* against the recorded base commit (plans under specs/ only if the agent put
\* them under version control), committed or not: git diff <base_commit> plus
\* the untracked files.  What a killed execution had committed is the one
\* thing missing, because the next one takes its HEAD for the base.
PatchIsNetChange ==
  normfile.status = "queued" /\ ~gitFailed
    => /\ patchfile.del = {}
       /\ patchfile.add = {c \in tree : c \in Plans => c \in index} \ lost

\* The pass of normalize_events with its pending list gives every step the
\* tools it names itself, or those that ran since the latest start or end of
\* a step, of whatever execution wrote the event file; delegation is told
\* from these.
ToolsAttributed ==
  normfile.status # "none"
    => LET all == Len(evfile)
       IN /\ normfile.figures.steps = AttributedSteps(evfile, all)
          /\ normfile.figures.tool_calls = Cardinality(CallsOf(evfile, all))
          /\ normfile.figures.delegated
               = \E k \in StepsAt(evfile, all) :
                   /\ NormalizeRole(evfile[k].role) = "pm"
                   /\ \E i \in DOMAIN ToolsOfStep(evfile, k) :
                        ToolsOfStep(evfile, k)[i] = <<"task", "orchestrator">>

\* A proof that passes speaks for the whole last execution, also when the
\* invocation that writes it only resumed the attempt: nothing was written
\* outside but what the trace cannot show, which is (Hidden) what is named by an
\* absolute path below /dev, /proc or /sys, what is written by a call whose line
\* strace cut in two, and what is written below a descriptor whose opening the
\* parser has not followed: it was opened below a parent the parser did not
\* know, or by another task of the process, or by a call whose line was cut, or
\* is a duplicate.  A write is a call boundary.py takes for one.
ProofIsTruthful == proof = "pass" => strayed \subseteq unseen

\* boundary.py:105, a note in every proof: "When filesystem tracing is
\* available, write-like syscalls are classified even outside monitored
\* roots."  So a proof that passes knows of no write outside.
OutsideWritesReported == proof = "pass" => strayed = {}
============================================================================
