--------------------------- MODULE AgentRun_proofs ---------------------------
(***************************************************************************)
(* Proofs about the agent's run, for any descriptors, targets, tasks,      *)
(* number of calls and kills: what a boundary proof that passes is worth,  *)
(* what the patch and the telemetry of an attempt are.                     *)
(***************************************************************************)
EXTENDS AgentRun, Telemetry_proofs

Typed ==
  /\ pc \in Label
  /\ proc \in [Task -> {0} \cup Task]
  /\ fds \in [Task -> [Fds -> Place \cup {Unknown}]]
  /\ table \in [Task -> [Fds -> Place \cup {Unknown}]]
  /\ blind \in [Task -> SUBSET Fds]

\* A task belongs to a process that has begun; the parser has no table for a
\* task that has not.
Begun ==
  \A t \in Task :
    /\ proc[t] # 0 => proc[proc[t]] = proc[t]
    /\ proc[t] = 0 => \A f \in Fds : table[t][f] = Unknown

\* Of an open descriptor that is not blind the parser's table says what is true,
\* or nothing.
TableTells ==
  \A t \in Task, f \in Fds :
    proc[t] # 0 /\ Open(t)[f] # Unknown /\ f \notin blind[t]
      => table[t][f] \in {Unknown, Open(t)[f]}

\* A trace that shows nothing has missed nothing but what it cannot show.
TraceTells == traced /\ findings = {} => strayed \subseteq unseen

\* The proof is the last thing written.
ProofIsLast ==
  /\ pc = "proof" => "DONE" \in marks
  /\ proof # "none" => pc = "off" /\ "DONE" \in marks

Inv == Typed /\ Begun /\ TableTells /\ TraceTells /\ ProofIsLast /\ ProofIsTruthful

-----------------------------------------------------------------------------
(* Operators.                                                              *)

\* What the parser is told of a call it understands is where the call leads;
\* a call outside it does not understand is a finding as well.
LEMMA FindingsTell ==
  ASSUME NEW t \in [Fds -> Place \cup {Unknown}], NEW path,
         \/ path.how = "abs" /\ path.place \notin Ignored \cup {Unknown}
         \/ path.how = "cwd"
         \/ path.how = "fd" /\ t[path.fd] \in {Unknown, path.place},
         path.place \notin AllowedRoot \cup TraceAllowed
  PROVE  TraceFinding(t, path) # {}
BY DEF TraceFinding, ParentOf

\* A place is always known.
LEMMA UnknownIsNoPlace == Unknown \notin Place
BY DEF Unknown, Place

\* No task has the number that stands for no process.
LEMMA TaskNumbers == /\ 0 \notin Task
                     /\ 1 \in Task
BY AgentRunAssumption DEF Task

-----------------------------------------------------------------------------
(* The calls of the agent.                                                 *)

\* The paths a task can name.
LEMMA PathShape ==
  ASSUME Typed, NEW t \in Task, proc[t] # 0, NEW path \in Path(t)
  PROVE  /\ path.place \in Place
         /\ \/ path.how \in {"abs", "cwd"}
            \/ path.how = "fd" /\ path.fd \in Fds /\ Open(t)[path.fd] = path.place
<1>1. fds[proc[t]] \in [Fds -> Place \cup {Unknown}] BY DEF Typed
<1> QED BY <1>1, AgentRunAssumption, UnknownIsNoPlace
        DEF Path, Open, Absolute, RelativeTo, RelativeCwd

\* A descriptor that a task opens is blind for the others of its process; of one
\* it has followed the table must tell it.
LEMMA OpenedTells ==
  ASSUME Inv, NEW t \in Task, proc[t] # 0, NEW f \in Fds, NEW place \in Place,
         NEW followed \in {{}, {t}}, Opened(t, f, place, followed), UNCHANGED proc,
         \A u \in Task, g \in Fds : u # t \/ g # f => table'[u][g] = table[u][g],
         followed = {t} => table'[t][f] \in {Unknown, place},
         table' \in [Task -> [Fds -> Place \cup {Unknown}]]
  PROVE  /\ fds' \in [Task -> [Fds -> Place \cup {Unknown}]]
         /\ blind' \in [Task -> SUBSET Fds]
         /\ Begun' /\ TableTells'
<1> DEFINE p == proc[t]
<1>1. p \in Task BY DEF Inv, Typed
<1>2. /\ fds \in [Task -> [Fds -> Place \cup {Unknown}]]
      /\ blind \in [Task -> SUBSET Fds]
      /\ proc \in [Task -> {0} \cup Task]
  BY DEF Inv, Typed
<1>3. fds' = [fds EXCEPT ![p][f] = place] BY DEF Opened
<1>4. blind' = [u \in Task |->
         IF proc[u] # p THEN blind[u]
         ELSE IF u \in followed THEN blind[u] \ {f} ELSE blind[u] \cup {f}]
  BY DEF Opened
<1>5. /\ \A q \in Task : q # p => fds'[q] = fds[q]
      /\ \A g \in Fds : g # f => fds'[p][g] = fds[p][g]
      /\ fds'[p][f] = place
      /\ fds' \in [Task -> [Fds -> Place \cup {Unknown}]]
  BY <1>1, <1>2, <1>3
<1>6. blind' \in [Task -> SUBSET Fds] BY <1>2, <1>4
<1>7. Begun' BY <1>1 DEF Inv, Begun
<1>8. TableTells'
  <2> SUFFICES ASSUME NEW u \in Task, NEW g \in Fds, proc[u] # 0,
                      fds'[proc[u]][g] # Unknown, g \notin blind'[u]
               PROVE  table'[u][g] \in {Unknown, fds'[proc[u]][g]}
    BY DEF TableTells, Open
  <2>1. CASE proc[u] # p \/ g # f
    <3>1. fds'[proc[u]][g] = fds[proc[u]][g] BY <1>2, <1>5, <2>1
    <3>2. g \notin blind[u] BY <1>4, <2>1
    <3>3. table'[u][g] = table[u][g] BY <2>1
    <3> QED BY <3>1, <3>2, <3>3 DEF Inv, TableTells, Open
  <2>2. CASE proc[u] = p /\ g = f
    <3>1. u \in followed BY <1>4, <2>2
    <3> QED BY <1>5, <2>2, <3>1
  <2> QED BY <2>1, <2>2
<1> QED BY <1>5, <1>6, <1>7, <1>8

\* A directory is opened: the descriptor is blind, or the table has its place.
LEMMA OpenDirStep ==
  ASSUME Inv, NEW t \in Task, proc[t] # 0, NEW path \in Path(t), NEW f \in Fds,
         NEW split \in BOOLEAN, OpenDir(t, f, path, split)
  PROVE  Inv'
<1> DEFINE followed == IF split \/ Blinds(t, path) THEN {} ELSE {t}
<1>1. path.place \in Place /\ path.place # Unknown
  BY PathShape, UnknownIsNoPlace DEF Inv
<1>2. /\ Opened(t, f, path.place, followed)
      /\ table' = IF split THEN table
                  ELSE [table EXCEPT ![t] = TableAfterOpenDir(table[t], f, path)]
      /\ UNCHANGED <<pc, marks, traced, findings, proof, proc, strayed, unseen>>
  BY DEF OpenDir, Acting
<1>3. table \in [Task -> [Fds -> Place \cup {Unknown}]] BY DEF Inv, Typed
<1>4. ParentOf(table[t], path) \in Place \cup {Unknown}
  BY <1>3, PathShape DEF ParentOf, Inv
<1>5. TableAfterOpenDir(table[t], f, path) \in [Fds -> Place \cup {Unknown}]
  BY <1>1, <1>3, <1>4 DEF TableAfterOpenDir
<1>6. table' \in [Task -> [Fds -> Place \cup {Unknown}]] BY <1>2, <1>3, <1>5
<1>7. \A u \in Task, g \in Fds : u # t \/ g # f => table'[u][g] = table[u][g]
  BY <1>2, <1>3 DEF TableAfterOpenDir
<1>8. followed = {t} => table'[t][f] \in {Unknown, path.place}
  <2> SUFFICES ASSUME ~split, ~Blinds(t, path) PROVE table'[t][f] = path.place
    OBVIOUS
  <2>1. table'[t] = TableAfterOpenDir(table[t], f, path) BY <1>2, <1>3
  <2>2. CASE path.how = "abs" BY <1>1, <1>3, <2>1, <2>2 DEF TableAfterOpenDir
  <2>3. CASE path.how = "fd"
    <3>1. /\ path.fd \in Fds /\ Open(t)[path.fd] = path.place
          /\ path.fd \notin blind[t] /\ table[t][path.fd] # Unknown
      BY <2>3, PathShape DEF Blinds, Inv
    <3>2. table[t][path.fd] = path.place BY <1>1, <3>1 DEF Inv, TableTells
    <3> QED BY <1>1, <1>3, <2>1, <2>3, <3>2 DEF TableAfterOpenDir, ParentOf
  <2> QED BY <2>2, <2>3, PathShape DEF Blinds, Inv
<1>9. followed \in {{}, {t}} OBVIOUS
<1> HIDE DEF followed
<1>10. /\ fds' \in [Task -> [Fds -> Place \cup {Unknown}]]
       /\ blind' \in [Task -> SUBSET Fds]
       /\ Begun' /\ TableTells'
  <2>1. Opened(t, f, path.place, followed) /\ UNCHANGED proc BY <1>2
  <2> QED BY <1>1, <2>1, <1>6, <1>7, <1>8, <1>9, OpenedTells
<1>11. Typed' BY <1>2, <1>6, <1>10 DEF Inv, Typed
<1>12. TraceTells' /\ ProofIsLast' /\ ProofIsTruthful'
  BY <1>2 DEF Inv, TraceTells, ProofIsLast, ProofIsTruthful
<1> QED BY <1>10, <1>11, <1>12 DEF Inv

\* A duplicate is blind.
LEMMA DupDirStep ==
  ASSUME Inv, NEW t \in Task, proc[t] # 0, NEW f \in Fds, NEW d \in Fds, DupDir(t, f, d)
  PROVE  Inv'
<1>1. /\ Opened(t, f, Open(t)[d], {}) /\ Open(t)[d] # Unknown
      /\ UNCHANGED <<pc, marks, traced, findings, proof, proc, table, strayed, unseen>>
  BY DEF DupDir, Acting
<1>2. Open(t)[d] \in Place BY <1>1 DEF Inv, Typed, Open
<1>3. table \in [Task -> [Fds -> Place \cup {Unknown}]] BY DEF Inv, Typed
<1>4. /\ fds' \in [Task -> [Fds -> Place \cup {Unknown}]]
      /\ blind' \in [Task -> SUBSET Fds]
      /\ Begun' /\ TableTells'
  <2>1. {} # {t} OBVIOUS
  <2> QED BY <1>1, <1>2, <1>3, <2>1, OpenedTells
<1>5. Typed' BY <1>1, <1>4 DEF Inv, Typed
<1>6. TraceTells' /\ ProofIsLast' /\ ProofIsTruthful'
  BY <1>1 DEF Inv, TraceTells, ProofIsLast, ProofIsTruthful
<1> QED BY <1>4, <1>5, <1>6 DEF Inv

\* A new task is one the parser knows nothing of.
LEMMA SpawnStep ==
  ASSUME Inv, NEW t \in Task, NEW u \in Task, NEW thread \in BOOLEAN, Spawn(t, u, thread)
  PROVE  Inv'
<1>1. /\ proc[t] # 0 /\ proc[u] = 0
      /\ proc' = [proc EXCEPT ![u] = IF thread THEN proc[t] ELSE u]
      /\ fds' = IF thread THEN fds ELSE [fds EXCEPT ![u] = Open(t)]
      /\ UNCHANGED <<pc, marks, traced, findings, proof, table, blind, strayed, unseen>>
  BY DEF Spawn, Acting
<1>2. /\ proc \in [Task -> {0} \cup Task] /\ proc[t] \in Task
      /\ fds \in [Task -> [Fds -> Place \cup {Unknown}]]
  BY <1>1 DEF Inv, Typed
<1>3. /\ proc' \in [Task -> {0} \cup Task]
      /\ fds' \in [Task -> [Fds -> Place \cup {Unknown}]]
  BY <1>1, <1>2 DEF Open
<1>4. Typed' BY <1>1, <1>3 DEF Inv, Typed
<1>5. \A v \in Task : v # u => proc'[v] = proc[v] /\ (proc[v] # 0 => proc[v] # u)
  BY <1>1, <1>2 DEF Inv, Begun
<1>6. proc'[u] = (IF thread THEN proc[t] ELSE u) /\ t # u /\ u # 0
  BY <1>1, <1>2, TaskNumbers
<1>7. Begun'
  <2>1. proc[t] # u /\ proc[proc[t]] = proc[t] BY <1>1, <1>5, <1>6 DEF Inv, Begun
  <2>2. proc'[u] # 0 /\ proc'[proc'[u]] = proc'[u] BY <1>1, <1>2, <1>5, <1>6, <2>1
  <2>3. \A v \in Task : v # u /\ proc[v] # 0 => proc'[proc'[v]] = proc'[v]
    BY <1>2, <1>5 DEF Inv, Begun
  <2>4. \A v \in Task : proc'[v] = 0 => proc[v] = 0 BY <1>5, <2>2
  <2> QED BY <1>1, <1>5, <2>2, <2>3, <2>4 DEF Inv, Begun
<1>8. TableTells'
  <2> SUFFICES ASSUME NEW v \in Task, NEW g \in Fds, proc'[v] # 0,
                      fds'[proc'[v]][g] # Unknown, g \notin blind[v]
               PROVE  table[v][g] \in {Unknown, fds'[proc'[v]][g]}
    BY <1>1 DEF TableTells, Open
  <2>1. CASE v = u BY <1>1, <2>1 DEF Inv, Begun
  <2>2. CASE v # u
    <3>1. proc'[v] = proc[v] /\ proc[v] # 0 /\ proc[v] # u BY <1>5, <2>2
    <3>2. fds'[proc[v]] = fds[proc[v]] BY <1>1, <1>2, <3>1
    <3> QED BY <3>1, <3>2 DEF Inv, TableTells, Open
  <2> QED BY <2>1, <2>2
<1>9. TraceTells' /\ ProofIsLast' /\ ProofIsTruthful'
  BY <1>1 DEF Inv, TraceTells, ProofIsLast, ProofIsTruthful
<1> QED BY <1>4, <1>7, <1>8, <1>9 DEF Inv

\* The parser loses nothing when a descriptor is closed: its entry is stale, but
\* of no open descriptor.
LEMMA CloseDirStep ==
  ASSUME Inv, NEW t \in Task, NEW f \in Fds, CloseDir(t, f) PROVE Inv'
<1>1. /\ proc[t] # 0
      /\ fds' = [fds EXCEPT ![proc[t]][f] = Unknown]
      /\ UNCHANGED <<pc, marks, traced, findings, proof, proc, table, blind, strayed, unseen>>
  BY DEF CloseDir, Acting
<1>2. proc[t] \in Task /\ fds \in [Task -> [Fds -> Place \cup {Unknown}]]
      /\ proc \in [Task -> {0} \cup Task]
  BY <1>1 DEF Inv, Typed
<1>3. fds' \in [Task -> [Fds -> Place \cup {Unknown}]] BY <1>1, <1>2
<1>4. \A q \in Task, g \in Fds : fds'[q][g] # Unknown => fds'[q][g] = fds[q][g]
  BY <1>1, <1>2
<1>5. TableTells'
  <2> SUFFICES ASSUME NEW u \in Task, NEW g \in Fds, proc[u] # 0,
                      fds'[proc[u]][g] # Unknown, g \notin blind[u]
               PROVE  table[u][g] \in {Unknown, fds'[proc[u]][g]}
    BY <1>1 DEF TableTells, Open
  <2>1. fds'[proc[u]][g] = fds[proc[u]][g] BY <1>2, <1>4
  <2> QED BY <2>1 DEF Inv, TableTells, Open
<1>6. Typed' /\ Begun' BY <1>1, <1>3 DEF Inv, Typed, Begun
<1>7. TraceTells' /\ ProofIsLast' /\ ProofIsTruthful'
  BY <1>1 DEF Inv, TraceTells, ProofIsLast, ProofIsTruthful
<1> QED BY <1>5, <1>6, <1>7 DEF Inv

\* A write outside becomes a finding, or it is one the trace cannot show.
LEMMA WriteStep ==
  ASSUME Inv, NEW t \in Task, proc[t] # 0, NEW path \in Path(t),
         NEW opened \in BOOLEAN, NEW split \in BOOLEAN, Write(t, path, opened, split)
  PROVE  Inv'
<1> DEFINE after == [f \in Fds |-> IF opened /\ ~split /\ Lowest(t, f) THEN Unknown
                                   ELSE table[t][f]]
           out   == {path.place} \ (AllowedRoot \cup TraceAllowed)
<1>1. /\ UNCHANGED <<pc, marks, proof, traced, proc, fds, blind>>
      /\ table' = [table EXCEPT ![t] = after]
      /\ findings' = IF traced /\ ~split THEN findings \cup TraceFinding(after, path)
                     ELSE findings
      /\ strayed' = strayed \cup out
      /\ unseen' = IF Hidden(t, path, split) THEN unseen \cup out ELSE unseen
  BY DEF Write, Acting
<1>2. \A f \in Fds : Open(t)[f] # Unknown => after[f] = table[t][f] BY DEF Lowest
<1>3. table \in [Task -> [Fds -> Place \cup {Unknown}]] BY DEF Inv, Typed
<1>4. after \in [Fds -> Place \cup {Unknown}] BY <1>3
<1> HIDE DEF after
<1>5. Typed' BY <1>1, <1>3, <1>4 DEF Inv, Typed
<1>6. Begun' BY <1>1, <1>3 DEF Inv, Begun
<1>7. TableTells' BY <1>1, <1>2, <1>3 DEF Inv, TableTells, Open
<1>8. TraceTells'
  <2> SUFFICES ASSUME traced, findings = {}, split \/ TraceFinding(after, path) = {}
               PROVE  strayed' \subseteq unseen'
    BY <1>1 DEF TraceTells
  <2>1. strayed \subseteq unseen BY DEF Inv, TraceTells
  <2>2. CASE Hidden(t, path, split) BY <1>1, <2>1, <2>2
  <2>3. CASE ~Hidden(t, path, split)
    <3>1. /\ path.place # Unknown /\ ~split
          /\ path.how = "abs" => path.place \notin Ignored
          /\ path.how = "fd" => path.fd \notin blind[t]
      BY <2>3, PathShape, UnknownIsNoPlace DEF Hidden, Inv
    <3>2. path.how = "fd" => after[path.fd] \in {Unknown, path.place}
      BY <1>2, <3>1, PathShape DEF Inv, TableTells
    <3>3. CASE path.place \notin AllowedRoot \cup TraceAllowed
      <4>1. \/ path.how = "abs" /\ path.place \notin Ignored \cup {Unknown}
            \/ path.how = "cwd"
            \/ path.how = "fd" /\ after[path.fd] \in {Unknown, path.place}
        BY <3>1, <3>2, PathShape DEF Inv
      <4>2. TraceFinding(after, path) # {} BY <1>4, <3>3, <4>1, FindingsTell
      <4> QED BY <3>1, <4>2
    <3>4. CASE path.place \in AllowedRoot \cup TraceAllowed BY <1>1, <2>1, <3>4
    <3> QED BY <3>3, <3>4
  <2> QED BY <2>2, <2>3
<1>9. ProofIsLast' /\ ProofIsTruthful'
  <2>1. proof = "none" BY DEF Inv, ProofIsLast, Write, Acting
  <2> QED BY <1>1, <2>1 DEF Inv, ProofIsLast, ProofIsTruthful
<1> QED BY <1>5, <1>6, <1>7, <1>8, <1>9 DEF Inv

\* What the agent does: only its file system calls touch what the proof is about.
LEMMA AgentKeeps == ASSUME Inv, AgentStep PROVE Inv'
<1>1. ASSUME NEW e, Emit(e) PROVE Inv'
  BY <1>1 DEF Emit, Acting, tasks, Inv, Typed, Begun, TableTells, Open, TraceTells,
              ProofIsLast, ProofIsTruthful
<1>2. CASE Work
  BY <1>2 DEF Work, Acting, tasks, Inv, Typed, Begun, TableTells, Open, TraceTells,
              ProofIsLast, ProofIsTruthful
<1>3. ASSUME NEW t \in Task, proc[t] # 0, FileCall(t) PROVE Inv'
  BY <1>3, SpawnStep, CloseDirStep, DupDirStep, OpenDirStep, WriteStep DEF FileCall
<1>4. AgentStep => (\E e : Emit(e)) \/ Work \/ \E t \in Task : proc[t] # 0 /\ FileCall(t)
  BY DEF AgentStep, Change, Undo, GitAdd, GitCommit
<1> QED BY <1>1, <1>2, <1>3, <1>4

-----------------------------------------------------------------------------
(* The driver.                                                             *)

\* A new execution starts with a new trace; the verdict is written last.
LEMMA DriverKeeps == ASSUME Inv, DriverStep PROVE Inv'
<1>1. CASE RunBegin
  <2>1. /\ pc' = "agent" /\ findings' = {} /\ strayed' = {} /\ unseen' = {}
        /\ proc' = [NotBegun EXCEPT ![1] = 1]
        /\ fds' = Closed /\ table' = Closed /\ blind' = AllSeen
        /\ UNCHANGED <<marks, proof>> /\ pc = "run"
    BY <1>1 DEF RunBegin, Goto
  <2>2. Typed' BY <2>1, TaskNumbers DEF Typed, Closed, AllSeen, NotBegun, Label
  <2>3. Begun' BY <2>1, TaskNumbers DEF Begun, NotBegun, Closed
  <2>4. TableTells' BY <2>1, <2>2, TaskNumbers DEF TableTells, Open, Closed, Typed
  <2>5. TraceTells' /\ ProofIsLast' /\ ProofIsTruthful'
    BY <2>1 DEF Inv, TraceTells, ProofIsLast, ProofIsTruthful
  <2> QED BY <2>2, <2>3, <2>4, <2>5 DEF Inv
<1>2. CASE DriverStep /\ ~RunBegin
  <2>1. UNCHANGED tasks
    BY <1>2 DEF DriverStep, Start, Gate, ExtractPatch, WriteEvents, MarkRun, MarkCapture,
                MarkDone, Mark, WritePatch, WriteNormal, BoundaryFinish, tasks, process,
                ghosts
  <2>2. Begun' /\ TableTells' BY <2>1 DEF Inv, Begun, TableTells, Open, tasks
  <2>3. Typed' /\ TraceTells' /\ ProofIsLast' /\ ProofIsTruthful'
    <3> USE DEF Inv, Typed, TraceTells, ProofIsLast, ProofIsTruthful, Label, Goto, tasks
    <3>1. CASE Start BY <2>1, <3>1 DEF Start, disk, ghosts
    <3>2. ASSUME NEW b \in Binaries, Gate(b)
          PROVE  Typed' /\ TraceTells' /\ ProofIsLast' /\ ProofIsTruthful'
      BY <2>1, <3>2 DEF Gate, disk, ghosts
    <3>3. CASE ExtractPatch BY <2>1, <3>3 DEF ExtractPatch, disk
    <3>4. CASE WriteEvents BY <2>1, <3>4 DEF WriteEvents, ghosts
    <3>5. CASE MarkRun \/ MarkCapture
      BY <2>1, <3>5 DEF MarkRun, MarkCapture, Mark, ghosts
    <3>6. CASE MarkDone BY <2>1, <3>6 DEF MarkDone, Mark, ghosts
    <3>7. CASE WritePatch BY <2>1, <3>7 DEF WritePatch, ghosts
    <3>8. CASE WriteNormal BY <2>1, <3>8 DEF WriteNormal, ghosts
    <3>9. CASE BoundaryFinish BY <2>1, <3>9 DEF BoundaryFinish, ProofPasses, ghosts
    <3> QED BY <1>2, <3>1, <3>2, <3>3, <3>4, <3>5, <3>6, <3>7, <3>8, <3>9 DEF DriverStep
  <2> QED BY <2>2, <2>3 DEF Inv
<1> QED BY <1>1, <1>2

\* When the tasks are gone the parser's tables are about nothing.
LEMMA EndTells ==
  ASSUME TasksEnd
  PROVE  /\ Begun' /\ TableTells'
         /\ proc' \in [Task -> {0} \cup Task]
         /\ fds' \in [Task -> [Fds -> Place \cup {Unknown}]]
         /\ table' \in [Task -> [Fds -> Place \cup {Unknown}]]
         /\ blind' \in [Task -> SUBSET Fds]
BY DEF TasksEnd, Begun, TableTells, NotBegun, Closed, AllSeen

\* Every step keeps the invariant; a kill forgets the parser's table with the
\* descriptors it is about.
LEMMA InvStep == Inv /\ [Next]_vars => Inv'
<1> SUFFICES ASSUME Inv, [Next]_vars PROVE Inv' OBVIOUS
<1>1. CASE DriverStep BY <1>1, DriverKeeps
<1>2. CASE AgentStep BY <1>2, AgentKeeps
<1>3. CASE AgentEnds
  <2>1. TasksEnd BY <1>3 DEF AgentEnds
  <2>2. Begun' /\ TableTells' /\ Typed'
    BY <1>3, <2>1, EndTells DEF Typed, AgentEnds, Goto, Label
  <2>3. TraceTells' /\ ProofIsLast' /\ ProofIsTruthful'
    BY <1>3 DEF AgentEnds, Goto, disk, Inv, TraceTells, ProofIsLast, ProofIsTruthful
  <2> QED BY <2>2, <2>3 DEF Inv
<1>4. CASE Crash
  <2>1. TasksEnd BY <1>4 DEF Crash
  <2>2. Begun' /\ TableTells' /\ Typed'
    BY <1>4, <2>1, EndTells DEF Typed, Crash, Goto, Label
  <2>3. TraceTells' /\ ProofIsLast' /\ ProofIsTruthful'
    BY <1>4 DEF Crash, Goto, disk, Inv, TraceTells, ProofIsLast, ProofIsTruthful
  <2> QED BY <2>2, <2>3 DEF Inv
<1>5. CASE UNCHANGED vars
  BY <1>5 DEF vars, disk, process, ghosts, Inv, Typed, Begun, TableTells, Open,
              TraceTells, ProofIsLast, ProofIsTruthful
<1> QED BY <1>1, <1>2, <1>3, <1>4, <1>5 DEF Next, Finished

\* There is no trace and no proof at first.
LEMMA InvInit == Init => Inv
BY DEF Init, Inv, Typed, Begun, TableTells, TraceTells, ProofIsLast, ProofIsTruthful,
       Closed, NotBegun, AllSeen, Label

\* A boundary proof that passes speaks for the whole last execution, whatever
\* tasks the agent starts and descriptors they open, share and close: nothing was
\* written outside but by an absolute path below /dev, /proc or /sys, by a call
\* whose line was cut, or below a descriptor whose opening the parser has not
\* followed.
THEOREM ProofTruthful == Spec => []ProofIsTruthful
<1>1. Inv => ProofIsTruthful BY DEF Inv
<1> QED BY InvInit, InvStep, <1>1, PTL DEF Spec

-----------------------------------------------------------------------------
(* What the attempt leaves: the patch and the telemetry.                   *)

\* The attempt has its events for good, or is about to.
Written == pc = "runmark" \/ "RUN" \in marks

\* Which phases are over, by where the driver is.
Phases ==
  /\ pc \in {"gate", "run", "agent", "extract", "events", "runmark"} => "RUN" \notin marks
  /\ pc \in {"capture", "normal", "capturemark", "donemark", "proof"} => "RUN" \in marks
  /\ "CAPTURE" \in marks \/ "DONE" \in marks => "RUN" \in marks

\* What killed executions had committed is what the next one takes for its base.
BaseIsLost ==
  /\ pc \in {"off", "gate", "run"} /\ "RUN" \notin marks => lost = head
  /\ pc \in {"agent", "extract"} => base = lost /\ (based \/ gitFailed)

\* What the worktree shows against a base.
Net(b) ==
  [add |-> {c \in tree \ b : c \in Edits \cup index} \cup Untracked,
   del |-> {c \in b : c \notin tree \/ c \in NewFiles \ index}]

\* From its extraction on, the patch is what the worktree shows.
PatchKept ==
  /\ pc = "events" /\ ~gitFailed => patch = Net(lost)
  /\ Written => Normalize(evfile).patch \in Patch
  /\ Written /\ ~gitFailed => Normalize(evfile).patch = Net(lost)

\* The files of CAPTURE are made from the event file.
Captured ==
  /\ pc = "normal" => patchfile = Normalize(evfile).patch
  /\ normfile.status # "none" =>
       /\ "RUN" \in marks
       /\ patchfile = Normalize(evfile).patch
       /\ normfile.figures = [Normalize(evfile) EXCEPT !.patch = {}]
       /\ normfile.status = "queued" => patchfile.del = {}

RunInv == TypeOK /\ Phases /\ BaseIsLost /\ PatchKept /\ Captured

\* A step that leaves the worktree and the base alone leaves the net change.
LEMMA NetSame ==
  ASSUME tree' = tree, index' = index, lost' = lost PROVE Net(lost)' = Net(lost)
BY DEF Net, Untracked

\* The net change is a patch.
LEMMA NetType == ASSUME TypeOK PROVE Net(lost) \in Patch
BY DEF TypeOK, Net, Untracked, Patch, Changes

\* The types of the descriptors are part of the type invariant.
LEMMA TypesAgree == TypeOK => Typed
BY DEF TypeOK, Typed

\* What the agent does touches nothing that the driver keeps.
LEMMA ActingKeeps ==
  ASSUME RunInv, Acting PROVE Phases' /\ BaseIsLost' /\ PatchKept' /\ Captured'
<1>1. /\ pc = "agent" /\ pc' = pc /\ marks' = marks /\ evfile' = evfile
      /\ patchfile' = patchfile /\ normfile' = normfile /\ base' = base /\ lost' = lost
      /\ based' = based /\ gitFailed' = gitFailed
  BY DEF Acting
<1>2. "RUN" \notin marks BY <1>1 DEF RunInv, Phases
<1>3. Phases' /\ BaseIsLost' BY <1>1 DEF RunInv, Phases, BaseIsLost
<1>4. PatchKept' BY <1>1, <1>2 DEF PatchKept, Written
<1>5. Captured' BY <1>1, <1>2 DEF RunInv, Captured
<1> QED BY <1>3, <1>4, <1>5

\* The rest of what the agent leaves alone keeps its type.
LEMMA ActingTypes ==
  ASSUME TypeOK, Acting
  PROVE  /\ marks' \subseteq {"RUN", "CAPTURE", "DONE"} /\ traced' \in BOOLEAN
         /\ evfile' \in Seq(Event(Patch)) /\ patchfile' \in Patch
         /\ normfile'.status \in {"none", "no_patch", "queued", "precheck_failed"}
         /\ proof' \in {"none", "pass", "fail"}
         /\ pc' \in Label /\ base' \subseteq Changes /\ based' \in BOOLEAN
         /\ outcome' \in {"running", "ok", "failed"} /\ patch' \in Patch
         /\ strace' \in BOOLEAN /\ gitFailed' \in BOOLEAN
         /\ lost' \subseteq Changes
         /\ ops' \in 0 .. MaxOps
         /\ crashes' \in 0 .. MaxCrashes /\ failures' \in 0 .. MaxFailures
<1>1. ops' \in 0 .. MaxOps BY AgentRunAssumption DEF TypeOK, Acting
<1> QED BY <1>1 DEF TypeOK, Acting

\* The agent's steps keep the types.
LEMMA AgentTypes == ASSUME TypeOK, AgentStep PROVE TypeOK'
<1>1. ASSUME NEW e \in {[kind |-> "start"]} \cup ToolEvents \cup StepEvents, Emit(e)
      PROVE  TypeOK'
  <2>1. Acting BY <1>1 DEF Emit
  <2>2. [whole |-> TRUE, event |-> e] \in Line BY DEF Line
  <2>3. stream' \in Seq(Line)
    <3>1. stream \in Seq(Line) BY DEF TypeOK
    <3>2. stream' = Append(stream, [whole |-> TRUE, event |-> e]) BY <1>1 DEF Emit
    <3> HIDE DEF Line
    <3> QED BY <2>2, <3>1, <3>2
  <2>4. UNCHANGED <<git, findings, changed, tasks, strayed, unseen, splits>>
    BY <1>1 DEF Emit
  <2> QED BY <2>1, <2>3, <2>4, ActingTypes DEF TypeOK, git, tasks
<1>2. ASSUME Work, tree' \subseteq Changes, index' \subseteq Changes, head' \subseteq Changes
      PROVE  TypeOK'
  <2>1. Acting BY <1>2 DEF Work
  <2>2. UNCHANGED <<stream, findings, changed, tasks, strayed, unseen, splits>>
    BY <1>2 DEF Work
  <2> QED BY <1>2, <2>1, <2>2, ActingTypes DEF TypeOK, tasks
<1>3. ASSUME NEW c \in Changes, Change(c) \/ Undo(c) PROVE TypeOK'
  BY <1>2, <1>3 DEF Change, Undo, TypeOK
<1>4. CASE GitAdd \/ GitCommit BY <1>2, <1>4 DEF GitAdd, GitCommit, TypeOK
<1>5. ASSUME NEW t \in Task, proc[t] # 0, FileCall(t) PROVE TypeOK'
  <2> DEFINE Files == [Fds -> Place \cup {Unknown}]
  <2>1. /\ proc \in [Task -> {0} \cup Task] /\ proc[t] \in Task
        /\ fds \in [Task -> Files] /\ table \in [Task -> Files]
        /\ blind \in [Task -> SUBSET Fds]
    BY <1>5 DEF TypeOK
  <2>2. Typed BY TypesAgree
  <2>3. ASSUME NEW u \in Task, NEW thread \in BOOLEAN, Spawn(t, u, thread) PROVE TypeOK'
    <3>1. /\ Acting
          /\ proc' = [proc EXCEPT ![u] = IF thread THEN proc[t] ELSE u]
          /\ fds' = IF thread THEN fds ELSE [fds EXCEPT ![u] = Open(t)]
          /\ UNCHANGED <<git, stream, findings, changed, table, blind, strayed, unseen,
                         splits>>
      BY <2>3 DEF Spawn
    <3>2. proc' \in [Task -> {0} \cup Task] BY <2>1, <3>1
    <3>3. fds' \in [Task -> Files] BY <2>1, <3>1 DEF Open
    <3> QED BY <3>1, <3>2, <3>3, ActingTypes DEF TypeOK, git
  <2>4. ASSUME NEW f \in Fds, CloseDir(t, f) PROVE TypeOK'
    <3>1. /\ Acting
          /\ fds' = [fds EXCEPT ![proc[t]][f] = Unknown]
          /\ UNCHANGED <<git, stream, findings, changed, proc, table, blind, strayed,
                         unseen, splits>>
      BY <2>4 DEF CloseDir
    <3>2. fds' \in [Task -> Files] BY <2>1, <3>1
    <3> QED BY <3>1, <3>2, ActingTypes DEF TypeOK, git
  <2>5. ASSUME NEW f \in Fds, NEW place \in Place, NEW followed, Opened(t, f, place, followed)
        PROVE  fds' \in [Task -> Files] /\ blind' \in [Task -> SUBSET Fds]
    BY <2>1, <2>5 DEF Opened
  <2>6. ASSUME NEW f \in Fds, NEW d \in Fds, DupDir(t, f, d) PROVE TypeOK'
    <3>1. /\ Acting /\ Opened(t, f, Open(t)[d], {}) /\ Open(t)[d] # Unknown
          /\ UNCHANGED <<git, stream, findings, changed, proc, table, strayed, unseen, splits>>
      BY <2>6 DEF DupDir
    <3>2. Open(t)[d] \in Place BY <2>1, <3>1 DEF Open
    <3>3. fds' \in [Task -> Files] /\ blind' \in [Task -> SUBSET Fds] BY <2>5, <3>1, <3>2
    <3> QED BY <3>1, <3>3, ActingTypes DEF TypeOK, git
  <2>7. ASSUME NEW path \in Path(t), NEW split \in BOOLEAN, NEW f \in Fds,
               OpenDir(t, f, path, split)
        PROVE  TypeOK'
    <3>1. /\ Acting /\ Split(split)
          /\ Opened(t, f, path.place, IF split \/ Blinds(t, path) THEN {} ELSE {t})
          /\ table' = IF split THEN table
                      ELSE [table EXCEPT ![t] = TableAfterOpenDir(table[t], f, path)]
          /\ UNCHANGED <<git, stream, findings, changed, proc, strayed, unseen>>
      BY <2>7 DEF OpenDir
    <3>2. path.place \in Place /\ (path.how = "fd" => path.fd \in Fds)
      BY <1>5, <2>2, PathShape
    <3>3. fds' \in [Task -> Files] /\ blind' \in [Task -> SUBSET Fds] BY <2>5, <3>1, <3>2
    <3>4. TableAfterOpenDir(table[t], f, path) \in Files
      BY <2>1, <3>2 DEF TableAfterOpenDir, ParentOf
    <3>5. table' \in [Task -> Files] BY <2>1, <3>1, <3>4
    <3>6. splits' \in 0 .. MaxSplits BY <3>1, AgentRunAssumption DEF Split, TypeOK
    <3> QED BY <3>1, <3>3, <3>5, <3>6, ActingTypes DEF TypeOK, git
  <2>8. ASSUME NEW path \in Path(t), NEW opened \in BOOLEAN, NEW split \in BOOLEAN,
               Write(t, path, opened, split)
        PROVE  TypeOK'
    <3> DEFINE after == [f \in Fds |-> IF opened /\ ~split /\ Lowest(t, f) THEN Unknown
                                       ELSE table[t][f]]
               out   == {path.place} \ (AllowedRoot \cup TraceAllowed)
    <3>1. /\ Acting /\ Split(split)
          /\ table' = [table EXCEPT ![t] = after]
          /\ findings' = IF traced /\ ~split THEN findings \cup TraceFinding(after, path)
                         ELSE findings
          /\ changed' = changed \cup {path.place}
          /\ strayed' = strayed \cup out
          /\ unseen' = IF Hidden(t, path, split) THEN unseen \cup out ELSE unseen
          /\ UNCHANGED <<git, stream, proc, fds, blind>>
      BY <2>8 DEF Write
    <3>2. path.place \in Place /\ (path.how = "fd" => path.fd \in Fds)
      BY <1>5, <2>2, PathShape
    <3>3. after \in Files BY <2>1
    <3> HIDE DEF after
    <3>4. TraceFinding(after, path) \subseteq Place \cup {"RELATIVE"}
      BY <3>2, <3>3 DEF TraceFinding, ParentOf
    <3>5. out \subseteq Place BY <3>2
    <3> HIDE DEF out
    <3>6. /\ findings' \subseteq Place \cup {"RELATIVE"} /\ changed' \subseteq Place
          /\ strayed' \subseteq Place /\ unseen' \subseteq Place
      BY <3>1, <3>2, <3>4, <3>5 DEF TypeOK
    <3>7. table' \in [Task -> Files] BY <2>1, <3>1, <3>3
    <3>8. splits' \in 0 .. MaxSplits BY <3>1, AgentRunAssumption DEF Split, TypeOK
    <3> QED BY <3>1, <3>6, <3>7, <3>8, ActingTypes DEF TypeOK, git
  <2> QED BY <1>5, <2>3, <2>4, <2>6, <2>7, <2>8 DEF FileCall
<1>6. AgentStep =>
        \/ \E e \in {[kind |-> "start"]} \cup ToolEvents \cup StepEvents : Emit(e)
        \/ \E c \in Changes : Change(c) \/ Undo(c)
        \/ GitAdd \/ GitCommit
        \/ \E t \in Task : proc[t] # 0 /\ FileCall(t)
  BY DEF AgentStep
<1> QED BY <1>1, <1>3, <1>4, <1>5, <1>6

\* Every step of the agent is one of its acts.
LEMMA AgentActs == AgentStep => Acting
<1>1. ASSUME NEW t \in Task, FileCall(t) PROVE Acting
  BY <1>1 DEF FileCall, Spawn, CloseDir, DupDir, OpenDir, Write
<1> QED BY <1>1 DEF AgentStep, Emit, Change, Undo, GitAdd, GitCommit, Work

\* The agent's steps keep the invariant.
LEMMA AgentKeepsRun == ASSUME RunInv, AgentStep PROVE RunInv'
<1>1. Acting BY AgentActs
<1>2. TypeOK' BY AgentTypes DEF RunInv
<1>3. Phases' /\ BaseIsLost' /\ PatchKept' /\ Captured' BY <1>1, ActingKeeps
<1> QED BY <1>2, <1>3 DEF RunInv

\* What the parser makes of the agent's output is a stream of events.
LEMMA ParsedType ==
  ASSUME TypeOK PROVE ParseStream(stream) \in Seq(Event(Patch))
<1>1. stream \in Seq(Line) BY DEF TypeOK
<1>2. Len(stream) \in Nat /\ DOMAIN stream = 1 .. Len(stream)
      /\ \A i \in 1 .. Len(stream) : stream[i] \in Line
  <2> HIDE DEF Line
  <2> QED BY <1>1
<1>3. ASSUME NEW line \in Line PROVE ParseLine(line) \in Event(Patch)
  <2>1. line.event \in [kind : {"start"}] \cup ToolEvents \cup StepEvents BY DEF Line
  <2>2. line.event \in Event(Patch) BY <2>1, AgentRunAssumption DEF Event
  <2>3. TextEvent("none") \in Event(Patch) BY DEF TextEvent, Event, Guard
  <2> QED BY <2>2, <2>3 DEF ParseLine
<1>4. \A i \in 1 .. Len(stream) : ParseLine(stream[i]) \in Event(Patch) BY <1>2, <1>3
<1> QED BY <1>2, <1>4 DEF ParseStream

\* The event file that RUN writes is a stream of events that ends in the patch.
LEMMA EventsEnd ==
  ASSUME TypeOK, WriteEvents
  PROVE  evfile' \in Seq(Event(Patch)) /\ Normalize(evfile').patch = patch
<1> DEFINE e == [kind |-> "patch", diff |-> patch]
           q == IF outcome = "ok" THEN <<>> ELSE <<TextEvent("none")>>
           s == ParseStream(stream) \o q
<1>1. patch \in Patch BY DEF TypeOK
<1>2. e \in Event(Patch) BY <1>1 DEF Event
<1>3. q \in Seq(Event(Patch))
  <2>1. TextEvent("none") \in Event(Patch) BY DEF TextEvent, Event, Guard
  <2> QED BY <2>1
<1>4. ParseStream(stream) \in Seq(Event(Patch)) BY ParsedType
<1>5. evfile' = s \o <<e>> BY DEF WriteEvents
<1> HIDE DEF e, q
<1>6. s \in Seq(Event(Patch)) BY <1>3, <1>4, ConcatProperties
<1> HIDE DEF s
<1>7. evfile' = Append(s, e) BY <1>2, <1>5, <1>6, AppendIsConcat
<1>8. Append(s, e) \in Seq(Event(Patch)) BY <1>2, <1>6, AppendProperties
<1>9. Normalize(Append(s, e)).patch = patch BY <1>1, <1>6, LastPatchCounts DEF e
<1> QED BY <1>7, <1>8, <1>9

\* A step that leaves what the driver has written, and the worktree, keeps the
\* two invariants about the patch once the events are written.
LEMMA PatchStays ==
  ASSUME PatchKept, UNCHANGED <<git, evfile, patch, lost, gitFailed>>,
         Written' => Written, pc' = "events" => pc = "events"
  PROVE  PatchKept'
<1>1. Net(lost)' = Net(lost) BY NetSame DEF git
<1> QED BY <1>1 DEF PatchKept

\* The driver's steps keep the types.
LEMMA DriverTypes == ASSUME RunInv, DriverStep PROVE TypeOK'
<1>1. TypeOK BY DEF RunInv
<1> USE DEF Goto, Label
<1>2. CASE Start
  BY <1>1, <1>2 DEF TypeOK, Start, git, disk, process, ghosts, counts
<1>3. ASSUME NEW b \in Binaries, Gate(b) PROVE TypeOK'
  BY <1>1, <1>3 DEF TypeOK, Gate, git, disk, process, ghosts, counts
<1>4. CASE RunBegin
  <2>1. NoPatch \in Patch BY DEF NoPatch, Patch
  <2>2. <<>> \in Seq(Line) OBVIOUS
  <2>3. /\ proc' \in [Task -> {0} \cup Task]
        /\ fds' \in [Task -> [Fds -> Place \cup {Unknown}]]
        /\ table' \in [Task -> [Fds -> Place \cup {Unknown}]]
        /\ blind' \in [Task -> SUBSET Fds]
    BY <1>4, TaskNumbers DEF RunBegin, Closed, NotBegun, AllSeen
  <2>4. failures' \in 0 .. MaxFailures /\ gitFailed' \in BOOLEAN /\ based' \in BOOLEAN
    <3>1. failures \in 0 .. MaxFailures /\ MaxFailures \in Nat
      BY <1>1, AgentRunAssumption DEF TypeOK
    <3>2. \/ based' = TRUE /\ gitFailed' = FALSE /\ failures' = failures
          \/ /\ failures < MaxFailures /\ failures' = failures + 1
             /\ based' = FALSE /\ gitFailed' = TRUE
      BY <1>4 DEF RunBegin
    <3>3. based' \in BOOLEAN /\ gitFailed' \in BOOLEAN BY <3>2
    <3>4. \/ failures' = failures
          \/ failures < MaxFailures /\ failures' = failures + 1
      BY <3>2
    <3>5. failures' \in 0 .. MaxFailures BY <3>1, <3>4
    <3> QED BY <3>3, <3>5
  <2>5. /\ pc' = "agent" /\ base' = head
        /\ stream' = <<>> /\ outcome' = "running" /\ patch' = NoPatch
        /\ findings' = {} /\ traced' = strace /\ strayed' = {} /\ unseen' = {}
        /\ UNCHANGED <<git, marks, evfile, patchfile, normfile, proof, changed, strace,
                       lost, ops, splits, crashes>>
    BY <1>4 DEF RunBegin
  <2> QED BY <1>1, <2>1, <2>2, <2>3, <2>4, <2>5 DEF TypeOK, git
<1>5. CASE ExtractPatch
  <2>1. /\ Tracked \in Patch /\ [Tracked EXCEPT !.add = @ \cup Untracked] \in Patch
        /\ [NoPatch EXCEPT !.add = Untracked] \in Patch
    BY <1>1 DEF TypeOK, Tracked, Untracked, NoPatch, Patch, Changes
  <2>2. patch' \in Patch BY <1>5, <2>1 DEF ExtractPatch
  <2>3. failures' \in 0 .. MaxFailures /\ gitFailed' \in BOOLEAN
    <3>1. failures \in 0 .. MaxFailures /\ gitFailed \in BOOLEAN /\ MaxFailures \in Nat
      BY <1>1, AgentRunAssumption DEF TypeOK
    <3>2. \/ failures' = failures /\ gitFailed' = gitFailed
          \/ failures < MaxFailures /\ failures' = failures + 1 /\ gitFailed' = TRUE
      BY <1>5 DEF ExtractPatch
    <3>3. gitFailed' \in BOOLEAN BY <3>1, <3>2
    <3>4. \/ failures' = failures
          \/ failures < MaxFailures /\ failures' = failures + 1
      BY <3>2
    <3>5. failures' \in 0 .. MaxFailures BY <3>1, <3>4
    <3> QED BY <3>3, <3>5
  <2> QED BY <1>1, <1>5, <2>2, <2>3 DEF TypeOK, ExtractPatch, git, disk, tasks
<1>6. CASE WriteEvents
  <2>1. evfile' \in Seq(Event(Patch)) BY <1>1, <1>6, EventsEnd
  <2>2. NoPatch \in Patch BY DEF NoPatch, Patch
  <2>3. <<>> \in Seq(Line) OBVIOUS
  <2> QED BY <1>1, <1>6, <2>1, <2>2, <2>3
          DEF TypeOK, WriteEvents, Forget, git, ghosts, counts
<1>7. CASE MarkRun \/ MarkCapture \/ MarkDone
  <2>1. /\ pc' \in {"capture", "donemark", "proof"}
        /\ marks' \in {marks \cup {"RUN"}, marks \cup {"CAPTURE"}, marks \cup {"DONE"}}
        /\ UNCHANGED <<git, findings, traced, evfile, patchfile, normfile, proof, changed,
                       process, strace, ghosts, counts>>
    BY <1>7 DEF MarkRun, MarkCapture, MarkDone, Mark
  <2> QED BY <1>1, <2>1 DEF TypeOK, git, process, ghosts, counts
<1>8. CASE WritePatch
  <2>1. Normalize(evfile).patch \in Patch
    BY <1>8 DEF RunInv, Phases, PatchKept, Written, WritePatch
  <2> QED BY <1>1, <1>8, <2>1 DEF TypeOK, WritePatch, git, process, ghosts, counts
<1>9. CASE WriteNormal
  <2>1. PICK v \in PrecheckVerdict(Normalize(evfile).patch) : normfile'.status = v
    BY <1>9 DEF WriteNormal
  <2>2. v \in {"no_patch", "queued", "precheck_failed"} BY <2>1 DEF PrecheckVerdict
  <2> QED BY <1>1, <1>9, <2>1, <2>2 DEF TypeOK, WriteNormal, git, process, ghosts, counts
<1>10. CASE BoundaryFinish
  BY <1>1, <1>10 DEF TypeOK, BoundaryFinish, git, process, ghosts, counts
<1> QED BY <1>2, <1>3, <1>4, <1>5, <1>6, <1>7, <1>8, <1>9, <1>10 DEF DriverStep

\* The driver's steps keep the rest of the invariant.
LEMMA DriverKeepsRun == ASSUME RunInv, DriverStep PROVE RunInv'
<1>1. TypeOK /\ Phases /\ BaseIsLost /\ PatchKept /\ Captured BY DEF RunInv
<1>2. TypeOK' BY DriverTypes
<1> USE DEF Goto
<1>3. ASSUME Start \/ \E b \in Binaries : Gate(b) PROVE RunInv'
  <2>1. /\ UNCHANGED <<git, disk, process, ghosts>>
        /\ pc \in {"off", "gate"} /\ pc' \in {"off", "gate", "run", "capture", "donemark"}
        /\ pc' \in {"gate", "run"} => "RUN" \notin marks
        /\ pc' \in {"capture", "donemark"} => "RUN" \in marks
    BY <1>1, <1>3 DEF Start, Gate, Phases
  <2>2. Phases' /\ BaseIsLost' BY <1>1, <2>1 DEF Phases, BaseIsLost, git, disk, process, ghosts
  <2>3. PatchKept'
    BY <1>1, <2>1, PatchStays DEF Written, disk, process, ghosts
  <2>4. Captured' BY <1>1, <2>1 DEF Captured, disk
  <2> QED BY <1>2, <2>2, <2>3, <2>4 DEF RunInv
<1>4. CASE RunBegin
  <2>1. pc = "run" /\ pc' = "agent" /\ "RUN" \notin marks /\ "RUN" \notin marks'
    BY <1>1, <1>4 DEF RunBegin, Phases
  <2>2. Phases' /\ BaseIsLost' BY <1>1, <1>4, <2>1 DEF Phases, BaseIsLost, RunBegin
  <2>3. PatchKept' BY <2>1 DEF PatchKept, Written
  <2>4. Captured' BY <1>1, <1>4, <2>1 DEF Captured, RunBegin
  <2> QED BY <1>2, <2>2, <2>3, <2>4 DEF RunInv
<1>5. CASE ExtractPatch
  <2>1. pc = "extract" /\ pc' = "events" /\ "RUN" \notin marks /\ "RUN" \notin marks'
    BY <1>1, <1>5 DEF ExtractPatch, Phases, disk
  <2>2. Phases' /\ BaseIsLost'
    BY <1>1, <1>5, <2>1 DEF Phases, BaseIsLost, ExtractPatch, disk
  <2>3. ~gitFailed' => patch' = Net(lost)
    <3>1. base = lost /\ (gitFailed \/ based) BY <1>1, <2>1 DEF BaseIsLost
    <3> DEFINE A == {c \in tree \ base : c \in Edits \cup index}
               B == {c \in base : c \notin tree \/ c \in NewFiles \ index}
    <3>2. based => [Tracked EXCEPT !.add = @ \cup Untracked] = Net(lost)
      <4>1. based => Tracked = [add |-> A, del |-> B] BY DEF Tracked
      <4>2. Net(lost) = [add |-> A \cup Untracked, del |-> B] BY <3>1 DEF Net
      <4> HIDE DEF A, B
      <4> QED BY <4>1, <4>2
    <3>3. ~gitFailed' => /\ gitFailed' = gitFailed
                         /\ patch' = [Tracked EXCEPT !.add = @ \cup Untracked]
      BY <1>5 DEF ExtractPatch
    <3> QED BY <3>1, <3>2, <3>3
  <2>4. Net(lost)' = Net(lost) BY <1>5, NetSame DEF ExtractPatch, git
  <2>5. PatchKept' BY <2>1, <2>3, <2>4 DEF PatchKept, Written
  <2>6. Captured' BY <1>1, <1>5, <2>1 DEF Captured, ExtractPatch, disk
  <2> QED BY <1>2, <2>2, <2>5, <2>6 DEF RunInv
<1>6. CASE WriteEvents
  <2>1. pc = "events" /\ pc' = "runmark" /\ "RUN" \notin marks /\ "RUN" \notin marks'
    BY <1>1, <1>6 DEF WriteEvents, Phases
  <2>2. Phases' /\ BaseIsLost' BY <1>1, <1>6, <2>1 DEF Phases, BaseIsLost, WriteEvents
  <2>3. Normalize(evfile').patch = patch BY <1>1, <1>6, EventsEnd
  <2>4. Net(lost)' = Net(lost) BY <1>6, NetSame DEF WriteEvents, git, ghosts
  <2>5. ~gitFailed' => patch = Net(lost)
    BY <1>1, <1>6, <2>1 DEF PatchKept, WriteEvents, ghosts
  <2>6. patch \in Patch BY <1>1 DEF TypeOK
  <2>7. PatchKept' BY <2>1, <2>3, <2>4, <2>5, <2>6, <1>2 DEF PatchKept, TypeOK
  <2>8. Captured' BY <1>1, <1>6, <2>1 DEF Captured, WriteEvents
  <2> QED BY <1>2, <2>2, <2>7, <2>8 DEF RunInv
<1>7. CASE MarkRun \/ MarkCapture \/ MarkDone
  <2>1. /\ UNCHANGED <<git, evfile, patchfile, normfile, process, ghosts>>
        /\ marks \subseteq marks'
        /\ \/ pc = "runmark" /\ pc' = "capture" /\ marks' = marks \cup {"RUN"}
           \/ pc = "capturemark" /\ pc' = "donemark" /\ marks' = marks \cup {"CAPTURE"}
           \/ pc = "donemark" /\ pc' = "proof" /\ marks' = marks \cup {"DONE"}
    BY <1>7 DEF MarkRun, MarkCapture, MarkDone, Mark
  <2>2. Phases' /\ BaseIsLost' BY <1>1, <2>1 DEF Phases, BaseIsLost
  <2>3. PatchKept'
    BY <1>1, <2>1, PatchStays DEF Written, Phases, process, ghosts
  <2>4. Captured' BY <1>1, <2>1 DEF Captured
  <2> QED BY <1>2, <2>2, <2>3, <2>4 DEF RunInv
<1>8. CASE WritePatch
  <2>1. /\ pc = "capture" /\ pc' = "normal" /\ marks' = marks
        /\ patchfile' = Normalize(evfile).patch
        /\ UNCHANGED <<git, evfile, normfile, process, ghosts>>
    BY <1>8 DEF WritePatch
  <2>2. Phases' /\ BaseIsLost' BY <1>1, <2>1 DEF Phases, BaseIsLost
  <2>3. PatchKept' BY <1>1, <2>1, PatchStays DEF Written, process, ghosts
  <2>4. Captured' BY <1>1, <2>1 DEF Captured
  <2> QED BY <1>2, <2>2, <2>3, <2>4 DEF RunInv
<1>9. CASE WriteNormal
  <2>1. /\ pc = "normal" /\ pc' = "capturemark" /\ marks' = marks /\ patchfile' = patchfile
        /\ UNCHANGED <<git, evfile, process, ghosts>>
    BY <1>9 DEF WriteNormal
  <2>2. Phases' /\ BaseIsLost' BY <1>1, <2>1 DEF Phases, BaseIsLost
  <2>3. PatchKept' BY <1>1, <2>1, PatchStays DEF Written, process, ghosts
  <2>4. PICK v \in PrecheckVerdict(Normalize(evfile).patch) :
          normfile' = [status |-> v, figures |-> [Normalize(evfile) EXCEPT !.patch = {}]]
    BY <1>9 DEF WriteNormal
  <2>5. v = "queued" => Normalize(evfile).patch.del = {}
    <3> DEFINE p == Normalize(evfile).patch
    <3> HIDE DEF p
    <3>1. v \in PrecheckVerdict(p) BY <2>4 DEF p
    <3>2. v = "queued" => p.del = {} BY <3>1 DEF PrecheckVerdict
    <3> QED BY <3>2 DEF p
  <2>6. "RUN" \in marks /\ patchfile = Normalize(evfile).patch
    BY <1>1, <2>1 DEF Phases, Captured
  <2>7. Captured' BY <2>1, <2>4, <2>5, <2>6 DEF Captured
  <2> QED BY <1>2, <2>2, <2>3, <2>7 DEF RunInv
<1>10. CASE BoundaryFinish
  <2>1. /\ pc = "proof" /\ pc' = "off"
        /\ UNCHANGED <<git, marks, evfile, patchfile, normfile, process, ghosts>>
    BY <1>10 DEF BoundaryFinish
  <2>2. Phases' /\ BaseIsLost' BY <1>1, <2>1 DEF Phases, BaseIsLost
  <2>3. PatchKept' BY <1>1, <2>1, PatchStays DEF Written, process, ghosts
  <2>4. Captured' BY <1>1, <2>1 DEF Captured
  <2> QED BY <1>2, <2>2, <2>3, <2>4 DEF RunInv
<1> QED BY <1>3, <1>4, <1>5, <1>6, <1>7, <1>8, <1>9, <1>10 DEF DriverStep

\* Every step keeps the invariant; a kill loses what is not yet marked, and
\* makes what the agent has committed the base of the next execution.
LEMMA RunInvStep == RunInv /\ [Next]_vars => RunInv'
<1> SUFFICES ASSUME RunInv, [Next]_vars PROVE RunInv' OBVIOUS
<1>1. TypeOK /\ Phases /\ BaseIsLost /\ PatchKept /\ Captured BY DEF RunInv
<1>2. CASE DriverStep BY <1>2, DriverKeepsRun
<1>3. CASE AgentStep BY <1>3, AgentKeepsRun
<1>4. CASE AgentEnds
  <2>1. /\ pc = "agent" /\ pc' = "extract" /\ "RUN" \notin marks
        /\ UNCHANGED <<git, disk, changed, base, based, patch, strace, strayed, unseen,
                       lost, gitFailed, counts>>
        /\ TasksEnd
        /\ outcome' \in {"ok", "failed"}
    BY <1>1, <1>4 DEF AgentEnds, Goto, Phases
  <2>2. stream' \in Seq(Line)
    <3>1. stream \in Seq(Line) BY <1>1 DEF TypeOK
    <3>2. CASE stream' = stream BY <3>1, <3>2
    <3>3. CASE stream # <<>> /\ stream' = [stream EXCEPT ![Len(stream)].whole = FALSE]
      <4> DEFINE n == Len(stream)
                 line == [stream[n] EXCEPT !.whole = FALSE]
      <4>1. n \in 1 .. Len(stream) /\ stream[n] \in Line
        <5> HIDE DEF Line
        <5> QED BY <3>1, <3>3
      <4>2. line \in Line BY <4>1 DEF Line
      <4>3. stream' = [stream EXCEPT ![n] = line] BY <3>3
      <4> HIDE DEF n, line
      <4> QED BY <3>1, <4>1, <4>2, <4>3, ExceptSeq
    <3> QED BY <1>4, <3>2, <3>3 DEF AgentEnds
  <2>4. TypeOK'
    BY <1>1, <2>1, <2>2, EndTells DEF TypeOK, git, disk, counts, Label
  <2>5. Phases' /\ BaseIsLost' BY <1>1, <2>1 DEF Phases, BaseIsLost, disk
  <2>6. PatchKept' BY <2>1 DEF PatchKept, Written, disk
  <2>7. Captured' BY <1>1, <2>1 DEF Captured, disk
  <2> QED BY <2>4, <2>5, <2>6, <2>7 DEF RunInv
<1>5. CASE Crash
  <2>1. /\ pc # "off" /\ pc' = "off"
        /\ UNCHANGED <<git, disk, changed, strace, strayed, unseen, gitFailed, ops, splits,
                       failures>>
        /\ Forget /\ TasksEnd
        /\ lost' = IF "RUN" \in marks THEN lost ELSE head
        /\ crashes < MaxCrashes /\ crashes' = crashes + 1
    BY <1>5 DEF Crash, Goto
  <2>2. TypeOK'
    <3>1. NoPatch \in Patch BY DEF NoPatch, Patch
    <3>2. <<>> \in Seq(Line) OBVIOUS
    <3>4. crashes' \in 0 .. MaxCrashes
      <4>1. crashes \in 0 .. MaxCrashes /\ MaxCrashes \in Nat
        BY <1>1, AgentRunAssumption DEF TypeOK
      <4> QED BY <2>1, <4>1
    <3> QED BY <1>1, <2>1, <3>1, <3>2, <3>4, EndTells DEF TypeOK, Forget, git, disk, Label
  <2>3. Phases' /\ BaseIsLost' BY <1>1, <2>1 DEF Phases, BaseIsLost, git, disk
  <2>4. PatchKept'
    <3>1. CASE "RUN" \in marks
      <4>1. Net(lost)' = Net(lost) BY <2>1, <3>1, NetSame DEF git
      <4> QED BY <1>1, <2>1, <3>1, <4>1 DEF PatchKept, Written, disk
    <3>2. CASE "RUN" \notin marks BY <2>1, <3>2 DEF PatchKept, Written, disk
    <3> QED BY <3>1, <3>2
  <2>5. Captured' BY <1>1, <2>1 DEF Captured, disk
  <2> QED BY <2>2, <2>3, <2>4, <2>5 DEF RunInv
<1>6. CASE UNCHANGED vars
  <2>1. TypeOK' BY <1>1, <1>6 DEF TypeOK, vars, git, disk, process, ghosts, counts
  <2>2. Phases' /\ BaseIsLost' /\ Captured'
    BY <1>1, <1>6 DEF Phases, BaseIsLost, Captured, vars, git, disk, process, ghosts
  <2>3. PatchKept'
    BY <1>1, <1>6, PatchStays DEF Written, vars, git, disk, process, ghosts
  <2> QED BY <2>1, <2>2, <2>3 DEF RunInv
<1> QED BY <1>2, <1>3, <1>4, <1>5, <1>6 DEF Next, Finished

\* Nothing is written, and nothing is lost, at first.
LEMMA RunInvInit == Init => RunInv
<1> SUFFICES ASSUME Init PROVE RunInv OBVIOUS
<1>1. NoPatch \in Patch BY DEF NoPatch, Patch
<1>2. <<>> \in Seq(Line) /\ <<>> \in Seq(Event(Patch)) OBVIOUS
<1>3. /\ proc \in [Task -> {0} \cup Task]
      /\ fds \in [Task -> [Fds -> Place \cup {Unknown}]]
      /\ table \in [Task -> [Fds -> Place \cup {Unknown}]]
      /\ blind \in [Task -> SUBSET Fds]
  BY DEF Init, NotBegun, Closed, AllSeen
<1>4. TypeOK
  <2>1. splits \in 0 .. MaxSplits /\ ops \in 0 .. MaxOps /\ crashes \in 0 .. MaxCrashes /\ failures \in 0 .. MaxFailures
    BY AgentRunAssumption DEF Init
  <2>2. normfile.status = "none" BY DEF Init, NoResult
  <2>3. /\ evfile \in Seq(Event(Patch)) /\ stream \in Seq(Line)
        /\ patchfile \in Patch /\ patch \in Patch
    BY <1>1, <1>2 DEF Init
  <2>4. based \in BOOLEAN /\ traced \in BOOLEAN /\ strace \in BOOLEAN /\ gitFailed \in BOOLEAN BY DEF Init
  <2> QED BY <1>3, <2>1, <2>2, <2>3, <2>4 DEF Init, TypeOK, Label
<1>5. Phases /\ BaseIsLost BY DEF Init, Phases, BaseIsLost
<1>6. PatchKept BY DEF Init, PatchKept, Written
<1>7. Captured BY DEF Init, Captured, NoResult
<1> QED BY <1>4, <1>5, <1>6, <1>7 DEF RunInv

\* So it always holds.
LEMMA RunInvHolds == Spec => []RunInv
BY RunInvInit, RunInvStep, PTL DEF Spec

\* Every variable of the agent's run keeps its type, the event file a stream of
\* events and the figures made from it included.
THEOREM TypeCorrect == Spec => []TypeOK
<1>1. RunInv => TypeOK BY DEF RunInv
<1> QED BY <1>1, RunInvHolds, PTL

\* A patch that goes to the evaluation is everything the worktree shows against
\* the recorded base commit, but what killed executions had committed: for any
\* files, any agent, any number of kills.
THEOREM QueuedPatchIsNetChange == Spec => []PatchIsNetChange
<1>1. RunInv => PatchIsNetChange
  <2> SUFFICES ASSUME RunInv, normfile.status = "queued", ~gitFailed
               PROVE  /\ patchfile.del = {}
                      /\ patchfile.add = {c \in tree : c \in Plans => c \in index} \ lost
    BY DEF PatchIsNetChange
  <2>1. patchfile = Net(lost) /\ patchfile.del = {}
    BY DEF RunInv, Captured, PatchKept, Written
  <2>2. tree \subseteq Edits \cup NewFiles BY DEF RunInv, TypeOK, Changes
  <2>3. Edits \cap NewFiles = {} /\ Plans \subseteq NewFiles BY AgentRunAssumption
  <2>4. \A c \in lost : c \in tree /\ c \notin NewFiles \ index BY <2>1 DEF Net
  <2>5. patchfile.add = {c \in tree \ lost : c \in Edits \cup index}
                          \cup {c \in tree \ Plans : c \in NewFiles \ index}
    BY <2>1 DEF Net, Untracked
  <2>6. patchfile.add = {c \in tree : c \in Plans => c \in index} \ lost
    BY <2>2, <2>3, <2>4, <2>5
  <2> QED BY <2>1, <2>6
<1> QED BY <1>1, RunInvHolds, PTL

\* The telemetry that an attempt leaves gives every step the tools it names
\* itself or those that ran since the latest start or end of a step, counts
\* every call once and sees every delegation: whatever the agent prints, and
\* wherever a kill has cut it.
THEOREM TelemetryAttributed == Spec => []ToolsAttributed
<1>1. RunInv => ToolsAttributed
  <2> SUFFICES ASSUME RunInv, normfile.status # "none"
               PROVE  ToolsAttributed
    BY DEF ToolsAttributed
  <2>1. evfile \in Seq(Event(Patch)) BY DEF RunInv, TypeOK
  <2>2. normfile.figures = [Normalize(evfile) EXCEPT !.patch = {}] BY DEF RunInv, Captured
  <2>3. /\ normfile.figures.steps = Normalize(evfile).steps
        /\ normfile.figures.tool_calls = Normalize(evfile).tool_calls
        /\ normfile.figures.delegated = Normalize(evfile).delegated
    BY <2>2 DEF Normalize
  <2>4. Normalize(evfile).steps = AttributedSteps(evfile, Len(evfile))
    BY <2>1, StepsAttributed
  <2>5. Normalize(evfile).tool_calls = Cardinality(CallsOf(evfile, Len(evfile)))
    BY <2>1, CallsCounted
  <2>6. Normalize(evfile).delegated <=>
          \E k \in StepsAt(evfile, Len(evfile)) :
            /\ NormalizeRole(evfile[k].role) = "pm"
            /\ \E i \in DOMAIN ToolsOfStep(evfile, k) :
                 ToolsOfStep(evfile, k)[i] = <<"task", "orchestrator">>
    BY <2>1, DelegationSeen
  <2>7. Normalize(evfile).delegated \in BOOLEAN BY DEF Normalize, Delegated
  <2> QED BY <2>3, <2>4, <2>5, <2>6, <2>7 DEF ToolsAttributed
<1> QED BY <1>1, RunInvHolds, PTL
============================================================================
