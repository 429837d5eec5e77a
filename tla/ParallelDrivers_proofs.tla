----------------------- MODULE ParallelDrivers_proofs -----------------------
(***************************************************************************)
(* Proofs about drivers that share a run root and a repository cache, for  *)
(* any number of drivers and attempts, any production configurations and   *)
(* any bounds.                                                             *)
(***************************************************************************)
EXTENDS ParallelDrivers, FiniteSetTheorems, TLAPS

-----------------------------------------------------------------------------
(* Types and places.                                                       *)

\* An attempt that is run has been set up; this makes done a part of setup.
RunsAfterSetup ==
  \A d \in Drivers : pc[d] \in {"run", "finish", "leave"} => cur[d] \in setup

Typed == TypeOK /\ RunsAfterSetup

\* A directory with one file more, made anew when there is none.
LEMMA PutType ==
  ASSUME NEW dir \in DirType \cup {None}, NEW file \in Files
  PROVE  /\ Put(dir, file) \in DirType
         /\ Put(dir, file).files = Made(dir).files \cup {file}
         /\ Put(dir, file).of = Made(dir).of
         /\ Put(dir, file).prompts = Made(dir).prompts
<1>1. Made(dir) \in DirType BY DEF Made, NewDir, DirType
<1> HIDE DEF Made
<1> QED BY <1>1 DEF Put, DirType

\* No driver is running and no attempt set up at first.
LEMMA TypedInit == Init => Typed
<1> SUFFICES ASSUME Init PROVE Typed OBVIOUS
<1>1. error \in BOOLEAN /\ raced \in BOOLEAN BY DEF Init
<1>2. pc = [d \in Drivers |-> "off"] /\ cur = [d \in Drivers |-> None] /\ flock = None
  BY DEF Init
<1>3. \A d \in Drivers : pc[d] = "off" /\ cur[d] = None /\ flock # d
  BY <1>2, ParallelAssumption
<1>4. 0 \in 0..MaxTime /\ 0 \in 0..MaxStarts /\ 0 \in 0..MaxEdits
  BY ParallelAssumption
<1> QED
  BY <1>1, <1>2, <1>3, <1>4
     DEF Init, Typed, TypeOK, RunsAfterSetup, Place, Working, Materializing

\* Every step keeps the types and the places.
LEMMA TypedStep == ASSUME Typed, [Next]_vars PROVE Typed'
<1> USE ParallelAssumption
    DEF Typed, TypeOK, RunsAfterSetup, Place, Working, Materializing, Go,
        snapshotVars, leaseVars, repoVars
<1>1. ASSUME NEW d \in Drivers, SnapshotStep(d) PROVE Typed'
  <2>1. CASE Start(d) BY <2>1 DEF Start, DirType, NewDir, Made
  <2>2. CASE Look(d) BY <2>2 DEF Look
  <2>3. CASE Gate(d) BY <2>3 DEF Gate, Gone, Put, Made, NewDir, DirType, Files
  <2>4. CASE Clean(d) BY <2>4 DEF Clean
  <2>5. CASE ReadProduction(d) BY <2>5 DEF ReadProduction
  <2>6. CASE MakeTmp(d) BY <2>6 DEF MakeTmp, NewDir, DirType
  <2>7. CASE FillTmp(d)
    <3>1. \A here \in {"config", "manifest"} :
            [Put(tmp, here) EXCEPT !.of = read[d]] \in DirType
      BY PutType DEF DirType, Files
    <3> QED BY <2>7, <3>1 DEF FillTmp, Fill
  <2>12. CASE CopyPrompts(d)
    <3>1. tmp' \in DirType \cup {None}
      <4>1. [Put(tmp, "prompts") EXCEPT !.prompts = production] \in DirType
        BY PutType DEF DirType, Files
      <4> QED BY <2>12, <4>1 DEF CopyPrompts
    <3>2. pc' = [pc EXCEPT ![d] = "config"] \/ pc' = [pc EXCEPT ![d] = "undo"]
      BY <2>12 DEF CopyPrompts
    <3>3. UNCHANGED <<todo, cur, starts, setup, done, production, read, out, error, used,
                      raced, edits, leaseVars, repoVars>>
      BY <2>12 DEF CopyPrompts
    <3>4. pc[d] = "prompts" BY <2>12 DEF CopyPrompts
    <3> QED BY <3>1, <3>2, <3>3, <3>4
  <2>8. CASE ClearOut(d)
    <3>1. error' \in BOOLEAN BY <2>8 DEF ClearOut
    <3> QED BY <2>8, <3>1 DEF ClearOut
  <2>9. CASE Replace(d) BY <2>9 DEF Replace
  <2>10. CASE Undo(d) BY <2>10 DEF Undo
  <2>11. CASE Report(d) BY <2>11 DEF Report, Gone
  <2> QED BY <1>1, <2>1, <2>2, <2>3, <2>4, <2>5, <2>6, <2>7, <2>8, <2>9, <2>10,
             <2>11, <2>12 DEF SnapshotStep
<1>2. ASSUME NEW d \in Drivers, LeaseStep(d) PROVE Typed'
  <2>1. CASE Pick(d) BY <2>1 DEF Pick
  <2>2. CASE Leave(d) BY <2>2 DEF Leave, Gone
  <2>3. CASE ReadLease(d) BY <2>3 DEF ReadLease
  <2>4. CASE Recover(d) BY <2>4 DEF Recover, Gone
  <2>5. CASE Acquire(d) BY <2>5 DEF Acquire
  <2> QED BY <1>2, <2>1, <2>2, <2>3, <2>4, <2>5 DEF LeaseStep
<1>3. ASSUME NEW d \in Drivers, RepoStep(d) PROVE Typed'
  <2>1. CASE LockCache(d) BY <2>1 DEF LockCache
  <2>2. CASE Clone(d) BY <2>2 DEF Clone
  <2>3. CASE Checkout(d) BY <2>3 DEF Checkout
  <2>4. CASE Refuse(d) BY <2>4 DEF Refuse, Gone
  <2>5. CASE Fetch(d) BY <2>5 DEF Fetch
  <2> QED BY <1>3, <2>1, <2>2, <2>3, <2>4, <2>5 DEF RepoStep
<1>4. ASSUME NEW d \in Drivers, AttemptStep(d) PROVE Typed'
  <2>1. CASE Run(d) BY <2>1 DEF Run
  <2>2. CASE RunFails(d) BY <2>2 DEF RunFails, Gone
  <2>3. CASE Finish(d) BY <2>3 DEF Finish
  <2>4. CASE LeaveAttempt(d) BY <2>4 DEF LeaveAttempt
  <2> QED BY <1>4, <2>1, <2>2, <2>3, <2>4 DEF AttemptStep
<1>5. ASSUME NEW d \in Drivers, Kill(d) PROVE Typed'
  BY <1>5 DEF Kill, Gone
<1>6. CASE EditProduction BY <1>6 DEF EditProduction
<1>7. CASE Evict BY <1>7 DEF Evict
<1>8. CASE Tick BY <1>8 DEF Tick
<1>9. CASE UNCHANGED vars BY <1>9 DEF vars
<1> QED BY <1>1, <1>2, <1>3, <1>4, <1>5, <1>6, <1>7, <1>8, <1>9 DEF Next

\* Every variable keeps its type, and the place a driver is at agrees with the
\* attempt it has in hand and with the lock it holds: the lock of the cache
\* excludes (_locked).
THEOREM TypeCorrect == Spec => []TypeOK
<1>1. Typed => TypeOK BY DEF Typed
<1> QED BY TypedInit, TypedStep, <1>1, PTL DEF Spec

-----------------------------------------------------------------------------
(* The cache.                                                              *)

\* Two drivers have an attempt in hand past its lease only if that is recorded.
SharingRecorded ==
  \A d, e \in Drivers :
    d # e /\ cur[d] = cur[e] /\ {pc[d], pc[e]} \subseteq Working \cup {"leave"}
      => cur[d] \in shared

\* What the place a driver is at says of an attempt that is its own.
PlaceTells ==
  \A d \in Drivers :
    /\ pc[d] \in {"setup", "clone", "fetch", "checkout"} => cur[d] \in shared \/ cur[d] \notin setup
    /\ pc[d] \in {"run", "finish"} => cur[d] \in shared \/ cur[d] \notin done
    /\ pc[d] \in {"clone", "fetch", "checkout"} => cur[d] \in shared \cup holds
    /\ pc[d] = "leave" => cur[d] \in done
    /\ pc[d] = "clone" => cache = "partial"

\* From SETUP to DONE an attempt keeps its repository in the cache, by the
\* lease file it has there.
CacheKept ==
  \A a \in setup \ (done \cup shared) : cache = "whole" /\ a \in holds

CacheInv == SharingRecorded /\ PlaceTells /\ CacheKept

\* There is no clone and no worktree at first.
LEMMA CacheInit == Init => CacheInv
BY DEF Init, CacheInv, SharingRecorded, PlaceTells, CacheKept, Working

\* Every step keeps the invariant of the cache.
LEMMA CacheStep == ASSUME Typed, CacheInv, [Next]_vars PROVE CacheInv'
<1> USE ParallelAssumption
    DEF Typed, TypeOK, RunsAfterSetup, CacheInv, SharingRecorded, PlaceTells, CacheKept,
        Place, Working, Materializing, Go, snapshotVars, leaseVars, repoVars
<1>1. ASSUME NEW d \in Drivers, SnapshotStep(d) PROVE CacheInv'
  BY <1>1 DEF SnapshotStep, Start, Look, Gate, Clean, ReadProduction, MakeTmp, CopyPrompts,
              FillTmp, Fill, ClearOut, Replace, Undo, Report, Gone
<1>2. ASSUME NEW d \in Drivers, LeaseStep(d) PROVE CacheInv'
  <2>1. CASE Pick(d) BY <2>1 DEF Pick
  <2>2. CASE Leave(d) BY <2>2 DEF Leave, Gone
  <2>3. CASE ReadLease(d) BY <2>3 DEF ReadLease
  <2>4. CASE Recover(d) BY <2>4 DEF Recover, Gone
  <2>5. CASE Acquire(d) BY <2>5 DEF Acquire, Others
  <2> QED BY <1>2, <2>1, <2>2, <2>3, <2>4, <2>5 DEF LeaseStep
<1>3. ASSUME NEW d \in Drivers, RepoStep(d) PROVE CacheInv'
  <2>1. CASE LockCache(d) BY <2>1 DEF LockCache
  <2>2. CASE Clone(d) BY <2>2 DEF Clone
  <2>3. CASE Checkout(d) BY <2>3 DEF Checkout
  <2>4. CASE Refuse(d) BY <2>4 DEF Refuse, Gone
  <2>5. CASE Fetch(d) BY <2>5 DEF Fetch
  <2> QED BY <1>3, <2>1, <2>2, <2>3, <2>4, <2>5 DEF RepoStep
<1>4. ASSUME NEW d \in Drivers, AttemptStep(d) PROVE CacheInv'
  <2>1. CASE Run(d) BY <2>1 DEF Run
  <2>2. CASE RunFails(d) BY <2>2 DEF RunFails, Gone
  <2>3. CASE Finish(d) BY <2>3 DEF Finish
  <2>4. CASE LeaveAttempt(d) BY <2>4 DEF LeaveAttempt
  <2> QED BY <1>4, <2>1, <2>2, <2>3, <2>4 DEF AttemptStep
<1>5. ASSUME NEW d \in Drivers, Kill(d) PROVE CacheInv'
  BY <1>5 DEF Kill, Gone
<1>6. CASE EditProduction BY <1>6 DEF EditProduction
<1>7. CASE Evict BY <1>7 DEF Evict
<1>8. CASE Tick BY <1>8 DEF Tick
<1>9. CASE UNCHANGED vars BY <1>9 DEF vars
<1> QED BY <1>1, <1>2, <1>3, <1>4, <1>5, <1>6, <1>7, <1>8, <1>9 DEF Next

\* Whoever works in a worktree of an attempt no one else works on has the whole
\* mirror clone behind it, and the lease file that keeps it from eviction: a
\* driver that refuses, leaves or is killed takes neither away.
THEOREM CacheStays == Spec => []CacheInUseStays
<1>1. Typed /\ CacheInv => CacheInUseStays
  BY DEF Typed, RunsAfterSetup, CacheInv, PlaceTells, CacheKept, CacheInUseStays
<1> QED BY TypedInit, TypedStep, CacheInit, CacheStep, <1>1, PTL DEF Spec

-----------------------------------------------------------------------------
(* The lease of an attempt.                                                *)

Overdue(d) == now - since[d] >= Stale

\* What the place a driver is at says of the lease file of its attempt: in work,
\* it is the driver's own as long as that is not overdue; read, it is what was
\* read or gone; about to be acquired, it is not there.  Excepted are attempts
\* that are finished or were acquired behind a reader's back.
LeaseTells ==
  \A d \in Drivers :
    /\ pc[d] \in Working => \/ lease[cur[d]] = since[d] \/ Overdue(d)
                            \/ cur[d] \in contended \cup done
    /\ pc[d] = "recover" => lease[cur[d]] \in {None, sight[d]} \/ cur[d] \in contended
    /\ pc[d] = "acquire" => lease[cur[d]] = None \/ cur[d] \in contended

LeaseInv == LeaseTells /\ LeaseExcludes

\* Every step keeps the invariant of the leases.
LEMMA LeaseKept == ASSUME Typed, CacheInv, LeaseInv, [Next]_vars PROVE LeaseInv'
<1> USE ParallelAssumption
    DEF Typed, TypeOK, CacheInv, PlaceTells, LeaseInv, LeaseTells, LeaseExcludes,
        Overdue, Place, Working, Materializing, Go, snapshotVars, leaseVars, repoVars
<1>1. ASSUME NEW d \in Drivers, SnapshotStep(d) PROVE LeaseInv'
  BY <1>1 DEF SnapshotStep, Start, Look, Gate, Clean, ReadProduction, MakeTmp, CopyPrompts,
              FillTmp, Fill, ClearOut, Replace, Undo, Report, Gone
<1>2. ASSUME NEW d \in Drivers, LeaseStep(d) PROVE LeaseInv'
  <2>1. CASE Pick(d) BY <2>1 DEF Pick
  <2>2. CASE Leave(d) BY <2>2 DEF Leave, Gone
  <2>3. CASE ReadLease(d) BY <2>3 DEF ReadLease
  <2>4. CASE Recover(d) BY <2>4 DEF Recover, IsStale, Gone
  <2>5. CASE Acquire(d) BY <2>5 DEF Acquire, Others
  <2> QED BY <1>2, <2>1, <2>2, <2>3, <2>4, <2>5 DEF LeaseStep
<1>3. ASSUME NEW d \in Drivers, RepoStep(d) PROVE LeaseInv'
  BY <1>3 DEF RepoStep, LockCache, Clone, Fetch, Checkout, Refuse, Gone
<1>4. ASSUME NEW d \in Drivers, AttemptStep(d) PROVE LeaseInv'
  <2>1. CASE Run(d) BY <2>1 DEF Run
  <2>2. CASE RunFails(d) BY <2>2 DEF RunFails, Gone
  <2>3. CASE Finish(d) BY <2>3 DEF Finish
  <2>4. CASE LeaveAttempt(d) BY <2>4 DEF LeaveAttempt
  <2> QED BY <1>4, <2>1, <2>2, <2>3, <2>4 DEF AttemptStep
<1>5. ASSUME NEW d \in Drivers, Kill(d) PROVE LeaseInv'
  BY <1>5 DEF Kill, Gone
<1>6. CASE EditProduction BY <1>6 DEF EditProduction
<1>7. CASE Evict BY <1>7 DEF Evict
<1>8. CASE Tick BY <1>8 DEF Tick
<1>9. CASE UNCHANGED vars BY <1>9 DEF vars
<1> QED BY <1>1, <1>2, <1>3, <1>4, <1>5, <1>6, <1>7, <1>8, <1>9 DEF Next

\* The lease excludes except in the two cases the property names, the gap
\* between reading and acquiring it and a lease that is overdue.
THEOREM LeaseHolds == Spec => []LeaseExcludes
<1>1. Init => LeaseInv
  BY DEF Init, LeaseInv, LeaseTells, LeaseExcludes, Working
<1>2. LeaseInv => LeaseExcludes BY DEF LeaseInv
<1> QED BY TypedInit, TypedStep, CacheInit, CacheStep, LeaseKept, <1>1, <1>2, PTL DEF Spec

-----------------------------------------------------------------------------
(* The policy.                                                             *)

\* Whatever the rules of an agent say, Policy leaves it nothing to ask for and no
\* stripped tool (_apply_agent_overrides, _sanitize_permissions).
THEOREM PolicyUnattended ==
  ASSUME NEW agent, "rules" \in DOMAIN agent, Policy(agent).word = "rules"
  PROVE  Unattended(Policy(agent))
<1>1. agent.word = "rules" BY DEF Policy
<1> DEFINE own   == Sanitize(agent.rules)
           rules == [k \in DOMAIN Headless \cup DOMAIN own \cup DenyKeys |->
                       IF k \in DOMAIN Headless THEN Headless[k]
                       ELSE IF k \in DOMAIN own THEN own[k] ELSE "deny"]
<1>2. Policy(agent).rules = rules BY <1>1 DEF Policy
<1>3. DOMAIN Headless = ForcedAllow \cup ForcedDeny BY DEF Headless
<1>4. DOMAIN own = DOMAIN agent.rules \ StripTools BY DEF Sanitize
<1>5. \A k \in ForcedAllow \cup ForcedDeny :
        rules[k] = IF k \in ForcedAllow THEN "allow" ELSE "deny"
  BY <1>3 DEF Headless
<1>6. \A k \in StripTools \cap DOMAIN rules : rules[k] = "deny"
  <2>1. StripTools \cap (ForcedAllow \cup ForcedDeny) = {}
    BY DEF StripTools, ForcedAllow, ForcedDeny
  <2> QED BY <1>3, <1>4, <2>1
<1>7. DOMAIN rules = DOMAIN Headless \cup DOMAIN own \cup DenyKeys OBVIOUS
<1> HIDE DEF rules
<1> QED BY <1>2, <1>3, <1>5, <1>6, <1>7 DEF Unattended, ForcedAllow

\* Policy settles: an agent it has treated, as in a snapshot that is taken for the
\* production configuration of another run, it leaves as it is.
THEOREM PolicySettles ==
  ASSUME NEW word, NEW prompt, NEW D, NEW rules \in [D -> Action]
  PROVE  LET agent == [word |-> word, rules |-> rules, prompt |-> prompt]
         IN Policy(Policy(agent)) = Policy(agent)
<1> DEFINE agent == [word |-> word, rules |-> rules, prompt |-> prompt]
           Ruled(r) == [k \in DOMAIN Headless \cup DOMAIN Sanitize(r) \cup DenyKeys |->
                          IF k \in DOMAIN Headless THEN Headless[k]
                          ELSE IF k \in DOMAIN Sanitize(r) THEN Sanitize(r)[k] ELSE "deny"]
           With(r)  == [word |-> word, rules |-> r, prompt |-> prompt]
<1>1. CASE word # "rules" BY <1>1 DEF Policy
<1>2. CASE word = "rules"
  <2>1. \A r : Policy(With(r)) = With(Ruled(r)) BY <1>2 DEF Policy
  <2>2. Ruled(Ruled(rules)) = Ruled(rules)
    <3>1. DOMAIN Sanitize(rules) = D \ StripTools
          /\ \A k \in D \ StripTools : Sanitize(rules)[k] = rules[k]
      BY DEF Sanitize
    <3>2. DOMAIN Ruled(rules) = DOMAIN Headless \cup (D \ StripTools) \cup DenyKeys
      BY <3>1
    <3> DEFINE again == Sanitize(Ruled(rules))
    <3>3. /\ DOMAIN again = DOMAIN Ruled(rules) \ StripTools
          /\ \A k \in DOMAIN again : again[k] = Ruled(rules)[k]
      BY DEF Sanitize
    <3>4. DOMAIN Ruled(Ruled(rules)) = DOMAIN Headless \cup DOMAIN again \cup DenyKeys
      OBVIOUS
    <3>5. DOMAIN Ruled(Ruled(rules)) = DOMAIN Ruled(rules)
      <4>1. DenyKeys \subseteq StripTools BY DEF DenyKeys
      <4> QED BY <3>2, <3>3, <3>4, <4>1
    <3>6. ASSUME NEW k \in DOMAIN Ruled(rules)
          PROVE  Ruled(Ruled(rules))[k] = Ruled(rules)[k]
      <4>1. CASE k \in DOMAIN Headless BY <3>5, <4>1
      <4>2. CASE k \notin DOMAIN Headless /\ k \in DOMAIN again BY <3>3, <3>5, <4>2
      <4>3. CASE k \notin DOMAIN Headless /\ k \notin DOMAIN again
        <5>1. Ruled(Ruled(rules))[k] = "deny" BY <3>5, <4>3
        <5>2. k \in StripTools BY <3>3, <4>3
        <5>3. Ruled(rules)[k] = "deny" BY <3>1, <4>3, <5>2
        <5> QED BY <5>1, <5>3
      <4> QED BY <4>1, <4>2, <4>3
    <3> HIDE DEF again
    <3> QED BY <3>5, <3>6
  <2> HIDE DEF Ruled
  <2>3. Policy(agent) = With(Ruled(rules)) BY <2>1
  <2>4. Policy(With(Ruled(rules))) = With(Ruled(Ruled(rules))) BY <2>1
  <2> QED BY <2>2, <2>3, <2>4
<1> QED BY <1>1, <1>2

-----------------------------------------------------------------------------
(* The configuration snapshot.                                             *)

\* The versions that can be materialized, and a directory with all of one.
Sound(p) == p \in Productions /\ Readable(Config[p], Options)
Whole(dir) ==
  {"prompts", "config", "manifest"} \subseteq dir.files /\ Sound(dir.of) /\ dir.prompts # None

Filling == {"prompts", "config", "manifest"}

\* The one driver that materializes does so because there is no snapshot; what
\* it has not put in place yet is complete when it does.
OneMaterializes ==
  \A d \in Drivers :
    pc[d] \in Materializing
      => /\ ~Served
         /\ \A e \in Drivers \ {d} : pc[e] \notin Materializing
         /\ pc[d] \in Filling \cup {"mkdir"} => Sound(read[d])
         /\ pc[d] \in {"config", "manifest"}
              => tmp # None /\ "prompts" \in tmp.files /\ tmp.prompts # None
         /\ pc[d] = "manifest" => "config" \in tmp.files
         /\ pc[d] \in {"clear", "replace"} => tmp # None /\ Whole(tmp)

\* What is served is complete, is what all drivers go on with, and is all that
\* has been used.
ServedIsWhole ==
  /\ Served => Whole(out)
  /\ \A d \in Drivers :
       pc[d] \in {"attempts", "lease", "recover", "acquire", "leave"} \cup Working => Served
  /\ used # {} => Served /\ used = {out}

SnapshotInv == ~raced => OneMaterializes /\ ServedIsWhole

\* There is no snapshot at first.
LEMMA SnapshotInit == Init => SnapshotInv
BY DEF Init, SnapshotInv, OneMaterializes, ServedIsWhole, Served, Materializing, Working

\* Every step keeps the invariant of the snapshot.
LEMMA SnapshotStepKept == ASSUME Typed, SnapshotInv, [Next]_vars PROVE SnapshotInv'
<1> USE ParallelAssumption
    DEF Typed, TypeOK, SnapshotInv, OneMaterializes, ServedIsWhole, Served, Whole, Filling,
        Place, Working, Materializing, Go, snapshotVars, leaseVars, repoVars
<1>1. ASSUME NEW d \in Drivers, SnapshotStep(d) PROVE SnapshotInv'
  <2>1. CASE Start(d) BY <2>1 DEF Start, Made, NewDir
  <2>2. CASE Look(d)
    <3> SUFFICES ASSUME ~raced' PROVE OneMaterializes' /\ ServedIsWhole' OBVIOUS
    <3>1. ~raced /\ (Served \/ \A e \in Drivers : pc[e] \notin Materializing)
      BY <2>2 DEF Look, OtherMaterializes
    <3>2. CASE Served
      <4>1. pc' = [pc EXCEPT ![d] = "attempts"] /\ UNCHANGED <<out, tmp, used, read>>
        BY <2>2, <3>2 DEF Look
      <4> QED BY <3>1, <3>2, <4>1
    <3>3. CASE ~Served /\ \A e \in Drivers : pc[e] \notin Materializing
      <4>1. pc' = [pc EXCEPT ![d] = "gate"] /\ UNCHANGED <<out, tmp, used, read>>
        BY <2>2, <3>3 DEF Look
      <4> QED BY <3>1, <3>3, <4>1
    <3> QED BY <3>1, <3>2, <3>3
  <2>3. CASE Gate(d)
    <3>1. pc[d] = "gate" /\ UNCHANGED <<tmp, used, raced>> BY <2>3 DEF Gate
    <3>2. CASE pc' = [pc EXCEPT ![d] = "clean"] /\ UNCHANGED <<read, out>>
      BY <3>1, <3>2
    <3>3. CASE out' = Put(out, "gate") /\ Gone(d)
      <4>1. Served' => Served
        <5>1. "config" \in Put(out, "gate").files => "config" \in Made(out).files
          BY PutType DEF Files
        <5>2. "config" \in Made(out).files => Served BY DEF Made, NewDir
        <5> QED BY <3>3, <5>1, <5>2
      <4>2. /\ pc' = [pc EXCEPT ![d] = "off"]
            /\ read' = [read EXCEPT ![d] = None]
        BY <3>3 DEF Gone
      <4> QED BY <3>1, <4>1, <4>2
    <3> QED BY <2>3, <3>2, <3>3 DEF Gate
  <2>4. CASE Clean(d) BY <2>4 DEF Clean
  <2>5. CASE ReadProduction(d) BY <2>5 DEF ReadProduction, Sound
  <2>6. CASE MakeTmp(d)
    <3>1. UNCHANGED <<read, out, used, raced>> /\ pc[d] = "mkdir" BY <2>6 DEF MakeTmp
    <3>2. CASE pc' = [pc EXCEPT ![d] = "prompts"] BY <3>1, <3>2
    <3>3. CASE pc' = [pc EXCEPT ![d] = "undo"] BY <3>1, <3>3
    <3> QED BY <2>6, <3>2, <3>3 DEF MakeTmp
  <2>7. CASE FillTmp(d)
    <3> SUFFICES ASSUME ~raced' PROVE OneMaterializes' /\ ServedIsWhole' OBVIOUS
    <3>1. UNCHANGED <<read, out, used, raced>> BY <2>7 DEF FillTmp, Fill
    <3>2. tmp \in DirType /\ "prompts" \in tmp.files /\ tmp.prompts # None
      BY <2>7, <3>1 DEF FillTmp, Fill
    <3>3. ASSUME NEW file \in Files, tmp' = [Put(tmp, file) EXCEPT !.of = read[d]]
          PROVE  /\ tmp' # None /\ tmp'.files = tmp.files \cup {file}
                 /\ tmp'.of = read[d] /\ tmp'.prompts = tmp.prompts
      <4>1. Made(tmp) = tmp BY <3>2, NoneIsNoDirectory DEF Made
      <4>2. tmp' \in DirType BY <3>3, <3>2, PutType DEF DirType
      <4> QED BY <3>2, <3>3, <4>1, <4>2, PutType, NoneIsNoDirectory DEF DirType
    <3>4. CASE Fill(d, "config", "manifest")
      <4>1. tmp' = [Put(tmp, "config") EXCEPT !.of = read[d]] BY <3>4 DEF Fill
      <4>2. "config" \in Files BY DEF Files
      <4> QED BY <3>1, <3>2, <3>3, <3>4, <4>1, <4>2 DEF Fill
    <3>5. CASE Fill(d, "manifest", "clear")
      <4>1. tmp' = [Put(tmp, "manifest") EXCEPT !.of = read[d]] BY <3>5 DEF Fill
      <4>2. "manifest" \in Files BY DEF Files
      <4> QED BY <3>1, <3>2, <3>3, <3>5, <4>1, <4>2 DEF Fill
    <3> QED BY <2>7, <3>4, <3>5 DEF FillTmp
  <2>12. CASE CopyPrompts(d)
    <3>1. UNCHANGED <<read, out, used, raced>> /\ pc[d] = "prompts"
      BY <2>12 DEF CopyPrompts
    <3>2. CASE tmp' = [Put(tmp, "prompts") EXCEPT !.prompts = production]
               /\ pc' = [pc EXCEPT ![d] = "config"]
      <4>1. tmp' \in DirType /\ "prompts" \in tmp'.files /\ tmp'.prompts = production
        BY <3>2, PutType DEF DirType, Files
      <4>2. tmp' # None /\ tmp'.prompts # None
        BY <4>1, NoneIsNoDirectory DEF Productions
      <4> QED BY <3>1, <3>2, <4>1, <4>2
    <3>3. CASE tmp' = tmp /\ pc' = [pc EXCEPT ![d] = "undo"] BY <3>1, <3>3
    <3> QED BY <2>12, <3>2, <3>3 DEF CopyPrompts
  <2>8. CASE ClearOut(d) BY <2>8 DEF ClearOut
  <2>9. CASE Replace(d) BY <2>9 DEF Replace
  <2>10. CASE Undo(d) BY <2>10 DEF Undo
  <2>11. CASE Report(d) BY <2>11 DEF Report, Gone
  <2> QED BY <1>1, <2>1, <2>2, <2>3, <2>4, <2>5, <2>6, <2>7, <2>8, <2>9, <2>10,
             <2>11, <2>12 DEF SnapshotStep
<1>2. ASSUME NEW d \in Drivers, LeaseStep(d) PROVE SnapshotInv'
  BY <1>2 DEF LeaseStep, Pick, Leave, ReadLease, Recover, Acquire, Gone
<1>3. ASSUME NEW d \in Drivers, RepoStep(d) PROVE SnapshotInv'
  BY <1>3 DEF RepoStep, LockCache, Clone, Fetch, Checkout, Refuse, Gone
<1>4. ASSUME NEW d \in Drivers, AttemptStep(d) PROVE SnapshotInv'
  <2>1. CASE Run(d) BY <2>1 DEF Run
  <2>2. CASE RunFails(d) BY <2>2 DEF RunFails, Gone
  <2>3. CASE Finish(d) BY <2>3 DEF Finish
  <2>4. CASE LeaveAttempt(d) BY <2>4 DEF LeaveAttempt
  <2> QED BY <1>4, <2>1, <2>2, <2>3, <2>4 DEF AttemptStep
<1>5. ASSUME NEW d \in Drivers, Kill(d) PROVE SnapshotInv'
  BY <1>5 DEF Kill, Gone
<1>6. CASE EditProduction BY <1>6 DEF EditProduction
<1>7. CASE Evict BY <1>7 DEF Evict
<1>8. CASE Tick BY <1>8 DEF Tick
<1>9. CASE UNCHANGED vars BY <1>9 DEF vars
<1> QED BY <1>1, <1>2, <1>3, <1>4, <1>5, <1>6, <1>7, <1>8, <1>9 DEF Next

\* What is said of the snapshots used follows from the invariant.
LEMMA InvServes == ASSUME Typed, SnapshotInv PROVE SnapshotServes
<1> SUFFICES ASSUME ~raced PROVE SnapshotServes!2
  BY DEF SnapshotServes
<1> USE DEF SnapshotInv, ServedIsWhole
<1>1. Cardinality(used) <= 1
  <2>1. used \subseteq {out} OBVIOUS
  <2>2. IsFiniteSet({out}) /\ Cardinality({out}) = 1 BY FS_Singleton
  <2> QED BY <2>1, <2>2, FS_Subset
<1>2. ASSUME NEW s \in used
      PROVE  /\ Whole(s)
             /\ \A n \in DOMAIN Snapshot(s.of).agents :
                  LET agent == Snapshot(s.of).agents[n] IN
                  agent.word = "rules" => Unattended(agent)
  <2>1. Whole(s) BY <1>2
  <2> DEFINE config == Config[s.of]
             kept   == KeptOf(config, Options)
  <2>2. kept \subseteq DOMAIN config.agents BY <2>1 DEF Whole, Sound, Readable
  <2>3. Snapshot(s.of).agents = [n \in kept |-> Policy(config.agents[n])]
    BY DEF Snapshot, Materialize
  <2>4. \A n \in kept : "rules" \in DOMAIN config.agents[n]
    BY <2>1, <2>2, ParallelAssumption DEF Whole, Sound, Productions
  <2> QED BY <2>1, <2>3, <2>4, PolicyUnattended
<1>3. ASSUME NEW d \in Drivers, pc[d] = "run" PROVE Served
  BY <1>3 DEF Working
<1> QED BY <1>1, <1>2, <1>3 DEF Whole, Sound

\* Unless two drivers have materialized at the same time, all attempts run under
\* one complete snapshot, with permissions that leave nothing to ask.
THEOREM OneSnapshot == Spec => []SnapshotServes
BY TypedInit, TypedStep, SnapshotInit, SnapshotStepKept, InvServes, PTL DEF Spec
-----------------------------------------------------------------------------
(* A driver ends, whatever the others do.                                  *)

\* How far a place is from the end of the attempt in hand, or, while the
\* snapshot is materialized, from the first attempt or the end.
Distance(place) ==
  CASE place = "off"      -> 0
    [] place \in {"attempts", "report"} -> 1
    [] place \in {"leave", "undo"}      -> 2
    [] place \in {"finish", "replace"}  -> 3
    [] place \in {"run", "clear"}       -> 4
    [] place \in {"checkout", "manifest"} -> 5
    [] place \in {"clone", "fetch", "config"}    -> 6
    [] place \in {"setup", "prompts"}   -> 7
    [] place \in {"acquire", "mkdir"}   -> 8
    [] place \in {"recover", "read"}    -> 9
    [] place \in {"lease", "clean"}     -> 10
    [] place = "gate"     -> 11
    [] OTHER              -> 12

StepsLeft(d) == 10 * Cardinality(todo[d]) + Distance(pc[d])

OwnStep(d) ==
  SnapshotStep(d) \/ LeaseStep(d) \/ RepoStep(d) \/ AttemptStep(d) \/ Kill(d)

\* A driver under way comes closer to its end with each of its own steps, and
\* nothing else that happens sets it back: snapshots that others remove, leases
\* that others take and a cache that is evicted make it raise, but never start
\* over (run_attempts, _write_config_snapshot, acquire_worktree).
DriversWindDown ==
  [][\A d \in Drivers : pc[d] # "off" =>
       /\ StepsLeft(d) \in Nat
       /\ OwnStep(d) => StepsLeft(d)' \in 0 .. StepsLeft(d) - 1
       /\ ~OwnStep(d) => StepsLeft(d)' = StepsLeft(d)]_vars

\* Places are a bounded number of steps apart.
LEMMA DistanceType == \A place \in Place : Distance(place) \in 0 .. 12
BY DEF Place, Materializing, Working, Distance

\* A step on the way from one attempt to the next takes nothing off the list.
Nearer(d) == todo'[d] = todo[d] /\ Distance(pc'[d]) < Distance(pc[d])

\* A step of a driver under way ends it, picks an attempt, or comes nearer.
LEMMA OwnStepGoes ==
  ASSUME Typed, NEW d \in Drivers, OwnStep(d), pc[d] # "off"
  PROVE  \/ pc'[d] = "off" /\ todo'[d] = {}
         \/ /\ pc[d] = "attempts" /\ pc'[d] \in {"attempts", "lease"}
            /\ \E a \in todo[d] : todo'[d] = todo[d] \ {a}
         \/ Nearer(d)
<1> USE DEF Typed, TypeOK, Go, Gone
<1>1. CASE SnapshotStep(d)
  <2>1. CASE Start(d) BY <2>1 DEF Start
  <2>2. CASE Look(d) BY <2>2 DEF Look, Nearer, Distance
  <2>3. CASE Gate(d) BY <2>3 DEF Gate, Nearer, Distance
  <2>4. CASE Clean(d) BY <2>4 DEF Clean, Nearer, Distance
  <2>5. CASE ReadProduction(d) BY <2>5 DEF ReadProduction, Nearer, Distance
  <2>6. CASE MakeTmp(d) BY <2>6 DEF MakeTmp, Nearer, Distance
  <2>7. CASE FillTmp(d) BY <2>7 DEF FillTmp, Fill, Nearer, Distance
  <2>12. CASE CopyPrompts(d) BY <2>12 DEF CopyPrompts, Nearer, Distance
  <2>8. CASE ClearOut(d) BY <2>8 DEF ClearOut, Nearer, Distance
  <2>9. CASE Replace(d) BY <2>9 DEF Replace, Nearer, Distance
  <2>10. CASE Undo(d) BY <2>10 DEF Undo, Nearer, Distance
  <2>11. CASE Report(d) BY <2>11 DEF Report
  <2> QED BY <1>1, <2>1, <2>2, <2>3, <2>4, <2>5, <2>6, <2>7, <2>8, <2>9, <2>10,
             <2>11, <2>12 DEF SnapshotStep
<1>2. CASE LeaseStep(d)
  <2>1. CASE Pick(d) BY <2>1 DEF Pick
  <2>2. CASE Leave(d) BY <2>2 DEF Leave
  <2>3. CASE ReadLease(d) BY <2>3 DEF ReadLease, Nearer, Distance
  <2>4. CASE Recover(d) BY <2>4 DEF Recover, Nearer, Distance
  <2>5. CASE Acquire(d) BY <2>5 DEF Acquire, Nearer, Distance
  <2> QED BY <1>2, <2>1, <2>2, <2>3, <2>4, <2>5 DEF LeaseStep
<1>3. CASE RepoStep(d)
  BY <1>3 DEF RepoStep, LockCache, Clone, Fetch, Checkout, Refuse, Nearer, Distance
<1>4. CASE AttemptStep(d)
  BY <1>4 DEF AttemptStep, Run, RunFails, Finish, LeaveAttempt, Nearer, Distance
<1>5. CASE Kill(d) BY <1>5 DEF Kill
<1> QED BY <1>1, <1>2, <1>3, <1>4, <1>5 DEF OwnStep

\* The others leave place and list of a driver alone.
LEMMA OthersKeep ==
  ASSUME Typed, [Next]_vars, NEW d \in Drivers, ~OwnStep(d)
  PROVE  pc'[d] = pc[d] /\ todo'[d] = todo[d]
<1> USE DEF Typed, TypeOK, Go, Gone
<1>1. ASSUME NEW e \in Drivers \ {d}, OwnStep(e) PROVE pc'[d] = pc[d] /\ todo'[d] = todo[d]
  <2>1. CASE SnapshotStep(e)
    BY <1>1, <2>1 DEF SnapshotStep, Start, Look, Gate, Clean, ReadProduction, MakeTmp,
       CopyPrompts, FillTmp, Fill, ClearOut, Replace, Undo, Report
  <2>2. CASE LeaseStep(e)
    BY <1>1, <2>2 DEF LeaseStep, Pick, Leave, ReadLease, Recover, Acquire
  <2>3. CASE RepoStep(e)
    BY <1>1, <2>3 DEF RepoStep, LockCache, Clone, Fetch, Checkout, Refuse
  <2>4. CASE AttemptStep(e)
    BY <1>1, <2>4 DEF AttemptStep, Run, RunFails, Finish, LeaveAttempt
  <2>5. CASE Kill(e) BY <1>1, <2>5 DEF Kill
  <2> QED BY <1>1, <2>1, <2>2, <2>3, <2>4, <2>5 DEF OwnStep
<1>2. CASE EditProduction \/ Evict \/ Tick \/ UNCHANGED vars
  BY <1>2 DEF EditProduction, Evict, Tick, vars
<1> QED BY <1>1, <1>2 DEF Next, OwnStep

\* One step of a driver's own takes at least one off what it has left.
LEMMA OwnStepDown ==
  ASSUME Typed, Typed', IsFiniteSet(Attempts), NEW d \in Drivers, OwnStep(d), pc[d] # "off"
  PROVE  StepsLeft(d)' \in 0 .. StepsLeft(d) - 1
<1>1. pc[d] \in Place /\ pc'[d] \in Place /\ todo[d] \in SUBSET Attempts /\ todo'[d] \in SUBSET Attempts
  BY DEF Typed, TypeOK
<1>2. IsFiniteSet(todo[d]) /\ IsFiniteSet(todo'[d]) BY <1>1, FS_Subset
<1>3. Cardinality(todo[d]) \in Nat /\ Cardinality(todo'[d]) \in Nat
  BY <1>2, FS_CardinalityType
<1>4. Distance(pc[d]) \in 0 .. 12 /\ Distance(pc'[d]) \in 0 .. 12 BY <1>1, DistanceType
<1>5. /\ StepsLeft(d) = 10 * Cardinality(todo[d]) + Distance(pc[d])
      /\ StepsLeft(d)' = 10 * Cardinality(todo'[d]) + Distance(pc'[d])
  BY DEF StepsLeft, Distance
<1>6. CASE pc'[d] = "off" /\ todo'[d] = {}
  <2>1. Cardinality(todo'[d]) = 0 BY <1>6, FS_EmptySet
  <2>2. Distance(pc'[d]) = 0 BY <1>6 DEF Distance
  <2>3. Distance(pc[d]) > 0 BY <1>1 DEF Place, Materializing, Working, Distance
  <2> QED BY <1>3, <1>4, <1>5, <2>1, <2>2, <2>3
<1>7. CASE /\ pc[d] = "attempts" /\ pc'[d] \in {"attempts", "lease"}
           /\ \E a \in todo[d] : todo'[d] = todo[d] \ {a}
  <2>1. PICK a \in todo[d] : todo'[d] = todo[d] \ {a} BY <1>7
  <2>2. Cardinality(todo'[d]) = Cardinality(todo[d]) - 1
    BY <1>2, <2>1, FS_RemoveElement
  <2>3. Distance(pc[d]) = 1 /\ Distance(pc'[d]) \in {1, 10} BY <1>7 DEF Distance
  <2> QED BY <1>3, <1>5, <2>2, <2>3
<1>8. CASE Nearer(d) BY <1>3, <1>4, <1>5, <1>8 DEF Nearer
<1> QED BY <1>6, <1>7, <1>8, OwnStepGoes

\* For any number of drivers: every step of a driver's own lowers a number that no
\* other step raises.
THEOREM DriversEnd == ASSUME IsFiniteSet(Attempts) PROVE Spec => DriversWindDown
<1>1. ASSUME Typed, Typed', [Next]_vars, NEW d \in Drivers, pc[d] # "off"
      PROVE  /\ StepsLeft(d) \in Nat
             /\ OwnStep(d) => StepsLeft(d)' \in 0 .. StepsLeft(d) - 1
             /\ ~OwnStep(d) => StepsLeft(d)' = StepsLeft(d)
  <2>1. pc[d] \in Place /\ todo[d] \in SUBSET Attempts BY <1>1 DEF Typed, TypeOK
  <2>2. Cardinality(todo[d]) \in Nat BY <2>1, FS_Subset, FS_CardinalityType
  <2>3. Distance(pc[d]) \in 0 .. 12 BY <2>1, DistanceType
  <2>4. StepsLeft(d) \in Nat BY <2>2, <2>3 DEF StepsLeft
  <2>5. OwnStep(d) => StepsLeft(d)' \in 0 .. StepsLeft(d) - 1 BY <1>1, OwnStepDown
  <2>6. ~OwnStep(d) => StepsLeft(d)' = StepsLeft(d)
    <3> SUFFICES ASSUME ~OwnStep(d) PROVE StepsLeft(d)' = StepsLeft(d) OBVIOUS
    <3>1. pc'[d] = pc[d] /\ todo'[d] = todo[d] BY <1>1, OthersKeep
    <3> QED BY <3>1 DEF StepsLeft, Distance
  <2> QED BY <2>4, <2>5, <2>6
<1>2. Typed /\ Typed' /\ [Next]_vars =>
      [\A d \in Drivers : pc[d] # "off" =>
       /\ StepsLeft(d) \in Nat
       /\ OwnStep(d) => StepsLeft(d)' \in 0 .. StepsLeft(d) - 1
       /\ ~OwnStep(d) => StepsLeft(d)' = StepsLeft(d)]_vars
  BY <1>1
<1>3. QED BY <1>2, TypedInit, TypedStep, PTL DEF Spec, DriversWindDown

\* A driver waits for nothing but the lock of the cache (_locked).
Waits(d) == pc[d] \in {"setup", "leave"} /\ flock # None

\* Whoever waits for the lock waits for a driver that is under way and does not
\* wait itself (_locked, and the kernel, which releases the flock of the dead).
LockComesBack ==
  \A d \in Drivers : Waits(d) => flock \in Drivers /\ pc[flock] # "off" /\ ~Waits(flock)

\* For any number of drivers and kills at any step: nobody waits for the dead or for
\* a driver that waits.
THEOREM HolderGoesOn == Spec => []LockComesBack
<1>1. Typed => LockComesBack BY DEF Typed, TypeOK, LockComesBack, Waits
<1> QED BY TypedInit, TypedStep, <1>1, PTL DEF Spec
=============================================================================
