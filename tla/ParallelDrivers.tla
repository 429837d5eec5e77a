--------------------------- MODULE ParallelDrivers ---------------------------
(***************************************************************************)
(* Several controller processes on one run root and one repository cache   *)
(* (controller/core.py, materializer.py, leases.py, repo_cache.py): the    *)
(* configuration snapshot they all materialize, the lease files of the     *)
(* attempts and the lock and lease files of the cache.                     *)
(*                                                                         *)
(* The phases of an attempt are those of AttemptLifecycle, contracted to   *)
(* what the drivers share: SETUP is the acquisition of a worktree, RUN the *)
(* use of the snapshot, and the rest ends in DONE.  All attempts are of    *)
(* one repository.  Removing a directory and copying all prompts take one  *)
(* step each.  A kill is SIGKILL: it releases the flock and nothing else.  *)
(***************************************************************************)
EXTENDS ConfigPolicy

CONSTANTS
  Drivers,      \* processes that work on the run root
  Attempts,     \* attempts of the run, which all drivers are started with
  None,         \* no attempt, no lease, no directory
  Config,       \* versions of the production configuration -> their contents
  Options,      \* the options of the run (ConfigPolicy)
  Listed,       \* attempts of the repository the caller of the eviction lists;
                \* none, when the repository is not in its table
  Stale,        \* lease_stale_after_seconds
  MaxTime,      \* bound on the clock
  MaxStarts,    \* bound on process starts
  MaxEdits      \* bound on edits of the production configuration

ASSUME ParallelAssumption ==
  /\ None \notin Attempts \cup Drivers \cup DOMAIN Config \cup Nat
  /\ \A p \in DOMAIN Config : \A n \in DOMAIN Config[p].agents :
       "rules" \in DOMAIN Config[p].agents[n]
  /\ Listed \subseteq Attempts
  /\ Stale \in Nat \ {0}
  /\ MaxTime \in Nat /\ MaxStarts \in Nat /\ MaxEdits \in Nat

VARIABLES
  pc,         \* where each driver is
  todo,       \* attempts a driver has not come to yet
  cur,        \* the attempt a driver has in hand
  sight,      \* the lease a driver has read
  since,      \* when a driver acquired the lease of its attempt
  production, \* the version the production configuration is at
  read,       \* the version a driver materializes
  out, tmp,   \* oco-config-snapshot/ and its temporary directory
  error,      \* oco-config-materialization-error.json exists
  used,       \* history: snapshots under which the agent was run
  lease,      \* attempt -> the time in its lease file
  setup, done,\* attempts with the SETUP, the DONE marker
  cache,      \* the mirror clone: "absent", "partial" (without the objects of
              \* the base commit, which git adds all at once) or "whole"
  holds,      \* attempts with a lease file of the repository
  flock,      \* the driver that holds .repo-cache.lock
  raced,      \* history: two drivers have materialized at the same time
  contended,  \* history: attempts whose lease was acquired behind the back of
              \* a driver that had just read it
  shared,     \* history: attempts two drivers have worked on at the same time
  now, starts, edits

snapshotVars == <<production, read, out, tmp, error, used, raced, edits>>
leaseVars    == <<sight, since, lease, contended, shared, now>>
repoVars     == <<cache, holds, flock>>
vars == <<pc, todo, cur, starts, setup, done, snapshotVars, leaseVars, repoVars>>

Materializing == {"gate", "clean", "read", "mkdir", "prompts", "config",
                  "manifest", "clear", "replace", "undo", "report"}
Working       == {"setup", "clone", "fetch", "checkout", "run", "finish"}
Place == {"off", "look", "attempts", "lease", "recover", "acquire", "leave"}
           \cup Materializing \cup Working

Files == {"prompts", "config", "manifest", "gate"}

Productions == DOMAIN Config
Snapshot(p) == Materialize(Config[p], Options)

\* A directory: its files and the versions of the production configuration that
\* opencode.jsonc and the manifest, and that the prompts are from.
DirType == [files   : SUBSET Files,
            of      : Productions \cup {None},
            prompts : Productions \cup {None}]
ASSUME NoneIsNoDirectory == None \notin DirType

NewDir == [files |-> {}, of |-> None, prompts |-> None]

\* Every write makes the directory anew when another driver has removed it.
Made(dir) == IF dir = None THEN NewDir ELSE dir
Put(dir, file) == [Made(dir) EXCEPT !.files = @ \cup {file}]
Served == out # None /\ "config" \in out.files

Init ==
  /\ pc = [d \in Drivers |-> "off"]
  /\ todo = [d \in Drivers |-> {}]
  /\ cur = [d \in Drivers |-> None]
  /\ sight = [d \in Drivers |-> None]
  /\ since = [d \in Drivers |-> 0]
  /\ read = [d \in Drivers |-> None]
  /\ production \in Productions
  /\ out = None /\ tmp = None /\ error = FALSE /\ used = {}
  /\ lease = [a \in Attempts |-> None]
  /\ setup = {} /\ done = {}
  /\ cache = "absent" /\ holds = {} /\ flock = None
  /\ raced = FALSE /\ contended = {} /\ shared = {}
  /\ now = 0 /\ starts = 0 /\ edits = 0

Go(d, place) == pc' = [pc EXCEPT ![d] = place]

\* The process raises or is killed: what it has in memory is gone.
Gone(d) ==
  /\ Go(d, "off")
  /\ todo' = [todo EXCEPT ![d] = {}]
  /\ cur' = [cur EXCEPT ![d] = None]
  /\ sight' = [sight EXCEPT ![d] = None]
  /\ since' = [since EXCEPT ![d] = 0]
  /\ read' = [read EXCEPT ![d] = None]

-----------------------------------------------------------------------------
(* The configuration snapshot: run_attempts, _write_config_snapshot.       *)

\* ensure makes an empty snapshot directory.
Start(d) ==
  /\ pc[d] = "off" /\ starts < MaxStarts
  /\ starts' = starts + 1
  /\ todo' = [todo EXCEPT ![d] = Attempts]
  /\ out' = Made(out)
  /\ Go(d, "look")
  /\ UNCHANGED <<cur, setup, done, production, read, tmp, error, used, raced, edits,
                 leaseVars, repoVars>>

\* Asked by a driver that does not do so yet itself.
OtherMaterializes == \E e \in Drivers : pc[e] \in Materializing

\* Mutant of Look: the directory is asked for, not the file in it.
LookForDirectory(d) ==
  /\ pc[d] = "look"
  /\ Go(d, IF out # None THEN "attempts" ELSE "gate")
  /\ raced' = (raced \/ (out = None /\ OtherMaterializes))
  /\ UNCHANGED <<todo, cur, starts, setup, done, production, read, out, tmp, error,
                 used, edits, leaseVars, repoVars>>

\* Is opencode.jsonc there already?
Look(d) ==
  /\ pc[d] = "look"
  /\ Go(d, IF Served THEN "attempts" ELSE "gate")
  /\ raced' = (raced \/ (~Served /\ OtherMaterializes))
  /\ UNCHANGED <<todo, cur, starts, setup, done, production, read, out, tmp, error,
                 used, edits, leaseVars, repoVars>>

\* check_oco_binary; when it refuses, its artifact goes into the directory.
Gate(d) ==
  /\ pc[d] = "gate"
  /\ UNCHANGED <<starts, setup, done, production, tmp, error, used, raced, edits,
                 lease, contended, shared, now, repoVars>>
  /\ \/ /\ Go(d, "clean")
        /\ UNCHANGED <<todo, cur, sight, since, read, out>>
     \/ /\ out' = Put(out, "gate")
        /\ Gone(d)

\* What an earlier materialization left is removed before anything else.
Clean(d) ==
  /\ pc[d] = "clean"
  /\ tmp' = None
  /\ Go(d, "read")
  /\ UNCHANGED <<todo, cur, starts, setup, done, production, read, out, error, used,
                 raced, edits, leaseVars, repoVars>>

ReadProduction(d) ==
  /\ pc[d] = "read"
  /\ IF Readable(Config[production], Options)
     THEN /\ read' = [read EXCEPT ![d] = production]
          /\ Go(d, "mkdir")
     ELSE /\ read' = read
          /\ Go(d, "undo")
  /\ UNCHANGED <<todo, cur, starts, setup, done, production, out, tmp, error, used,
                 raced, edits, leaseVars, repoVars>>

MakeTmp(d) ==
  /\ pc[d] = "mkdir"
  /\ IF tmp = None
     THEN tmp' = NewDir /\ Go(d, "prompts")
     ELSE tmp' = tmp /\ Go(d, "undo")
  /\ UNCHANGED <<todo, cur, starts, setup, done, production, read, out, error, used,
                 raced, edits, leaseVars, repoVars>>

\* The prompts that the configuration names are looked for and copied as they are
\* now, which need not be as they were when it was read: when production has been
\* edited since, those that were there may be gone and the other way round.
CopyPrompts(d) ==
  /\ pc[d] = "prompts"
  /\ LET config == Config[read[d]]
         kept   == KeptOf(config, Options)
     IN \/ /\ ~BadPrompt(config, kept, {"outside"})
           /\ production = read[d] => ~BadPrompt(config, kept, {"gone"})
           /\ tmp' = [Put(tmp, "prompts") EXCEPT !.prompts = production]
           /\ Go(d, "config")
        \/ /\ \/ BadPrompt(config, kept, {"outside", "gone"})
              \/ production # read[d] /\ Prompts(config, kept) # {}
           /\ tmp' = tmp
           /\ Go(d, "undo")
  /\ UNCHANGED <<todo, cur, starts, setup, done, production, read, out, error, used,
                 raced, edits, leaseVars, repoVars>>

\* opencode.jsonc, strip-diff-manifest.json.
Fill(d, here, next) ==
  /\ pc[d] = here
  /\ tmp' = [Put(tmp, here) EXCEPT !.of = read[d]]
  /\ Go(d, next)
  /\ UNCHANGED <<todo, cur, starts, setup, done, production, read, out, error, used,
                 raced, edits, leaseVars, repoVars>>

FillTmp(d) ==
  \/ Fill(d, "config", "manifest")
  \/ Fill(d, "manifest", "clear")

ClearOut(d) ==
  /\ pc[d] = "clear"
  /\ out' = None
  /\ error' = FALSE
  /\ Go(d, "replace")
  /\ UNCHANGED <<todo, cur, starts, setup, done, production, read, tmp, used, raced,
                 edits, leaseVars, repoVars>>

\* A rename does not replace a directory with something in it.
Replace(d) ==
  /\ pc[d] = "replace"
  /\ IF tmp # None /\ (out = None \/ out.files = {})
     THEN out' = tmp /\ tmp' = None /\ Go(d, "attempts")
     ELSE UNCHANGED <<out, tmp>> /\ Go(d, "undo")
  /\ UNCHANGED <<todo, cur, starts, setup, done, production, read, error, used, raced,
                 edits, leaseVars, repoVars>>

\* The except branch: both directories are removed and the error is written.
Undo(d) ==
  /\ pc[d] = "undo"
  /\ tmp' = None /\ out' = None
  /\ Go(d, "report")
  /\ UNCHANGED <<todo, cur, starts, setup, done, production, read, error, used, raced,
                 edits, leaseVars, repoVars>>

Report(d) ==
  /\ pc[d] = "report"
  /\ error' = TRUE
  /\ Gone(d)
  /\ UNCHANGED <<starts, setup, done, production, out, tmp, used, raced, edits,
                 lease, contended, shared, now, repoVars>>

\* Someone edits the production configuration.
EditProduction ==
  /\ edits < MaxEdits
  /\ edits' = edits + 1
  /\ production' \in Productions \ {production}
  /\ UNCHANGED <<pc, todo, cur, starts, setup, done, read, out, tmp, error, used, raced,
                 leaseVars, repoVars>>

-----------------------------------------------------------------------------
(* The lease of an attempt: run_attempts, recover_or_raise, acquire.       *)

\* The lease of a finished attempt is removed, whoever it belongs to.
Pick(d) ==
  /\ pc[d] = "attempts"
  /\ \E a \in todo[d] :
       /\ todo' = [todo EXCEPT ![d] = @ \ {a}]
       /\ IF a \in done
          THEN /\ lease' = [lease EXCEPT ![a] = None]
               /\ UNCHANGED <<pc, cur>>
          ELSE /\ cur' = [cur EXCEPT ![d] = a]
               /\ Go(d, "lease")
               /\ UNCHANGED lease
  /\ UNCHANGED <<starts, setup, done, snapshotVars, sight, since, contended, shared, now, repoVars>>

Leave(d) ==
  /\ pc[d] = "attempts" /\ todo[d] = {}
  /\ Gone(d)
  /\ UNCHANGED <<starts, setup, done, production, out, tmp, error, used, raced, edits,
                 lease, contended, shared, now, repoVars>>

ReadLease(d) ==
  /\ pc[d] = "lease"
  /\ sight' = [sight EXCEPT ![d] = lease[cur[d]]]
  /\ Go(d, IF lease[cur[d]] = None THEN "acquire" ELSE "recover")
  /\ UNCHANGED <<todo, cur, starts, setup, done, snapshotVars, since, lease, contended,
                 shared, now, repoVars>>

\* Mutant of IsStale: a lease is stale a unit too early.
IsStaleEarly(time) == now - time >= Stale - 1

IsStale(time) == now - time >= Stale

\* recover_or_raise: ActiveLeaseError, or the file at the path is removed,
\* which need not be the one that was read.
Recover(d) ==
  /\ pc[d] = "recover"
  /\ IF IsStale(sight[d])
     THEN /\ lease' = [lease EXCEPT ![cur[d]] = None]
          /\ Go(d, "acquire")
          /\ UNCHANGED <<todo, cur, sight, since, read>>
     ELSE lease' = lease /\ Gone(d)
  /\ UNCHANGED <<starts, setup, done, production, out, tmp, error, used, raced, edits,
                 contended, shared, now, repoVars>>

Others(d) == {e \in Drivers \ {d} : cur[e] = cur[d]}

\* acquire, and SETUP or RUN as next_phase says.
Acquire(d) ==
  /\ pc[d] = "acquire"
  /\ lease' = [lease EXCEPT ![cur[d]] = now]
  /\ since' = [since EXCEPT ![d] = now]
  /\ sight' = [sight EXCEPT ![d] = None]
  /\ contended' = IF \E e \in Others(d) : pc[e] \in {"recover", "acquire"}
                  THEN contended \cup {cur[d]} ELSE contended
  /\ shared' = IF \E e \in Others(d) : pc[e] \in Working \cup {"leave"}
               THEN shared \cup {cur[d]} ELSE shared
  /\ Go(d, CASE cur[d] \in done  -> "leave"
             [] cur[d] \in setup /\ cur[d] \notin done -> "run"
             [] OTHER            -> "setup")
  /\ UNCHANGED <<todo, cur, starts, setup, done, snapshotVars, now, repoVars>>

-----------------------------------------------------------------------------
(* SETUP: acquire_worktree.                                                *)

\* _locked, _write_lease; an existing directory is taken for the cache.
LockCache(d) ==
  /\ pc[d] = "setup" /\ flock = None
  /\ flock' = d
  /\ holds' = holds \cup {cur[d]}
  /\ IF cache = "absent"
     THEN cache' = "partial" /\ Go(d, "clone")
     ELSE cache' = cache /\ Go(d, "fetch")
  /\ UNCHANGED <<todo, cur, starts, setup, done, snapshotVars, leaseVars>>

\* clone_mirror succeeds, perhaps after failures that were tried again.
Clone(d) ==
  /\ pc[d] = "clone"
  /\ cache' = "whole"
  /\ Go(d, "checkout")
  /\ UNCHANGED <<todo, cur, starts, setup, done, snapshotVars, leaseVars, holds, flock>>

\* fetch succeeds; it may have completed what a killed clone had left.
Fetch(d) ==
  /\ pc[d] = "fetch"
  /\ cache' \in {cache, "whole"}
  /\ Go(d, "checkout")
  /\ UNCHANGED <<todo, cur, starts, setup, done, snapshotVars, leaseVars, holds, flock>>

\* Mutant of Checkout: has_commit is not asked.
CheckoutUnasked(d) ==
  /\ pc[d] = "checkout"
  /\ setup' = setup \cup {cur[d]}
  /\ flock' = None
  /\ Go(d, "run")
  /\ UNCHANGED <<todo, cur, starts, done, snapshotVars, leaseVars, cache, holds>>

\* has_commit, and create_worktree.
Checkout(d) ==
  /\ pc[d] = "checkout" /\ cache = "whole"
  /\ setup' = setup \cup {cur[d]}
  /\ flock' = None
  /\ Go(d, "run")
  /\ UNCHANGED <<todo, cur, starts, done, snapshotVars, leaseVars, cache, holds>>

\* Mutant of Refuse: the lock outlives the exception.
RefuseLocked(d) ==
  /\ pc[d] \in {"clone", "fetch", "checkout"}
  /\ cache' = IF pc[d] = "clone" THEN "absent" ELSE cache
  /\ holds' = holds \ {cur[d]}
  /\ flock' = flock
  /\ Gone(d)
  /\ UNCHANGED <<starts, setup, done, production, out, tmp, error, used, raced, edits,
                 lease, contended, shared, now, cache>>

\* clone_mirror, fetch, has_commit or create_worktree fails: what there is of a
\* clone and the lease file of the repository are removed and the driver raises.
Refuse(d) ==
  /\ pc[d] \in {"clone", "fetch", "checkout"}
  /\ cache' = IF pc[d] = "clone" THEN "absent" ELSE cache
  /\ holds' = holds \ {cur[d]}
  /\ flock' = None
  /\ Gone(d)
  /\ UNCHANGED <<starts, setup, done, production, out, tmp, error, used, raced, edits,
                 lease, contended, shared, now, cache>>

\* evict_for_watermark, called by someone who has the cache's lock; no driver or
\* script of the repository calls it, only tests/test_repo_cache.py:129.
Evict ==
  /\ flock = None
  /\ cache # "absent"
  /\ holds = {}
  /\ Listed \subseteq done
  /\ cache' = "absent"
  /\ UNCHANGED <<pc, todo, cur, starts, setup, done, snapshotVars, leaseVars, holds, flock>>

-----------------------------------------------------------------------------
(* RUN to DONE.                                                            *)

\* prepare_isolated_config_home copies the snapshot.
Run(d) ==
  /\ pc[d] = "run" /\ out # None
  /\ used' = used \cup {out}
  /\ Go(d, "finish")
  /\ UNCHANGED <<todo, cur, starts, setup, done, production, read, out, tmp, error,
                 raced, edits, leaseVars, repoVars>>

\* Without a snapshot there is nothing to copy.
RunFails(d) ==
  /\ pc[d] = "run" /\ out = None
  /\ Gone(d)
  /\ UNCHANGED <<starts, setup, done, production, out, tmp, error, used, raced, edits,
                 lease, contended, shared, now, repoVars>>

Finish(d) ==
  /\ pc[d] = "finish"
  /\ done' = done \cup {cur[d]}
  /\ Go(d, "leave")
  /\ UNCHANGED <<todo, cur, starts, setup, snapshotVars, leaseVars, repoVars>>

\* release_worktree, under the lock, and release.
LeaveAttempt(d) ==
  /\ pc[d] = "leave" /\ flock = None
  /\ holds' = holds \ {cur[d]}
  /\ lease' = [lease EXCEPT ![cur[d]] = None]
  /\ cur' = [cur EXCEPT ![d] = None]
  /\ since' = [since EXCEPT ![d] = 0]
  /\ Go(d, "attempts")
  /\ UNCHANGED <<todo, starts, setup, done, snapshotVars, sight, contended, shared, now, cache, flock>>

-----------------------------------------------------------------------------
Kill(d) ==
  /\ pc[d] # "off"
  /\ flock' = IF flock = d THEN None ELSE flock
  /\ Gone(d)
  /\ UNCHANGED <<starts, setup, done, production, out, tmp, error, used, raced, edits,
                 lease, contended, shared, now, cache, holds>>

Tick ==
  /\ now < MaxTime
  /\ now' = now + 1
  /\ UNCHANGED <<pc, todo, cur, starts, setup, done, snapshotVars, sight, since, lease,
                 contended, shared, repoVars>>

SnapshotStep(d) ==
  \/ Start(d) \/ Look(d) \/ Gate(d) \/ Clean(d) \/ ReadProduction(d) \/ MakeTmp(d)
  \/ CopyPrompts(d) \/ FillTmp(d) \/ ClearOut(d) \/ Replace(d) \/ Undo(d) \/ Report(d)
LeaseStep(d)   == Pick(d) \/ Leave(d) \/ ReadLease(d) \/ Recover(d) \/ Acquire(d)
RepoStep(d)    == LockCache(d) \/ Clone(d) \/ Fetch(d) \/ Checkout(d) \/ Refuse(d)
AttemptStep(d) == Run(d) \/ RunFails(d) \/ Finish(d) \/ LeaveAttempt(d)

Next ==
  \/ \E d \in Drivers : SnapshotStep(d) \/ LeaseStep(d) \/ RepoStep(d)
                        \/ AttemptStep(d) \/ Kill(d)
  \/ EditProduction \/ Evict \/ Tick

Spec == Init /\ [][Next]_vars

-----------------------------------------------------------------------------
TypeOK ==
  /\ pc \in [Drivers -> Place]
  /\ todo \in [Drivers -> SUBSET Attempts]
  /\ cur \in [Drivers -> Attempts \cup {None}]
  /\ sight \in [Drivers -> (0..MaxTime) \cup {None}]
  /\ since \in [Drivers -> 0..MaxTime]
  /\ production \in Productions
  /\ read \in [Drivers -> Productions \cup {None}]
  /\ out \in DirType \cup {None} /\ tmp \in DirType \cup {None}
  /\ used \subseteq DirType
  /\ lease \in [Attempts -> (0..MaxTime) \cup {None}]
  /\ setup \subseteq Attempts /\ done \subseteq setup
  /\ cache \in {"absent", "partial", "whole"}
  /\ holds \subseteq Attempts
  /\ flock \in Drivers \cup {None}
  /\ \A d \in Drivers :
       /\ pc[d] \in {"clone", "fetch", "checkout"} <=> flock = d
       /\ cur[d] # None <=> pc[d] \in Working \cup {"lease", "recover", "acquire", "leave"}
       /\ pc[d] = "recover" => sight[d] # None
  /\ error \in BOOLEAN /\ raced \in BOOLEAN /\ contended \subseteq Attempts /\ shared \subseteq Attempts
  /\ now \in 0..MaxTime /\ starts \in 0..MaxStarts /\ edits \in 0..MaxEdits

\* Unless two drivers materialize at the same time, every attempt of a run is
\* executed under one and the same snapshot, which is complete and leaves an
\* agent whose permissions are rules nothing to ask; whatever processes were
\* killed or raised before, and whatever became of the production
\* configuration since (_write_config_snapshot, materialize_config).  Its prompts
\* may be of a later version of production than its configuration: they are
\* copied in a step after the one that reads it (materializer.py:729).
SnapshotServes ==
  ~raced =>
    /\ Cardinality(used) <= 1
    /\ \A s \in used :
         /\ {"prompts", "config", "manifest"} \subseteq s.files
         /\ Readable(Config[s.of], Options) /\ s.prompts # None
         /\ \A n \in DOMAIN Snapshot(s.of).agents :
              LET agent == Snapshot(s.of).agents[n] IN
              agent.word = "rules" => Unattended(agent)
    /\ \A d \in Drivers : pc[d] = "run" => Served

\* Two drivers work on one attempt only if a driver had read the lease file
\* just before the other one acquired it, or if the lease of the one that came
\* first was overdue: it is never renewed, so this happens to any execution
\* that takes longer (recover_or_raise, acquire, release).
LeaseExcludes ==
  \A d, e \in Drivers :
    (d # e /\ cur[d] = cur[e] /\ {pc[d], pc[e]} \subseteq Working)
      => \/ cur[d] \in contended
         \/ now - since[d] >= Stale \/ now - since[e] >= Stale

\* Whoever works in a worktree has the whole mirror clone and the lease file of
\* the repository behind it, for an attempt that two drivers have not worked on
\* at once: a clone that a kill has cut is not taken for one, and nobody removes
\* clone or lease file under a worktree (acquire_worktree, evict_for_watermark).
CacheInUseStays ==
  \A d \in Drivers :
    (pc[d] \in {"run", "finish"} /\ cur[d] \notin shared)
      => cache = "whole" /\ cur[d] \in holds
=============================================================================
