---------------------------- MODULE PostFirstPass ----------------------------
(***************************************************************************)
(* From the task list to the bundles for the evaluator: the task list is   *)
(* loaded page by page (controller/pro_tasks.py), the first pass runs, its *)
(* attempts are classified, those that stopped without a patch are copied  *)
(* to a continuation run root and continued there                          *)
(* (controller/post_first_pass.py), and bundles are made of the patches of *)
(* the first pass alone and of both roots (controller/eval_bundle.py).     *)
(*                                                                         *)
(* The commands are run one after another, each may be killed between any  *)
(* two of its durable writes, and drivers work on their attempts, file by  *)
(* file, while commands run.  The phases of a driver are those of          *)
(* AttemptLifecycle, here only with the files that the commands read.      *)
(***************************************************************************)
EXTENDS AttemptClasses, Naturals, Sequences, FiniteSets

CONSTANTS
  Tasks,        \* the rows of the pinned dataset
  None,
  Wave,         \* the tasks the drivers are given (--ids-file)
  Outcomes,     \* what an execution may end with: [norm, patch, signals]
  MaxPage,      \* bound on the rows of a page the server sends
  MaxTotal,     \* bound on the number of rows the server says there are
  MaxForced,    \* bound on attempts rerun with --force-rerun
  MaxPrunes,    \* bound on first-pass worktrees deleted for disk space
  MaxCommands   \* bound on commands

ASSUME PostFirstPassAssumption ==
  /\ None \notin Tasks \cup Outcomes /\ IsFiniteSet(Tasks) /\ Wave \subseteq Tasks
  /\ \A o \in Outcomes : [dir |-> TRUE, done |-> TRUE, norm |-> o.norm,
                          patch |-> o.patch, signals |-> o.signals] \in Facts
  /\ \A o \in Outcomes : o.norm = "queued" => o.patch = "text"
  /\ MaxPage \in Nat /\ MaxTotal \in Nat
  /\ MaxForced \in Nat /\ MaxPrunes \in Nat /\ MaxCommands \in Nat

VARIABLES
  loaded,     \* rows of the pages loaded so far, total: what the server said last
  total,
  list,       \* the task list file: None or the rows in it
  first,      \* first[t], cont[t]: the attempt's directory in the two roots
  cont,
  clearing,   \* first-pass attempts a --force-rerun is clearing
  rows,       \* attempt-classification.jsonl: None or a class for each task
  ready,      \* prepared-ids.txt
  bundle      \* bundle["first"], bundle["final"]: the three files

\* The preparation of a continuation root: how it was called, the ids left,
\* the one in hand and what is to be done with it next, those prepared; and
\* whether the worktree being copied was incomplete at some time of the copy.
VARIABLES preparing, copying, inhand, at, done, spoilt

\* Which of rows and bundles stem from their inputs as they are now: the first
\* pass and, for the final bundle, the rows; and the counters behind the bounds.
VARIABLES current, forced, prunes, commands

loading  == <<loaded, total, list>>
roots    == <<first, cont, clearing>>
products == <<rows, ready, bundle>>
prepare  == <<preparing, copying, inhand, at, done, spoilt>>
counts   == <<forced, prunes, commands>>
vars     == <<loading, roots, products, prepare, current, counts>>

\* An attempt directory.  ev, patch and norm are the outcomes the event file, the
\* patch and normalized.json stem from; tree is "none", "whole" (made from git),
\* "copied", "torn" (a deletion was cut, or it is a copy of such a tree),
\* "partial" (a copy under way or cut) or "remnant" (all or some of it went with
\* an attempt directory whose removal was cut).
NoAttempt ==
  [dir |-> FALSE, tree |-> "none", setup |-> FALSE, ev |-> None,
   patch |-> None, norm |-> None, done |-> FALSE]

EmptyAttempt == [NoAttempt EXCEPT !.dir = TRUE]

NoBundle == [patches |-> None, raw |-> None, manifest |-> None]

\* The files of an attempt as the commands read them.
Read(a) ==
  [dir |-> a.dir, done |-> a.done,
   norm |-> IF a.norm = None THEN "missing" ELSE a.norm.norm,
   patch |-> IF a.patch = None THEN "missing" ELSE a.patch.patch,
   signals |-> IF a.ev = None THEN {} ELSE a.ev.signals]

TypeOK ==
  /\ loaded \in Seq(Tasks) /\ total \in 0 .. MaxTotal
  /\ list = None \/ list \subseteq Tasks
  /\ clearing \subseteq Tasks
  /\ rows = None \/ rows \in [Tasks -> AttemptClass]
  /\ ready \subseteq Tasks
  /\ \A t \in Tasks : \A a \in {first[t], cont[t]} :
       /\ a.dir \in BOOLEAN /\ {a.ev, a.patch, a.norm} \subseteq Outcomes \cup {None}
       /\ a.tree \in {"none", "whole", "copied", "torn", "partial", "remnant"}
  /\ \A b \in {"first", "final"} :
       bundle[b].manifest # None
         => bundle[b].manifest.of \in [Tasks -> Sources \cup ExclusionReason]
  /\ preparing \in {"no", "plain", "force"}
  /\ copying \subseteq Tasks /\ inhand \in Tasks \cup {None} /\ done \subseteq Tasks
  /\ at \in {"next", "remove", "removing", "copy", "copying", "mark"}
  /\ (at = "next") <=> (inhand = None)
  /\ spoilt \in BOOLEAN
  /\ current \subseteq {"rows", "first", "final"}
  /\ forced \in 0 .. MaxForced /\ prunes \in 0 .. MaxPrunes
  /\ commands \in 0 .. MaxCommands

Init ==
  /\ loaded = <<>> /\ total = 0 /\ list = None
  /\ first = [t \in Tasks |-> NoAttempt]
  /\ cont = [t \in Tasks |-> NoAttempt]
  /\ clearing = {}
  /\ rows = None /\ ready = {}
  /\ bundle = [b \in {"first", "final"} |-> NoBundle]
  /\ preparing = "no" /\ copying = {} /\ inhand = None /\ at = "next" /\ done = {}
  /\ spoilt = FALSE
  /\ current = {}
  /\ forced = 0 /\ prunes = 0 /\ commands = 0

-----------------------------------------------------------------------------
(* The task list.                                                          *)

Elements(s) == {s[i] : i \in DOMAIN s}

\* Mutant of LoadPage: rows that come twice are not noticed.
LoadPageTwice(page, said) ==
  /\ list = None
  /\ LET got == loaded \o page
         all == IF said = 0 THEN total ELSE said
         last == page = <<>> \/ Len(got) >= all
         sound == Len(got) = all /\ Len(got) = Cardinality(Tasks)
     IN /\ list' = IF last /\ sound THEN Elements(got) ELSE None
        /\ loaded' = IF last THEN <<>> ELSE got
        /\ total' = IF last THEN 0 ELSE all
  /\ UNCHANGED <<roots, products, prepare, current, counts>>

\* load_public_rows asks for a page until one is empty or as many rows are
\* loaded as the server said last; they must be that many, none twice
\* (canonicalize_rows), and as many as the pinned dataset has, or no list is
\* written.  The server may send any rows of the dataset, more or fewer than it
\* was asked for, and state any total, another one each time, or none (said is
\* 0).  An answer that is no page ends the loading like one that is not sound.
LoadPage(page, said) ==
  /\ list = None
  /\ LET got == loaded \o page
         all == IF said = 0 THEN total ELSE said
         last == page = <<>> \/ Len(got) >= all
         sound == /\ Len(got) = all
                  /\ Cardinality(Elements(got)) = Len(got)
                  /\ Len(got) = Cardinality(Tasks)
     IN /\ list' = IF last /\ sound THEN Elements(got) ELSE None
        /\ loaded' = IF last THEN <<>> ELSE got
        /\ total' = IF last THEN 0 ELSE all
  /\ UNCHANGED <<roots, products, prepare, current, counts>>

-----------------------------------------------------------------------------
(* Drivers.                                                                *)

\* One durable step of a driver on an attempt that is not DONE: SETUP with a
\* fresh worktree unless it is marked, then RUN, CAPTURE (two files) and DONE.
DriverSteps(a) ==
  IF a.done THEN {}
  ELSE IF ~a.setup
       THEN {[a EXCEPT !.dir = TRUE, !.tree = "whole", !.setup = TRUE]}
  ELSE IF a.ev = None THEN {[a EXCEPT !.ev = o] : o \in Outcomes}
  ELSE IF a.patch # a.ev THEN {[a EXCEPT !.patch = a.ev]}
  ELSE IF a.norm # a.ev THEN {[a EXCEPT !.norm = a.ev]}
  ELSE {[a EXCEPT !.done = TRUE]}

FirstPassStep(t) ==
  /\ t \in Wave \ clearing
  /\ \E a \in DriverSteps(first[t]) : first' = [first EXCEPT ![t] = a]
  /\ current' = {}
  /\ UNCHANGED <<loading, cont, clearing, products, prepare, counts>>

\* A driver on the continuation root is given prepared-ids.txt, the last file but
\* one of a preparation, so it is not run while one is in progress.
ContinuationStep(t) ==
  /\ preparing = "no" /\ t \in ready
  /\ \E a \in DriverSteps(cont[t]) : cont' = [cont EXCEPT ![t] = a]
  /\ UNCHANGED <<loading, first, clearing, products, prepare, current, counts>>

\* clear_for_rerun: patch, normalized.json, events, the markers, then the
\* worktree (the full order is the subject of AttemptLifecycle).
ClearBegin(t) ==
  /\ t \in Wave \ clearing /\ first[t].dir
  /\ forced < MaxForced /\ forced' = forced + 1
  /\ clearing' = clearing \cup {t}
  /\ first' = [first EXCEPT ![t].patch = None]
  /\ current' = {}
  /\ UNCHANGED <<loading, cont, products, prepare, prunes, commands>>

\* A worktree that goes while it is copied spoils the copy.
Spoils(t) ==
  /\ spoilt' = (spoilt \/ (inhand = t /\ at = "copying"))
  /\ UNCHANGED <<preparing, copying, inhand, at, done>>

ClearNext(t) ==
  /\ t \in clearing
  /\ LET a == first[t]
     IN \/ /\ a.norm # None
           /\ first' = [first EXCEPT ![t].norm = None] /\ UNCHANGED <<clearing, prepare>>
        \/ /\ a.norm = None /\ a.ev # None
           /\ first' = [first EXCEPT ![t].ev = None] /\ UNCHANGED <<clearing, prepare>>
        \/ /\ a.norm = None /\ a.ev = None /\ (a.setup \/ a.done)
           /\ first' = [first EXCEPT ![t].setup = FALSE, ![t].done = FALSE]
           /\ UNCHANGED <<clearing, prepare>>
        \/ /\ a.norm = None /\ a.ev = None /\ ~a.setup /\ ~a.done /\ a.tree = "whole"
           /\ first' = [first EXCEPT ![t].tree = "torn"] /\ Spoils(t)
           /\ UNCHANGED clearing
        \/ /\ a.norm = None /\ a.ev = None /\ ~a.setup /\ ~a.done /\ a.tree # "whole"
           /\ first' = [first EXCEPT ![t] = EmptyAttempt] /\ Spoils(t)
           /\ clearing' = clearing \ {t}
  /\ current' = {}
  /\ UNCHANGED <<loading, cont, products, counts>>

\* The driver is killed; the next one is not told to clear the attempt.
ClearCut(t) ==
  /\ t \in clearing
  /\ clearing' = clearing \ {t}
  /\ UNCHANGED <<loading, first, cont, products, prepare, current, counts>>

\* The worktree of a finished attempt is deleted for disk space, or part of it.
Prune(t) ==
  /\ first[t].done /\ first[t].tree = "whole"
  /\ prunes < MaxPrunes /\ prunes' = prunes + 1
  /\ \E tree \in {"none", "torn"} : first' = [first EXCEPT ![t].tree = tree]
  /\ Spoils(t)
  /\ UNCHANGED <<loading, cont, clearing, products, current, forced, commands>>

-----------------------------------------------------------------------------
(* Commands.                                                               *)

Command ==
  /\ list # None /\ preparing = "no"
  /\ commands < MaxCommands /\ commands' = commands + 1
  /\ UNCHANGED <<loading, roots, forced, prunes>>

\* classify_run; killed before the rows are there it leaves no trace here.
Classify ==
  /\ Command
  /\ rows' = [t \in list |-> Class(Read(first[t]))]
  /\ current' = (current \ {"final"}) \cup {"rows"}
  /\ UNCHANGED <<ready, bundle, prepare>>

\* prepare_continuation_run.
PrepareBegin(how) ==
  /\ Command
  /\ preparing' = how
  /\ copying' = IF rows = None THEN {} ELSE {t \in list : rows[t] \in ContinuationEligible}
  /\ inhand' = None /\ at' = "next" /\ done' = {} /\ spoilt' = FALSE
  /\ UNCHANGED <<products, current>>

Idle ==
  /\ preparing' = "no" /\ copying' = {} /\ inhand' = None /\ at' = "next" /\ done' = {}
  /\ spoilt' = FALSE

\* The next step of the preparation is a step of the attempt in hand.
Preparing(from, to) ==
  /\ preparing # "no" /\ at = from /\ at' = to
  /\ UNCHANGED <<loading, first, clearing, products, preparing, copying, current, counts>>

\* A directory that is there already is replaced, or ends the command.
PrepareNext(t) ==
  /\ preparing # "no" /\ at = "next" /\ t \in copying
  /\ IF cont[t].dir /\ preparing = "plain"
     THEN Idle /\ UNCHANGED cont
     ELSE /\ inhand' = t /\ copying' = copying \ {t}
          /\ at' = IF cont[t].dir THEN "remove" ELSE "copy"
          /\ cont' = IF cont[t].dir THEN cont ELSE [cont EXCEPT ![t] = EmptyAttempt]
          /\ UNCHANGED <<preparing, done, spoilt>>
  /\ UNCHANGED <<loading, first, clearing, products, current, counts>>

\* What rmtree may have left of a directory, in whatever order it goes.
Remnants(a) ==
  [dir : {TRUE}, tree : IF a.tree = "none" THEN {"none"} ELSE {a.tree, "remnant"},
   setup : {a.setup, FALSE}, ev : {a.ev, None}, patch : {a.patch, None},
   norm : {a.norm, None}, done : {a.done, FALSE}]

PrepareRemove ==
  /\ Preparing("remove", "removing")
  /\ \E a \in Remnants(cont[inhand]) : cont' = [cont EXCEPT ![inhand] = a]
  /\ UNCHANGED <<inhand, done, spoilt>>

PrepareRemoved ==
  /\ Preparing("removing", "copy")
  /\ cont' = [cont EXCEPT ![inhand] = EmptyAttempt]
  /\ UNCHANGED <<inhand, done, spoilt>>

\* Mutant of PrepareCopy: SETUP is marked before the copy.
PrepareCopyMarked ==
  /\ Preparing("copy", "copying")
  /\ first[inhand].tree # "none"
  /\ cont' = [cont EXCEPT ![inhand].tree = "partial", ![inhand].setup = TRUE]
  /\ spoilt' = (first[inhand].tree # "whole")
  /\ UNCHANGED <<inhand, done>>

\* copytree begins; it raises, as if the command were cut, or leaves out what has
\* gone from the source.
PrepareCopy ==
  /\ Preparing("copy", "copying")
  /\ first[inhand].tree # "none"
  /\ cont' = [cont EXCEPT ![inhand].tree = "partial"]
  /\ spoilt' = (first[inhand].tree # "whole")
  /\ UNCHANGED <<inhand, done>>

\* An attempt without a worktree is dropped again.
PrepareDrop ==
  /\ Preparing("copy", "next")
  /\ first[inhand].tree = "none"
  /\ cont' = [cont EXCEPT ![inhand] = NoAttempt] /\ inhand' = None
  /\ UNCHANGED <<done, spoilt>>

PrepareCopied ==
  /\ Preparing("copying", "mark")
  /\ cont' = [cont EXCEPT ![inhand].tree = IF spoilt THEN "torn" ELSE "copied"]
  /\ spoilt' = FALSE
  /\ UNCHANGED <<inhand, done>>

PrepareMarked ==
  /\ Preparing("mark", "next")
  /\ cont' = [cont EXCEPT ![inhand].setup = TRUE]
  /\ done' = done \cup {inhand} /\ inhand' = None
  /\ UNCHANGED spoilt

PrepareEnd ==
  /\ preparing # "no" /\ at = "next" /\ copying = {}
  /\ ready' = done
  /\ Idle
  /\ UNCHANGED <<loading, roots, rows, bundle, current, counts>>

PrepareCut ==
  /\ preparing # "no"
  /\ Idle
  /\ UNCHANGED <<loading, roots, products, current, counts>>

\* Mutant of Integrity: the digest leaves out raw_sample.jsonl.
IntegrityOfPatches(patches, raw) == <<patches>>

\* compute_bundle_integrity reads both files back.
Integrity(patches, raw) == <<patches, raw>>

\* The three files of a bundle, written in this order; the command is killed
\* before the file numbered kill (4: it is not killed).
WriteBundle(b, of, notes, kill) ==
  LET old     == bundle[b]
      patches == [t \in {u \in list : of[u] \in Sources} |-> of[t]]
      raw     == DOMAIN patches
  IN /\ bundle' = [bundle EXCEPT ![b] =
          [patches  |-> IF kill > 1 THEN patches ELSE old.patches,
           raw      |-> IF kill > 2 THEN raw ELSE old.raw,
           manifest |-> IF kill > 3
                        THEN [of |-> of, classified |-> notes,
                              integrity |-> Integrity(patches, raw),
                              conformance |-> "not_run"]
                        ELSE old.manifest]]
     /\ current' = IF kill > 3 THEN current \cup {b} ELSE current \ {b}

\* prepare_eval_bundle on the first-pass root.
FirstBundle(kill) ==
  /\ Command
  /\ LET of == [t \in list |-> LET d == Decide(Read(first[t]))
                               IN IF d = "included" THEN "first_pass" ELSE d]
     IN WriteBundle("first", of, FALSE, kill)
  /\ UNCHANGED <<rows, ready, prepare>>

\* prepare_post_continuation_eval_bundle, with --classification or without.
FinalBundle(classified, kill) ==
  /\ Command
  /\ LET known == classified /\ rows # None
         of == [t \in list |->
                  FinalDecision(Read(cont[t]), Read(first[t]),
                                IF known THEN rows[t] ELSE "none",
                                known => rows[t] \in ContinuationEligible)]
     IN WriteBundle("final", of, known, kill)
  /\ UNCHANGED <<rows, ready, prepare>>

\* validate_bundle_conformance and record_conformance.
Validate(b) ==
  /\ Command
  /\ bundle[b].manifest # None
  /\ bundle' = [bundle EXCEPT ![b].manifest.conformance =
                  IF DOMAIN bundle[b].patches = bundle[b].raw THEN "passed" ELSE "failed"]
  /\ UNCHANGED <<rows, ready, prepare, current>>

Pages == UNION {[1 .. n -> Tasks] : n \in 0 .. MaxPage}

Next ==
  \/ \E page \in Pages, said \in 0 .. MaxTotal : LoadPage(page, said)
  \/ list # None /\ \E t \in Tasks :
       \/ FirstPassStep(t) \/ ContinuationStep(t)
       \/ ClearBegin(t) \/ ClearNext(t) \/ ClearCut(t) \/ Prune(t)
       \/ PrepareNext(t)
  \/ Classify
  \/ \E how \in {"plain", "force"} : PrepareBegin(how)
  \/ PrepareRemove \/ PrepareRemoved \/ PrepareCopy \/ PrepareDrop \/ PrepareCopied
  \/ PrepareMarked \/ PrepareEnd \/ PrepareCut
  \/ \E kill \in 1 .. 4 :
       FirstBundle(kill) \/ \E c \in BOOLEAN : FinalBundle(c, kill)
  \/ \E b \in {"first", "final"} : Validate(b)

Spec == Init /\ [][Next]_vars

-----------------------------------------------------------------------------
(* What must hold.                                                         *)

\* A task list is written only if it is the whole dataset, whatever rows of it
\* the server's pages hold, however many, and whatever totals they state
\* (load_public_rows, canonicalize_rows).
ListIsWholeDataset == list # None => list = Tasks

\* docs/post-first-pass-continuation-and-eval-prep.md:71, "First-pass clean
\* bundle: only first-pass clean patches": classify_attempt and decide_attempt
\* read the same files differently and must agree, on half cleared attempts too.
FirstBundleIsClean ==
  {"rows", "first"} \subseteq current
    => \A t \in Tasks :
         bundle["first"].manifest.of[t] = "first_pass" <=> rows[t] = "clean_patch"

\* The final bundle, made with the classification of the first pass as it is,
\* has a patch for every task the first pass has one of, and takes a
\* continuation's only for a task classified to be continued.  So when the first
\* pass was rerun into a patch after its task had been continued, the first
\* pass's goes in: who is continued is what the classification says now, not
\* what was done (docs/post-first-pass-continuation-and-eval-prep.md:72 speaks of
\* "continued attempts", and may be read the other way).
FinalCoversFirst ==
  {"rows", "final"} \subseteq current /\ bundle["final"].manifest.classified
    => \A t \in Tasks :
         LET final == bundle["final"].manifest.of[t]
         IN /\ Decide(Read(first[t])) = "included" => final \in Sources
            /\ final = "continuation" => rows[t] \in ContinuationEligible

\* A bundle whose recomputed digest is that of its manifest is the product of
\* one preparation: recompute_bundle_digest finds every cut between the files.
VerifiedBundleIsWhole ==
  \A b \in {"first", "final"} :
    LET m == bundle[b].manifest
    IN m # None /\ m.integrity = Integrity(bundle[b].patches, bundle[b].raw)
         => /\ bundle[b].raw = {t \in Tasks : m.of[t] \in Sources}
            /\ bundle[b].patches = [t \in bundle[b].raw |-> m.of[t]]

\* The agent of a continuation never starts where there is no worktree, or on a
\* copy that was cut, though a stale prepared-ids.txt may name such an attempt:
\* SETUP is marked last.  It may start on a tree with parts missing in two cases:
\* the source was being deleted or had been deleted in part ("torn"), and the
\* rmtree of --force was cut with SETUP_DONE still there ("remnant",
\* post_first_pass.py:360).
RunsOnWholeTree ==
  [][\A t \in Tasks : cont[t].ev = None /\ cont'[t].ev # None
       => cont[t].tree \in {"whole", "copied", "torn", "remnant"}]_cont

\* specs/swe-bench-pro-task-loading-bundle-modal-eval-and-real-rsync-2026-05-22.md:132,
\* "attempt_missing -- attempt directory is missing entirely for a task that
\* should have been attempted": a reason in the final bundle, too.
MissingMeansMissing ==
  "final" \in current
    => \A t \in Tasks :
         bundle["final"].manifest.of[t] = "attempt_missing" => ~first[t].dir
============================================================================
