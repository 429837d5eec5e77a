------------------------ MODULE PostFirstPass_proofs ------------------------
(***************************************************************************)
(* Proofs about the tools around a first pass, for any dataset, any share  *)
(* of it that is run, any outcomes an execution may have and any bounds.   *)
(***************************************************************************)
EXTENDS PostFirstPass, FiniteSetTheorems, TLAPS

-----------------------------------------------------------------------------
(* What the two readers of an attempt make of its files.                   *)

\* classify_attempt always gives one of the classes.
LEMMA ClassType == ASSUME NEW f PROVE Class(f) \in AttemptClass
BY DEF Class, NoPatchClass, AttemptClass

\* decide_attempt always includes a patch or gives a reason.
LEMMA DecideType == ASSUME NEW f PROVE Decide(f) \in ExclusionReason \cup {"included"}
BY DEF Decide, ExclusionReason

\* The final bundle names a source or a reason for every task.
LEMMA FinalDecisionType ==
  ASSUME NEW c, NEW f, NEW class, NEW allowed
  PROVE  FinalDecision(c, f, class, allowed) \in Sources \cup ExclusionReason
BY DEF FinalDecision, FinalReason, Sources, ExclusionReason

\* classify_attempt and decide_attempt agree on what a patch is, as long as
\* none is queued that is white space only.
THEOREM ReadersAgree ==
  ASSUME NEW f, f.norm = "queued" => f.patch # "blank"
  PROVE  Class(f) = "clean_patch" <=> Decide(f) = "included"
BY DEF Class, Decide, NoPatchClass

\* So nothing the first pass has a patch of is continued.
LEMMA IncludedNotContinued ==
  ASSUME NEW f, f.norm = "queued" => f.patch # "blank", Decide(f) = "included"
  PROVE  Class(f) \notin ContinuationEligible
BY ReadersAgree DEF ContinuationEligible

-----------------------------------------------------------------------------
(* Types, and the task list.                                               *)

AttemptType ==
  [dir : BOOLEAN, tree : {"none", "whole", "copied", "torn", "partial", "remnant"},
   setup : BOOLEAN, ev : Outcomes \cup {None}, patch : Outcomes \cup {None},
   norm : Outcomes \cup {None}, done : BOOLEAN]

Bundles == {"first", "final"}

AttemptsTyped(root) == root \in [Tasks -> AttemptType]

\* What the files of a first-pass attempt say, they say of one execution.
Stems(a) == {a.patch, a.norm} \subseteq {None, a.ev}

FirstStems == \A t \in Tasks : Stems(first[t])

BundlesTyped ==
  /\ DOMAIN bundle = Bundles
  /\ \A b \in Bundles :
       /\ {"patches", "raw", "manifest"} \subseteq DOMAIN bundle[b]
       /\ bundle[b].manifest # None
            => /\ {"of", "classified", "integrity", "conformance"}
                     \subseteq DOMAIN bundle[b].manifest
               /\ bundle[b].manifest.of \in [Tasks -> Sources \cup ExclusionReason]

\* The list is the dataset, no attempt is in hand without a preparation, and the
\* rest is as TypeOK has it.
RestTyped ==
  /\ loaded \in Seq(Tasks) /\ total \in 0 .. MaxTotal
  /\ list \in {None, Tasks}
  /\ clearing \subseteq Tasks
  /\ rows = None \/ rows \in [Tasks -> AttemptClass]
  /\ ready \subseteq Tasks
  /\ preparing \in {"no", "plain", "force"}
  /\ copying \subseteq Tasks /\ inhand \in Tasks \cup {None} /\ done \subseteq Tasks
  /\ at \in {"next", "remove", "removing", "copy", "copying", "mark"}
  /\ (at = "next") <=> (inhand = None)
  /\ preparing = "no" => at = "next"
  /\ spoilt \in BOOLEAN
  /\ current \subseteq {"rows", "first", "final"}
  /\ forced \in 0 .. MaxForced /\ prunes \in 0 .. MaxPrunes
  /\ commands \in 0 .. MaxCommands

\* clear_for_rerun takes the patch first.
ClearingTyped == \A t \in clearing : first[t].patch = None

Typed ==
  /\ AttemptsTyped(first) /\ AttemptsTyped(cont) /\ FirstStems /\ ClearingTyped
  /\ BundlesTyped /\ RestTyped

\* The types used in the proofs are no weaker than those of the runs.
LEMMA TypedIsTypeOK == Typed => TypeOK
BY DEF Typed, AttemptsTyped, AttemptType, BundlesTyped, Bundles, RestTyped, TypeOK

\* An attempt without files.
LEMMA NoAttemptTyped ==
  /\ NoAttempt \in AttemptType /\ Stems(NoAttempt)
  /\ NoAttempt.tree = "none" /\ ~NoAttempt.setup
  /\ NoAttempt.patch = None /\ NoAttempt.norm = None /\ NoAttempt.ev = None
  /\ EmptyAttempt \in AttemptType /\ Stems(EmptyAttempt)
  /\ EmptyAttempt.tree = "none" /\ ~EmptyAttempt.setup
  /\ EmptyAttempt.patch = None /\ EmptyAttempt.norm = None /\ EmptyAttempt.ev = None
BY DEF NoAttempt, EmptyAttempt, AttemptType, Stems

\* There are no attempts, rows or bundles at first.
LEMMA TypedInit == Init => Typed
<1> SUFFICES ASSUME Init PROVE Typed OBVIOUS
<1>1. AttemptsTyped(first) /\ AttemptsTyped(cont) /\ FirstStems /\ ClearingTyped
  BY NoAttemptTyped DEF Init, AttemptsTyped, FirstStems, ClearingTyped
<1>2. BundlesTyped BY DEF Init, BundlesTyped, NoBundle, Bundles
<1>3. /\ loaded \in Seq(Tasks) /\ total \in 0 .. MaxTotal
      /\ forced \in 0 .. MaxForced /\ prunes \in 0 .. MaxPrunes
      /\ commands \in 0 .. MaxCommands
  BY PostFirstPassAssumption DEF Init
<1>4. RestTyped BY <1>3 DEF Init, RestTyped
<1> QED BY <1>1, <1>2, <1>4 DEF Typed

\* The patches a decision chooses, and the manifest of a bundle of them.
Chosen(of) == [t \in {u \in Tasks : of[u] \in Sources} |-> of[t]]

Written(of, notes) ==
  [of |-> of, classified |-> notes, integrity |-> Integrity(Chosen(of), DOMAIN Chosen(of)),
   conformance |-> "not_run"]

\* The fields of a manifest as it is written.
LEMMA WrittenShape ==
  ASSUME NEW of, NEW notes
  PROVE  /\ DOMAIN Written(of, notes) = {"of", "classified", "integrity", "conformance"}
         /\ Written(of, notes).of = of /\ Written(of, notes).classified = notes
         /\ Written(of, notes).integrity = Integrity(Chosen(of), DOMAIN Chosen(of))
BY DEF Written

\* What is written as a bundle's manifest, if anything is.
LEMMA BundleWritten ==
  ASSUME Typed, list = Tasks, NEW b \in Bundles, NEW of \in [Tasks -> Sources \cup ExclusionReason],
         NEW notes, NEW kill \in 1 .. 4, WriteBundle(b, of, notes, kill)
  PROVE  /\ \A c \in Bundles \ {b} : bundle'[c] = bundle[c]
         /\ DOMAIN bundle' = Bundles
         /\ {"patches", "raw", "manifest"} \subseteq DOMAIN bundle'[b]
         /\ kill > 3 => bundle'[b].manifest = Written(of, notes)
         /\ kill <= 3 => bundle'[b].manifest = bundle[b].manifest
         /\ current' = IF kill > 3 THEN current \cup {b} ELSE current \ {b}
BY DEF Typed, BundlesTyped, WriteBundle, Bundles, Written, Chosen

FirstOf == [t \in Tasks |-> IF Decide(Read(first[t])) = "included" THEN "first_pass"
                            ELSE Decide(Read(first[t]))]

\* What the first bundle says of the tasks.
LEMMA FirstOfType == FirstOf \in [Tasks -> Sources \cup ExclusionReason]
BY DecideType DEF FirstOf, Sources

FinalOf(classified) ==
  LET known == classified /\ rows # None
  IN [t \in Tasks |-> FinalDecision(Read(cont[t]), Read(first[t]),
                                    IF known THEN rows[t] ELSE "none",
                                    known => rows[t] \in ContinuationEligible)]

\* What the final bundle says of the tasks.
LEMMA FinalOfType ==
  ASSUME NEW c PROVE FinalOf(c) \in [Tasks -> Sources \cup ExclusionReason]
BY FinalDecisionType DEF FinalOf

\* What a preparation of the first bundle may leave behind.
LEMMA FirstBundleWrites ==
  ASSUME Typed, NEW kill \in 1 .. 4, FirstBundle(kill)
  PROVE  /\ list = Tasks /\ WriteBundle("first", FirstOf, FALSE, kill)
         /\ FirstOf \in [Tasks -> Sources \cup ExclusionReason]
BY FirstOfType DEF Typed, RestTyped, FirstBundle, Command, FirstOf

\* What a preparation of the final bundle may leave behind.
LEMMA FinalBundleWrites ==
  ASSUME Typed, NEW c \in BOOLEAN, NEW kill \in 1 .. 4, FinalBundle(c, kill)
  PROVE  /\ list = Tasks /\ WriteBundle("final", FinalOf(c), c /\ rows # None, kill)
         /\ FinalOf(c) \in [Tasks -> Sources \cup ExclusionReason]
BY FinalOfType DEF Typed, RestTyped, FinalBundle, Command, FinalOf

\* load_public_rows and canonicalize_rows: as many rows as the dataset has, none
\* of them twice, are the dataset, whatever total the server stated.
LEMMA PageLoaded ==
  ASSUME Typed, NEW page \in Pages, NEW said \in 0 .. MaxTotal, LoadPage(page, said)
  PROVE  loaded' \in Seq(Tasks) /\ total' \in 0 .. MaxTotal /\ list' \in {None, Tasks}
<1> DEFINE got == loaded \o page
<1>1. got \in Seq(Tasks)
  <2>1. page \in Seq(Tasks) BY DEF Pages
  <2> QED BY <2>1 DEF Typed, RestTyped
<1>2. Elements(got) \subseteq Tasks BY <1>1 DEF Elements
<1>3. ASSUME Cardinality(Elements(got)) = Cardinality(Tasks) PROVE Elements(got) = Tasks
  BY <1>2, <1>3, FS_Subset, PostFirstPassAssumption
<1>4. list' \in {None, Tasks} BY <1>3 DEF LoadPage
<1>5. total' \in 0 .. MaxTotal BY PostFirstPassAssumption DEF LoadPage, Typed, RestTyped
<1>6. loaded' \in Seq(Tasks) BY <1>1 DEF LoadPage
<1> QED BY <1>4, <1>5, <1>6

\* One step of a driver on an attempt.
LEMMA DriverStepCases ==
  ASSUME NEW old, NEW a \in DriverSteps(old)
  PROVE  \/ a = [old EXCEPT !.dir = TRUE, !.tree = "whole", !.setup = TRUE]
         \/ old.setup /\ old.ev = None /\ \E o \in Outcomes : a = [old EXCEPT !.ev = o]
         \/ old.ev # None /\ a = [old EXCEPT !.patch = old.ev]
         \/ old.ev # None /\ a = [old EXCEPT !.norm = old.ev]
         \/ old.ev # None /\ a = [old EXCEPT !.done = TRUE]
<1>1. ~old.done BY DEF DriverSteps
<1> QED BY <1>1 DEF DriverSteps

\* It keeps the types, and what the files say is said of one execution after it
\* if it was before.
LEMMA DriverStepTyped ==
  ASSUME NEW old \in AttemptType, NEW a \in DriverSteps(old)
  PROVE  a \in AttemptType /\ (Stems(old) => Stems(a))
<1>1. CASE a = [old EXCEPT !.dir = TRUE, !.tree = "whole", !.setup = TRUE]
  BY <1>1 DEF AttemptType, Stems
<1>2. CASE old.ev = None /\ \E o \in Outcomes : a = [old EXCEPT !.ev = o]
  BY <1>2 DEF AttemptType, Stems
<1>3. CASE \/ a = [old EXCEPT !.patch = old.ev] \/ a = [old EXCEPT !.norm = old.ev]
           \/ a = [old EXCEPT !.done = TRUE]
  BY <1>3 DEF AttemptType, Stems
<1> QED BY <1>1, <1>2, <1>3, DriverStepCases, Zenon

\* One step of a clear, on an attempt that has no patch any more.
LEMMA ClearNextCases ==
  ASSUME Typed, NEW t \in Tasks, ClearNext(t)
  PROVE  \E a \in AttemptType :
           /\ first' = [first EXCEPT ![t] = a]
           /\ Stems(a) /\ a.patch = None
           /\ a.tree \in {first[t].tree, "torn", "none"}
           /\ clearing' \subseteq clearing
<1> DEFINE old == first[t]
<1>1. old \in AttemptType /\ Stems(old) /\ old.patch = None /\ t \in clearing
  BY DEF Typed, AttemptsTyped, FirstStems, ClearingTyped, ClearNext
<1>2. PICK a : /\ first' = [first EXCEPT ![t] = a] /\ clearing' \in {clearing, clearing \ {t}}
               /\ \/ a = [old EXCEPT !.norm = None]
                  \/ old.norm = None /\ a = [old EXCEPT !.ev = None]
                  \/ a = [old EXCEPT !.setup = FALSE, !.done = FALSE]
                  \/ a = [old EXCEPT !.tree = "torn"]
                  \/ a = EmptyAttempt
  <2>1. CASE first' = [first EXCEPT ![t].norm = None] /\ UNCHANGED clearing
    BY <2>1
  <2>2. CASE old.norm = None /\ first' = [first EXCEPT ![t].ev = None] /\ UNCHANGED clearing
    BY <2>2
  <2>3. CASE first' = [first EXCEPT ![t].setup = FALSE, ![t].done = FALSE] /\ UNCHANGED clearing
    BY <2>3
  <2>4. CASE first' = [first EXCEPT ![t].tree = "torn"] /\ UNCHANGED clearing
    BY <2>4
  <2>5. CASE first' = [first EXCEPT ![t] = EmptyAttempt] /\ clearing' = clearing \ {t}
    BY <2>5
  <2> QED BY <2>1, <2>2, <2>3, <2>4, <2>5 DEF ClearNext
<1> HIDE DEF old
<1>3. a \in AttemptType /\ Stems(a) /\ a.patch = None /\ a.tree \in {old.tree, "torn", "none"}
  <2>1. CASE a = EmptyAttempt BY <2>1, NoAttemptTyped
  <2>2. CASE a # EmptyAttempt BY <1>1, <1>2, <2>2 DEF AttemptType, Stems
  <2> QED BY <2>1, <2>2
<1>4. clearing' \subseteq clearing BY <1>2
<1> QED BY <1>2, <1>3, <1>4 DEF old

\* The steps a preparation takes with the attempt in hand.
Handling ==
  \/ PrepareRemove \/ PrepareRemoved \/ PrepareCopy \/ PrepareDrop
  \/ PrepareCopied \/ PrepareMarked

\* They keep its type, and add no events to it.
LEMMA HandlingTyped ==
  ASSUME Typed, Handling
  PROVE  /\ inhand \in Tasks /\ preparing # "no"
         /\ \E a \in AttemptType : /\ cont' = [cont EXCEPT ![inhand] = a]
                                   /\ a.ev \in {cont[inhand].ev, None}
<1>1. inhand \in Tasks /\ preparing # "no"
  BY DEF Handling, PrepareRemove, PrepareRemoved, PrepareCopy, PrepareDrop, PrepareCopied,
         PrepareMarked, Preparing, Typed, RestTyped
<1> DEFINE old == cont[inhand]
<1>2. old \in AttemptType BY <1>1 DEF Typed, AttemptsTyped
<1>3. PICK a : /\ cont' = [cont EXCEPT ![inhand] = a]
               /\ \/ a \in Remnants(old) \/ a \in {EmptyAttempt, NoAttempt}
                  \/ \E tree \in {"partial", "torn", "copied"} : a = [old EXCEPT !.tree = tree]
                  \/ a = [old EXCEPT !.setup = TRUE]
  BY DEF Handling, PrepareRemove, PrepareRemoved, PrepareCopy, PrepareDrop, PrepareCopied,
         PrepareMarked
<1> HIDE DEF old
<1>4. a \in AttemptType /\ a.ev \in {old.ev, None}
  <2>1. CASE a \in Remnants(old) BY <1>2, <2>1 DEF Remnants, AttemptType
  <2>2. CASE a \in {EmptyAttempt, NoAttempt} BY <2>2, NoAttemptTyped
  <2>3. CASE \/ \E tree \in {"partial", "torn", "copied"} : a = [old EXCEPT !.tree = tree]
             \/ a = [old EXCEPT !.setup = TRUE]
    BY <1>2, <2>3 DEF AttemptType
  <2> QED BY <1>3, <2>1, <2>2, <2>3
<1> QED BY <1>1, <1>3, <1>4 DEF old

\* The next attempt is empty or as it was.
LEMMA PrepareNextCases ==
  ASSUME NEW t \in Tasks, PrepareNext(t)
  PROVE  cont' \in {cont, [cont EXCEPT ![t] = EmptyAttempt]}
BY DEF PrepareNext

\* The attempts of both roots.
LEMMA AttemptsStep ==
  ASSUME Typed, [Next]_vars
  PROVE  AttemptsTyped(first') /\ AttemptsTyped(cont') /\ FirstStems'
<1> USE DEF Typed, loading, roots, products, prepare, counts
<1>0. ASSUME NEW t \in Tasks, NEW a \in AttemptType, first' = [first EXCEPT ![t] = a], Stems(a),
             UNCHANGED cont
      PROVE  AttemptsTyped(first') /\ AttemptsTyped(cont') /\ FirstStems'
  BY <1>0 DEF AttemptsTyped, FirstStems
<1>1. ASSUME NEW t \in Tasks, NEW a \in AttemptType, cont' = [cont EXCEPT ![t] = a],
             UNCHANGED first
      PROVE  AttemptsTyped(first') /\ AttemptsTyped(cont') /\ FirstStems'
  BY <1>1 DEF AttemptsTyped, FirstStems
<1>2. CASE UNCHANGED <<first, cont>> BY <1>2 DEF AttemptsTyped, FirstStems
<1>3. \A t \in Tasks : first[t] \in AttemptType /\ Stems(first[t]) /\ cont[t] \in AttemptType
  BY DEF AttemptsTyped, FirstStems
<1>4. ASSUME NEW t \in Tasks, FirstPassStep(t)
      PROVE  AttemptsTyped(first') /\ AttemptsTyped(cont') /\ FirstStems'
  BY <1>0, <1>3, <1>4, DriverStepTyped DEF FirstPassStep
<1>5. ASSUME NEW t \in Tasks, ContinuationStep(t)
      PROVE  AttemptsTyped(first') /\ AttemptsTyped(cont') /\ FirstStems'
  BY <1>1, <1>3, <1>5, DriverStepTyped DEF ContinuationStep
<1>6. ASSUME NEW t \in Tasks, ClearBegin(t)
      PROVE  AttemptsTyped(first') /\ AttemptsTyped(cont') /\ FirstStems'
  <2> DEFINE a == [first[t] EXCEPT !.patch = None]
  <2>1. a \in AttemptType /\ Stems(a) BY <1>3 DEF AttemptType, Stems
  <2>2. first' = [first EXCEPT ![t] = a] /\ UNCHANGED cont BY <1>6 DEF ClearBegin
  <2> QED BY <1>0, <2>1, <2>2
<1>7. ASSUME NEW t \in Tasks, ClearNext(t)
      PROVE  AttemptsTyped(first') /\ AttemptsTyped(cont') /\ FirstStems'
  <2>1. UNCHANGED cont BY <1>7 DEF ClearNext
  <2> QED BY <1>0, <1>7, <2>1, ClearNextCases
<1>8. ASSUME NEW t \in Tasks, Prune(t)
      PROVE  AttemptsTyped(first') /\ AttemptsTyped(cont') /\ FirstStems'
  <2>1. PICK tree \in {"none", "torn"} : first' = [first EXCEPT ![t] = [first[t] EXCEPT !.tree = tree]]
    BY <1>8 DEF Prune
  <2> DEFINE a == [first[t] EXCEPT !.tree = tree]
  <2>2. a \in AttemptType /\ Stems(a) BY <1>3 DEF AttemptType, Stems
  <2>3. UNCHANGED cont BY <1>8 DEF Prune
  <2> QED BY <1>0, <2>1, <2>2, <2>3
<1>9. ASSUME NEW t \in Tasks, PrepareNext(t)
      PROVE  AttemptsTyped(first') /\ AttemptsTyped(cont') /\ FirstStems'
  <2>1. UNCHANGED first BY <1>9 DEF PrepareNext
  <2> QED BY <1>1, <1>2, <1>9, <2>1, PrepareNextCases, NoAttemptTyped
<1>10. CASE Handling
  <2>1. UNCHANGED first
    BY <1>10 DEF Handling, PrepareRemove, PrepareRemoved, PrepareCopy, PrepareDrop,
                 PrepareCopied, PrepareMarked, Preparing
  <2> QED BY <1>1, <1>10, <2>1, HandlingTyped
<1>11. \/ UNCHANGED <<first, cont>> \/ Handling
       \/ \E t \in Tasks : \/ FirstPassStep(t) \/ ContinuationStep(t) \/ ClearBegin(t)
                          \/ ClearNext(t) \/ Prune(t) \/ PrepareNext(t)
  BY DEF Next, LoadPage, ClearCut, Classify, PrepareBegin, PrepareEnd, PrepareCut,
         FirstBundle, FinalBundle, Validate, Command, vars, Handling
<1> QED BY <1>2, <1>4, <1>5, <1>6, <1>7, <1>8, <1>9, <1>10, <1>11

\* The bundles.
LEMMA BundlesStep == ASSUME Typed, [Next]_vars PROVE BundlesTyped'
<1>1. ASSUME NEW kill \in 1 .. 4, FirstBundle(kill) PROVE BundlesTyped'
  <2>1. /\ list = Tasks /\ WriteBundle("first", FirstOf, FALSE, kill)
        /\ FirstOf \in [Tasks -> Sources \cup ExclusionReason] /\ "first" \in Bundles
    BY <1>1, FirstBundleWrites DEF Bundles
  <2>2. /\ \A b \in Bundles \ {"first"} : bundle'[b] = bundle[b]
        /\ DOMAIN bundle' = Bundles
        /\ {"patches", "raw", "manifest"} \subseteq DOMAIN bundle'["first"]
    BY <2>1, BundleWritten
  <2>3. \/ bundle'["first"].manifest = bundle["first"].manifest
        \/ /\ {"of", "classified", "integrity", "conformance"}
                 \subseteq DOMAIN bundle'["first"].manifest
           /\ bundle'["first"].manifest.of = FirstOf
    <3>1. CASE kill > 3 
      <4>1. bundle'["first"].manifest = Written(FirstOf, FALSE) BY <2>1, <3>1, BundleWritten
      <4>2. /\ DOMAIN Written(FirstOf, FALSE) = {"of", "classified", "integrity", "conformance"}
            /\ Written(FirstOf, FALSE).of = FirstOf
        BY WrittenShape, Zenon
      <4> QED BY <4>1, <4>2
    <3>2. CASE kill <= 3 BY <2>1, <3>2, BundleWritten
    <3> QED BY <3>1, <3>2
  <2> QED BY <2>1, <2>2, <2>3 DEF Typed, BundlesTyped
<1>2. ASSUME NEW c \in BOOLEAN, NEW kill \in 1 .. 4, FinalBundle(c, kill) PROVE BundlesTyped'
  <2>1. /\ list = Tasks /\ WriteBundle("final", FinalOf(c), c /\ rows # None, kill)
        /\ FinalOf(c) \in [Tasks -> Sources \cup ExclusionReason] /\ "final" \in Bundles
    BY <1>2, FinalBundleWrites DEF Bundles
  <2>2. /\ \A b \in Bundles \ {"final"} : bundle'[b] = bundle[b]
        /\ DOMAIN bundle' = Bundles
        /\ {"patches", "raw", "manifest"} \subseteq DOMAIN bundle'["final"]
    BY <2>1, BundleWritten
  <2>3. \/ bundle'["final"].manifest = bundle["final"].manifest
        \/ /\ {"of", "classified", "integrity", "conformance"}
                 \subseteq DOMAIN bundle'["final"].manifest
           /\ bundle'["final"].manifest.of = FinalOf(c)
    <3>1. CASE kill > 3 BY <2>1, <3>1, BundleWritten, WrittenShape
    <3>2. CASE kill <= 3 BY <2>1, <3>2, BundleWritten
    <3> QED BY <3>1, <3>2
  <2> QED BY <2>1, <2>2, <2>3 DEF Typed, BundlesTyped
<1>3. ASSUME NEW b \in Bundles, Validate(b) PROVE BundlesTyped'
  BY <1>3 DEF Validate, Typed, BundlesTyped, Bundles
<1>4. ASSUME UNCHANGED bundle PROVE BundlesTyped' BY <1>4 DEF Typed, BundlesTyped
<1>5. \/ UNCHANGED bundle
      \/ \E kill \in 1 .. 4 : FirstBundle(kill) \/ \E c \in BOOLEAN : FinalBundle(c, kill)
      \/ \E b \in Bundles : Validate(b)
  BY DEF Next, LoadPage, FirstPassStep, ContinuationStep, ClearBegin, ClearNext, ClearCut,
         Prune, PrepareNext, Classify, PrepareBegin, Preparing, PrepareRemove, PrepareRemoved,
         PrepareCopy, PrepareDrop, PrepareCopied, PrepareMarked, PrepareEnd, PrepareCut, vars,
         products, Bundles
<1> QED BY <1>1, <1>2, <1>3, <1>4, <1>5

\* Task list, rows and the preparation.
LEMMA RestStep == ASSUME Typed, [Next]_vars PROVE RestTyped'
<1> USE PostFirstPassAssumption DEF Typed, RestTyped, loading, roots, products, prepare, counts
<1>1. ASSUME NEW page \in Pages, NEW said \in 0 .. MaxTotal, LoadPage(page, said) PROVE RestTyped'
  BY <1>1, PageLoaded DEF LoadPage
<1>2. ASSUME NEW t \in Tasks, \/ FirstPassStep(t) \/ ContinuationStep(t) \/ ClearBegin(t)
                              \/ ClearCut(t)
      PROVE  RestTyped'
  BY <1>2 DEF FirstPassStep, ContinuationStep, ClearBegin, ClearCut
<1>3. ASSUME NEW t \in Tasks, ClearNext(t) PROVE RestTyped'
  <2>1. /\ clearing' \subseteq clearing /\ spoilt' \in BOOLEAN /\ current' = {}
        /\ UNCHANGED <<loading, products, preparing, copying, inhand, at, done, counts>>
    BY <1>3 DEF ClearNext, Spoils
  <2> QED BY <2>1
<1>4. ASSUME NEW t \in Tasks, Prune(t) PROVE RestTyped'
  BY <1>4 DEF Prune, Spoils
<1>5. ASSUME NEW t \in Tasks, PrepareNext(t) PROVE RestTyped'
  <2>1. CASE Idle
    BY <1>5, <2>1 DEF PrepareNext, Idle
  <2>2. CASE /\ inhand' = t /\ copying' = copying \ {t} /\ at' \in {"remove", "copy"}
             /\ UNCHANGED <<preparing, done, spoilt>>
    BY <1>5, <2>2 DEF PrepareNext
  <2> QED BY <1>5, <2>1, <2>2 DEF PrepareNext
<1>6. CASE Classify BY <1>6, ClassType DEF Classify, Command
<1>7. ASSUME NEW how \in {"plain", "force"}, PrepareBegin(how) PROVE RestTyped'
  <2>1. copying' \subseteq Tasks BY <1>7 DEF PrepareBegin, Command
  <2>2. /\ preparing' = how /\ inhand' = None /\ at' = "next" /\ done' = {} /\ spoilt' = FALSE
        /\ commands' \in 0 .. MaxCommands
        /\ UNCHANGED <<loading, roots, products, current, forced, prunes>>
    BY <1>7 DEF PrepareBegin, Command
  <2> QED BY <2>1, <2>2
<1>8. CASE Handling
  <2>1. /\ inhand \in Tasks /\ preparing # "no"
        /\ UNCHANGED <<loading, first, clearing, products, preparing, copying, current, counts>>
    BY <1>8, HandlingTyped
       DEF Handling, PrepareRemove, PrepareRemoved, PrepareCopy, PrepareDrop, PrepareCopied,
           PrepareMarked, Preparing
  <2>2. spoilt' \in BOOLEAN /\ done' \in {done, done \cup {inhand}}
    BY <1>8 DEF Handling, PrepareRemove, PrepareRemoved, PrepareCopy, PrepareDrop, PrepareCopied,
                PrepareMarked
  <2>3. \/ inhand' = inhand /\ at' \in {"removing", "copy", "copying", "mark"}
        \/ inhand' = None /\ at' = "next"
    BY <1>8 DEF Handling, PrepareRemove, PrepareRemoved, PrepareCopy, PrepareDrop, PrepareCopied,
                PrepareMarked, Preparing
  <2> QED BY <2>1, <2>2, <2>3
<1>9. CASE PrepareEnd \/ PrepareCut
  BY <1>9 DEF PrepareEnd, PrepareCut, Idle
<1>10. ASSUME NEW kill \in 1 .. 4, FirstBundle(kill) PROVE RestTyped'
  BY <1>10 DEF FirstBundle, WriteBundle, Command
<1>11. ASSUME NEW c \in BOOLEAN, NEW kill \in 1 .. 4, FinalBundle(c, kill) PROVE RestTyped'
  BY <1>11 DEF FinalBundle, WriteBundle, Command
<1>12. ASSUME NEW b \in Bundles, Validate(b) PROVE RestTyped'
  BY <1>12 DEF Validate, Command
<1>13. CASE UNCHANGED vars BY <1>13 DEF vars
<1> QED
  BY <1>1, <1>2, <1>3, <1>4, <1>5, <1>6, <1>7, <1>8, <1>9, <1>10, <1>11, <1>12, <1>13
     DEF Next, Bundles, Handling

\* Attempts being cleared.
LEMMA ClearingStep == ASSUME Typed, [Next]_vars PROVE ClearingTyped'
<1> USE DEF Typed, ClearingTyped, AttemptsTyped, loading, roots, products, prepare, counts
<1>1. ASSUME NEW t \in Tasks, FirstPassStep(t) PROVE ClearingTyped'
  BY <1>1 DEF FirstPassStep
<1>2. ASSUME NEW t \in Tasks, ClearBegin(t) PROVE ClearingTyped'
  BY <1>2 DEF ClearBegin, AttemptType
<1>3. ASSUME NEW t \in Tasks, ClearNext(t) PROVE ClearingTyped'
  <2>1. PICK a \in AttemptType : /\ first' = [first EXCEPT ![t] = a]
                                 /\ a.patch = None /\ clearing' \subseteq clearing
    BY <1>3, ClearNextCases
  <2> QED BY <2>1 DEF RestTyped
<1>4. ASSUME NEW t \in Tasks, ClearCut(t) PROVE ClearingTyped'
  BY <1>4 DEF ClearCut
<1>5. ASSUME NEW t \in Tasks, Prune(t) PROVE ClearingTyped'
  <2>1. PICK tree \in {"none", "torn"} : first' = [first EXCEPT ![t] = [first[t] EXCEPT !.tree = tree]]
    BY <1>5 DEF Prune
  <2>2. \A u \in Tasks : first'[u].patch = first[u].patch BY <2>1 DEF AttemptType
  <2> QED BY <1>5, <2>2 DEF Prune, RestTyped
<1>6. CASE UNCHANGED <<first, clearing>> BY <1>6
<1>7. \/ UNCHANGED <<first, clearing>>
      \/ \E t \in Tasks : \/ FirstPassStep(t) \/ ClearBegin(t) \/ ClearNext(t)
                         \/ ClearCut(t) \/ Prune(t)
  BY DEF Next, LoadPage, ContinuationStep, PrepareNext, Classify, PrepareBegin, Preparing,
         PrepareRemove, PrepareRemoved, PrepareCopy, PrepareDrop, PrepareCopied, PrepareMarked,
         PrepareEnd, PrepareCut, FirstBundle, FinalBundle, Validate, Command, vars
<1> QED BY <1>1, <1>2, <1>3, <1>4, <1>5, <1>6, <1>7

\* Every step keeps the types.
LEMMA TypedStep == ASSUME Typed, [Next]_vars PROVE Typed'
BY AttemptsStep, ClearingStep, BundlesStep, RestStep DEF Typed, AttemptsTyped

\* Every variable keeps its type; a bundle's manifest has an entry of one of the
\* documented kinds for every task.
THEOREM TypeCorrect == Spec => []TypeOK
BY TypedInit, TypedStep, TypedIsTypeOK, PTL DEF Spec

\* Whatever rows of the dataset the server's pages hold, however many, and
\* whatever totals it states, another one each time, a task list on disk is the
\* whole dataset.
THEOREM ListComplete == Spec => []ListIsWholeDataset
<1>1. Typed => ListIsWholeDataset BY DEF Typed, RestTyped, ListIsWholeDataset
<1> QED BY TypedInit, TypedStep, <1>1, PTL DEF Spec

-----------------------------------------------------------------------------
(* The bundles.                                                            *)

\* A manifest carries the digest of the files its decisions make.
DigestsTell ==
  \A b \in Bundles :
    LET m == bundle[b].manifest
    IN m # None => m.integrity = Integrity(Chosen(m.of), DOMAIN Chosen(m.of))

\* A manifest stays, is validated, or is written anew with its digest.
LEMMA ManifestSteps ==
  ASSUME Typed, [Next]_vars, NEW b \in Bundles
  PROVE  \/ bundle'[b].manifest = bundle[b].manifest
         \/ /\ bundle[b].manifest # None
            /\ \E x : bundle'[b].manifest = [bundle[b].manifest EXCEPT !.conformance = x]
         \/ \E of, notes : bundle'[b].manifest = Written(of, notes)
<1>1. ASSUME NEW kill \in 1 .. 4, NEW c \in Bundles, NEW of \in [Tasks -> Sources \cup ExclusionReason],
             NEW notes, list = Tasks, WriteBundle(c, of, notes, kill)
      PROVE  \/ bundle'[b].manifest = bundle[b].manifest
             \/ bundle'[b].manifest = Written(of, notes)
  <2>1. CASE b # c BY <1>1, <2>1, BundleWritten
  <2>2. CASE b = c /\ kill > 3 BY <1>1, <2>2, BundleWritten
  <2>3. CASE b = c /\ kill <= 3 BY <1>1, <2>3, BundleWritten
  <2> QED BY <2>1, <2>2, <2>3
<1>2. ASSUME NEW kill \in 1 .. 4, FirstBundle(kill)
      PROVE  \/ bundle'[b].manifest = bundle[b].manifest
             \/ \E of, notes : bundle'[b].manifest = Written(of, notes)
  BY <1>1, <1>2, FirstBundleWrites DEF Bundles
<1>3. ASSUME NEW c \in BOOLEAN, NEW kill \in 1 .. 4, FinalBundle(c, kill)
      PROVE  \/ bundle'[b].manifest = bundle[b].manifest
             \/ \E of, notes : bundle'[b].manifest = Written(of, notes)
  BY <1>1, <1>3, FinalBundleWrites DEF Bundles
<1>4. ASSUME NEW c \in Bundles, Validate(c)
      PROVE  \/ bundle'[b].manifest = bundle[b].manifest
             \/ /\ bundle[b].manifest # None
                /\ \E x : bundle'[b].manifest = [bundle[b].manifest EXCEPT !.conformance = x]
  BY <1>4 DEF Validate, Typed, BundlesTyped
<1>5. \/ UNCHANGED bundle
      \/ \E kill \in 1 .. 4 : FirstBundle(kill) \/ \E c \in BOOLEAN : FinalBundle(c, kill)
      \/ \E c \in Bundles : Validate(c)
  BY DEF Next, LoadPage, FirstPassStep, ContinuationStep, ClearBegin, ClearNext, ClearCut,
         Prune, PrepareNext, Classify, PrepareBegin, Preparing, PrepareRemove, PrepareRemoved,
         PrepareCopy, PrepareDrop, PrepareCopied, PrepareMarked, PrepareEnd, PrepareCut, vars,
         products, Bundles
<1> QED BY <1>2, <1>3, <1>4, <1>5

\* Every step keeps manifests and digests together.
LEMMA DigestsStep == ASSUME Typed, DigestsTell, [Next]_vars PROVE DigestsTell'
<1> SUFFICES ASSUME NEW b \in Bundles, bundle'[b].manifest # None
             PROVE  bundle'[b].manifest.integrity =
                      Integrity(Chosen(bundle'[b].manifest.of), DOMAIN Chosen(bundle'[b].manifest.of))
  BY DEF DigestsTell
<1>1. CASE bundle'[b].manifest = bundle[b].manifest BY <1>1 DEF DigestsTell
<1>2. ASSUME bundle[b].manifest # None,
             NEW x, bundle'[b].manifest = [bundle[b].manifest EXCEPT !.conformance = x]
      PROVE  /\ bundle'[b].manifest.of = bundle[b].manifest.of
             /\ bundle'[b].manifest.integrity = bundle[b].manifest.integrity
  BY <1>2 DEF Typed, BundlesTyped
<1>3. ASSUME NEW of, NEW notes, bundle'[b].manifest = Written(of, notes)
      PROVE  /\ bundle'[b].manifest.of = of
             /\ bundle'[b].manifest.integrity = Integrity(Chosen(of), DOMAIN Chosen(of))
  BY <1>3, WrittenShape
<1> QED BY <1>1, <1>2, <1>3, ManifestSteps DEF DigestsTell

\* A reader who recomputes the digest knows that the three files of a bundle
\* are of one preparation.
THEOREM DigestFindsCuts == Spec => []VerifiedBundleIsWhole
<1>1. Init => DigestsTell BY DEF Init, DigestsTell, NoBundle, Bundles
<1>2. DigestsTell => VerifiedBundleIsWhole
  BY DEF DigestsTell, VerifiedBundleIsWhole, Bundles, Integrity, Chosen
<1> QED BY TypedInit, TypedStep, DigestsStep, <1>1, <1>2, PTL DEF Spec

-----------------------------------------------------------------------------
(* The copies a continuation starts from.                                  *)

\* SETUP is marked when the copy is complete, or by a driver that has made its
\* own tree; what an rmtree leaves of such an attempt is a remnant.
TreesTell ==
  /\ \A t \in Tasks : cont[t].setup => cont[t].tree \in {"whole", "copied", "torn", "remnant"}
  /\ at \in {"copy", "copying"} => ~cont[inhand].setup
  /\ at = "mark" => cont[inhand].tree \in {"copied", "torn"}

\* A driver marks SETUP with a whole tree.
LEMMA DriverStepTree ==
  ASSUME NEW old \in AttemptType, NEW a \in DriverSteps(old),
         old.setup => old.tree \in {"whole", "copied", "torn", "remnant"}
  PROVE  a.setup => a.tree \in {"whole", "copied", "torn", "remnant"}
<1>1. CASE a = [old EXCEPT !.dir = TRUE, !.tree = "whole", !.setup = TRUE]
  BY <1>1 DEF AttemptType
<1>2. CASE \E o \in Outcomes : a = [old EXCEPT !.ev = o]
  BY <1>2 DEF AttemptType
<1>3. CASE \/ a = [old EXCEPT !.patch = old.ev]
           \/ a = [old EXCEPT !.norm = old.ev]
           \/ a = [old EXCEPT !.done = TRUE]
  BY <1>3 DEF AttemptType
<1> QED BY <1>1, <1>2, <1>3, DriverStepCases, Zenon

\* Every step keeps what is known of the copied worktrees.
LEMMA TreesStep == ASSUME Typed, TreesTell, [Next]_vars PROVE TreesTell'
<1> USE DEF Typed, AttemptsTyped, TreesTell, loading, roots, products, prepare, counts
<1>1. ASSUME NEW t \in Tasks, ContinuationStep(t) PROVE TreesTell'
  <2>1. PICK a \in DriverSteps(cont[t]) : cont' = [cont EXCEPT ![t] = a]
    BY <1>1 DEF ContinuationStep
  <2>2. cont[t] \in AttemptType OBVIOUS
  <2>3. a.setup => a.tree \in {"whole", "copied", "torn", "remnant"} BY <2>2, DriverStepTree
  <2>4. at = "next" /\ at' = at BY <1>1 DEF ContinuationStep, RestTyped
  <2> QED BY <2>1, <2>3, <2>4
<1>2. ASSUME NEW t \in Tasks, PrepareNext(t) PROVE TreesTell'
  <2>1. CASE Idle /\ UNCHANGED cont BY <2>1 DEF Idle
  <2>2. CASE cont' = cont /\ at' = "remove" BY <2>2
  <2>3. CASE cont' = [cont EXCEPT ![t] = EmptyAttempt] /\ inhand' = t /\ at' = "copy"
    BY <2>3, NoAttemptTyped
  <2> QED BY <1>2, <2>1, <2>2, <2>3 DEF PrepareNext
<1>3. CASE PrepareRemove
  <2>1. PICK a \in Remnants(cont[inhand]) : cont' = [cont EXCEPT ![inhand] = a]
    BY <1>3 DEF PrepareRemove
  <2>2. inhand \in Tasks /\ cont[inhand] \in AttemptType
    BY <1>3, HandlingTyped DEF Handling
  <2>3. a.setup => cont[inhand].setup /\ a.tree \in {cont[inhand].tree, "remnant"}
    BY <2>2 DEF Remnants, AttemptType
  <2> QED BY <1>3, <2>1, <2>2, <2>3 DEF PrepareRemove, Preparing
<1>4. CASE PrepareRemoved
  <2>1. inhand \in Tasks BY <1>4, HandlingTyped DEF Handling
  <2> QED BY <1>4, <2>1, NoAttemptTyped DEF PrepareRemoved, Preparing
<1>5. CASE PrepareCopy
  <2>1. inhand \in Tasks /\ cont[inhand] \in AttemptType /\ ~cont[inhand].setup
    BY <1>5, HandlingTyped DEF Handling, PrepareCopy, Preparing
  <2> DEFINE a == [cont[inhand] EXCEPT !.tree = "partial"]
  <2>2. ~a.setup BY <2>1 DEF AttemptType
  <2>3. cont' = [cont EXCEPT ![inhand] = a] /\ at' = "copying" /\ inhand' = inhand
    BY <1>5 DEF PrepareCopy, Preparing
  <2> HIDE DEF a
  <2> QED BY <2>1, <2>2, <2>3
<1>6. CASE PrepareDrop
  <2>1. inhand \in Tasks BY <1>6, HandlingTyped DEF Handling
  <2> QED BY <1>6, <2>1, NoAttemptTyped DEF PrepareDrop, Preparing
<1>7. CASE PrepareCopied
  <2>1. inhand \in Tasks /\ cont[inhand] \in AttemptType
    BY <1>7, HandlingTyped DEF Handling
  <2>2. PICK a : /\ cont' = [cont EXCEPT ![inhand] = a]
                 /\ a = [cont[inhand] EXCEPT !.tree = IF spoilt THEN "torn" ELSE "copied"]
    BY <1>7 DEF PrepareCopied
  <2>3. a.tree \in {"copied", "torn"} BY <2>1, <2>2 DEF AttemptType
  <2>4. at' = "mark" /\ inhand' = inhand BY <1>7 DEF PrepareCopied, Preparing
  <2> QED BY <2>1, <2>2, <2>3, <2>4
<1>8. CASE PrepareMarked
  <2>1. inhand \in Tasks /\ cont[inhand] \in AttemptType /\ cont[inhand].tree \in {"copied", "torn"}
    BY <1>8, HandlingTyped DEF Handling, PrepareMarked, Preparing
  <2>2. PICK a : cont' = [cont EXCEPT ![inhand] = a] /\ a = [cont[inhand] EXCEPT !.setup = TRUE]
    BY <1>8 DEF PrepareMarked
  <2>3. a.tree \in {"copied", "torn"} BY <2>1, <2>2 DEF AttemptType
  <2>4. at' = "next" BY <1>8 DEF PrepareMarked, Preparing
  <2> QED BY <2>1, <2>2, <2>3, <2>4
<1>9. CASE UNCHANGED cont /\ at' = "next"
  <2>1. \A t \in Tasks : cont'[t].setup
                          => cont'[t].tree \in {"whole", "copied", "torn", "remnant"}
    BY <1>9
  <2> QED BY <1>9, <2>1
<1>10. CASE UNCHANGED <<cont, at, inhand>> BY <1>10
<1>11. \/ UNCHANGED cont /\ at' = "next"
       \/ UNCHANGED <<cont, at, inhand>>
       \/ \E t \in Tasks : ContinuationStep(t) \/ PrepareNext(t)
       \/ Handling
  BY ZenonT(60)
     DEF Next, LoadPage, FirstPassStep, ClearBegin, ClearNext, ClearCut, Prune, Spoils, Classify,
         PrepareBegin, PrepareEnd, PrepareCut, Idle, FirstBundle, FinalBundle, Validate,
         Command, vars, Handling
<1> QED
  BY <1>1, <1>2, <1>3, <1>4, <1>5, <1>6, <1>7, <1>8, <1>9, <1>10, <1>11 DEF Handling

\* Only a driver writes events, and only where SETUP is marked.
LEMMA EventsBegin ==
  ASSUME Typed, [Next]_vars, NEW t \in Tasks, cont[t].ev = None, cont'[t].ev # None
  PROVE  cont[t].setup
<1> USE DEF Typed, AttemptsTyped, loading, roots, products, prepare, counts
<1>1. ASSUME NEW u \in Tasks, ContinuationStep(u) PROVE cont[t].setup
  <2>1. PICK a \in DriverSteps(cont[u]) : cont' = [cont EXCEPT ![u] = a]
    BY <1>1 DEF ContinuationStep
  <2>2. t = u /\ cont'[t] = a BY <2>1
  <2>3. cont[u] \in AttemptType OBVIOUS
  <2>4. a = [cont[u] EXCEPT !.dir = TRUE, !.tree = "whole", !.setup = TRUE] => a.ev = cont[u].ev
    BY <2>3 DEF AttemptType
  <2> QED BY <2>2, <2>4, DriverStepCases
<1>2. ASSUME NEW u \in Tasks, PrepareNext(u) PROVE FALSE
  BY <1>2, PrepareNextCases, NoAttemptTyped
<1>3. ASSUME Handling PROVE FALSE
  BY <1>3, HandlingTyped
<1>4. \/ UNCHANGED cont \/ Handling
      \/ \E u \in Tasks : ContinuationStep(u) \/ PrepareNext(u)
  BY DEF Next, LoadPage, FirstPassStep, ClearBegin, ClearNext, ClearCut, Prune, Classify,
         PrepareBegin, PrepareEnd, PrepareCut, FirstBundle, FinalBundle, Validate,
         Command, vars, Handling
<1> QED BY <1>1, <1>2, <1>3, <1>4

\* For any dataset, kills and bounds: no agent of a continuation starts without a
\* worktree or on a copy that was cut.
THEOREM CopiesWhole == Spec => RunsOnWholeTree
<1>1. Init => TreesTell BY DEF Init, TreesTell, NoAttempt
<1>2. Typed /\ TreesTell /\ [Next]_vars =>
        [\A t \in Tasks : cont[t].ev = None /\ cont'[t].ev # None
           => cont[t].tree \in {"whole", "copied", "torn", "remnant"}]_cont
  BY EventsBegin DEF TreesTell
<1> QED BY TypedInit, TypedStep, TreesStep, <1>1, <1>2, PTL DEF Spec, RunsOnWholeTree

-----------------------------------------------------------------------------
(* What the products say of the attempts they were made from.              *)

\* A patch that is queued is text, on half cleared attempts too.
LEMMA NoneQueuedBlank ==
  ASSUME Typed, NEW t \in Tasks
  PROVE  Read(first[t]).norm = "queued" => Read(first[t]).patch # "blank"
<1> DEFINE a == first[t]
<1>1. a \in AttemptType /\ Stems(a)
  BY DEF Typed, AttemptsTyped, FirstStems
<1> HIDE DEF a
<1>2. Read(a).norm = "queued" => Read(a).patch # "blank"
  BY <1>1, PostFirstPassAssumption DEF Read, AttemptType, Stems
<1> QED BY <1>2 DEF a

RowsOf == [t \in Tasks |-> Class(Read(first[t]))]

\* Products that are current say of every attempt what is read from it now.
RowsTell  == "rows" \in current => rows = RowsOf
FirstTell == "first" \in current => bundle["first"].manifest.of = FirstOf

FinalTells(of) ==
  \A t \in Tasks :
    /\ Decide(Read(first[t])) = "included" => of[t] \in Sources
    /\ of[t] = "continuation" => rows[t] \in ContinuationEligible

FinalTell ==
  {"rows", "final"} \subseteq current /\ bundle["final"].manifest.classified
    => FinalTells(bundle["final"].manifest.of)

CurrentTell == RowsTell /\ FirstTell /\ FinalTell

\* Rows that are those of the first pass allow no continuation of a task it has
\* a patch of.
LEMMA FinalChosen ==
  ASSUME Typed, RowsTell, "rows" \in current PROVE rows # None => FinalTells(FinalOf(TRUE))
<1> SUFFICES ASSUME NEW t \in Tasks, rows # None
             PROVE  /\ Decide(Read(first[t])) = "included" => FinalOf(TRUE)[t] \in Sources
                    /\ FinalOf(TRUE)[t] = "continuation" => rows[t] \in ContinuationEligible
  BY DEF FinalTells
<1>1. rows[t] = Class(Read(first[t])) BY DEF RowsTell, RowsOf
<1>2. FinalOf(TRUE)[t] = FinalDecision(Read(cont[t]), Read(first[t]), rows[t],
                                       rows[t] \in ContinuationEligible)
  BY DEF FinalOf
<1>3. Decide(Read(first[t])) = "included" => rows[t] \notin ContinuationEligible
  BY <1>1, NoneQueuedBlank, IncludedNotContinued
<1>4. ASSUME NEW c, NEW f, NEW class, NEW allowed \in BOOLEAN
      PROVE  /\ ~allowed /\ Decide(f) = "included"
                  => FinalDecision(c, f, class, allowed) = "first_pass"
             /\ FinalDecision(c, f, class, allowed) = "continuation" => allowed
  BY DEF FinalDecision, FinalReason, ExclusionReason
<1> DEFINE may == rows[t] \in ContinuationEligible
<1>5. may \in BOOLEAN /\ (Decide(Read(first[t])) = "included" => ~may) BY <1>3
<1>6. FinalOf(TRUE)[t] = FinalDecision(Read(cont[t]), Read(first[t]), rows[t], may) BY <1>2
<1> HIDE DEF may
<1>7. /\ Decide(Read(first[t])) = "included" => FinalOf(TRUE)[t] = "first_pass"
      /\ FinalOf(TRUE)[t] = "continuation" => may
  BY <1>4, <1>5, <1>6, Zenon
<1> QED BY <1>7 DEF may, Sources

\* Equal readings of the first pass give equal rows and equal bundles.
LEMMA SameReadings ==
  ASSUME \A t \in Tasks : Read(first'[t]) = Read(first[t])
  PROVE  RowsOf' = RowsOf /\ FirstOf' = FirstOf
BY DEF RowsOf, FirstOf

\* Nothing a product is made from changes.
LEMMA CurrentKept ==
  ASSUME CurrentTell, UNCHANGED <<rows, current>>,
         \A t \in Tasks : Read(first'[t]) = Read(first[t]),
         \A b \in Bundles : /\ bundle'[b].manifest.of = bundle[b].manifest.of
                            /\ bundle'[b].manifest.classified = bundle[b].manifest.classified
  PROVE  CurrentTell'
<1>1. RowsTell' /\ FirstTell'
  BY SameReadings DEF CurrentTell, RowsTell, FirstTell, Bundles
<1>2. FinalTell'
  BY DEF CurrentTell, FinalTell, FinalTells, Bundles
<1> QED BY <1>1, <1>2 DEF CurrentTell

\* A deleted worktree changes nothing the commands read.
LEMMA PruneReads ==
  ASSUME Typed, NEW t \in Tasks, Prune(t), NEW u \in Tasks
  PROVE  Read(first'[u]) = Read(first[u])
<1>1. PICK tree : first' = [first EXCEPT ![t] = [first[t] EXCEPT !.tree = tree]]
  BY DEF Prune
<1>2. first[t] \in AttemptType /\ first \in [Tasks -> AttemptType]
  BY DEF Typed, AttemptsTyped
<1>3. /\ first'[u].dir = first[u].dir /\ first'[u].done = first[u].done
      /\ first'[u].norm = first[u].norm /\ first'[u].patch = first[u].patch
      /\ first'[u].ev = first[u].ev
  BY <1>1, <1>2 DEF AttemptType
<1> QED BY <1>3 DEF Read

\* Every step keeps the products that count as current equal to their definition.
LEMMA CurrentStep == ASSUME Typed, CurrentTell, [Next]_vars PROVE CurrentTell'
<1> USE DEF loading, roots, products, prepare, counts
<1>1. ASSUME current' = {} PROVE CurrentTell'
  BY <1>1 DEF CurrentTell, RowsTell, FirstTell, FinalTell
<1>2. ASSUME UNCHANGED <<first, rows, bundle, current>> PROVE CurrentTell'
  BY <1>2, CurrentKept
<1>3. ASSUME NEW t \in Tasks, Prune(t) PROVE CurrentTell'
  <2>1. UNCHANGED <<rows, bundle, current>> BY <1>3 DEF Prune
  <2> QED BY <1>3, <2>1, PruneReads, CurrentKept
<1>4. CASE Classify
  <2>1. /\ UNCHANGED <<first, bundle>> /\ rows' = RowsOf
        /\ current' = (current \ {"final"}) \cup {"rows"}
    BY <1>4 DEF Classify, Command, RowsOf, Typed, RestTyped
  <2>2. RowsOf' = RowsOf /\ FirstOf' = FirstOf BY <2>1, SameReadings
  <2>3. RowsTell' BY <2>1, <2>2 DEF RowsTell
  <2>4. FirstTell' BY <2>1, <2>2 DEF FirstTell, CurrentTell
  <2>5. FinalTell' BY <2>1 DEF FinalTell
  <2> QED BY <2>3, <2>4, <2>5 DEF CurrentTell
<1>5. ASSUME NEW kill \in 1 .. 4, FirstBundle(kill) PROVE CurrentTell'
  <2>1. /\ list = Tasks /\ WriteBundle("first", FirstOf, FALSE, kill)
        /\ FirstOf \in [Tasks -> Sources \cup ExclusionReason]
        /\ "first" \in Bundles /\ "final" \in Bundles \ {"first"}
    BY <1>5, FirstBundleWrites DEF Bundles
  <2>2. UNCHANGED <<first, rows>> BY <1>5 DEF FirstBundle, Command
  <2>3. /\ bundle'["final"] = bundle["final"]
        /\ current' = IF kill > 3 THEN current \cup {"first"} ELSE current \ {"first"}
        /\ kill > 3 => bundle'["first"].manifest = Written(FirstOf, FALSE)
    BY <2>1, BundleWritten
  <2>4. RowsOf' = RowsOf /\ FirstOf' = FirstOf BY <2>2, SameReadings
  <2>5. RowsTell' BY <2>2, <2>3, <2>4 DEF RowsTell, CurrentTell
  <2>6. Written(FirstOf, FALSE).of = FirstOf BY WrittenShape, Zenon
  <2>7. FirstTell' BY <2>3, <2>4, <2>6 DEF FirstTell
  <2>8. FinalTell' BY <2>2, <2>3 DEF FinalTell, FinalTells, CurrentTell
  <2> QED BY <2>5, <2>7, <2>8 DEF CurrentTell
<1>6. ASSUME NEW c \in BOOLEAN, NEW kill \in 1 .. 4, FinalBundle(c, kill) PROVE CurrentTell'
  <2> DEFINE known == c /\ rows # None
  <2>1. /\ list = Tasks /\ WriteBundle("final", FinalOf(c), known, kill)
        /\ FinalOf(c) \in [Tasks -> Sources \cup ExclusionReason]
        /\ "final" \in Bundles /\ "first" \in Bundles \ {"final"}
    BY <1>6, FinalBundleWrites DEF Bundles
  <2>2. UNCHANGED <<first, rows>> BY <1>6 DEF FinalBundle, Command
  <2>3. /\ bundle'["first"] = bundle["first"]
        /\ current' = IF kill > 3 THEN current \cup {"final"} ELSE current \ {"final"}
        /\ kill > 3 => bundle'["final"].manifest = Written(FinalOf(c), known)
    BY <2>1, BundleWritten
  <2>4. RowsOf' = RowsOf /\ FirstOf' = FirstOf BY <2>2, SameReadings
  <2>5. RowsTell' BY <2>2, <2>3, <2>4 DEF RowsTell, CurrentTell
  <2>6. FirstTell' BY <2>3, <2>4 DEF FirstTell, CurrentTell
  <2>7. FinalTell'
    <3> SUFFICES ASSUME {"rows", "final"} \subseteq current',
                        bundle'["final"].manifest.classified
                 PROVE  FinalTells(bundle'["final"].manifest.of)
      BY <2>2 DEF FinalTell, FinalTells
    <3>1. kill > 3 /\ "rows" \in current BY <2>3
    <3>2. Written(FinalOf(c), known).of = FinalOf(c) /\ Written(FinalOf(c), known).classified = known
      BY WrittenShape, Zenon
    <3>3. known /\ bundle'["final"].manifest.of = FinalOf(c) BY <2>3, <3>1, <3>2
    <3>4. c = TRUE /\ rows # None BY <3>3
    <3> QED BY <3>1, <3>3, <3>4, FinalChosen DEF CurrentTell
  <2> QED BY <2>5, <2>6, <2>7 DEF CurrentTell
<1>7. ASSUME NEW b \in Bundles, Validate(b) PROVE CurrentTell'
  <2>1. UNCHANGED <<first, rows, current>> BY <1>7 DEF Validate, Command
  <2>2. \A d \in Bundles : /\ bundle'[d].manifest.of = bundle[d].manifest.of
                           /\ bundle'[d].manifest.classified = bundle[d].manifest.classified
    BY <1>7 DEF Validate, Typed, BundlesTyped
  <2> QED BY <2>1, <2>2, CurrentKept
<1>8. \/ current' = {} \/ UNCHANGED <<first, rows, bundle, current>>
      \/ \E t \in Tasks : Prune(t)
      \/ Classify
      \/ \E kill \in 1 .. 4 : FirstBundle(kill) \/ \E c \in BOOLEAN : FinalBundle(c, kill)
      \/ \E b \in Bundles : Validate(b)
  BY ZenonT(60)
     DEF Next, LoadPage, FirstPassStep, ContinuationStep, ClearBegin, ClearNext, ClearCut,
         PrepareNext, PrepareBegin, Preparing, PrepareRemove, PrepareRemoved, PrepareCopy,
         PrepareDrop, PrepareCopied, PrepareMarked, PrepareEnd, PrepareCut, Command, vars,
         Bundles
<1> QED BY <1>1, <1>2, <1>3, <1>4, <1>5, <1>6, <1>7, <1>8

\* No product is there at first.
LEMMA CurrentInit == Init => CurrentTell
BY DEF Init, CurrentTell, RowsTell, FirstTell, FinalTell

\* The bundle of the first pass has a patch of exactly the tasks that the
\* classification calls a clean patch.
THEOREM FirstClean == Spec => []FirstBundleIsClean
<1>1. Typed /\ CurrentTell => FirstBundleIsClean
  <2> SUFFICES ASSUME Typed, CurrentTell, {"rows", "first"} \subseteq current, NEW t \in Tasks
               PROVE  bundle["first"].manifest.of[t] = "first_pass" <=> rows[t] = "clean_patch"
    BY DEF FirstBundleIsClean
  <2>1. rows[t] = Class(Read(first[t])) BY DEF CurrentTell, RowsTell, RowsOf
  <2>2. bundle["first"].manifest.of[t] = "first_pass" <=> Decide(Read(first[t])) = "included"
    BY DecideType DEF CurrentTell, FirstTell, FirstOf, ExclusionReason
  <2> QED BY <2>1, <2>2, NoneQueuedBlank, ReadersAgree
<1> QED BY TypedInit, TypedStep, CurrentInit, CurrentStep, <1>1, PTL DEF Spec

\* The final bundle has a patch for every task the first pass has one of, and a
\* continuation's only for a task that was to be continued.
THEOREM FinalCovers == Spec => []FinalCoversFirst
<1>1. CurrentTell => FinalCoversFirst
  BY DEF CurrentTell, FinalTell, FinalTells, FinalCoversFirst
<1> QED BY TypedInit, TypedStep, CurrentInit, CurrentStep, <1>1, PTL DEF Spec
-----------------------------------------------------------------------------
(* The preparation of a continuation root comes to an end.                 *)

\* The steps the preparation in progress has still to take with the attempt in
\* hand, and those it has still to take at most.
CopyLeft ==
  IF at = "remove" THEN 5 ELSE IF at = "removing" THEN 4 ELSE IF at = "copy" THEN 3
  ELSE IF at = "copying" THEN 2 ELSE IF at = "mark" THEN 1 ELSE 0

PrepareLeft ==
  IF preparing = "no" THEN 0 ELSE 6 * Cardinality(copying) + CopyLeft + 1

PrepareStep ==
  \/ \E t \in Tasks : PrepareNext(t)
  \/ Handling \/ PrepareEnd \/ PrepareCut

\* Every step of the preparation of a continuation root brings it closer to its
\* end, and no driver, clear or pruned worktree in between sets it back: an
\* attempt that is replaced, dropped or copied from a torn tree is not tried
\* twice (prepare_continuation_run).
PreparationWindsDown ==
  [][preparing # "no" =>
       /\ PrepareLeft \in Nat
       /\ PrepareStep => PrepareLeft' \in 0 .. PrepareLeft - 1
       /\ ~PrepareStep => PrepareLeft' = PrepareLeft]_vars

\* The steps left with the attempt in hand.
LEMMA CopyLeftType == CopyLeft \in 0 .. 5
BY DEF CopyLeft

\* Steps of a preparation.
LEMMA PrepareStepDown ==
  ASSUME Typed, Typed', preparing # "no", PrepareStep
  PROVE  PrepareLeft \in Nat /\ PrepareLeft' \in 0 .. PrepareLeft - 1
<1>1. /\ IsFiniteSet(copying) /\ Cardinality(copying) \in Nat
      /\ IsFiniteSet(copying') /\ Cardinality(copying') \in Nat
  BY PostFirstPassAssumption, FS_Subset, FS_CardinalityType DEF Typed, RestTyped
<1>2. PrepareLeft = 6 * Cardinality(copying) + CopyLeft + 1 BY DEF PrepareLeft
<1>3. CopyLeft \in 0 .. 5 BY CopyLeftType
<1>4. PrepareLeft \in Nat /\ PrepareLeft > 0 BY <1>1, <1>2, <1>3
<1>5. CASE preparing' = "no"
  BY <1>4, <1>5 DEF PrepareLeft
<1>6. ASSUME preparing' # "no",
             6 * Cardinality(copying') + CopyLeft' < 6 * Cardinality(copying) + CopyLeft
      PROVE  PrepareLeft' \in 0 .. PrepareLeft - 1
  <2>1. PrepareLeft' = 6 * Cardinality(copying') + CopyLeft' + 1 BY <1>6 DEF PrepareLeft
  <2>2. CopyLeft' \in 0 .. 5 BY DEF CopyLeft
  <2>3. PrepareLeft' < PrepareLeft BY <1>1, <1>2, <1>3, <1>6, <2>1, <2>2
  <2>4. PrepareLeft' \in Nat BY <1>1, <2>1, <2>2
  <2> QED BY <1>4, <2>3, <2>4
<1>7. ASSUME NEW t \in Tasks, PrepareNext(t), preparing' # "no"
      PROVE  PrepareLeft' \in 0 .. PrepareLeft - 1
  <2>1. t \in copying /\ copying' = copying \ {t} /\ at = "next" /\ preparing' = preparing
    BY <1>7 DEF PrepareNext, Idle
  <2>2. Cardinality(copying') = Cardinality(copying) - 1 BY <1>1, <2>1, FS_RemoveElement
  <2>3. CopyLeft = 0 BY <2>1 DEF CopyLeft
  <2>4. CopyLeft' \in 0 .. 5 BY DEF CopyLeft
  <2> QED BY <1>1, <1>6, <1>7, <2>2, <2>3, <2>4
<1>8. CASE Handling
  <2>1. copying' = copying /\ preparing' = preparing
    BY <1>8 DEF Handling, PrepareRemove, PrepareRemoved, PrepareCopy, PrepareDrop,
                PrepareCopied, PrepareMarked, Preparing
  <2>2. \/ at = "remove" /\ at' = "removing"
        \/ at = "removing" /\ at' = "copy"
        \/ at = "copy" /\ at' \in {"copying", "next"}
        \/ at = "copying" /\ at' = "mark"
        \/ at = "mark" /\ at' = "next"
    BY <1>8 DEF Handling, PrepareRemove, PrepareRemoved, PrepareCopy, PrepareDrop,
                PrepareCopied, PrepareMarked, Preparing
  <2>3. CopyLeft' < CopyLeft /\ CopyLeft' \in Nat BY <2>2 DEF CopyLeft
  <2>4. 6 * Cardinality(copying') + CopyLeft' < 6 * Cardinality(copying) + CopyLeft
    BY <1>1, <1>3, <2>1, <2>3
  <2> QED BY <1>4, <1>6, <2>1, <2>4
<1>9. CASE PrepareEnd \/ PrepareCut
  <2>1. preparing' = "no" BY <1>9 DEF PrepareEnd, PrepareCut, Idle
  <2> QED BY <1>5, <2>1
<1> QED BY <1>4, <1>5, <1>7, <1>8, <1>9 DEF PrepareStep

\* Nothing else touches what a preparation has in hand.
LEMMA PrepareStays ==
  ASSUME [Next]_vars, preparing # "no", ~PrepareStep
  PROVE  PrepareLeft' = PrepareLeft
<1> USE DEF loading, roots, products, prepare, counts
<1>1. UNCHANGED <<preparing, copying, at>>
  BY DEF Next, PrepareStep, Handling, LoadPage, FirstPassStep, ContinuationStep, ClearBegin,
         ClearNext, ClearCut, Prune, Spoils, Classify, PrepareBegin, FirstBundle, FinalBundle,
         Validate, Command, vars
<1> QED BY <1>1 DEF PrepareLeft, CopyLeft

\* For any dataset and any first pass: a preparation ends.
THEOREM PreparationEnds == Spec => PreparationWindsDown
<1>1. Typed /\ Typed' /\ [Next]_vars =>
        [preparing # "no" =>
           /\ PrepareLeft \in Nat
           /\ PrepareStep => PrepareLeft' \in 0 .. PrepareLeft - 1
           /\ ~PrepareStep => PrepareLeft' = PrepareLeft]_vars
  <2>1. ASSUME Typed, preparing # "no" PROVE PrepareLeft \in Nat
    <3>1. Cardinality(copying) \in Nat
      BY <2>1, PostFirstPassAssumption, FS_Subset, FS_CardinalityType DEF Typed, RestTyped
    <3> QED BY <3>1, CopyLeftType DEF PrepareLeft
  <2> QED BY <2>1, PrepareStepDown, PrepareStays
<1> QED BY TypedInit, TypedStep, <1>1, PTL DEF Spec, PreparationWindsDown

-----------------------------------------------------------------------------
(* The reason in a final bundle.                                           *)

\* The branches of _final_exclusion_reason that go by the class are never
\* reached: one of the two decisions has said why before.
THEOREM ReasonNeedsNoClass ==
  ASSUME NEW c, NEW f, NEW class1, NEW class2, NEW allowed
  PROVE  FinalDecision(c, f, class1, allowed) = FinalDecision(c, f, class2, allowed)
BY DecideType DEF FinalDecision, FinalReason
=============================================================================
