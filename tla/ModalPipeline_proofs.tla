------------------------ MODULE ModalPipeline_proofs ------------------------
(***************************************************************************)
(* Proofs about the evaluation pipeline, for any attempts, any number of   *)
(* worker threads, any retry budget and any number of kills and reruns.    *)
(***************************************************************************)
EXTENDS ModalPipeline, FiniteSetTheorems, TLAPS

\* Before its submission is in the queue the driver has an attempt in hand;
\* until its mirror is made it works on it; after the drain it runs alone.
Early  == {"capture", "enqueue", "look", "put", "submit"}
AtWork == Early \cup {"inline", "mark", "finish", "mirror"}
Closing  == {"read1", "write1", "mirrorall", "summary", "read2", "write2", "end"}

\* What a submission goes through before its record is settled, or raises in.
Unsettled == {"queued", "calling", "result", "normal", "record", "stopfile",
              "stopread", "stopwrite", "stoprecord", "raised"}

\* An attempt has one submission in a run: it is picked once, has no job while
\* the driver has it in hand, and is in the queue at most once.
JobsInv ==
  /\ dpc \in AtWork => cur \in Attempts \ todo
  /\ dpc = "off" \/ dpc \in Closing => Idle
  /\ dpc \in Early => job[cur] = "none"
  /\ \A a \in todo : job[a] = "none"
  /\ \A i \in 1 .. Len(queue) : job[queue[i]] = "queued"
  /\ \A i, j \in 1 .. Len(queue) : queue[i] = queue[j] => i = j

\* The calls of a submission, and that nothing is called for that has no record.
CallsOf(a) ==
  /\ job[a] = "queued" => calls[a] = 0
  /\ job[a] = "calling" => calls[a] = tries[a] /\ tries[a] < MaxTries
  /\ calls[a] <= MaxTries
  /\ calls[a] > 0 => record[a] # "none"
  /\ a \notin unfit /\ job[a] # "none" => record[a] # "none"

CallsInv ==
  /\ dpc = "put" => record[cur] = "none"
  /\ dpc = "submit" => calls[cur] = 0 /\ record[cur] # "none"
  /\ \A a \in Attempts : CallsOf(a)

\* What is known of an outcome before it is written: the first one of an
\* attempt that can be evaluated, and always the same of one that cannot.
OutcomesInv ==
  /\ dpc \in {"look", "put", "submit"} => cur \notin unfit
  /\ dpc = "submit" => result[cur] = "none"
  /\ \A a \in Attempts \ unfit :
       /\ result[a] # "none" => record[a] # "none"
       /\ job[a] \in {"queued", "calling", "result"} => result[a] = "none"
  /\ \A a \in unfit :
       /\ job[a] \notin {"queued", "calling"}
       /\ result[a] \in {"none", "error"}
       /\ job[a] = "result" => verdict[a] = "error"

\* Who settles a record that is in progress.
RecordsInv ==
  \A a \in Attempts :
    record[a] = "in_progress" =>
      a \in lost \/ job[a] \in Unsettled \/ (dpc = "submit" /\ cur = a)

\* The end of a run, when nobody else runs.
EndInv ==
  /\ dpc = "write2" => seen[None] = View
  /\ dpc = "end" => summary = View
  /\ dpc \in {"summary", "read2", "write2", "end"} =>
       \A a \in reached : result[a] # "none" => saved[a] = result[a]

Inv == TypeOK /\ JobsInv /\ CallsInv /\ OutcomesInv /\ RecordsInv /\ EndInv

-----------------------------------------------------------------------------
(* One lemma for each part, and in it one step for each action. *)

\* The type invariant; a retry stays within its budget as the calls do.
LEMMA TypeStep == ASSUME Inv, [Next]_vars PROVE TypeOK'
<1> USE ModalAssumption DEF Inv, TypeOK, JobsInv, CallsInv, CallsOf, Outcome, Place,
        DriverPlace, MirroredOutcomes, View, AtWork, Early, records, disk, driver, pool,
        bounds, Goto, Leave, Nowhere, NoView, Thread, Idle, Over,
        InProgress
<1>1. ASSUME NEW F \in SUBSET Attempts, Start(F) PROVE TypeOK' BY <1>1 DEF Start
<1>2. ASSUME NEW a \in Attempts, PickForced(a) PROVE TypeOK' BY <1>2 DEF PickForced
<1>3. ASSUME NEW a \in Attempts, Pick(a) PROVE TypeOK' BY <1>3 DEF Pick
<1>4. ASSUME NEW b \in BOOLEAN, Capture(b) PROVE TypeOK' BY <1>4 DEF Capture
<1>5. CASE DriverRaises BY <1>5 DEF DriverRaises
<1>6. CASE Conformance
  <2>1. CASE cur \in unfit
    <3>1. /\ cur \in Attempts /\ job' = [job EXCEPT ![cur] = "result"] /\ dpc' = "inline"
          /\ verdict' = [verdict EXCEPT ![cur] = "error"] /\ job[cur] = "none"
          /\ UNCHANGED <<disk, queue, tries, seen, calls, reached, bounds, cur, todo, force>>
      BY <1>6, <2>1 DEF Conformance
    <3>2. job' \in [Attempts -> Place] /\ verdict' \in [Attempts -> Outcome \cup {"none"}]
      BY <3>1
    <3> QED BY <3>1, <3>2
  <2>2. CASE cur \notin unfit BY <1>6, <2>2 DEF Conformance
  <2> QED BY <2>1, <2>2
<1>7. CASE InlineDone BY <1>7 DEF InlineDone
<1>8. CASE Look BY <1>8 DEF Look
<1>9. CASE PutRecord BY <1>9 DEF PutRecord
<1>10. CASE Submit BY <1>10 DEF Submit
<1>11. CASE MarkCapture BY <1>11 DEF MarkCapture
<1>12. CASE MarkDone BY <1>12 DEF MarkDone
<1>13. ASSUME NEW b \in BOOLEAN, MirrorAttempt(b) PROVE TypeOK' BY <1>13 DEF MirrorAttempt
<1>14. CASE TakeJob BY <1>14, SMTT(30) DEF TakeJob
<1>15. ASSUME NEW a \in Attempts, NEW o \in Outcome, CallAnswered(a, o) PROVE TypeOK'
  BY <1>15, SMTT(30) DEF CallAnswered, Called
<1>16. ASSUME NEW a \in Attempts, CallTransient(a) PROVE TypeOK'
  <2>1. /\ tries[a] \in 0 .. MaxTries /\ tries[a] < MaxTries
    BY <1>16 DEF CallTransient
  <2>2. /\ tries' \in [Attempts -> 0 .. MaxTries] /\ calls' \in [Attempts -> Nat]
    BY <1>16, <2>1 DEF CallTransient, Called
  <2>3. \/ UNCHANGED <<verdict, job>>
        \/ /\ verdict' = [verdict EXCEPT ![a] = "infra"]
           /\ job' = [job EXCEPT ![a] = "result"]
    BY <1>16 DEF CallTransient
  <2>4. job \in [Attempts -> Place] /\ verdict \in [Attempts -> Outcome \cup {"none"}]
    OBVIOUS
  <2>5. job' \in [Attempts -> Place] /\ verdict' \in [Attempts -> Outcome \cup {"none"}]
    <3>1. CASE UNCHANGED <<verdict, job>> BY <2>4, <3>1
    <3>2. CASE /\ verdict' = [verdict EXCEPT ![a] = "infra"]
               /\ job' = [job EXCEPT ![a] = "result"]
      <4>1. "infra" \in Outcome /\ "result" \in Place OBVIOUS
      <4> HIDE DEF Outcome, Place, TypeOK
      <4> QED BY <2>4, <3>2, <4>1
    <3> QED BY <2>3, <3>1, <3>2
  <2> QED BY <1>16, <2>2, <2>5 DEF CallTransient
<1>17. ASSUME NEW a \in Attempts, CallRefused(a) PROVE TypeOK'
  BY <1>17 DEF CallRefused, Called
<1>18. ASSUME NEW a \in Attempts, WriteStop(a) PROVE TypeOK' BY <1>18 DEF WriteStop
<1>19. ASSUME NEW a \in Attempts, WriteResult(a) PROVE TypeOK' BY <1>19 DEF WriteResult
<1>20. ASSUME NEW a \in Attempts, WriteNormalized(a) PROVE TypeOK'
  BY <1>20 DEF WriteNormalized
<1>21. ASSUME NEW a \in Attempts, StoreRecord(a) PROVE TypeOK' BY <1>21 DEF StoreRecord
<1>22. ASSUME NEW a \in Attempts, ReadResults(a) PROVE TypeOK' BY <1>22 DEF ReadResults
<1>23. ASSUME NEW a \in Attempts, WriteSummary(a) PROVE TypeOK' BY <1>23 DEF WriteSummary
<1>24. CASE AllPicked BY <1>24 DEF AllPicked
<1>25. CASE Drain BY <1>25 DEF Drain
<1>26. CASE DriverReads BY <1>26 DEF DriverReads
<1>27. CASE DriverWrites BY <1>27 DEF DriverWrites
<1>28. ASSUME NEW R \in SUBSET Attempts, MirrorCompleted(R) PROVE TypeOK'
  BY <1>28 DEF MirrorCompleted
<1>29. CASE AggregateRun BY <1>29 DEF AggregateRun
<1>30. CASE Return BY <1>30 DEF Return
<1>31. CASE Crash BY <1>31 DEF Crash
<1>32. CASE UNCHANGED vars BY <1>32 DEF vars
<1>33. CASE InlineRaises BY <1>33 DEF InlineRaises
<1>34. CASE DrainRaises BY <1>34 DEF DrainRaises
<1>35. CASE ReturnRaised BY <1>35 DEF ReturnRaised
<1>36. ASSUME NEW a \in Attempts, WorkerRaises(a) PROVE TypeOK'
  BY <1>36, SMTT(30) DEF WorkerRaises, Called
<1> HIDE DEF TypeOK
<1> QED BY <1>1, <1>2, <1>3, <1>4, <1>5, <1>6, <1>7, <1>8, <1>9, <1>10, <1>11, <1>12, <1>13,
  <1>14, <1>15, <1>16, <1>17, <1>18, <1>19, <1>20, <1>21, <1>22, <1>23, <1>24, <1>25, <1>26,
  <1>27, <1>28, <1>29, <1>30, <1>31, <1>32,
  <1>33, <1>34, <1>35, <1>36 DEF Next, DriverStep, WorkerStep

\* Only the job of the thread at work changes when a worker takes a step.
LEMMA WorkerJob ==
  ASSUME TypeOK, NEW a \in Attempts, WorkerStep(a)
  PROVE  /\ job[a] \notin {"none", "queued"} /\ job'[a] # "queued"
         /\ \A c \in Attempts \ {a} : job'[c] = job[c]
         /\ UNCHANGED <<dpc, cur, todo, queue>>
<1> USE DEF TypeOK, driver
<1>1. CASE \/ \E o \in Outcome : CallAnswered(a, o)
           \/ WorkerRaises(a) \/ CallRefused(a) \/ WriteStop(a) \/ WriteResult(a)
           \/ WriteNormalized(a)
  BY <1>1 DEF CallAnswered, WorkerRaises, CallRefused, WriteStop, WriteResult, WriteNormalized
<1>2. CASE StoreRecord(a) \/ ReadResults(a) \/ WriteSummary(a)
  BY <1>2 DEF StoreRecord, ReadResults, WriteSummary
<1>3. CASE CallTransient(a)
  <2>1. CASE UNCHANGED <<verdict, job>> BY <1>3, <2>1 DEF CallTransient
  <2>2. CASE job' = [job EXCEPT ![a] = "result"] BY <1>3, <2>2 DEF CallTransient
  <2> QED BY <1>3, <2>1, <2>2 DEF CallTransient
<1> QED BY <1>1, <1>2, <1>3 DEF WorkerStep

\* Jobs: only Conformance and Submit make one, and both for the attempt in hand.
LEMMA JobsStep == ASSUME Inv, [Next]_vars PROVE JobsInv'
<1> USE ModalAssumption DEF Inv, TypeOK, JobsInv, AtWork, Early, Closing, records, disk,
        driver, pool, bounds, Goto, Leave, Nowhere, NoView, Thread, Idle, Over,
        InProgress
<1>1. ASSUME NEW F \in SUBSET Attempts, Start(F) PROVE JobsInv' BY <1>1 DEF Start
<1>2. ASSUME NEW a \in Attempts, PickForced(a) PROVE JobsInv' BY <1>2 DEF PickForced
<1>3. ASSUME NEW a \in Attempts, Pick(a) PROVE JobsInv' BY <1>3 DEF Pick
<1>4. ASSUME NEW b \in BOOLEAN, Capture(b) PROVE JobsInv' BY <1>4 DEF Capture
<1>5. CASE DriverRaises BY <1>5 DEF DriverRaises
<1>6. CASE Conformance
  <2>1. CASE cur \in unfit
    <3>1. /\ cur \in Attempts /\ job' = [job EXCEPT ![cur] = "result"] /\ dpc' = "inline"
          /\ verdict' = [verdict EXCEPT ![cur] = "error"] /\ job[cur] = "none"
          /\ UNCHANGED <<disk, queue, tries, seen, calls, reached, bounds, cur, todo, force>>
      BY <1>6, <2>1 DEF Conformance
    <3>2. \A i \in 1 .. Len(queue) : queue[i] \in Attempts /\ queue[i] # cur BY <3>1
    <3>3. \A c \in Attempts \ {cur} : job'[c] = job[c] BY <3>1
    <3> QED BY <1>6, <2>1, <3>1, <3>2, <3>3 DEF Conformance, Closing
  <2>2. CASE cur \notin unfit BY <1>6, <2>2 DEF Conformance
  <2> QED BY <2>1, <2>2
<1>7. CASE InlineDone BY <1>7 DEF InlineDone
<1>8. CASE Look BY <1>8 DEF Look
<1>9. CASE PutRecord BY <1>9 DEF PutRecord
<1>10. CASE Submit BY <1>10 DEF Submit
<1>11. CASE MarkCapture BY <1>11 DEF MarkCapture
<1>12. CASE MarkDone BY <1>12 DEF MarkDone
<1>13. ASSUME NEW b \in BOOLEAN, MirrorAttempt(b) PROVE JobsInv' BY <1>13 DEF MirrorAttempt
<1>14. CASE TakeJob
  <2>1. /\ queue # <<>> /\ queue' = Tail(queue) /\ queue \in Seq(Attempts)
        /\ job' = [job EXCEPT ![Head(queue)] = "calling"] /\ UNCHANGED driver
    BY <1>14 DEF TakeJob
  <2>2. /\ Len(queue) \in Nat \ {0} /\ Len(queue') = Len(queue) - 1
        /\ \A i \in 1 .. Len(queue') : queue'[i] = queue[i + 1]
        /\ Head(queue) = queue[1] /\ Head(queue) \in Attempts
    BY <2>1
  <2>3. job[Head(queue)] = "queued" BY <2>2
  <2>4. \A i \in 1 .. Len(queue') : i + 1 \in 1 .. Len(queue) BY <2>2
  <2>5. \A i \in 1 .. Len(queue') : queue'[i] # Head(queue) /\ queue'[i] \in Attempts
    BY <2>1, <2>2, <2>4
  <2>6. \A i \in 1 .. Len(queue') : job'[queue'[i]] = "queued" BY <2>1, <2>2, <2>4, <2>5
  <2>7. ASSUME NEW i \in 1 .. Len(queue'), NEW j \in 1 .. Len(queue'), queue'[i] = queue'[j]
        PROVE  i = j
    <3>1. queue[i + 1] = queue[j + 1] BY <2>2, <2>7
    <3>2. i + 1 = j + 1 BY <2>4, <3>1
    <3> QED BY <3>2
  <2>8. ~Idle /\ Head(queue) \notin todo /\ (dpc \in Early => cur # Head(queue)) BY <2>2, <2>3
  <2> QED BY <2>1, <2>2, <2>6, <2>7, <2>8
<1>15. ASSUME NEW a \in Attempts, WorkerStep(a) PROVE JobsInv'
  <2>1. /\ job[a] \notin {"none", "queued"} /\ \A c \in Attempts \ {a} : job'[c] = job[c]
        /\ UNCHANGED <<dpc, cur, todo, queue>>
    BY <1>15, WorkerJob DEF TypeOK
  <2>2. \A i \in 1 .. Len(queue) : queue[i] \in Attempts /\ queue[i] # a BY <2>1
  <2>3. ~Idle /\ a \notin todo /\ (dpc \in Early => cur # a) BY <2>1
  <2>4. ~(dpc' = "off" \/ dpc' \in Closing) BY <2>1, <2>3
  <2>5. /\ dpc' \in Early => job'[cur'] = "none"
        /\ \A b \in todo' : job'[b] = "none"
    BY <2>1, <2>3
  <2>6. \A i \in 1 .. Len(queue') : job'[queue'[i]] = "queued" BY <2>1, <2>2
  <2> QED BY <2>1, <2>4, <2>5, <2>6
<1>16. CASE AllPicked BY <1>16 DEF AllPicked
<1>17. CASE Drain BY <1>17 DEF Drain
<1>18. CASE DriverReads BY <1>18 DEF DriverReads
<1>19. CASE DriverWrites BY <1>19 DEF DriverWrites
<1>20. ASSUME NEW R \in SUBSET Attempts, MirrorCompleted(R) PROVE JobsInv'
  BY <1>20 DEF MirrorCompleted
<1>21. CASE AggregateRun BY <1>21 DEF AggregateRun
<1>22. CASE Return BY <1>22 DEF Return
<1>23. CASE Crash BY <1>23 DEF Crash
<1>24. CASE UNCHANGED vars BY <1>24 DEF vars
<1>33. CASE InlineRaises BY <1>33 DEF InlineRaises
<1>34. CASE DrainRaises BY <1>34 DEF DrainRaises
<1>35. CASE ReturnRaised BY <1>35 DEF ReturnRaised
<1> HIDE DEF JobsInv
<1> QED BY <1>1, <1>2, <1>3, <1>4, <1>5, <1>6, <1>7, <1>8, <1>9, <1>10, <1>11, <1>12, <1>13,
  <1>14, <1>15, <1>16, <1>17, <1>18, <1>19, <1>20, <1>21, <1>22, <1>23, <1>24,
  <1>33, <1>34, <1>35
  DEF Next, DriverStep

\* Calls: a record is written before the first, and Look asks for it.
LEMMA CallsStep == ASSUME Inv, [Next]_vars PROVE CallsInv'
<1> USE ModalAssumption DEF Inv, TypeOK, JobsInv, CallsInv, CallsOf, AtWork, Early, Known,
        records, disk, driver, pool, bounds, Goto, Leave, Nowhere, NoView, Thread, Idle, Over,
        InProgress
<1>1. ASSUME NEW F \in SUBSET Attempts, Start(F) PROVE CallsInv' BY <1>1 DEF Start
<1>2. ASSUME NEW a \in Attempts, PickForced(a) PROVE CallsInv' BY <1>2 DEF PickForced
<1>3. ASSUME NEW a \in Attempts, Pick(a) PROVE CallsInv' BY <1>3 DEF Pick
<1>4. ASSUME NEW b \in BOOLEAN, Capture(b) PROVE CallsInv' BY <1>4 DEF Capture
<1>5. CASE DriverRaises BY <1>5 DEF DriverRaises
<1>6. CASE Conformance
  <2>1. CASE cur \in unfit
    <3>1. /\ cur \in Attempts /\ job' = [job EXCEPT ![cur] = "result"] /\ dpc' = "inline"
          /\ verdict' = [verdict EXCEPT ![cur] = "error"] /\ job[cur] = "none"
          /\ UNCHANGED <<disk, queue, tries, seen, calls, reached, bounds, cur, todo, force>>
      BY <1>6, <2>1 DEF Conformance
    <3> QED BY <2>1, <3>1
  <2>2. CASE cur \notin unfit BY <1>6, <2>2 DEF Conformance
  <2> QED BY <2>1, <2>2
<1>7. CASE InlineDone BY <1>7 DEF InlineDone
<1>8. CASE Look BY <1>8 DEF Look
<1>9. CASE PutRecord BY <1>9 DEF PutRecord
<1>10. CASE Submit BY <1>10 DEF Submit
<1>11. CASE MarkCapture BY <1>11 DEF MarkCapture
<1>12. CASE MarkDone BY <1>12 DEF MarkDone
<1>13. ASSUME NEW b \in BOOLEAN, MirrorAttempt(b) PROVE CallsInv' BY <1>13 DEF MirrorAttempt
<1>14. CASE TakeJob BY <1>14 DEF TakeJob
<1>15. ASSUME NEW a \in Attempts, NEW o \in Outcome, CallAnswered(a, o) PROVE CallsInv'
  <2>1. /\ calls'[a] = calls[a] + 1 /\ calls[a] \in Nat /\ MaxTries \in Nat
        /\ \A c \in Attempts \ {a} : calls'[c] = calls[c]
    BY <1>15 DEF CallAnswered, Called
  <2>2. /\ UNCHANGED <<dpc, cur, record, unfit, tries>> /\ job[a] = "calling"
        /\ job'[a] \in {"result", "stopfile"} /\ \A c \in Attempts \ {a} : job'[c] = job[c]
    BY <1>15 DEF CallAnswered
  <2>3. CallsOf(a)' BY <2>1, <2>2 DEF OutcomesInv
  <2>4. \A c \in Attempts \ {a} : CallsOf(c)' BY <2>1, <2>2
  <2>5. dpc = "submit" => cur \in Attempts \ {a} BY <2>2
  <2> QED BY <2>1, <2>2, <2>3, <2>4, <2>5
<1>16. ASSUME NEW a \in Attempts, CallTransient(a) PROVE CallsInv'
  <2>1. /\ calls'[a] = calls[a] + 1 /\ tries'[a] = tries[a] + 1 /\ job[a] = "calling"
        /\ calls[a] \in Nat /\ tries[a] \in Nat /\ MaxTries \in Nat
        /\ \A c \in Attempts \ {a} : calls'[c] = calls[c] /\ tries'[c] = tries[c]
    BY <1>16 DEF CallTransient, Called
  <2>2. /\ UNCHANGED <<dpc, cur, record, unfit>>
        /\ job'[a] = IF tries[a] + 1 >= MaxTries THEN "result" ELSE "calling"
        /\ \A c \in Attempts \ {a} : job'[c] = job[c]
    BY <1>16, <2>1 DEF CallTransient
  <2>3. CallsOf(a)' BY <2>1, <2>2 DEF OutcomesInv
  <2>4. \A c \in Attempts \ {a} : CallsOf(c)' BY <2>1, <2>2
  <2>5. dpc = "submit" => cur \in Attempts \ {a} BY <2>1
  <2> QED BY <2>1, <2>2, <2>3, <2>4, <2>5
<1>17. ASSUME NEW a \in Attempts, CallRefused(a) PROVE CallsInv'
  <2>1. /\ calls'[a] = calls[a] + 1 /\ calls[a] \in Nat /\ MaxTries \in Nat
        /\ \A c \in Attempts \ {a} : calls'[c] = calls[c]
    BY <1>17 DEF CallRefused, Called
  <2>2. /\ UNCHANGED <<dpc, cur, record, unfit, tries>> /\ job[a] = "calling"
        /\ job'[a] \in {"result", "stopfile"} /\ \A c \in Attempts \ {a} : job'[c] = job[c]
    BY <1>17 DEF CallRefused
  <2>3. CallsOf(a)' BY <2>1, <2>2 DEF OutcomesInv
  <2>4. \A c \in Attempts \ {a} : CallsOf(c)' BY <2>1, <2>2
  <2>5. dpc = "submit" => cur \in Attempts \ {a} BY <2>2
  <2> QED BY <2>1, <2>2, <2>3, <2>4, <2>5
<1>18. ASSUME NEW a \in Attempts, WriteStop(a) PROVE CallsInv' BY <1>18 DEF WriteStop
<1>19. ASSUME NEW a \in Attempts, WriteResult(a) PROVE CallsInv' BY <1>19 DEF WriteResult
<1>20. ASSUME NEW a \in Attempts, WriteNormalized(a) PROVE CallsInv'
  BY <1>20 DEF WriteNormalized
<1>21. ASSUME NEW a \in Attempts, StoreRecord(a) PROVE CallsInv' BY <1>21 DEF StoreRecord
<1>22. ASSUME NEW a \in Attempts, ReadResults(a) PROVE CallsInv' BY <1>22 DEF ReadResults
<1>23. ASSUME NEW a \in Attempts, WriteSummary(a) PROVE CallsInv' BY <1>23 DEF WriteSummary
<1>24. CASE AllPicked BY <1>24 DEF AllPicked
<1>25. CASE Drain BY <1>25 DEF Drain
<1>26. CASE DriverReads BY <1>26 DEF DriverReads
<1>27. CASE DriverWrites BY <1>27 DEF DriverWrites
<1>28. ASSUME NEW R \in SUBSET Attempts, MirrorCompleted(R) PROVE CallsInv'
  BY <1>28 DEF MirrorCompleted
<1>29. CASE AggregateRun BY <1>29 DEF AggregateRun
<1>30. CASE Return BY <1>30 DEF Return
<1>31. CASE Crash BY <1>31 DEF Crash
<1>32. CASE UNCHANGED vars BY <1>32 DEF vars
<1>33. CASE InlineRaises BY <1>33 DEF InlineRaises
<1>34. CASE DrainRaises BY <1>34 DEF DrainRaises
<1>35. CASE ReturnRaised BY <1>35 DEF ReturnRaised
<1>36. ASSUME NEW a \in Attempts, WorkerRaises(a) PROVE CallsInv'
  <2>1. /\ job[a] \in {"calling", "read", "stopread"} /\ job'[a] = "raised"
        /\ \A c \in Attempts \ {a} : job'[c] = job[c]
        /\ UNCHANGED <<dpc, cur, record, unfit, tries>>
    BY <1>36 DEF WorkerRaises
  <2>2. /\ job[a] = "calling" => calls' = [calls EXCEPT ![a] = @ + 1]
        /\ job[a] # "calling" => calls' = calls
    BY <1>36 DEF WorkerRaises, Called
  <2>3. \A c \in Attempts \ {a} : calls'[c] = calls[c] BY <2>2
  <2>4. CallsOf(a)'
    <3>1. CASE job[a] = "calling"
      <4>1. calls'[a] = tries[a] + 1 /\ tries[a] < MaxTries /\ tries[a] \in Nat
        BY <2>2, <3>1
      <4>2. record[a] # "none" BY <3>1 DEF OutcomesInv
      <4> QED BY <2>1, <4>1, <4>2
    <3>2. CASE job[a] # "calling" BY <2>1, <2>2, <3>2
    <3> QED BY <3>1, <3>2
  <2>5. \A c \in Attempts \ {a} : CallsOf(c)' BY <2>1, <2>3
  <2>6. dpc = "submit" => cur \in Attempts \ {a} BY <2>1
  <2> QED BY <2>1, <2>3, <2>4, <2>5, <2>6
<1> HIDE DEF CallsInv
<1> QED BY <1>1, <1>2, <1>3, <1>4, <1>5, <1>6, <1>7, <1>8, <1>9, <1>10, <1>11, <1>12, <1>13,
  <1>14, <1>15, <1>16, <1>17, <1>18, <1>19, <1>20, <1>21, <1>22, <1>23, <1>24, <1>25, <1>26,
  <1>27, <1>28, <1>29, <1>30, <1>31, <1>32,
  <1>33, <1>34, <1>35, <1>36 DEF Next, DriverStep, WorkerStep

\* Outcomes: an attempt has one submission, or fails conformance each time.
LEMMA OutcomesStep == ASSUME Inv, [Next]_vars PROVE OutcomesInv'
<1> USE ModalAssumption DEF Inv, TypeOK, JobsInv, CallsInv, CallsOf, OutcomesInv, AtWork,
        Early, Known, records, disk, driver, pool, bounds, Goto, Leave, Nowhere, NoView,
        Thread, Idle, Over, InProgress
<1>1. ASSUME NEW F \in SUBSET Attempts, Start(F) PROVE OutcomesInv' BY <1>1 DEF Start
<1>2. ASSUME NEW a \in Attempts, PickForced(a) PROVE OutcomesInv' BY <1>2 DEF PickForced
<1>3. ASSUME NEW a \in Attempts, Pick(a) PROVE OutcomesInv' BY <1>3 DEF Pick
<1>4. ASSUME NEW b \in BOOLEAN, Capture(b) PROVE OutcomesInv' BY <1>4 DEF Capture
<1>5. CASE DriverRaises BY <1>5 DEF DriverRaises
<1>6. CASE Conformance
  <2>1. CASE cur \in unfit
    <3>1. /\ cur \in Attempts /\ job' = [job EXCEPT ![cur] = "result"] /\ dpc' = "inline"
          /\ verdict' = [verdict EXCEPT ![cur] = "error"] /\ job[cur] = "none"
          /\ UNCHANGED <<disk, queue, tries, seen, calls, reached, bounds, cur, todo, force>>
      BY <1>6, <2>1 DEF Conformance
    <3> QED BY <2>1, <3>1
  <2>2. CASE cur \notin unfit BY <1>6, <2>2 DEF Conformance
  <2> QED BY <2>1, <2>2
<1>7. CASE InlineDone BY <1>7 DEF InlineDone
<1>8. CASE Look BY <1>8 DEF Look
<1>9. CASE PutRecord BY <1>9 DEF PutRecord
<1>10. CASE Submit BY <1>10 DEF Submit
<1>11. CASE MarkCapture BY <1>11 DEF MarkCapture
<1>12. CASE MarkDone BY <1>12 DEF MarkDone
<1>13. ASSUME NEW b \in BOOLEAN, MirrorAttempt(b) PROVE OutcomesInv'
  BY <1>13 DEF MirrorAttempt
<1>14. CASE TakeJob BY <1>14 DEF TakeJob
<1>15. ASSUME NEW a \in Attempts, NEW o \in Outcome, CallAnswered(a, o) PROVE OutcomesInv'
  BY <1>15 DEF CallAnswered
<1>16. ASSUME NEW a \in Attempts, CallTransient(a) PROVE OutcomesInv'
  <2>1. /\ job[a] = "calling" /\ UNCHANGED <<disk, driver, queue, seen, reached, bounds>>
        /\ \/ UNCHANGED <<verdict, job>>
           \/ /\ verdict' = [verdict EXCEPT ![a] = "infra"]
              /\ job' = [job EXCEPT ![a] = "result"]
    BY <1>16 DEF CallTransient
  <2>2. CASE UNCHANGED <<verdict, job>> BY <2>1, <2>2
  <2>3. CASE /\ verdict' = [verdict EXCEPT ![a] = "infra"]
             /\ job' = [job EXCEPT ![a] = "result"]
    <3>1. /\ job'[a] = "result" /\ a \notin unfit
          /\ \A c \in Attempts \ {a} : job'[c] = job[c] /\ verdict'[c] = verdict[c]
          /\ UNCHANGED <<unfit, record, result, dpc, cur>> /\ unfit \subseteq Attempts
      BY <2>1, <2>3
    <3>2. result[a] = "none" /\ record[a] # "none" BY <2>1, <3>1
    <3>3. \A c \in Attempts \ unfit :
            /\ result'[c] # "none" => record'[c] # "none"
            /\ job'[c] \in {"queued", "calling", "result"} => result'[c] = "none"
      BY <3>1, <3>2
    <3>4. \A c \in unfit : job'[c] = job[c] /\ verdict'[c] = verdict[c] BY <3>1
    <3> QED BY <3>1, <3>3, <3>4
  <2> QED BY <2>1, <2>2, <2>3
<1>17. ASSUME NEW a \in Attempts, CallRefused(a) PROVE OutcomesInv' BY <1>17 DEF CallRefused
<1>18. ASSUME NEW a \in Attempts, WriteStop(a) PROVE OutcomesInv' BY <1>18 DEF WriteStop
<1>19. ASSUME NEW a \in Attempts, WriteResult(a) PROVE OutcomesInv' BY <1>19 DEF WriteResult
<1>20. ASSUME NEW a \in Attempts, WriteNormalized(a) PROVE OutcomesInv'
  BY <1>20 DEF WriteNormalized
<1>21. ASSUME NEW a \in Attempts, StoreRecord(a) PROVE OutcomesInv' BY <1>21 DEF StoreRecord
<1>22. ASSUME NEW a \in Attempts, ReadResults(a) PROVE OutcomesInv' BY <1>22 DEF ReadResults
<1>23. ASSUME NEW a \in Attempts, WriteSummary(a) PROVE OutcomesInv'
  BY <1>23 DEF WriteSummary
<1>24. CASE AllPicked BY <1>24 DEF AllPicked
<1>25. CASE Drain BY <1>25 DEF Drain
<1>26. CASE DriverReads BY <1>26 DEF DriverReads
<1>27. CASE DriverWrites BY <1>27 DEF DriverWrites
<1>28. ASSUME NEW R \in SUBSET Attempts, MirrorCompleted(R) PROVE OutcomesInv'
  BY <1>28 DEF MirrorCompleted
<1>29. CASE AggregateRun BY <1>29 DEF AggregateRun
<1>30. CASE Return BY <1>30 DEF Return
<1>31. CASE Crash BY <1>31 DEF Crash
<1>32. CASE UNCHANGED vars BY <1>32 DEF vars
<1>33. CASE InlineRaises BY <1>33 DEF InlineRaises
<1>34. CASE DrainRaises BY <1>34 DEF DrainRaises
<1>35. CASE ReturnRaised BY <1>35 DEF ReturnRaised
<1>36. ASSUME NEW a \in Attempts, WorkerRaises(a) PROVE OutcomesInv'
  BY <1>36 DEF WorkerRaises, Called
<1> HIDE DEF OutcomesInv
<1> QED BY <1>1, <1>2, <1>3, <1>4, <1>5, <1>6, <1>7, <1>8, <1>9, <1>10, <1>11, <1>12, <1>13,
  <1>14, <1>15, <1>16, <1>17, <1>18, <1>19, <1>20, <1>21, <1>22, <1>23, <1>24, <1>25, <1>26,
  <1>27, <1>28, <1>29, <1>30, <1>31, <1>32,
  <1>33, <1>34, <1>35, <1>36 DEF Next, DriverStep, WorkerStep

\* Records: what puts one in progress goes on to settle it, or is killed.
LEMMA RecordsStep == ASSUME Inv, [Next]_vars PROVE RecordsInv'
<1> USE ModalAssumption DEF Inv, TypeOK, JobsInv, RecordsInv, Unsettled, Closing, AtWork,
        Early, Known, records, disk, driver, pool, bounds, Goto, Leave, Nowhere, NoView,
        Thread, Idle, Over, InProgress
<1>1. ASSUME NEW F \in SUBSET Attempts, Start(F) PROVE RecordsInv' BY <1>1 DEF Start
<1>2. ASSUME NEW a \in Attempts, PickForced(a) PROVE RecordsInv' BY <1>2 DEF PickForced
<1>3. ASSUME NEW a \in Attempts, Pick(a) PROVE RecordsInv' BY <1>3 DEF Pick
<1>4. ASSUME NEW b \in BOOLEAN, Capture(b) PROVE RecordsInv' BY <1>4 DEF Capture
<1>5. CASE DriverRaises BY <1>5 DEF DriverRaises
<1>6. CASE Conformance
  <2>1. CASE cur \in unfit
    <3>1. /\ cur \in Attempts /\ job' = [job EXCEPT ![cur] = "result"] /\ dpc' = "inline"
          /\ verdict' = [verdict EXCEPT ![cur] = "error"] /\ job[cur] = "none"
          /\ UNCHANGED <<disk, queue, tries, seen, calls, reached, bounds, cur, todo, force>>
      BY <1>6, <2>1 DEF Conformance
    <3> QED BY <2>1, <3>1
  <2>2. CASE cur \notin unfit BY <1>6, <2>2 DEF Conformance
  <2> QED BY <2>1, <2>2
<1>7. CASE InlineDone BY <1>7 DEF InlineDone
<1>8. CASE Look BY <1>8 DEF Look
<1>9. CASE PutRecord BY <1>9 DEF PutRecord
<1>10. CASE Submit BY <1>10 DEF Submit
<1>11. CASE MarkCapture BY <1>11 DEF MarkCapture
<1>12. CASE MarkDone BY <1>12 DEF MarkDone
<1>13. ASSUME NEW b \in BOOLEAN, MirrorAttempt(b) PROVE RecordsInv'
  BY <1>13 DEF MirrorAttempt
<1>14. CASE TakeJob BY <1>14 DEF TakeJob
<1>15. ASSUME NEW a \in Attempts, NEW o \in Outcome, CallAnswered(a, o) PROVE RecordsInv'
  BY <1>15 DEF CallAnswered
<1>16. ASSUME NEW a \in Attempts, CallTransient(a) PROVE RecordsInv'
  <2>1. /\ job[a] = "calling" /\ UNCHANGED <<disk, driver, queue, seen, reached, bounds>>
        /\ \/ UNCHANGED <<verdict, job>>
           \/ /\ verdict' = [verdict EXCEPT ![a] = "infra"]
              /\ job' = [job EXCEPT ![a] = "result"]
    BY <1>16 DEF CallTransient
  <2> QED BY <2>1
<1>17. ASSUME NEW a \in Attempts, CallRefused(a) PROVE RecordsInv' BY <1>17 DEF CallRefused
<1>18. ASSUME NEW a \in Attempts, WriteStop(a) PROVE RecordsInv' BY <1>18 DEF WriteStop
<1>19. ASSUME NEW a \in Attempts, WriteResult(a) PROVE RecordsInv' BY <1>19 DEF WriteResult
<1>20. ASSUME NEW a \in Attempts, WriteNormalized(a) PROVE RecordsInv'
  BY <1>20 DEF WriteNormalized
<1>21. ASSUME NEW a \in Attempts, StoreRecord(a) PROVE RecordsInv' BY <1>21 DEF StoreRecord
<1>22. ASSUME NEW a \in Attempts, ReadResults(a) PROVE RecordsInv' BY <1>22 DEF ReadResults
<1>23. ASSUME NEW a \in Attempts, WriteSummary(a) PROVE RecordsInv'
  BY <1>23 DEF WriteSummary
<1>24. CASE AllPicked BY <1>24 DEF AllPicked
<1>25. CASE Drain BY <1>25 DEF Drain
<1>26. CASE DriverReads BY <1>26 DEF DriverReads
<1>27. CASE DriverWrites BY <1>27 DEF DriverWrites
<1>28. ASSUME NEW R \in SUBSET Attempts, MirrorCompleted(R) PROVE RecordsInv'
  BY <1>28 DEF MirrorCompleted
<1>29. CASE AggregateRun BY <1>29 DEF AggregateRun
<1>30. CASE Return BY <1>30 DEF Return
<1>31. CASE Crash BY <1>31 DEF Crash
<1>32. CASE UNCHANGED vars BY <1>32 DEF vars
<1>33. CASE InlineRaises BY <1>33 DEF InlineRaises
<1>34. CASE DrainRaises BY <1>34 DEF DrainRaises
<1>35. CASE ReturnRaised BY <1>35 DEF ReturnRaised
<1>36. ASSUME NEW a \in Attempts, WorkerRaises(a) PROVE RecordsInv'
  BY <1>36 DEF WorkerRaises, Called
<1> HIDE DEF RecordsInv
<1> QED BY <1>1, <1>2, <1>3, <1>4, <1>5, <1>6, <1>7, <1>8, <1>9, <1>10, <1>11, <1>12, <1>13,
  <1>14, <1>15, <1>16, <1>17, <1>18, <1>19, <1>20, <1>21, <1>22, <1>23, <1>24, <1>25, <1>26,
  <1>27, <1>28, <1>29, <1>30, <1>31, <1>32,
  <1>33, <1>34, <1>35, <1>36 DEF Next, DriverStep, WorkerStep

\* The end of a run: after the drain nobody else writes.
LEMMA EndStep == ASSUME Inv, [Next]_vars PROVE EndInv'
<1> USE ModalAssumption DEF Inv, TypeOK, JobsInv, EndInv, Closing, View, MirroredOutcomes,
        records, disk, driver, pool, bounds, Goto, Leave, Nowhere, NoView, Thread, Idle, Over,
        InProgress
<1>1. ASSUME NEW F \in SUBSET Attempts, Start(F) PROVE EndInv' BY <1>1 DEF Start
<1>2. ASSUME NEW a \in Attempts, PickForced(a) PROVE EndInv' BY <1>2 DEF PickForced
<1>3. ASSUME NEW a \in Attempts, Pick(a) PROVE EndInv' BY <1>3 DEF Pick
<1>4. ASSUME NEW b \in BOOLEAN, Capture(b) PROVE EndInv' BY <1>4 DEF Capture
<1>5. CASE DriverRaises BY <1>5 DEF DriverRaises
<1>6. CASE Conformance
  <2>1. CASE cur \in unfit BY <1>6, <2>1 DEF Conformance
  <2>2. CASE cur \notin unfit BY <1>6, <2>2 DEF Conformance
  <2> QED BY <2>1, <2>2
<1>7. CASE InlineDone BY <1>7 DEF InlineDone
<1>8. CASE Look BY <1>8 DEF Look
<1>9. CASE PutRecord BY <1>9 DEF PutRecord
<1>10. CASE Submit BY <1>10 DEF Submit
<1>11. CASE MarkCapture BY <1>11 DEF MarkCapture
<1>12. CASE MarkDone BY <1>12 DEF MarkDone
<1>13. ASSUME NEW b \in BOOLEAN, MirrorAttempt(b) PROVE EndInv' BY <1>13 DEF MirrorAttempt
<1>14. CASE TakeJob BY <1>14 DEF TakeJob
<1>15. ASSUME NEW a \in Attempts, NEW o \in Outcome, CallAnswered(a, o) PROVE EndInv'
  BY <1>15 DEF CallAnswered
<1>16. ASSUME NEW a \in Attempts, CallTransient(a) PROVE EndInv'
  <2>1. /\ job[a] = "calling" /\ UNCHANGED <<disk, driver, queue, seen, reached, bounds>>
        /\ \/ UNCHANGED <<verdict, job>>
           \/ /\ verdict' = [verdict EXCEPT ![a] = "infra"]
              /\ job' = [job EXCEPT ![a] = "result"]
    BY <1>16 DEF CallTransient
  <2> QED BY <2>1
<1>17. ASSUME NEW a \in Attempts, CallRefused(a) PROVE EndInv' BY <1>17 DEF CallRefused
<1>18. ASSUME NEW a \in Attempts, WriteStop(a) PROVE EndInv' BY <1>18 DEF WriteStop
<1>19. ASSUME NEW a \in Attempts, WriteResult(a) PROVE EndInv' BY <1>19 DEF WriteResult
<1>20. ASSUME NEW a \in Attempts, WriteNormalized(a) PROVE EndInv'
  BY <1>20 DEF WriteNormalized
<1>21. ASSUME NEW a \in Attempts, StoreRecord(a) PROVE EndInv' BY <1>21 DEF StoreRecord
<1>22. ASSUME NEW a \in Attempts, ReadResults(a) PROVE EndInv' BY <1>22 DEF ReadResults
<1>23. ASSUME NEW a \in Attempts, WriteSummary(a) PROVE EndInv' BY <1>23 DEF WriteSummary
<1>24. CASE AllPicked BY <1>24 DEF AllPicked
<1>25. CASE Drain BY <1>25 DEF Drain
<1>26. CASE DriverReads BY <1>26 DEF DriverReads
<1>27. CASE DriverWrites BY <1>27 DEF DriverWrites
<1>28. ASSUME NEW R \in SUBSET Attempts, MirrorCompleted(R) PROVE EndInv'
  BY <1>28 DEF MirrorCompleted
<1>29. CASE AggregateRun BY <1>29 DEF AggregateRun
<1>30. CASE Return BY <1>30 DEF Return
<1>31. CASE Crash BY <1>31 DEF Crash
<1>32. CASE UNCHANGED vars BY <1>32 DEF vars
<1>33. CASE InlineRaises BY <1>33 DEF InlineRaises
<1>34. CASE DrainRaises BY <1>34 DEF DrainRaises
<1>35. CASE ReturnRaised BY <1>35 DEF ReturnRaised
<1>36. ASSUME NEW a \in Attempts, WorkerRaises(a) PROVE EndInv'
  BY <1>36 DEF WorkerRaises, Called
<1> HIDE DEF EndInv
<1> QED BY <1>1, <1>2, <1>3, <1>4, <1>5, <1>6, <1>7, <1>8, <1>9, <1>10, <1>11, <1>12, <1>13,
  <1>14, <1>15, <1>16, <1>17, <1>18, <1>19, <1>20, <1>21, <1>22, <1>23, <1>24, <1>25, <1>26,
  <1>27, <1>28, <1>29, <1>30, <1>31, <1>32,
  <1>33, <1>34, <1>35, <1>36 DEF Next, DriverStep, WorkerStep

\* Nothing is settled twice: the step that stores an outcome finds none, or the
\* one it brings.
LEMMA OutcomeStep ==
  ASSUME Inv, [Next]_vars, NEW a \in Attempts, result[a] # "none", ~PickForced(a)
  PROVE  result'[a] = result[a]
<1> USE DEF Inv, TypeOK, OutcomesInv, records, disk, driver, pool, bounds, Goto, Leave
<1>1. ASSUME NEW b \in Attempts, WriteResult(b) PROVE result'[a] = result[a]
  BY <1>1 DEF WriteResult
<1>2. ASSUME NEW b \in Attempts, PickForced(b) PROVE result'[a] = result[a]
  <2>1. result' = [result EXCEPT ![b] = "none"] /\ result \in [Attempts -> Outcome \cup {"none"}]
    BY <1>2 DEF PickForced
  <2>2. b # a BY <1>2
  <2> QED BY <2>1, <2>2
<1>3. \/ UNCHANGED result
      \/ \E b \in Attempts : WriteResult(b) \/ PickForced(b)
  BY DEF Next, DriverStep, WorkerStep, Start, Pick, Capture, DriverRaises, Conformance,
         InlineDone, Look, PutRecord, Submit, MarkCapture, MarkDone, MirrorAttempt, TakeJob,
         CallAnswered, CallTransient, CallRefused, WriteStop, WriteNormalized, StoreRecord,
         ReadResults, WriteSummary, AllPicked, Drain, DriverReads, DriverWrites,
         MirrorCompleted, AggregateRun, Return, Crash, InlineRaises, DrainRaises,
         ReturnRaised, WorkerRaises, vars
<1> QED BY <1>1, <1>2, <1>3

\* Nothing is recorded, queued or under way at first.
LEMMA InvInit == Init => Inv
<1> SUFFICES ASSUME Init PROVE Inv OBVIOUS
<1> USE ModalAssumption DEF Init, Nowhere, NoView, Thread, Idle, Over, InProgress
<1>1. TypeOK
  <2>1. seen \in [Thread -> [counted : SUBSET Attempts, stop : BOOLEAN]] OBVIOUS
  <2>2. tries \in [Attempts -> 0 .. MaxTries] /\ calls \in [Attempts -> Nat] OBVIOUS
  <2>3. /\ unfit \subseteq Attempts
        /\ marker \in [Attempts -> {"none", "captured", "done"}]
        /\ normalized \in [Attempts -> {"none", "plain", "unqueued", "scored"}]
        /\ record \in [Attempts -> {"none", "in_progress", "completed", "stopped"}]
        /\ result \in [Attempts -> Outcome \cup {"none"}]
        /\ saved \in [Attempts -> Outcome \cup {"none"}]
        /\ verdict \in [Attempts -> Outcome \cup {"none"}]
    OBVIOUS
  <2>4. job \in [Attempts -> Place] /\ dpc \in DriverPlace BY DEF Place, DriverPlace
  <2>5. queue \in Seq(Attempts) OBVIOUS
  <2> QED BY <2>1, <2>2, <2>3, <2>4, <2>5 DEF TypeOK
<1>2. JobsInv BY DEF JobsInv, AtWork, Early, Closing
<1>3. CallsInv BY DEF CallsInv, CallsOf
<1>4. OutcomesInv BY DEF OutcomesInv
<1>5. RecordsInv /\ EndInv BY DEF RecordsInv, EndInv
<1> QED BY <1>1, <1>2, <1>3, <1>4, <1>5 DEF Inv

\* Every step of every thread keeps the invariant, and so does a kill.
LEMMA InvStep == Inv /\ [Next]_vars => Inv'
BY TypeStep, JobsStep, CallsStep, OutcomesStep, RecordsStep, EndStep DEF Inv

\* The invariant of driver, pool and records, from which the rest follows.
THEOREM Invariant == Spec => []Inv
BY InvInit, InvStep, PTL DEF Spec

-----------------------------------------------------------------------------

\* Every variable of the driver, the pool and the records keeps its type.
THEOREM TypeCorrect == Spec => []TypeOK
<1>1. Inv => TypeOK BY DEF Inv
<1> QED BY Invariant, <1>1, PTL

\* An attempt is not paid for twice: Known refuses a second submission, and one
\* submission keeps to the retry budget.
THEOREM PaidOnce == Spec => []OneBudgetPerAttempt
<1>1. Inv => OneBudgetPerAttempt BY DEF Inv, CallsInv, CallsOf, OneBudgetPerAttempt
<1> QED BY Invariant, <1>1, PTL

\* A run that ends leaves no record in progress that no kill had left.
THEOREM Settled == Spec => []RecordsSettled
<1>1. Inv => RecordsSettled
  BY DEF Inv, JobsInv, RecordsInv, Closing, Unsettled, Idle, RecordsSettled
<1> QED BY Invariant, <1>1, PTL

\* A run that ends has counted every outcome, whoever wrote the summary last.
THEOREM SummaryTrue == Spec => []FinishedSummaryIsTrue
<1>1. Inv => FinishedSummaryIsTrue BY DEF Inv, EndInv, FinishedSummaryIsTrue
<1> QED BY Invariant, <1>1, PTL

\* The mirror after the drain saves the outcomes that came late.
THEOREM LateSaved == Spec => []LateOutcomeSaved
<1>1. Inv => LateOutcomeSaved BY DEF Inv, EndInv, LateOutcomeSaved
<1> QED BY Invariant, <1>1, PTL

\* An outcome on disk is replaced by no other but in a forced rerun.
THEOREM OutcomeStays == Spec => OutcomeIsFinal
<1>1. Inv /\ [Next]_vars
        => [\A a \in Attempts :
              result[a] # "none" /\ ~PickForced(a) => result'[a] = result[a]]_vars
  BY OutcomeStep
<1> QED BY Invariant, <1>1, PTL DEF Spec, OutcomeIsFinal

-----------------------------------------------------------------------------
(* A run ends: what driver and pool still have to do goes down.            *)

\* The counts are natural numbers.
LEMMA WorkTypes ==
  ASSUME Inv, IsFiniteSet(Attempts)
  PROVE  /\ Cardinality(todo) \in Nat
         /\ PlaceWork \in 0 .. 17 /\ (dpc # "off" => PlaceWork > 0)
         /\ DriverWork \in Nat
         /\ \A a \in Attempts : JobWork(a) \in Nat
<1>1. Cardinality(todo) \in Nat
  BY FS_Subset, FS_CardinalityType DEF Inv, TypeOK
<1>2. PlaceWork \in 0 .. 17 /\ (dpc # "off" => PlaceWork > 0)
  BY DEF PlaceWork, Inv, TypeOK, DriverPlace
<1>3. DriverWork \in Nat BY <1>1, <1>2 DEF DriverWork
<1>4. ASSUME NEW a \in Attempts PROVE JobWork(a) \in Nat
  <2>1. tries[a] \in 0 .. MaxTries /\ MaxTries \in Nat BY ModalAssumption DEF Inv, TypeOK
  <2> QED BY <2>1 DEF JobWork
<1> QED BY <1>1, <1>2, <1>3, <1>4

\* Every step of the driver, and the end of the process, does some of the
\* driver's work.
LEMMA DriverDown ==
  ASSUME Inv, IsFiniteSet(Attempts), dpc # "off",
         DriverStep \/ DriverRaises \/ Crash
  PROVE  DriverWork' < DriverWork
<1> USE DEF Goto, Leave
<1>1. IsFiniteSet(todo) /\ Cardinality(todo) \in Nat
  BY WorkTypes, FS_Subset DEF Inv, TypeOK
<1>2. PlaceWork \in 1 .. 17 /\ PlaceWork' \in 0 .. 17
  <2>1. PlaceWork' \in 0 .. 17 BY DEF PlaceWork
  <2> QED BY <2>1, WorkTypes
<1>3. ASSUME todo' = todo, PlaceWork' < PlaceWork PROVE DriverWork' < DriverWork
  BY <1>1, <1>2, <1>3 DEF DriverWork
<1>4. ASSUME NEW a \in Attempts, Pick(a) \/ PickForced(a) PROVE DriverWork' < DriverWork
  <2>1. a \in todo /\ todo' = todo \ {a} /\ dpc = "next"
    BY <1>4 DEF Pick, PickForced
  <2>2. Cardinality(todo') = Cardinality(todo) - 1 BY <1>1, <2>1, FS_RemoveElement
  <2>3. PlaceWork = 9 BY <2>1 DEF PlaceWork
  <2> QED BY <1>1, <1>2, <2>2, <2>3 DEF DriverWork
<1>5. CASE Return \/ ReturnRaised \/ Crash
  <2>1. todo' = {} /\ dpc' = "off" BY <1>5 DEF Return, ReturnRaised, Crash
  <2>2. Cardinality(todo') = 0 BY <2>1, FS_EmptySet
  <2>3. PlaceWork' = 0 BY <2>1 DEF PlaceWork
  <2> QED BY <1>1, <1>2, <2>2, <2>3 DEF DriverWork
<1>6. ASSUME NEW b \in BOOLEAN, Capture(b) PROVE DriverWork' < DriverWork
  BY <1>3, <1>6 DEF Capture, PlaceWork
<1>7. ASSUME NEW b \in BOOLEAN, MirrorAttempt(b) PROVE DriverWork' < DriverWork
  BY <1>3, <1>7 DEF MirrorAttempt, PlaceWork
<1>8. CASE Conformance \/ InlineDone \/ InlineRaises \/ DriverRaises
  BY <1>3, <1>8 DEF Conformance, InlineDone, InlineRaises, DriverRaises, PlaceWork
<1>9. CASE Look \/ PutRecord \/ Submit \/ MarkCapture \/ MarkDone
  BY <1>3, <1>9 DEF Look, PutRecord, Submit, MarkCapture, MarkDone, PlaceWork
<1>10. CASE AllPicked \/ Drain \/ DrainRaises \/ DriverReads \/ DriverWrites \/ AggregateRun
  BY <1>3, <1>10 DEF AllPicked, Drain, DrainRaises, DriverReads, DriverWrites, AggregateRun,
     PlaceWork
<1>11. ASSUME NEW R \in SUBSET Attempts, MirrorCompleted(R) PROVE DriverWork' < DriverWork
  BY <1>3, <1>11 DEF MirrorCompleted, PlaceWork
<1> QED
  BY <1>4, <1>5, <1>6, <1>7, <1>8, <1>9, <1>10, <1>11 DEF DriverStep

\* What a step of the pool does to the work that is left.
OneJobDown ==
  \E a \in Attempts :
    /\ JobWork(a)' < JobWork(a)
    /\ \A b \in Attempts \ {a} : JobWork(b)' = JobWork(b)

\* A step of the pool leaves the driver's work alone and does some of one job.
LEMMA PoolDown ==
  ASSUME Inv, TakeJob \/ \E a \in Attempts : WorkerStep(a)
  PROVE  DriverWork' = DriverWork /\ OneJobDown
<1>1. dpc' = dpc /\ todo' = todo
  BY DEF TakeJob, WorkerStep, CallAnswered, CallTransient, CallRefused, WriteStop,
     WriteResult, WriteNormalized, StoreRecord, ReadResults, WriteSummary, WorkerRaises,
     driver
<1>2. DriverWork' = DriverWork BY <1>1 DEF DriverWork, PlaceWork
<1>3. MaxTries \in Nat \ {0} BY ModalAssumption
<1>4. /\ job \in [Attempts -> Place] /\ tries \in [Attempts -> 0 .. MaxTries]
      /\ queue \in Seq(Attempts)
  BY DEF Inv, TypeOK
<1>5. CASE TakeJob
  <2>1. PICK a \in Attempts : a = Head(queue) /\ job[a] = "queued"
    BY <1>4, <1>5 DEF TakeJob, Inv, JobsInv
  <2>2. job' = [job EXCEPT ![a] = "calling"] /\ tries' = [tries EXCEPT ![a] = 0]
    BY <1>5, <2>1 DEF TakeJob
  <2>3. JobWork(a) = MaxTries + 6 /\ JobWork(a)' = MaxTries + 5
    BY <1>3, <1>4, <2>1, <2>2 DEF JobWork
  <2>4. \A b \in Attempts \ {a} : JobWork(b)' = JobWork(b)
    BY <1>4, <2>1, <2>2 DEF JobWork
  <2>5. JobWork(a)' < JobWork(a) BY <1>3, <2>3
  <2> QED BY <1>2, <2>1, <2>4, <2>5 DEF OneJobDown
<1>6. ASSUME NEW a \in Attempts, WorkerStep(a) PROVE OneJobDown
  <2>1. \A b \in Attempts \ {a} : job'[b] = job[b] /\ tries'[b] = tries[b]
    BY <1>4, <1>6
       DEF WorkerStep, CallAnswered, CallTransient, CallRefused, WriteStop, WriteResult,
           WriteNormalized, StoreRecord, ReadResults, WriteSummary, WorkerRaises
  <2>2. \A b \in Attempts \ {a} : JobWork(b)' = JobWork(b) BY <2>1 DEF JobWork
  <2>3. job[a] = "calling" => tries[a] < MaxTries BY DEF Inv, CallsInv, CallsOf
  <2>4. tries[a] \in 0 .. MaxTries BY <1>4
  <2>5. JobWork(a)' < JobWork(a)
    <3> USE <1>3, <1>4, <2>3, <2>4 DEF JobWork
    <3>1. ASSUME NEW o \in Outcome, CallAnswered(a, o) PROVE JobWork(a)' < JobWork(a)
      BY <3>1 DEF CallAnswered
    <3>2. CASE CallTransient(a) BY <3>2 DEF CallTransient
    <3>3. CASE CallRefused(a) BY <3>3 DEF CallRefused
    <3>4. CASE WriteStop(a) \/ WriteResult(a) \/ WriteNormalized(a)
      BY <3>4 DEF WriteStop, WriteResult, WriteNormalized
    <3>5. CASE StoreRecord(a) BY <3>5 DEF StoreRecord
    <3>6. CASE ReadResults(a) BY <3>6 DEF ReadResults
    <3>7. CASE WriteSummary(a) BY <3>7 DEF WriteSummary
    <3>8. CASE WorkerRaises(a) BY <3>8 DEF WorkerRaises
    <3> QED BY <1>6, <3>1, <3>2, <3>3, <3>4, <3>5, <3>6, <3>7, <3>8 DEF WorkerStep
  <2> QED BY <2>2, <2>5 DEF OneJobDown
<1> QED BY <1>2, <1>5, <1>6

\* A run ends: with whatever attempts, answers, kills and exceptions, a step of
\* the driver takes DriverWork down, a natural number, and a step of the pool the
\* work of one job, natural numbers too.  (run_attempts is given a list, so
\* Attempts is finite.)
THEOREM RunsEnd ==
  ASSUME IsFiniteSet(Attempts)
  PROVE  /\ Spec => RunWindsDown
         /\ Spec => [](DriverWork \in Nat /\ \A a \in Attempts : JobWork(a) \in Nat)
<1>1. Inv /\ [Next]_vars
        => [dpc # "off" =>
              \/ DriverWork' < DriverWork
              \/ /\ DriverWork' = DriverWork
                 /\ \E a \in Attempts :
                      /\ JobWork(a)' < JobWork(a)
                      /\ \A b \in Attempts \ {a} : JobWork(b)' = JobWork(b)]_vars
  BY DriverDown, PoolDown DEF Next, Start, OneJobDown
<1>2. Inv => DriverWork \in Nat /\ \A a \in Attempts : JobWork(a) \in Nat
  BY WorkTypes
<1>3. Spec => RunWindsDown BY <1>1, Invariant, PTL DEF Spec, RunWindsDown
<1>4. Spec => [](DriverWork \in Nat /\ \A a \in Attempts : JobWork(a) \in Nat)
  BY <1>2, Invariant, PTL
<1> QED BY <1>3, <1>4
-----------------------------------------------------------------------------
(* Nobody waits for ever: driver, threads and lock.                        *)

\* A queued submission is in line, and the driver queues none that it runs itself.
Lined ==
  /\ \A a \in Attempts : job[a] = "queued" => \E i \in 1 .. Len(queue) : queue[i] = a
  /\ dpc = "inline" => job[cur] # "queued"

\* A step of the driver lets the line be, or puts one attempt at its end.
LEMMA LinedDriver == ASSUME Inv, Lined, DriverStep PROVE Lined'
<1> USE DEF Goto
<1>1. ASSUME UNCHANGED <<job, queue>>, dpc' # "inline" PROVE Lined'
  BY <1>1 DEF Lined
<1>2. ASSUME NEW a \in Attempts, PickForced(a) \/ Pick(a) PROVE Lined'
  BY <1>1, <1>2 DEF PickForced, Pick, pool
<1>3. ASSUME NEW b \in BOOLEAN, Capture(b) \/ MirrorAttempt(b) PROVE Lined'
  BY <1>1, <1>3 DEF Capture, MirrorAttempt, pool
<1>4. CASE Conformance
  <2>1. cur \in Attempts BY <1>4 DEF Conformance, Inv, JobsInv, AtWork, Early
  <2>2. CASE cur \in unfit
    <3>1. /\ job' = [job EXCEPT ![cur] = "result"] /\ UNCHANGED <<queue, cur>>
      BY <1>4, <2>2 DEF Conformance
    <3> QED BY <2>1, <3>1 DEF Lined, Inv, TypeOK
  <2>3. CASE cur \notin unfit BY <1>1, <1>4, <2>3 DEF Conformance
  <2> QED BY <2>2, <2>3
<1>5. CASE Submit
  <2>1. cur \in Attempts BY <1>5 DEF Submit, Inv, JobsInv, AtWork, Early
  <2>2. queue \in Seq(Attempts) /\ queue' = Append(queue, cur)
    BY <1>5 DEF Submit, Inv, TypeOK
  <2>3. /\ Len(queue) \in Nat /\ Len(queue') = Len(queue) + 1
        /\ queue'[Len(queue) + 1] = cur
        /\ \A i \in 1 .. Len(queue) : queue'[i] = queue[i]
    BY <2>1, <2>2
  <2>4. ASSUME NEW a \in Attempts, job'[a] = "queued"
        PROVE  \E i \in 1 .. Len(queue') : queue'[i] = a
    <3>1. CASE a = cur
      <4>1. Len(queue) + 1 \in 1 .. Len(queue') BY <2>3
      <4> QED BY <2>3, <3>1, <4>1
    <3>2. CASE a # cur
      <4>1. job[a] = "queued" BY <1>5, <2>4, <3>2 DEF Submit, Inv, TypeOK
      <4>2. PICK i \in 1 .. Len(queue) : queue[i] = a BY <4>1 DEF Lined
      <4>3. i \in 1 .. Len(queue') BY <2>3
      <4> QED BY <2>3, <4>2, <4>3
    <3> QED BY <3>1, <3>2
  <2>5. dpc' = "mark" BY <1>5 DEF Submit
  <2> QED BY <2>4, <2>5 DEF Lined
<1>6. CASE Return \/ ReturnRaised
  BY <1>6 DEF Return, ReturnRaised, Leave, Nowhere, Lined
<1>7. CASE \/ InlineDone \/ InlineRaises \/ Look \/ PutRecord \/ MarkCapture \/ MarkDone
           \/ AllPicked \/ Drain \/ DrainRaises
  BY <1>1, <1>7 DEF InlineDone, InlineRaises, Look, PutRecord, MarkCapture, MarkDone,
     AllPicked, Drain, DrainRaises, pool
<1>8. CASE DriverReads \/ DriverWrites \/ AggregateRun
           \/ \E R \in SUBSET Attempts : MirrorCompleted(R)
  BY <1>1, <1>8 DEF DriverReads, DriverWrites, AggregateRun, MirrorCompleted, pool
<1> QED BY <1>2, <1>3, <1>4, <1>5, <1>6, <1>7, <1>8 DEF DriverStep

\* A thread takes the first in line and leaves the others in it.
LEMMA LinedTaken == ASSUME Inv, Lined, TakeJob PROVE Lined'
<1> USE DEF Lined
<1>1. queue \in Seq(Attempts) /\ queue # <<>> /\ queue' = Tail(queue)
  BY DEF TakeJob, Inv, TypeOK
<1>2. /\ Len(queue') = Len(queue) - 1 /\ Len(queue) \in Nat
      /\ \A i \in 1 .. Len(queue') : queue'[i] = queue[i + 1]
  BY <1>1
<1>3. job' = [job EXCEPT ![queue[1]] = "calling"] /\ UNCHANGED <<dpc, cur>>
      /\ job \in [Attempts -> Place]
  BY <1>1 DEF TakeJob, driver, Inv, TypeOK
<1>4. ASSUME NEW a \in Attempts, job'[a] = "queued"
      PROVE  \E i \in 1 .. Len(queue') : queue'[i] = a
  <2>1. a # queue[1] /\ job[a] = "queued" BY <1>3, <1>4
  <2>2. PICK i \in 1 .. Len(queue) : queue[i] = a BY <2>1
  <2>3. i # 1 /\ i \in Nat BY <2>1, <2>2
  <2>4. i - 1 \in 1 .. Len(queue') /\ (i - 1) + 1 = i BY <1>2, <2>3
  <2>5. queue'[i - 1] = a BY <1>2, <2>2, <2>4
  <2> QED BY <2>4, <2>5
<1>5. dpc' = "inline" => job'[cur'] # "queued" BY <1>3
<1> QED BY <1>4, <1>5

\* A thread at work puts nothing in line.
LEMMA LinedWorker ==
  ASSUME Inv, Lined, NEW a \in Attempts, WorkerStep(a) PROVE Lined'
<1>1. /\ UNCHANGED <<queue, dpc, cur>>
      /\ \E p \in Place \ {"queued"} : job' = [job EXCEPT ![a] = p]
  BY DEF Inv, TypeOK, Place, driver, WorkerStep, CallAnswered, CallTransient, CallRefused,
     WriteStop, WriteResult, WriteNormalized, StoreRecord, ReadResults, WriteSummary,
     WorkerRaises
<1> QED BY <1>1 DEF Lined, Inv, TypeOK

\* Every step keeps the line.
LEMMA LinedStep == ASSUME Inv, Lined, [Next]_vars PROVE Lined'
<1>1. ASSUME NEW F \in SUBSET Attempts, Start(F) PROVE Lined'
  BY <1>1 DEF Start, Lined, pool
<1>2. CASE DriverRaises BY <1>2 DEF DriverRaises, Goto, Lined, pool
<1>3. CASE Crash BY <1>3 DEF Crash, Leave, Nowhere, Lined
<1>4. CASE UNCHANGED vars BY <1>4 DEF vars, driver, pool, Lined
<1> QED BY <1>1, <1>2, <1>3, <1>4, LinedDriver, LinedTaken, LinedWorker DEF Next

\* For any number of attempts, threads and tries, some thread can go on until a
\* run is over: what waits for the pool waits for threads that do not wait.
THEOREM NoDeadlock == Spec => []SomeoneGoesOn
<1>1. Init => Lined BY DEF Init, Lined, Nowhere
<1>2. Inv /\ Lined => SomeoneGoesOn
  <2> SUFFICES ASSUME Inv, Lined, dpc # "off", DriverWaits,
                      \A a \in Attempts : ThreadWaits(a)
               PROVE  ~PoolWaits
    BY DEF SomeoneGoesOn
  <2>1. ~LockTaken BY DEF DriverWaits, LockTaken
  <2>2. \A a \in Attempts : job[a] \in {"none", "queued", "raised"}
    BY <2>1 DEF ThreadWaits, Over
  <2>3. \E a \in Attempts : job[a] = "queued"
    <3>1. CASE dpc \in {"drain", "exiting"} BY <2>2, <3>1 DEF DriverWaits, Over
    <3>2. CASE dpc = "inline"
      <4>1. cur \in Attempts BY <3>2 DEF Inv, JobsInv, AtWork
      <4> QED BY <2>2, <3>2, <4>1 DEF DriverWaits, Over
    <3> QED BY <3>1, <3>2 DEF DriverWaits
  <2>4. queue # <<>> BY <2>3 DEF Lined
  <2>5. Busy = {} BY <2>2 DEF Busy, Over
  <2>6. Cardinality(Busy) = 0 BY <2>5, FS_EmptySet
  <2> QED BY <2>4, <2>6, ModalAssumption DEF PoolWaits
<1> QED BY Invariant, <1>1, LinedStep, <1>2, PTL DEF Spec
=============================================================================
