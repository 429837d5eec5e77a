---------------------------- MODULE ModalPipeline ----------------------------
(***************************************************************************)
(* controller/modal_eval.py under the run loop: the driver thread captures *)
(* attempts and enqueues their patches, a pool of worker threads calls the *)
(* evaluator, stores the outcomes and rewrites summary.json.  Threads meet *)
(* in submissions.json (under a file lock), in the account-stop file and   *)
(* in summary.json (no lock).  The process may be killed at any step, a    *)
(* thread or the driver may raise; the records on disk are all that the    *)
(* next process knows.                                                     *)
(*                                                                         *)
(* SETUP and RUN touch none of this state: their failures are those of     *)
(* "capture".                                                              *)
(***************************************************************************)
EXTENDS Naturals, Sequences, FiniteSets

CONSTANTS
  Attempts,
  None,
  Workers,        \* threads of the pool (worker_count)
  MaxTries,       \* calls per submission (ModalRetryPolicy.max_attempts)
  MaxCrashes,     \* bound on kills of the process
  MaxFailures,    \* bound on exceptions, of the driver and of the threads
  MaxForced       \* bound on invocations with --force-rerun

ASSUME ModalAssumption ==
  /\ None \notin Attempts
  /\ Workers \in Nat \ {0} /\ MaxTries \in Nat \ {0}
  /\ MaxCrashes \in Nat /\ MaxFailures \in Nat /\ MaxForced \in Nat

\* "judged" stands for pass and fail, "error" for evaluator_timeout and
\* evaluator_hard_error, which are handled alike; "infra" is
\* modal_infrastructure_failure, which a client may also answer itself.
Outcome == {"judged", "error", "infra"}

VARIABLES
  unfit,      \* attempts whose single-row bundle fails conformance, fixed
  marker,      \* marker[a]: "none", "captured", "done"
  normalized,  \* "none", "plain" (queued), "unqueued", "scored" (modal_eval)
  record,      \* submissions.json: "none", "in_progress", "completed", ...
  result,      \* modal-result.json: "none" or an outcome
  stop,        \* account-stop.json exists
  summary,     \* [counted, stop]: the modal_evaluation of summary.json
  saved        \* the outcome in the backup of the attempt

\* The driver thread.
VARIABLES dpc, cur, todo, force

\* The pool: job[a] is the place in _run_submission, seen what
\* update_run_summary has aggregated for the thread (None is the driver).
VARIABLES job, queue, tries, verdict, seen

\* calls: evaluator calls made for the attempt under this run id.
\* reached: attempts the last mirror got through to the backup.
\* lost: attempts whose record was in progress when a process was killed or had
\* left by an exception.
VARIABLES calls, reached, lost, crashes, failures, forced

records == <<record, result, stop>>
disk    == <<unfit, marker, normalized, records, summary, saved>>
driver  == <<dpc, cur, todo, force>>
pool    == <<job, queue, tries, verdict>>
bounds  == <<lost, crashes, failures, forced>>
vars    == <<disk, driver, pool, seen, calls, reached, bounds>>

Thread == Attempts \cup {None}
NoView == [counted |-> {}, stop |-> FALSE]

Place == {"none", "queued", "calling", "result", "normal", "record", "read",
          "write", "stopfile", "stopread", "stopwrite", "stoprecord", "raised"}
DriverPlace == {"off", "next", "capture", "enqueue", "inline", "look", "put",
                "submit", "mark", "finish", "mirror", "drain", "read1",
                "write1", "mirrorall", "summary", "read2", "write2", "end",
                "exiting"}

TypeOK ==
  /\ unfit \subseteq Attempts
  /\ marker \in [Attempts -> {"none", "captured", "done"}]
  /\ normalized \in [Attempts -> {"none", "plain", "unqueued", "scored"}]
  /\ record \in [Attempts -> {"none", "in_progress", "completed", "stopped"}]
  /\ result \in [Attempts -> Outcome \cup {"none"}]
  /\ stop \in BOOLEAN
  /\ summary \in [counted : SUBSET Attempts, stop : BOOLEAN]
  /\ saved \in [Attempts -> Outcome \cup {"none"}]
  /\ dpc \in DriverPlace /\ cur \in Thread
  /\ todo \subseteq Attempts /\ force \subseteq Attempts
  /\ job \in [Attempts -> Place]
  /\ queue \in Seq(Attempts)
  /\ tries \in [Attempts -> 0 .. MaxTries]
  /\ verdict \in [Attempts -> Outcome \cup {"none"}]
  /\ seen \in [Thread -> [counted : SUBSET Attempts, stop : BOOLEAN]]
  /\ calls \in [Attempts -> Nat]
  /\ reached \subseteq Attempts /\ lost \subseteq Attempts
  /\ crashes \in Nat /\ failures \in Nat /\ forced \in Nat

Nowhere == [a \in Attempts |-> "none"]

Init ==
  /\ unfit \in SUBSET Attempts
  /\ marker = Nowhere /\ normalized = Nowhere /\ record = Nowhere
  /\ result = Nowhere /\ stop = FALSE /\ summary = NoView /\ saved = Nowhere
  /\ dpc = "off" /\ cur = None /\ todo = {} /\ force = {}
  /\ job = Nowhere /\ queue = <<>> /\ verdict = Nowhere
  /\ tries = [a \in Attempts |-> 0]
  /\ seen = [t \in Thread |-> NoView]
  /\ calls = [a \in Attempts |-> 0] /\ reached = {} /\ lost = {}
  /\ crashes = 0 /\ failures = 0 /\ forced = 0

\* The driver moves on; nothing else of it changes.
Goto(l) == dpc' = l /\ UNCHANGED <<cur, todo, force>>

Idle == \A a \in Attempts : job[a] = "none"

\* A submission is over when its thread has returned or raised.
Over(a) == job[a] \in {"none", "raised"}

-----------------------------------------------------------------------------
(* The driver: run_attempts and _capture around enqueue_attempt.           *)

Start(F) ==
  /\ dpc = "off"
  /\ F = {} \/ forced < MaxForced
  /\ forced' = IF F = {} THEN forced ELSE forced + 1
  /\ dpc' = "next" /\ todo' = Attempts /\ force' = F
  /\ UNCHANGED <<disk, cur, pool, seen, calls, reached, lost, crashes,
                 failures>>

\* clear_for_rerun removes the attempt's files; its submission record stays.
PickForced(a) ==
  /\ dpc = "next" /\ a \in todo /\ a \in force
  /\ cur' = a /\ todo' = todo \ {a} /\ dpc' = "capture"
  /\ marker' = [marker EXCEPT ![a] = "none"]
  /\ normalized' = [normalized EXCEPT ![a] = "none"]
  /\ result' = [result EXCEPT ![a] = "none"]
  /\ UNCHANGED <<unfit, record, stop, summary, saved, force, pool, seen, calls,
                 reached, bounds>>

Pick(a) ==
  /\ dpc = "next" /\ a \in todo /\ a \notin force
  /\ todo' = todo \ {a}
  /\ cur' = IF marker[a] = "done" THEN None ELSE a
  /\ dpc' = CASE marker[a] = "none"     -> "capture"
              [] marker[a] = "captured" -> "finish"
              [] OTHER                  -> "next"
  /\ UNCHANGED <<disk, force, pool, seen, calls, reached, bounds>>

\* The precheck decides whether the patch is queued for evaluation.
Capture(queued) ==
  /\ dpc = "capture"
  /\ normalized' = [normalized EXCEPT
                      ![cur] = IF queued THEN "plain" ELSE "unqueued"]
  /\ Goto(IF queued THEN "enqueue" ELSE "mark")
  /\ UNCHANGED <<unfit, marker, records, summary, saved, pool, seen, calls,
                 reached, bounds>>

\* A phase raises, enqueue_attempt does (no patch file, unusable task row) or
\* update_run_summary (usage_report): the run ends by the exception, and the
\* interpreter waits for the pool before it exits.
DriverRaises ==
  /\ dpc \in {"capture", "enqueue", "read1", "read2"} /\ failures < MaxFailures
  /\ failures' = failures + 1
  /\ Goto("exiting")
  /\ UNCHANGED <<disk, pool, seen, calls, reached, lost, crashes, forced>>

\* A bundle that fails conformance is recorded at once, on the driver thread,
\* through the same writes as a worker's answer.
Conformance ==
  /\ dpc = "enqueue"
  /\ IF cur \in unfit
       THEN /\ job' = [job EXCEPT ![cur] = "result"]
            /\ verdict' = [verdict EXCEPT ![cur] = "error"]
            /\ Goto("inline")
       ELSE UNCHANGED <<job, verdict>> /\ Goto("look")
  /\ UNCHANGED <<disk, queue, tries, seen, calls, reached, bounds>>

InlineDone ==
  /\ dpc = "inline" /\ job[cur] = "none"
  /\ Goto("mark")
  /\ UNCHANGED <<disk, pool, seen, calls, reached, bounds>>

\* What update_run_summary raises on the driver thread leaves _capture.
InlineRaises ==
  /\ dpc = "inline" /\ job[cur] = "raised"
  /\ Goto("exiting")
  /\ UNCHANGED <<disk, pool, seen, calls, reached, bounds>>

\* Mutant of Known: only a finished submission counts as known.
KnownCompleted(a) == record[a] = "completed"

\* A submission with any record at all is a duplicate.
Known(a) == record[a] # "none"

\* The lock is taken: stop file and record are read.
Look ==
  /\ dpc = "look"
  /\ Goto(IF stop \/ Known(cur) THEN "mark" ELSE "put")
  /\ UNCHANGED <<disk, pool, seen, calls, reached, bounds>>

\* The record is written and the lock given back.
PutRecord ==
  /\ dpc = "put"
  /\ record' = [record EXCEPT ![cur] = "in_progress"]
  /\ Goto("submit")
  /\ UNCHANGED <<unfit, marker, normalized, result, stop, summary, saved, pool,
                 seen, calls, reached, bounds>>

Submit ==
  /\ dpc = "submit"
  /\ queue' = Append(queue, cur)
  /\ job' = [job EXCEPT ![cur] = "queued"]
  /\ Goto("mark")
  /\ UNCHANGED <<disk, tries, verdict, seen, calls, reached, bounds>>

MarkCapture ==
  /\ dpc = "mark"
  /\ marker' = [marker EXCEPT ![cur] = "captured"]
  /\ Goto("finish")
  /\ UNCHANGED <<unfit, normalized, records, summary, saved, pool, seen, calls,
                 reached, bounds>>

MarkDone ==
  /\ dpc = "finish"
  /\ marker' = [marker EXCEPT ![cur] = "done"]
  /\ Goto("mirror")
  /\ UNCHANGED <<unfit, normalized, records, summary, saved, pool, seen, calls,
                 reached, bounds>>

\* The backup after a mirror of the attempts R: backup_paths lists the result
\* only if it exists, and neither rsync nor the copy deletes at the target.
MirroredOutcomes(R) ==
  [a \in Attempts |->
     IF a \in R /\ result[a] # "none" THEN result[a] ELSE saved[a]]

\* The attempt's own mirror: the evaluation may not be there yet.
MirrorAttempt(reachable) ==
  /\ dpc = "mirror"
  /\ saved' = MirroredOutcomes(IF reachable THEN {cur} ELSE {})
  /\ dpc' = "next" /\ cur' = None
  /\ UNCHANGED <<unfit, marker, normalized, records, summary, todo, force,
                 pool, seen, calls, reached, bounds>>

-----------------------------------------------------------------------------
(* A worker: _run_submission, _evaluate_with_retry, _write_result.         *)

\* The attempts a thread of the pool is at work on.
Busy ==
  {a \in Attempts : /\ job[a] # "queued" /\ ~Over(a)
                     /\ ~(dpc = "inline" /\ cur = a)}

\* The pool is first in, first out.
TakeJob ==
  /\ queue # <<>> /\ Cardinality(Busy) < Workers
  /\ queue' = Tail(queue)
  /\ job' = [job EXCEPT ![Head(queue)] = "calling"]
  /\ tries' = [tries EXCEPT ![Head(queue)] = 0]
  /\ UNCHANGED <<disk, driver, verdict, seen, calls, reached, bounds>>

Called(a) == calls' = [calls EXCEPT ![a] = @ + 1]

\* The evaluator answers, or reports a timeout or a hard error of its own.
CallAnswered(a, o) ==
  /\ job[a] = "calling"
  /\ Called(a)
  /\ verdict' = [verdict EXCEPT ![a] = o]
  /\ job' = [job EXCEPT ![a] = "result"]
  /\ UNCHANGED <<disk, driver, queue, tries, seen, reached, bounds>>

\* Mutant of CallTransient: a retry is not counted.
CallTransientUncounted(a) ==
  /\ job[a] = "calling"
  /\ Called(a)
  /\ UNCHANGED <<disk, driver, pool, seen, reached, bounds>>

\* Mutant of CallTransient: one try more than the budget.
CallTransientOneMore(a) ==
  /\ job[a] = "calling"
  /\ Called(a)
  /\ tries' = [tries EXCEPT ![a] = @ + 1]
  /\ IF tries[a] >= MaxTries
       THEN /\ verdict' = [verdict EXCEPT ![a] = "infra"]
            /\ job' = [job EXCEPT ![a] = "result"]
       ELSE UNCHANGED <<verdict, job>>
  /\ UNCHANGED <<disk, driver, queue, seen, reached, bounds>>

\* A transient error is retried until the budget is used up.
CallTransient(a) ==
  /\ job[a] = "calling"
  /\ Called(a)
  /\ tries' = [tries EXCEPT ![a] = @ + 1]
  /\ IF tries[a] + 1 >= MaxTries
       THEN /\ verdict' = [verdict EXCEPT ![a] = "infra"]
            /\ job' = [job EXCEPT ![a] = "result"]
       ELSE UNCHANGED <<verdict, job>>
  /\ UNCHANGED <<disk, driver, queue, seen, reached, bounds>>

\* _run_submission catches ModalClientError only.  What else the client raises
\* (no result file, no JSON in it), what usage_report raises, and the outcome
\* file that a forced rerun unlinks while aggregate_modal_results reads it, end
\* the submission where it is; the future keeps the exception.
WorkerRaises(a) ==
  /\ job[a] \in {"calling", "read", "stopread"} /\ failures < MaxFailures
  /\ failures' = failures + 1
  /\ IF job[a] = "calling" THEN Called(a) ELSE UNCHANGED calls
  /\ job' = [job EXCEPT ![a] = "raised"]
  /\ UNCHANGED <<disk, driver, queue, tries, verdict, seen, reached, lost,
                 crashes, forced>>

\* Expired auth, no credit: the run's submissions are to stop.
CallRefused(a) ==
  /\ job[a] = "calling"
  /\ Called(a)
  /\ job' = [job EXCEPT ![a] = "stopfile"]
  /\ UNCHANGED <<disk, driver, queue, tries, verdict, seen, reached, bounds>>

WriteStop(a) ==
  /\ job[a] = "stopfile"
  /\ stop' = TRUE
  /\ job' = [job EXCEPT ![a] = "stopread"]
  /\ UNCHANGED <<unfit, marker, normalized, record, result, summary, saved,
                 driver, queue, tries, verdict, seen, calls, reached, bounds>>

WriteResult(a) ==
  /\ job[a] = "result"
  /\ result' = [result EXCEPT ![a] = verdict[a]]
  /\ job' = [job EXCEPT ![a] = "normal"]
  /\ UNCHANGED <<unfit, marker, normalized, record, stop, summary, saved,
                 driver, queue, tries, verdict, seen, calls, reached, bounds>>

WriteNormalized(a) ==
  /\ job[a] = "normal"
  /\ normalized' = [normalized EXCEPT ![a] = "scored"]
  /\ job' = [job EXCEPT ![a] = "record"]
  /\ UNCHANGED <<unfit, marker, records, summary, saved, driver, queue, tries,
                 verdict, seen, calls, reached, bounds>>

\* Mutant of LockTaken: the driver keeps the lock while it drains.
LockTakenByDrain == dpc \in {"put", "drain"}

\* _locked_state: between its look at submissions.json and its record there the
\* driver has the lock.
LockTaken == dpc = "put"

\* _store_submission_state waits for the lock.
StoreRecord(a) ==
  /\ job[a] \in {"record", "stoprecord"} /\ ~LockTaken
  /\ record' = [record EXCEPT
                  ![a] = IF job[a] = "record" THEN "completed" ELSE "stopped"]
  /\ job' = [job EXCEPT ![a] = IF @ = "record" THEN "read" ELSE "none"]
  /\ UNCHANGED <<unfit, marker, normalized, result, stop, summary, saved,
                 driver, queue, tries, verdict, seen, calls, reached, bounds>>

\* update_run_summary: aggregate_modal_results and the stop file are read ...
View == [counted |-> {a \in Attempts : result[a] # "none"}, stop |-> stop]

ReadResults(a) ==
  /\ job[a] \in {"read", "stopread"}
  /\ seen' = [seen EXCEPT ![a] = View]
  /\ job' = [job EXCEPT ![a] = IF @ = "read" THEN "write" ELSE "stopwrite"]
  /\ UNCHANGED <<disk, driver, queue, tries, verdict, calls, reached, bounds>>

\* ... and summary.json is replaced by what was read, whatever it holds now.
WriteSummary(a) ==
  /\ job[a] \in {"write", "stopwrite"}
  /\ summary' = seen[a]
  /\ seen' = [seen EXCEPT ![a] = NoView]
  /\ job' = [job EXCEPT ![a] = IF @ = "write" THEN "none" ELSE "stoprecord"]
  /\ UNCHANGED <<unfit, marker, normalized, records, saved, driver, queue,
                 tries, verdict, calls, reached, bounds>>

-----------------------------------------------------------------------------
(* The tail of run_attempts.                                               *)

AllPicked ==
  /\ dpc = "next" /\ todo = {}
  /\ Goto("drain")
  /\ UNCHANGED <<disk, pool, seen, calls, reached, bounds>>

\* Mutant of Drain: the pool is not waited for.
DrainNow ==
  /\ dpc = "drain"
  /\ Goto("read1")
  /\ UNCHANGED <<disk, pool, seen, calls, reached, bounds>>

\* Mutant of Drain: it waits, and passes over what a future raised.
DrainQuiet ==
  /\ dpc = "drain" /\ \A a \in Attempts : Over(a)
  /\ Goto("read1")
  /\ job' = Nowhere
  /\ UNCHANGED <<disk, queue, tries, verdict, seen, calls, reached, bounds>>

\* drain returns when every future has its result.
Drain ==
  /\ dpc = "drain" /\ Idle
  /\ Goto("read1")
  /\ UNCHANGED <<disk, pool, seen, calls, reached, bounds>>

\* future.result() raises again what a thread raised.  (The futures are asked in
\* the order of submission; that decides no more than when it happens.)
DrainRaises ==
  /\ dpc = "drain" /\ \E a \in Attempts : job[a] = "raised"
  /\ Goto("exiting")
  /\ UNCHANGED <<disk, pool, seen, calls, reached, bounds>>

DriverReads ==
  /\ dpc \in {"read1", "read2"}
  /\ seen' = [seen EXCEPT ![None] = View]
  /\ Goto(IF dpc = "read1" THEN "write1" ELSE "write2")
  /\ UNCHANGED <<disk, pool, calls, reached, bounds>>

DriverWrites ==
  /\ dpc \in {"write1", "write2"}
  /\ summary' = seen[None]
  /\ seen' = [seen EXCEPT ![None] = NoView]
  /\ Goto(IF dpc = "write1" THEN "mirrorall" ELSE "end")
  /\ UNCHANGED <<unfit, marker, normalized, records, saved, pool, calls,
                 reached, bounds>>

\* _mirror_completed_attempts: the backup is reached for the attempts R.
MirrorCompleted(R) ==
  /\ dpc = "mirrorall"
  /\ R \subseteq {a \in Attempts : marker[a] = "done"}
  /\ saved' = MirroredOutcomes(R)
  /\ reached' = R
  /\ Goto("summary")
  /\ UNCHANGED <<unfit, marker, normalized, records, summary, pool, seen,
                 calls, bounds>>

\* Mutant of AggregateRun: the summary is not updated once more.
AggregateRunLast ==
  /\ dpc = "summary"
  /\ summary' = NoView
  /\ Goto("end")
  /\ UNCHANGED <<unfit, marker, normalized, records, saved, pool, seen, calls,
                 reached, bounds>>

\* write_summary knows nothing of the evaluation and drops it.
AggregateRun ==
  /\ dpc = "summary"
  /\ summary' = NoView
  /\ Goto("read2")
  /\ UNCHANGED <<unfit, marker, normalized, records, saved, pool, seen, calls,
                 reached, bounds>>

Leave ==
  /\ dpc' = "off" /\ cur' = None /\ todo' = {} /\ force' = {}
  /\ job' = Nowhere /\ queue' = <<>> /\ verdict' = Nowhere
  /\ tries' = [a \in Attempts |-> 0]
  /\ seen' = [t \in Thread |-> NoView]
  /\ reached' = {}

Return ==
  /\ dpc = "end"
  /\ Leave
  /\ UNCHANGED <<disk, calls, bounds>>

InProgress == {a \in Attempts : record[a] = "in_progress"}

\* The process of a run that raised leaves when the pool has done its work.
ReturnRaised ==
  /\ dpc = "exiting" /\ \A a \in Attempts : Over(a)
  /\ lost' = lost \cup InProgress
  /\ Leave
  /\ UNCHANGED <<disk, calls, crashes, failures, forced>>

Crash ==
  /\ dpc # "off" /\ crashes < MaxCrashes
  /\ crashes' = crashes + 1
  /\ lost' = lost \cup InProgress
  /\ Leave
  /\ UNCHANGED <<disk, calls, failures, forced>>

-----------------------------------------------------------------------------

DriverStep ==
  \/ \E a \in Attempts : PickForced(a) \/ Pick(a)
  \/ \E b \in BOOLEAN : Capture(b) \/ MirrorAttempt(b)
  \/ Conformance \/ InlineDone \/ InlineRaises \/ Look \/ PutRecord \/ Submit
  \/ MarkCapture \/ MarkDone \/ AllPicked \/ Drain \/ DrainRaises
  \/ DriverReads \/ DriverWrites
  \/ \E R \in SUBSET Attempts : MirrorCompleted(R)
  \/ AggregateRun \/ Return \/ ReturnRaised

\* A step of the thread that runs the submission of a.
WorkerStep(a) ==
  \/ \E o \in Outcome : CallAnswered(a, o)
  \/ CallTransient(a) \/ CallRefused(a) \/ WriteStop(a) \/ WriteResult(a)
  \/ WriteNormalized(a) \/ StoreRecord(a) \/ ReadResults(a) \/ WriteSummary(a)
  \/ WorkerRaises(a)

Next ==
  \/ \E F \in SUBSET Attempts : Start(F)
  \/ DriverStep \/ TakeJob \/ DriverRaises \/ Crash
  \/ \E a \in Attempts : WorkerStep(a)

Spec == Init /\ [][Next]_vars

-----------------------------------------------------------------------------

\* However often the process is killed, the capture repeated or a rerun forced,
\* no attempt is paid for twice: the calls of all its submissions stay within
\* one retry budget (enqueue_attempt, _evaluate_with_retry).
OneBudgetPerAttempt == \A a \in Attempts : calls[a] <= MaxTries

\* A run that returns has settled every submission of its own: what it has on
\* record as in progress was cut off in an earlier process, by a kill or by an
\* exception of a thread, which no run outlives: drain raises it again
\* (drain, _store_submission_state).
RecordsSettled ==
  dpc = "end" =>
    \A a \in Attempts : record[a] = "in_progress" => a \in lost

\* A finished run counts every outcome on disk and tells of an account stop,
\* although every thread rewrote the summary without a lock and write_summary
\* dropped what they had written (drain, update_run_summary).
FinishedSummaryIsTrue == dpc = "end" => summary = View

\* An outcome that arrived after the attempt's own mirror is in the backup by
\* the end of the run (_mirror_completed_attempts after the drain).
LateOutcomeSaved ==
  dpc = "end" =>
    \A a \in reached : result[a] # "none" => saved[a] = result[a]

\* An outcome, once stored, is never replaced by another unless the attempt
\* is run again by force.
OutcomeIsFinal ==
  [][\A a \in Attempts :
       result[a] # "none" /\ ~PickForced(a) => result'[a] = result[a]]_vars

\* What the specification of the pipeline says (criterion 14): a finished run
\* has submitted each attempt that was queued, if the account allows it.
QueuedIsSubmitted ==
  dpc = "end" /\ ~stop =>
    \A a \in Attempts \ unfit :
      normalized[a] = "plain" => calls[a] > 0

-----------------------------------------------------------------------------
(* Why a run ends: nobody waits for ever, and every step does some of the  *)
(* work that is left.  (Nobody has to start another run.)                  *)

\* The driver waits for the pool (drain, the exit of the interpreter) or for
\* the writes of an outcome it records itself.
DriverWaits ==
  \/ dpc \in {"drain", "exiting"} /\ \E a \in Attempts : ~Over(a)
  \/ dpc = "inline" /\ ~Over(cur)

\* A submission waits for a thread, or its thread for the lock of
\* submissions.json.
ThreadWaits(a) ==
  \/ job[a] = "queued" \/ Over(a)
  \/ job[a] \in {"record", "stoprecord"} /\ LockTaken

\* The pool has nothing to take on, or no thread for it.
PoolWaits == queue = <<>> \/ Cardinality(Busy) >= Workers

\* In a run that is under way the driver, the pool or a thread can go on: those
\* that wait never wait for each other (drain, _store_submission_state).
SomeoneGoesOn ==
  dpc # "off" => ~DriverWaits \/ ~PoolWaits \/ \E a \in Attempts : ~ThreadWaits(a)

\* Steps of the driver with the attempt in hand and from there to the end.
PlaceWork ==
  CASE dpc = "capture" -> 17
    [] dpc = "enqueue" -> 16
    [] dpc = "look" -> 15
    [] dpc = "put" -> 14
    [] dpc \in {"inline", "submit"} -> 13
    [] dpc = "mark" -> 12
    [] dpc = "finish" -> 11
    [] dpc = "mirror" -> 10
    [] dpc = "next" -> 9
    [] dpc = "drain" -> 8
    [] dpc = "read1" -> 7
    [] dpc = "write1" -> 6
    [] dpc = "mirrorall" -> 5
    [] dpc = "summary" -> 4
    [] dpc = "read2" -> 3
    [] dpc = "write2" -> 2
    [] dpc \in {"end", "exiting"} -> 1
    [] OTHER -> 0

DriverWork == 10 * Cardinality(todo) + PlaceWork

\* Steps of the thread that runs the submission of a, retries included.
JobWork(a) ==
  CASE job[a] = "queued" -> MaxTries + 6
    [] job[a] = "calling" -> MaxTries + 5 - tries[a]
    [] job[a] = "result" -> 5
    [] job[a] \in {"normal", "stopfile"} -> 4
    [] job[a] \in {"record", "stopread"} -> 3
    [] job[a] \in {"read", "stopwrite"} -> 2
    [] job[a] \in {"write", "stoprecord"} -> 1
    [] OTHER -> 0

\* Whatever the threads do, in whatever order, each step of a run does some of
\* the driver's work, or leaves it alone and does some of one submission's: no
\* retry, no wait for the pool and no rewriting of the summary starts over
\* (_evaluate_with_retry, drain, update_run_summary).  Both are counted in
\* natural numbers, so a run is over after finitely many steps.
RunWindsDown ==
  [][dpc # "off" =>
       \/ DriverWork' < DriverWork
       \/ /\ DriverWork' = DriverWork
          /\ \E a \in Attempts :
               /\ JobWork(a)' < JobWork(a)
               /\ \A b \in Attempts \ {a} : JobWork(b)' = JobWork(b)]_vars

=============================================================================
