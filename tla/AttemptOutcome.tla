---------------------------- MODULE AttemptOutcome ----------------------------
(***************************************************************************)
(* What a reader of a run root may rely on, without files, phases or       *)
(* leases: an attempt has no result until one is published, a published    *)
(* result is that of the latest execution, stays as it is, and is          *)
(* withdrawn only by an invocation that was told to; what the agent left   *)
(* in its worktree is kept until the result is archived.                   *)
(***************************************************************************)
EXTENDS Naturals

CONSTANT Attempts

VARIABLES
  status,      \* "open", "published", or "withdrawn": no promise is made
  executions,  \* executions of the agent so far
  result,      \* the execution whose result is published, 0 if none is
  archived,    \* the execution whose result is promised to be in the backup
  kept,        \* attempts whose worktree is there, whole
  granted      \* attempts the invocation under way may withdraw

outcomeVars == <<status, executions, result, archived, kept, granted>>

OutcomeInit ==
  /\ status = [a \in Attempts |-> "open"]
  /\ executions = [a \in Attempts |-> 0]
  /\ result = [a \in Attempts |-> 0]
  /\ archived = [a \in Attempts |-> 0]
  /\ kept = {} /\ granted = {}

Invoke(F) ==
  /\ granted' = F
  /\ UNCHANGED <<status, executions, result, archived, kept>>

\* A worktree is made for an attempt without a result.
Prepare(a) ==
  /\ status[a] # "published"
  /\ kept' = kept \cup {a}
  /\ UNCHANGED <<status, executions, result, archived, granted>>

Execute(a) ==
  /\ status[a] # "published"
  /\ executions' = [executions EXCEPT ![a] = @ + 1]
  /\ kept' = kept \cup {a}
  /\ UNCHANGED <<status, result, archived, granted>>

Publish(a) ==
  /\ status[a] = "open" /\ executions[a] > 0
  /\ status' = [status EXCEPT ![a] = "published"]
  /\ result' = [result EXCEPT ![a] = executions[a]]
  /\ UNCHANGED <<executions, archived, kept, granted>>

Archive(a) ==
  /\ status[a] = "published"
  /\ archived' = [archived EXCEPT ![a] = result[a]]
  /\ UNCHANGED <<status, executions, result, kept, granted>>

\* Nothing is discarded that only the worktree could tell.
Discard(a) ==
  /\ status[a] = "published" => archived[a] = result[a]
  /\ kept' = kept \ {a}
  /\ UNCHANGED <<status, executions, result, archived, granted>>

Withdraw(a) ==
  /\ a \in granted
  /\ status' = [status EXCEPT ![a] = "withdrawn"]
  /\ result' = [result EXCEPT ![a] = 0]
  /\ archived' = [archived EXCEPT ![a] = 0]
  /\ UNCHANGED <<executions, kept, granted>>

\* The withdrawal is complete: nothing is left, worktree included.
Reopen(a) ==
  /\ status[a] = "withdrawn"
  /\ status' = [status EXCEPT ![a] = "open"]
  /\ kept' = kept \ {a}
  /\ UNCHANGED <<executions, result, archived, granted>>

OutcomeNext ==
  \/ \E F \in SUBSET Attempts : Invoke(F)
  \/ \E a \in Attempts :
       \/ Prepare(a) \/ Execute(a) \/ Publish(a) \/ Archive(a)
       \/ Discard(a) \/ Withdraw(a) \/ Reopen(a)

OutcomeSpec == OutcomeInit /\ [][OutcomeNext]_outcomeVars

=============================================================================
