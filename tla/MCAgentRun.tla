----------------------------- MODULE MCAgentRun -----------------------------
(* Instances of AgentRun for TLC, and checks of the pure operators against *)
(* definitions by other means over bounded inputs.                         *)
EXTENDS AgentRun

CONSTANTS fix, helper, plan

MCToolEvents ==
  {[kind |-> "tool", name |-> "task", sub |-> "orchestrator"]}

MCStepEvents ==
  {[kind |-> "step", role |-> "build", reason |-> "stop", in |-> 2, out |-> 1,
    cached |-> 1, own |-> <<>>],
   [kind |-> "step", role |-> "pm", reason |-> "stop", in |-> 1, out |-> 1, cached |-> 0,
    own |-> <<[name |-> "read", sub |-> ""]>>]}

\* A step that lists no tools of its own: what is pending becomes its tools,
\* and a task among them a delegation.
MCOneStep ==
  {[kind |-> "step", role |-> "pm", reason |-> "stop", in |-> 2, out |-> 1,
    cached |-> 1, own |-> <<>>]}

MCBinaries ==
  {[found |-> f, runs |-> TRUE, version |-> v, features |-> RequiredFeatures] :
     f \in BOOLEAN, v \in {<<2, 1, 6>>, <<2, 1, 7>>}}

Values == UNION {[1 .. n -> 1 .. 3] : n \in 0 .. 5}

\* The 95th percentile is the least value that 95 in 100 do not exceed.
ASSUME \A s \in Values : s # <<>> =>
  LET enough(v) == 20 * Cardinality({i \in DOMAIN s : s[i] <= v}) >= 19 * Len(s)
  IN /\ enough(P95(s))
     /\ \A i \in DOMAIN s : s[i] < P95(s) => ~enough(s[i])

\* As many values lie below the median as above it.
ASSUME \A s \in Values : s # <<>> =>
  /\ 2 * Cardinality({i \in DOMAIN s : 2 * s[i] < Median2(s)}) <= Len(s)
  /\ 2 * Cardinality({i \in DOMAIN s : 2 * s[i] > Median2(s)}) <= Len(s)

\* The figures of a run are those of its attempts put together.
ASSUME \A s, t \in UNION {[1 .. n -> MCStepEvents \cup MCToolEvents] : n \in 0 .. 3} :
  LET run == AggregateRun(<<Normalize(s), Normalize(t)>>)
      one == Normalize(s \o <<[kind |-> "start"]>> \o t)
  IN /\ run.step_count = one.step_count
     /\ run.tokens_in = one.tokens_in /\ run.tokens_out = one.tokens_out
============================================================================
