------------------------------ MODULE Telemetry ------------------------------
(***************************************************************************)
(* controller/telemetry.py: the stateful pass that turns the event stream  *)
(* of an agent into steps with their tool calls, and the figures derived   *)
(* from them.  An event is a record whose kind is one of                   *)
(*   start   a step_start event                                            *)
(*   tool    a tool_use event, with name and sub (the subagent, or "")     *)
(*   step    a step_finish or model_step event: role, reason, the tokens   *)
(*           in, out and cached, and own, the tools it names itself        *)
(*   patch   the patch_diff event the adapter appends                      *)
(*   text    anything else; guard tells a search time-out message          *)
(***************************************************************************)
EXTENDS Naturals, Sequences, FiniteSets, TLC

ValidStepRole == {"pm", "orchestrator", "auditor", "investigator", "compaction"}

\* The searches whose time-out a message tells of.
Guard == {"none", "glob", "grep"}

Tool == [name : STRING, sub : STRING]

ToolEvent == [kind : {"tool"}, name : STRING, sub : STRING]

StepEvent ==
  [kind : {"step"}, role : STRING, reason : STRING, in : Nat, out : Nat, cached : Nat,
   own : Seq(Tool)]

\* The events of a stream whose patch_diff events carry a diff of Diff.
Event(Diff) ==
  [kind : {"start"}] \cup ToolEvent \cup StepEvent
    \cup [kind : {"text"}, guard : Guard] \cup [kind : {"patch"}, diff : Diff]

\* The aliases of the primary agent and every unknown role count as pm.
NormalizeRole(r) == IF r \in ValidStepRole THEN r ELSE "pm"

\* "task:<subagent>" for a delegation, the plain name for other tools.
ToolName(t) == IF t.name = "task" THEN <<"task", t.sub>> ELSE <<t.name, "">>

\* The names of the tools at the places that the sequence at lists.
ToolNames(t, at) == [i \in DOMAIN at |-> ToolName(t[at[i]])]

TextEvent(guard) == [kind |-> "text", guard |-> guard]

\* One line of stdout; a line cut by a kill is no JSON and becomes text.
ParseLine(line) == IF line.whole THEN line.event ELSE TextEvent("none")

ParseStream(lines) == [i \in DOMAIN lines |-> ParseLine(lines[i])]

CoerceStep(e, tools) ==
  [role |-> NormalizeRole(e.role), reason |-> e.reason,
   in |-> e.in, out |-> e.out, cached |-> e.cached, tools |-> tools]

OwnTools(e) == [i \in DOMAIN e.own |-> ToolName(e.own[i])]

Nothing == [steps |-> <<>>, pending |-> <<>>, guards |-> {}, patch |-> {}]

\* A step is finished: its tools are those it names itself, or the pending ones.
StepsWith(acc, e) ==
  Append(acc.steps, CoerceStep(e, IF e.own = <<>> THEN acc.pending ELSE OwnTools(e)))

\* Mutant of Absorb: a step_start does not reset the pending tools.
AbsorbKeepsPending(acc, e) ==
  [steps   |-> IF e.kind = "step" THEN StepsWith(acc, e) ELSE acc.steps,
   pending |-> IF e.kind = "tool" THEN Append(acc.pending, ToolName(e))
               ELSE IF e.kind = "step" THEN <<>> ELSE acc.pending,
   guards  |-> acc.guards \cup (IF e.kind = "text" THEN {e.guard} \ {"none"} ELSE {}),
   patch   |-> IF e.kind = "patch" THEN e.diff ELSE acc.patch]

\* The body of the loop of normalize_events.
Absorb(acc, e) ==
  [steps   |-> IF e.kind = "step" THEN StepsWith(acc, e) ELSE acc.steps,
   pending |-> IF e.kind = "tool" THEN Append(acc.pending, ToolName(e))
               ELSE IF e.kind \in {"start", "step"} THEN <<>> ELSE acc.pending,
   guards  |-> acc.guards \cup (IF e.kind = "text" THEN {e.guard} \ {"none"} ELSE {}),
   patch   |-> IF e.kind = "patch" THEN e.diff ELSE acc.patch]

\* What the loop holds after its first n events.
Pass(events) ==
  LET acc[n \in 0 .. Len(events)] ==
        IF n = 0 THEN Nothing ELSE Absorb(acc[n - 1], events[n])
  IN acc

Accumulate(events) == Pass(events)[Len(events)]

-----------------------------------------------------------------------------
(* Figures.                                                                *)

Sums(s) ==
  LET sum[n \in 0 .. Len(s)] == IF n = 0 THEN 0 ELSE sum[n - 1] + s[n]
  IN sum

Total(s) == Sums(s)[Len(s)]

\* A ratio is kept as a pair, the quotient and its rounding are left out.
Rate(n, d) == IF d = 0 THEN <<0, 1>> ELSE <<n, d>>

Calls(step) == {step.tools[i] : i \in DOMAIN step.tools}

Ins(steps)        == [i \in DOMAIN steps |-> steps[i].in]
Outs(steps)       == [i \in DOMAIN steps |-> steps[i].out]
Cacheds(steps)    == [i \in DOMAIN steps |-> steps[i].cached]
ToolCounts(steps) == [i \in DOMAIN steps |-> Len(steps[i].tools)]

\* steps[1:], which is empty when steps is.
Later(steps) == IF steps = <<>> THEN <<>> ELSE Tail(steps)

Delegated(steps) ==
  \E i \in DOMAIN steps : steps[i].role = "pm" /\ <<"task", "orchestrator">> \in Calls(steps[i])

Audited(steps) == \E i \in DOMAIN steps : <<"task", "auditor">> \in Calls(steps[i])

Normalize(events) ==
  LET acc   == Accumulate(events)
      steps == acc.steps
  IN [steps      |-> steps,
      step_count |-> Len(steps),
      tool_calls |-> Total(ToolCounts(steps)),
      tokens_in  |-> Total(Ins(steps)),
      tokens_out |-> Total(Outs(steps)),
      hit_rate   |-> Rate(Total(Cacheds(steps)), Total(Ins(steps))),
      hit_later  |-> Rate(Total(Cacheds(Later(steps))), Total(Ins(Later(steps)))),
      delegated  |-> Delegated(steps),
      full_loop  |-> Delegated(steps) /\ Audited(steps),
      compacted  |-> Cardinality({i \in DOMAIN steps : steps[i].role = "compaction"}),
      guards     |-> acc.guards,
      patch      |-> acc.patch]

\* max(0, ceil(n * 0.95) - 1) in integers; the list is not empty.
P95Index(n) == (19 * n + 19) \div 20 - 1

P95(values) ==
  IF values = <<>> THEN 0
  ELSE SortSeq(values, <)[P95Index(Len(values)) + 1]

\* Twice the median, which may fall halfway between two values.
Median2(values) ==
  LET s == SortSeq(values, <)
      n == Len(values)
  IN IF n = 0 THEN 0 ELSE s[(n + 1) \div 2] + s[n \div 2 + 1]

DistributionStats(values) == [median2 |-> Median2(values), p95 |-> P95(values)]

\* The run's figures from those of its attempts.
AggregateRun(attempts) ==
  LET counts == [i \in DOMAIN attempts |-> attempts[i].step_count]
      outs   == [i \in DOMAIN attempts |-> attempts[i].tokens_out]
      later  == [i \in DOMAIN attempts |-> Later(attempts[i].steps)]
  IN [attempts   |-> Len(attempts),
      step_count |-> Total(counts),
      tool_calls |-> Total([i \in DOMAIN attempts |-> attempts[i].tool_calls]),
      tokens_in  |-> Total([i \in DOMAIN attempts |-> attempts[i].tokens_in]),
      tokens_out |-> Total(outs),
      hit_later  |-> Rate(Total([i \in DOMAIN later |-> Total(Cacheds(later[i]))]),
                          Total([i \in DOMAIN later |-> Total(Ins(later[i]))])),
      steps_dist |-> DistributionStats(counts),
      out_dist   |-> DistributionStats(outs)]

-----------------------------------------------------------------------------
(* What the pass promises, said without a pass.                            *)

\* A finite set of numbers, in order.
InOrder(at) ==
  [n \in 1 .. Cardinality(at) |->
     CHOOSE i \in at : Cardinality({j \in at : j <= i}) = n]

\* Positions of the steps finished by the first n events.
StepsAt(events, n) == {k \in 1 .. n : events[k].kind = "step"}

\* Positions before k of the tool events that no start or end of a step
\* separates from it.
RanBefore(events, k) ==
  {i \in 1 .. k - 1 :
     /\ events[i].kind = "tool"
     /\ \A j \in i .. k - 1 : events[j].kind \notin {"start", "step"}}

ToolsOfStep(events, k) ==
  IF events[k].own = <<>> THEN ToolNames(events, InOrder(RanBefore(events, k)))
  ELSE OwnTools(events[k])

\* The steps that the first n events finish.
AttributedSteps(events, n) ==
  LET at == InOrder(StepsAt(events, n))
  IN [i \in DOMAIN at |-> CoerceStep(events[at[i]], ToolsOfStep(events, at[i]))]

\* A call is the step that makes it and its place among the calls of the step.
CallsOf(events, n) ==
  UNION {{k} \X DOMAIN ToolsOfStep(events, k) : k \in StepsAt(events, n)}
============================================================================
