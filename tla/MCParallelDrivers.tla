------------------------- MODULE MCParallelDrivers -------------------------
(***************************************************************************)
(* Instances of ParallelDrivers for TLC: production configurations, and    *)
(* the policy of ConfigPolicy compared with its independent reading.       *)
(***************************************************************************)
EXTENDS ParallelDrivers

CONSTANTS d1, d2, a1, a2

Symmetry == Permutations(Drivers) \cup Permutations(Attempts)

Agent(word, rules, kind, file) ==
  [word |-> word, rules |-> rules, prompt |-> [kind |-> kind, file |-> file]]

Ask(keys)   == [k \in keys |-> "ask"]
Allow(keys) == [k \in keys |-> "allow"]

Quiet == Agent("rules", Ask({}), "inline", "")

\* Rules that ask for what the agent needs and allow what the run strips.
MCProduction ==
  [agents |-> [n \in KeepSubagents \cup {"compaction", "plan", "docs"} |-> Quiet]
                @@ "build" :> Agent("rules", Ask({"bash"}) @@ Allow({"webfetch", "mcp"}),
                                    "present", "prompts/pm.txt"),
   extras |-> {"context7"},
   provider |-> [endpoint |-> "production", request |-> ("min_p" :> "production")]]

\* The auditor is left out; a prompt file of an agent that is kept is gone.
MCWithoutAuditor ==
  [MCProduction EXCEPT !.agents =
     [n \in DOMAIN @ \ {"auditor"} |-> @[n]]]
MCPromptGone == [MCProduction EXCEPT !.agents["auditor"].prompt = [kind |-> "gone", file |-> "x"]]

\* A permission that is a bare word is not touched.
MCWord == [MCProduction EXCEPT !.agents["auditor"].word = "ask"]

MCConfig == "sound" :> MCProduction @@ "broken" :> MCWithoutAuditor @@ "edited" :> MCWord

MCOptions == [requested |-> "", endpoint |-> "pod", qwen |-> TRUE, streaming |-> FALSE]

-----------------------------------------------------------------------------
SomeRules ==
  UNION {[keys -> Action] :
           keys \in SUBSET {"read", "question", "webfetch", "playwright", "list"}}

\* Policy and the independent reading agree for every agent whose permission is
\* a set of rules, and applying it twice changes nothing.
ASSUME PolicyUnattended ==
  \A r \in SomeRules :
    LET agent == Agent("rules", r, "inline", "") IN
    Unattended(Policy(agent)) /\ Policy(Policy(agent)) = Policy(agent)

\* Which configurations are accepted, which primary agent is taken, and where
\* the prompts come from.
ASSUME PolicyCases ==
  /\ Acceptable(MCProduction, MCOptions) /\ Acceptable(MCWord, MCOptions)
  /\ ~Acceptable(MCWithoutAuditor, MCOptions) /\ ~Acceptable(MCPromptGone, MCOptions)
  /\ ~Acceptable(MCProduction, [MCOptions EXCEPT !.requested = "pm"])
  /\ Primary(MCProduction.agents, "") = "build"
  /\ LET s == Materialize(MCProduction, MCOptions) IN
     /\ s.manifest.removed = {"plan", "docs"}
     /\ s.manifest.stripped["build"] = {"webfetch", "mcp"}
     /\ s.prompts = ("prompts/pm.txt" :> "qwen")
     /\ s.provider.endpoint = "pod" /\ s.provider.request["min_p"] = "benchmark"
     /\ s.manifest.nonStreaming = s.provider.nonStreaming
  /\ Materialize(MCWord, MCOptions).agents["auditor"].word = "ask"
=============================================================================
