---------------------------- MODULE ConfigPolicy ----------------------------
(***************************************************************************)
(* controller/materializer.py: what the production configuration of the    *)
(* agent becomes when a run takes its snapshot of it.                      *)
(*                                                                         *)
(* A production configuration is a record                                  *)
(*   agents    a function from agent names to agents                       *)
(*   extras    the plugins, MCP servers and skills it brings along         *)
(*   provider  the self-hosted provider: endpoint, request options         *)
(* and an agent is a record                                                *)
(*   word    its permission, when that is a bare word, or "rules"          *)
(*   rules   a function from permission keys to actions                    *)
(*   prompt  [kind, file]: "inline" text, or a reference to a file that is *)
(*           "present", "gone", or "outside" of the configuration          *)
(* The options of a run: requested, the primary agent, and endpoint (""    *)
(* for none), qwen (the model is one), streaming (the debug knob is set).  *)
(***************************************************************************)
EXTENDS Naturals, FiniteSets, TLC

Action == {"allow", "ask", "deny"}

KeepSubagents     == {"orchestrator", "investigator", "auditor"}
StripSubagents    == {"general", "explore", "test_runner", "web-search", "docs"}
PrimaryCandidates == <<"pm", "build", "plan">>
StripTools        == {"webfetch", "compress", "compress_map", "playwright",
                      "browser", "mcp"}
DenyKeys          == StripTools \ {"playwright"}

\* HEADLESS_SAFE_PERMISSION_OVERRIDES: no one is there to answer a question.
ForcedAllow == {"read", "edit", "bash"}
ForcedDeny  == {"external_directory", "doom_loop", "question"}
Headless ==
  [k \in ForcedAllow \cup ForcedDeny |-> IF k \in ForcedAllow THEN "allow" ELSE "deny"]

QwenOverlays == {"prompts/pm.txt", "prompts/orchestrator.txt"}

-----------------------------------------------------------------------------
\* _choose_primary_agent: the first candidate that is defined; "" for none.
Candidates(agents) == {i \in 1..3 : PrimaryCandidates[i] \in DOMAIN agents}

Primary(agents, requested) ==
  IF requested # "" THEN requested
  ELSE IF Candidates(agents) = {} THEN ""
  ELSE PrimaryCandidates[CHOOSE i \in Candidates(agents) :
                           \A j \in Candidates(agents) : i <= j]

Kept(primary) == {primary, "compaction"} \cup KeepSubagents

\* _sanitize_permissions: rules about stripped tools are dropped.
Sanitize(rules) == [k \in DOMAIN rules \ StripTools |-> rules[k]]

\* _apply_agent_overrides: the forced rules win, the denials fill in what is
\* not said.  A permission that is a bare word is left alone.
Policy(agent) ==
  IF agent.word # "rules" THEN agent
  ELSE LET own == Sanitize(agent.rules) IN
       [agent EXCEPT !.rules =
          [k \in DOMAIN Headless \cup DOMAIN own \cup DenyKeys |->
             IF k \in DOMAIN Headless THEN Headless[k]
             ELSE IF k \in DOMAIN own THEN own[k]
             ELSE "deny"]]

\* _prompt_reference: what there is to object to in the prompts of agents.
BadPrompt(config, names, kinds) ==
  \E n \in names : config.agents[n].prompt.kind \in kinds

Prompts(config, names) ==
  {config.agents[n].prompt.file :
     n \in {m \in names : config.agents[m].prompt.kind # "inline"}}

\* The agents of the snapshot.
KeptOf(config, options) == Kept(Primary(config.agents, options.requested))

\* materialize_config objects to nothing when it reads the configuration.  An agent
\* that is dropped may name a file that is gone, but not one outside.
Readable(config, options) ==
  LET kept == KeptOf(config, options) IN
  /\ kept \subseteq DOMAIN config.agents
  /\ ~BadPrompt(config, DOMAIN config.agents \ kept, {"outside"})

\* It objects to nothing when it comes to copy the prompts, either.
Acceptable(config, options) ==
  /\ Readable(config, options)
  /\ ~BadPrompt(config, KeptOf(config, options), {"outside", "gone"})

\* _copy_prompt_files: where the text of each copied prompt comes from.
CopiedPrompts(config, names, qwen) ==
  [p \in Prompts(config, names) |->
     IF qwen /\ p \in QwenOverlays THEN "qwen" ELSE "production"]

\* _build_request_options: what a request says, whatever production says.
ForcedRequest == {"parallelToolCalls", "min_p", "presence_penalty",
                  "repetition_penalty", "extra_body"}

\* _configure_selfhost_provider: an endpoint that is not given stays, as do
\* request options the benchmark has no opinion on.
Provider(provider, options) ==
  [endpoint     |-> IF options.endpoint = "" THEN provider.endpoint ELSE options.endpoint,
   nonStreaming |-> ~options.streaming,
   request      |-> [k \in ForcedRequest |-> "benchmark"] @@ provider.request]

\* strip-diff-manifest.json.  nonStreaming is a literal there.
Manifest(config, primary, copied) ==
  LET removed == DOMAIN config.agents \ Kept(primary) IN
  [primary      |-> primary,
   kept         |-> Kept(primary),
   removed      |-> removed,
   stripped     |-> [n \in Kept(primary) |->
                       DOMAIN config.agents[n].rules \cap StripTools],
   uncopied     |-> Prompts(config, removed) \ DOMAIN copied,
   extras       |-> config.extras,
   nonStreaming |-> TRUE]

\* materialize_config: the snapshot of an acceptable configuration.
Materialize(config, options) ==
  LET primary == Primary(config.agents, options.requested)
      kept    == KeptOf(config, options)
      copied  == CopiedPrompts(config, kept, options.qwen)
  IN [agents    |-> [n \in kept |-> Policy(config.agents[n])],
      disabled  |-> StripSubagents \ kept,
      extras    |-> {},
      prompts   |-> copied,
      provider  |-> Provider(config.provider, options),
      manifest  |-> Manifest(config, primary, copied)]

-----------------------------------------------------------------------------
\* A reading of the policy that does not follow its construction: whatever
\* production says, the agent can do its work in its own tree, asks no one for
\* one of the permissions it needs, and has no stripped tool it could use.
Unattended(agent) ==
  /\ \A k \in ForcedAllow \cup ForcedDeny :
       k \in DOMAIN agent.rules /\ agent.rules[k] # "ask"
  /\ \A k \in ForcedAllow : agent.rules[k] = "allow"
  /\ \A k \in DOMAIN agent.rules \cap StripTools : agent.rules[k] = "deny"
  /\ DenyKeys \subseteq DOMAIN agent.rules
=============================================================================
