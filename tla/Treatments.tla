----------------------------- MODULE Treatments -----------------------------
(***************************************************************************)
(* The treatments of the research campaign: how the backend's settings     *)
(* build its chain of reasoning providers, what its health endpoint says   *)
(* of them, the configurations and plans of the six experiments, and what  *)
(* the executor of a trial compares before it starts an agent.             *)
(***************************************************************************)
EXTENDS Plans

Architectures == {"explicit_planner", "reactive_react"}
EvidenceModes == {"passive_only", "verification_enabled"}
TemporalModes == {"standard", "explicit_cause_effect"}
Stoppings == {"confidence_threshold", "unresolved_evidence"}

\* The settings of the backend that decide which agent it runs.  Its limits stand for
\* the calls without progress after which it stops, the retries and the timeouts of its
\* tools, as they are shipped or otherwise.
Settings ==
  [architecture: Architectures, temporal: TemporalModes, order: Orders, ordered: BOOLEAN,
   evidence: EvidenceModes, depth: 1 .. 1000, capped: BOOLEAN, stopping: Stoppings,
   compound: BOOLEAN, llm: {"deterministic", "local", "ollama"}, limits: {"shipped", "other"}]

DefaultSettings ==
  [architecture |-> "explicit_planner", temporal |-> "standard", order |-> "free",
   ordered |-> FALSE, evidence |-> "passive_only", depth |-> 20, capped |-> FALSE,
   stopping |-> "confidence_threshold", compound |-> FALSE, llm |-> "local",
   limits |-> "shipped"]

\* The local provider is the deterministic one unless a model was named.
ModelOf(llm) == IF llm \in {"deterministic", "local"} THEN "deterministic" ELSE "ollama"

\* AgentService: which decorators are wrapped around the provider.
ChainOf(s, calls) ==
  [architecture |-> s.architecture, model |-> ModelOf(s.llm),
   order |-> IF s.ordered THEN s.order ELSE "none",
   verified |-> s.evidence = "verification_enabled",
   cap |-> IF s.capped THEN s.depth ELSE 0,
   temporal |-> s.temporal = "explicit_cause_effect",
   compound |-> s.compound,
   unresolved |-> s.stopping = "unresolved_evidence",
   calls |-> calls]

\* Every decorator leaves its mark in the provider's name.
Marks(chain) ==
  (IF chain.order # "none" THEN {"tool-order-controlled-v1"} ELSE {})
  \cup (IF chain.verified THEN {"active-verification-v1"} ELSE {})
  \cup (IF chain.cap > 0 THEN {"retrieval-depth-cap-v1"} ELSE {})
  \cup (IF chain.temporal THEN {"temporal-cause-effect-v1"} ELSE {})
  \cup (IF chain.compound THEN {"compound-evidence-plan-v1"} ELSE {})
  \cup (IF chain.unresolved THEN {"unresolved-evidence-stop-v1"} ELSE {})

\* GET /agent/health: nothing of the limits.
Health(s) ==
  [architecture |-> s.architecture, provider |-> Marks(ChainOf(s, 0)),
   temporal |-> s.temporal, order |-> s.order, ordered |-> s.ordered,
   evidence |-> s.evidence, stopping |-> s.stopping, compound |-> s.compound,
   depth |-> s.depth, capped |-> s.capped, llm |-> s.llm]

-----------------------------------------------------------------------------
(* Configurations, plans and trials. *)

Configurations ==
  [architecture: Architectures, budget: 1 .. 200, order: Orders, evidence: EvidenceModes,
   temporal: TemporalModes, stopping: Stoppings]

Baseline ==
  [architecture |-> "explicit_planner", budget |-> 15, order |-> "free",
   evidence |-> "passive_only", temporal |-> "standard", stopping |-> "confidence_threshold"]

\* The one field of the configuration that an experiment may vary.
Dimension ==
  [planning_difficulty |-> "architecture", investigation_budget |-> "budget",
   tool_order |-> "order", passive_vs_verification |-> "evidence",
   temporal_reasoning |-> "temporal", compound_handling |-> "stopping"]

Experiments == DOMAIN Dimension

Difficulties == {"easy", "medium", "hard", "adversarial", "compound"}
Splits == {"dev", "validation", "hidden_test"}

Cell(id, configuration, difficulties) ==
  [id |-> id, configuration |-> configuration, difficulties |-> difficulties]

\* ExperimentPlan.validate_controlled_comparison.
ValidPlan(plan) ==
  LET target == Dimension[plan.experiment]
      Configuration(i) == plan.cells[i].configuration
  IN /\ \A i, j \in DOMAIN plan.cells :
          /\ i # j => plan.cells[i].id # plan.cells[j].id
          /\ [Configuration(i) EXCEPT ![target] = Configuration(j)[target]] = Configuration(j)
     /\ Cardinality({Configuration(i)[target] : i \in DOMAIN plan.cells}) >= 2
     /\ plan.experiment = "compound_handling" =>
          \A i \in DOMAIN plan.cells : plan.cells[i].difficulties = {"compound"}

\* One cell per value of the experiment's dimension, on top of the baseline.
CellsOver(experiment, values, difficulties) ==
  [i \in DOMAIN values |->
     Cell(values[i], [Baseline EXCEPT ![Dimension[experiment]] = values[i]], difficulties)]

PlanOver(experiment, values, split, difficulties) ==
  [experiment |-> experiment, split |-> split,
   cells |-> CellsOver(experiment, values, difficulties)]

\* build_phase8_plans.
Phase8Plan(experiment) ==
  CASE experiment = "planning_difficulty" ->
         PlanOver(experiment, <<"reactive_react", "explicit_planner">>, "validation", Difficulties)
    [] experiment = "investigation_budget" ->
         PlanOver(experiment, <<5, 10, 15, 20>>, "validation", Difficulties)
    [] experiment = "tool_order" ->
         PlanOver(experiment, <<"free", "deployment_first", "symptom_first", "adaptive">>,
                  "validation", Difficulties)
    [] experiment = "passive_vs_verification" ->
         PlanOver(experiment, <<"passive_only", "verification_enabled">>, "validation", Difficulties)
    [] experiment = "temporal_reasoning" ->
         PlanOver(experiment, <<"standard", "explicit_cause_effect">>, "validation", Difficulties)
    [] experiment = "compound_handling" ->
         PlanOver(experiment, <<"confidence_threshold", "unresolved_evidence">>, "hidden_test",
                  {"compound"})

\* Mutant: trials of the cells of one plan are not told apart.
TrialOfAnyCell(plan, cell, scenario) ==
  [experiment |-> plan.experiment, cell |-> plan.cells[1].id, scenario |-> scenario.id,
   split |-> plan.split, difficulty |-> scenario.difficulty,
   configuration |-> plan.cells[1].configuration]

\* make_trial_identity: the identity is a function of the plan, the cell with its
\* configuration and the scenario, never of the time or the run.
Trial(plan, cell, scenario) ==
  [experiment |-> plan.experiment, cell |-> cell.id, scenario |-> scenario.id,
   split |-> plan.split, difficulty |-> scenario.difficulty,
   configuration |-> cell.configuration]

\* ExperimentRunner.enumerate_trials for one selected cell; scenarios are in the
\* order of their ids.
Enumerated(plan, cell, scenarios) ==
  LET enabled == Only(scenarios, {i \in DOMAIN scenarios :
                                    scenarios[i].difficulty \in cell.difficulties})
  IN [i \in DOMAIN enabled |-> [trial |-> Trial(plan, cell, enabled[i]), scenario |-> enabled[i]]]

EnumerationAllowed(plan, cell, scenarios) ==
  \A i \in DOMAIN scenarios :
    scenarios[i].difficulty \in cell.difficulties => scenarios[i].split = plan.split

-----------------------------------------------------------------------------
(* LiveTrialExecutor, before the agent is started. *)

\* _validate_supported_configuration.
Supported(trial) ==
  /\ trial.configuration.evidence # "passive_only" => trial.experiment = "passive_vs_verification"
  /\ trial.configuration.stopping # "confidence_threshold" => trial.experiment = "compound_handling"

\* Mutant: the names of the treatments are compared, not the marks of the providers.
HealthByName(trial, health) ==
  LET c == trial.configuration IN
  /\ health.temporal = c.temporal
  /\ health.order = c.order
  /\ health.evidence = c.evidence
  /\ health.stopping = c.stopping

\* _runtime_health: what the backend says of itself is what the trial declares.
\* Neither the cap on records nor the model is compared, and the limits are not told.
HealthMatches(trial, health) ==
  LET c == trial.configuration
      Marked(mark, expected) == (mark \in health.provider) = expected
  IN /\ health.architecture = c.architecture
     /\ health.temporal = c.temporal
     /\ Marked("temporal-cause-effect-v1", c.temporal = "explicit_cause_effect")
     /\ health.ordered = (trial.experiment = "tool_order")
     /\ health.order = c.order
     /\ Marked("tool-order-controlled-v1", trial.experiment = "tool_order")
     /\ health.evidence = c.evidence
     /\ Marked("active-verification-v1", c.evidence = "verification_enabled")
     /\ health.compound = (trial.experiment = "compound_handling")
     /\ Marked("compound-evidence-plan-v1", trial.experiment = "compound_handling")
     /\ health.stopping = c.stopping
     /\ Marked("unresolved-evidence-stop-v1", c.stopping = "unresolved_evidence")
=============================================================================
