---------------------------- MODULE ParetoCampaign ----------------------------
(***************************************************************************)
(* The optimization of phase 9: a script for every configuration of a      *)
(* frozen grid runs the validation scenarios against the backend deployed  *)
(* for it and writes down its trials, and the report script draws the      *)
(* Pareto report from the artifacts it is given (scripts/phase9-pareto-*,  *)
(* researchlab/pareto_live.py, pareto_campaign.py).  There is no journal:  *)
(* a script that dies leaves nothing, and is run again from its start.     *)
(***************************************************************************)
EXTENDS Treatments, ParetoFront

CONSTANTS
  Grid,         \* the numbers of the configurations: 1 .. 8 in the code
  Scenarios,    \* the frozen validation cohort, in its order: 10 scenarios
  Control,      \* the scenario without a fault
  Catalogs,     \* the cohort of validation scenarios in each version of the catalog
  Fares,        \* how an agent may fare with each scenario
  Deployments,  \* settings that someone may deploy while a script runs
  MaxMoves,     \* bound: such deployments
  MaxUpgrades,  \* bound: changes of the catalog between scripts
  MaxDeaths,    \* bound: scripts that die or fail
  MaxReruns     \* bound: scripts started for a configuration that has its artifact

\* PARETO_CONFIGURATIONS.
Configuration(architecture, budget, depth, evidence) ==
  [architecture |-> architecture, budget |-> budget, depth |-> depth, evidence |-> evidence]

FrozenGrid ==
  <<Configuration("reactive_react", 5, 5, "passive_only"),
    Configuration("reactive_react", 5, 20, "verification_enabled"),
    Configuration("reactive_react", 15, 5, "verification_enabled"),
    Configuration("reactive_react", 15, 20, "passive_only"),
    Configuration("explicit_planner", 5, 5, "verification_enabled"),
    Configuration("explicit_planner", 5, 20, "passive_only"),
    Configuration("explicit_planner", 15, 5, "passive_only"),
    Configuration("explicit_planner", 15, 20, "verification_enabled")>>

\* The balanced half of all combinations: any two values of two dimensions meet
\* equally often.
Dimensions == {"architecture", "budget", "depth", "evidence"}
Meet(d, v, e, w) == Cardinality({i \in DOMAIN FrozenGrid : FrozenGrid[i][d] = v /\ FrozenGrid[i][e] = w})

ASSUME GridAssumption ==
  /\ Grid \subseteq DOMAIN FrozenGrid /\ Grid # {}
  /\ \A d \in Dimensions : \A e \in Dimensions \ {d} : \A i, j \in DOMAIN FrozenGrid :
       Meet(d, FrozenGrid[i][d], e, FrozenGrid[j][e]) = 2

ASSUME CohortAssumption ==
  /\ Scenarios \in Seq(STRING) /\ Scenarios # <<>> /\ Control \in ToSet(Scenarios)
  /\ ToSet(Scenarios) = DOMAIN Fares
  /\ Catalogs \in Seq(Seq(STRING)) /\ Catalogs # <<>>
  /\ \A s \in DOMAIN Fares : Fares[s] \subseteq
       [accuracy: Nat, named: BOOLEAN, money: Nat, tokens: Nat, calls: Nat, evidence: Nat]

ASSUME CampaignAssumption ==
  /\ Deployments \subseteq Settings
  /\ {MaxMoves, MaxUpgrades, MaxDeaths, MaxReruns} \subseteq Nat

VARIABLES
  backend,    \* the settings the backend runs with
  catalog,    \* the version of the benchmark catalog
  script,     \* the script that runs: its configuration, its place, the settings behind
              \* the health it has read, the version it has loaded and its trials
  artifacts,  \* what the script of each configuration has written down
  report,     \* the Pareto report
  runs,       \* agent runs made so far
  spent       \* what was used of each bound

vars == <<backend, catalog, script, artifacts, report, runs, spent>>

NoArtifact == [version |-> 0, checked |-> DefaultSettings, trials |-> <<>>]
Idle == [arm |-> 0, at |-> "idle", checked |-> DefaultSettings, version |-> 0, trials |-> <<>>]
NoReport == [version |-> 0]

Init ==
  /\ backend = DefaultSettings
  /\ catalog = 1
  /\ script = Idle
  /\ artifacts = [c \in Grid |-> NoArtifact]
  /\ report = NoReport
  /\ runs = 0
  /\ spent = [moves |-> 0, upgrades |-> 0, deaths |-> 0, reruns |-> 0]

Running == script.at # "idle"
Spend(bound) == spent' = [spent EXCEPT ![bound] = @ + 1]

-----------------------------------------------------------------------------
(* The script of one configuration. *)

\* The backend that the workflow deploys for a configuration.
Deployed(c) ==
  LET f == FrozenGrid[c] IN
  [DefaultSettings EXCEPT !.architecture = f.architecture, !.evidence = f.evidence,
                          !.depth = f.depth, !.capped = TRUE]

\* validate_pareto_catalog: no scenario of the validation split is missing or new.
\* In the workflow every configuration has a machine of its own; here they take turns
\* on one, in their order, so that a script may also find what another one deployed.
Begin(c) ==
  /\ ~Running /\ report = NoReport
  /\ ToSet(Catalogs[catalog]) = ToSet(Scenarios)
  /\ \A b \in Grid : b < c => artifacts[b] # NoArtifact
  /\ IF artifacts[c] = NoArtifact THEN UNCHANGED spent
     ELSE spent.reruns < MaxReruns /\ Spend("reruns")
  /\ backend' = Deployed(c)
  /\ script' = [Idle EXCEPT !.arm = c, !.at = "check", !.version = catalog]
  /\ UNCHANGED <<catalog, artifacts, report, runs>>

\* Mutant: the names of the treatments are compared, not the marks of the providers.
RuntimeHealthyByName(c, health) ==
  LET f == FrozenGrid[c] IN
  /\ health.architecture = f.architecture
  /\ health.temporal = "standard" /\ health.order = "free"
  /\ health.evidence = f.evidence /\ health.stopping = "confidence_threshold"

\* Mutant: the mark of the probes is expected in every configuration.
RuntimeHealthyMarked(c, health) ==
  health.architecture = FrozenGrid[c].architecture /\ "active-verification-v1" \in health.provider

\* _assert_runtime_health.
RuntimeHealthy(c, health) ==
  LET f == FrozenGrid[c] IN
  /\ health.architecture = f.architecture
  /\ health.llm = "local"
  /\ health.temporal = "standard"
  /\ health.order = "free" /\ ~health.ordered
  /\ health.evidence = f.evidence
  /\ health.depth = f.depth /\ health.capped
  /\ health.stopping = "confidence_threshold"
  /\ ~health.compound
  /\ "retrieval-depth-cap-v1" \in health.provider
  /\ ("active-verification-v1" \in health.provider) = (f.evidence = "verification_enabled")
  /\ health.provider \cap {"tool-order-controlled-v1", "temporal-cause-effect-v1",
                           "compound-evidence-plan-v1", "unresolved-evidence-stop-v1"} = {}

\* The health of the backend is read once, before the first trial.
Check ==
  /\ script.at = "check"
  /\ script' = IF RuntimeHealthy(script.arm, Health(backend))
               THEN [script EXCEPT !.at = "run", !.checked = backend] ELSE Idle
  /\ UNCHANGED <<backend, catalog, artifacts, report, runs, spent>>

\* What is recorded of a trial: the score and the costs of its agent run, whose tool
\* calls the budget of the configuration limits whatever the backend is.
TrialOf(scenario, fare, run, settings, budget) ==
  LET calls == IF fare.calls < budget THEN fare.calls ELSE budget IN
  [scenario |-> scenario, run |-> run, settings |-> settings,
   accuracy |-> fare.accuracy, money |-> fare.money, tokens |-> fare.tokens,
   calls |-> calls, evidence |-> IF fare.evidence < calls THEN fare.evidence ELSE calls,
   falsePositive |-> IF scenario # Control THEN "none" ELSE IF fare.named THEN "yes" ELSE "no"]

\* The next scenario is run with the budget of the configuration, by the backend that is
\* there now.
RunTrial ==
  /\ script.at = "run"
  /\ LET scenario == Scenarios[Len(script.trials) + 1] IN
     \E fare \in Fares[scenario] :
       LET trials == Append(script.trials, TrialOf(scenario, fare, runs + 1, backend,
                                                   FrozenGrid[script.arm].budget)) IN
       script' = [script EXCEPT !.trials = trials,
                                !.at = IF Len(trials) = Len(Scenarios) THEN "finish" ELSE "run"]
  /\ runs' = runs + 1
  /\ UNCHANGED <<backend, catalog, artifacts, report, spent>>

\* Mutant: the artifact of an earlier script is added to.
FinishAppending ==
  /\ script.at = "finish"
  /\ artifacts' = [artifacts EXCEPT ![script.arm] =
       [version |-> script.version, checked |-> script.checked,
        trials |-> @.trials \o script.trials]]
  /\ script' = Idle
  /\ UNCHANGED <<backend, catalog, report, runs, spent>>

\* The artifact is validated and written, over an earlier one.
Finish ==
  /\ script.at = "finish"
  /\ artifacts' = [artifacts EXCEPT ![script.arm] =
       [version |-> script.version, checked |-> script.checked, trials |-> script.trials]]
  /\ script' = Idle
  /\ UNCHANGED <<backend, catalog, report, runs, spent>>

\* The script dies, or a trial fails, with or without an agent run made for it.
Die ==
  /\ Running /\ spent.deaths < MaxDeaths
  /\ runs' \in {runs} \cup {runs + 1 : at \in {script.at} \cap {"run"}}
  /\ script' = Idle
  /\ Spend("deaths")
  /\ UNCHANGED <<backend, catalog, artifacts, report>>

\* Someone deploys the backend anew while a script needs it.
Deploy ==
  /\ script.at \in {"check", "run"} /\ spent.moves < MaxMoves
  /\ backend' \in Deployments \ {backend}
  /\ Spend("moves")
  /\ UNCHANGED <<catalog, script, artifacts, report, runs>>

\* The checkout of the catalog changes between two scripts.
Upgrade ==
  /\ ~Running /\ report = NoReport /\ spent.upgrades < MaxUpgrades
  /\ catalog' \in DOMAIN Catalogs \ {catalog}
  /\ Spend("upgrades")
  /\ UNCHANGED <<backend, script, artifacts, report, runs>>

-----------------------------------------------------------------------------
(* The report. *)

TotalOf(field, trials) == MapThenSumSet(LAMBDA i : trials[i][field], DOMAIN trials)

TotalsOf(c) ==
  LET trials == artifacts[c].trials IN
  [id |-> c, accuracy |-> TotalOf("accuracy", trials), money |-> TotalOf("money", trials),
   tokens |-> TotalOf("tokens", trials), calls |-> TotalOf("calls", trials),
   evidence |-> TotalOf("evidence", trials)]

\* validate_pareto_arm.
ValidArm(c) ==
  LET trials == artifacts[c].trials IN
  /\ Len(trials) = Len(Scenarios)
  /\ {t.scenario : t \in ToSet(trials)} = ToSet(Scenarios)

\* Mutant: the artifacts may come from different versions of the catalog.
RightArtifactsOfAnyVersion(given) ==
  /\ Len(given) = Cardinality(Grid)
  /\ \A i \in DOMAIN given : ValidArm(given[i])
  /\ ToSet(given) = Grid

Versions(given) == {artifacts[c].version : c \in ToSet(given)}

\* What the report script insists on before it adds anything up.
RightArtifacts(given) ==
  /\ Len(given) = Cardinality(Grid)
  /\ \A i \in DOMAIN given : ValidArm(given[i])
  /\ ToSet(given) = Grid
  /\ \A v, w \in Versions(given) : v = w

\* build_pareto_campaign_report: every pair of the grid and the cohort once, and a
\* false positive only where one is possible.
Accepts(pairs) ==
  /\ \A c \in Grid, s \in ToSet(Scenarios) :
       \E p \in pairs : {q \in pairs : q.arm = c /\ q.scenario = s} = {p}
  /\ \A p \in pairs : (p.scenario = Control) = (p.falsePositive # "none")

PairOf(c, t) ==
  [arm |-> c, scenario |-> t.scenario, run |-> t.run, falsePositive |-> t.falsePositive]

PairsOf(given) ==
  UNION {{PairOf(c, t) : t \in ToSet(artifacts[c].trials)} : c \in ToSet(given)}

\* The frontier from its cheapest configuration to its dearest.
Ordered(front) ==
  SetToSortSeq(front, LAMBDA p, q :
    \/ p.cost < q.cost
    \/ p.cost = q.cost /\ (p.accuracy > q.accuracy \/ (p.accuracy = q.accuracy /\ p.id < q.id)))

FalsePositives(pairs, c) == {p \in pairs : p.arm = c /\ p.falsePositive = "yes"}

Drawn(given) ==
  LET points == PointsOf({TotalsOf(c) : c \in Grid}) IN
  [version |-> CHOOSE v \in Versions(given) : TRUE,
   pairs |-> PairsOf(given), points |-> points,
   frontier |-> Ordered(Frontier(points)), best |-> Best(points),
   falsePositives |-> [c \in Grid |-> Cardinality(FalsePositives(PairsOf(given), c))]]

\* The artifacts are handed in, in their order or the other way round, or one twice.
InOrder == SetToSortSeq(Grid, LAMBDA c, d : c < d)
Handed == {InOrder, Reverse(InOrder), [i \in DOMAIN InOrder |-> IF i = 1 THEN InOrder[Len(InOrder)]
                                                               ELSE InOrder[i]]}

AllWritten == \A c \in Grid : artifacts[c] # NoArtifact

BuildReport ==
  /\ ~Running /\ report = NoReport /\ AllWritten
  /\ \E given \in Handed :
       /\ RightArtifacts(given) /\ Accepts(PairsOf(given))
       /\ report' = Drawn(given)
  /\ UNCHANGED <<backend, catalog, script, artifacts, runs, spent>>

Proceed == Check \/ RunTrial \/ Finish

Next == (\E c \in Grid : Begin(c)) \/ Proceed \/ Die \/ Deploy \/ Upgrade \/ BuildReport

Spec == Init /\ [][Next]_vars

\* A script that runs goes on, and the script of a configuration that is missing is
\* run by the workflow.
FairSpec ==
  /\ Spec
  /\ WF_vars(Proceed)
  /\ WF_vars(\E c \in Grid : artifacts[c] = NoArtifact /\ Begin(c))

-----------------------------------------------------------------------------
(* Properties. *)

Done == report # NoReport
RunsOf(c) == {t.run : t \in ToSet(artifacts[c].trials)}

Trials ==
  [scenario: ToSet(Scenarios), run: 1 .. runs, settings: Settings, accuracy: Nat, money: Nat,
   tokens: Nat, calls: Nat, evidence: Nat, falsePositive: {"none", "yes", "no"}]

\* Every variable has its type; a false positive is recorded of the control alone, and
\* no run was made twice.
TypeOK ==
  /\ backend \in Settings
  /\ catalog \in DOMAIN Catalogs
  /\ script \in [arm: Grid \cup {0}, at: {"idle", "check", "run", "finish"},
                 checked: Settings, version: Nat, trials: Seq(Trials)]
  /\ runs \in Nat
  /\ artifacts \in [Grid -> [version: Nat, checked: Settings, trials: Seq(Trials)]]
  /\ \A trials \in {script.trials} \cup {artifacts[c].trials : c \in Grid} :
       \A i \in DOMAIN trials :
         /\ (trials[i].falsePositive # "none") = (trials[i].scenario = Control)
         /\ \A j \in 1 .. i - 1 : trials[j].run < trials[i].run

\* Whatever scripts were repeated, died or were handed in twice: an artifact appears
\* as a whole, a repeated one replaces the runs of the first, and the report rests on
\* all the runs of all the artifacts and stays as it is (pareto_live.py 32-58).
Publication ==
  INSTANCE PublishedStudy
    WITH evidence <- [c \in Grid |-> RunsOf(c)],
         published <- IF Done THEN {p.run : p \in report.pairs} ELSE {}

StudyPublished == Publication!Spec

\* What is compared was measured on one version of the benchmark, on every scenario of
\* the cohort once in every configuration, whatever the catalog has become since.
ComparedOnOneBenchmark ==
  Done => /\ \A c \in Grid : artifacts[c].version = report.version
          /\ ToSet(Catalogs[report.version]) = ToSet(Scenarios)

\* A trial ran under the treatment of its configuration, up to the limits, which the health
\* does not tell, unless the backend was deployed anew after the one look at its health; the
\* budget holds even then.
TrialsUnderTreatment ==
  \A c \in Grid : \A t \in ToSet(artifacts[c].trials) :
    /\ t.settings = artifacts[c].checked => [t.settings EXCEPT !.limits = "shipped"] = Deployed(c)
    /\ t.calls <= FrozenGrid[c].budget /\ t.evidence <= t.calls

\* A configuration that is off the frontier is beaten by one that is on it, and along
\* the frontier more cost is more accuracy, also where configurations tie.
FrontierIsSound == Done => Covered(report.points) /\ Climbing(report.points)

\* The configuration called the best is one, and no other buys more accuracy for its
\* cost, although the code looks for it on the frontier alone.
BestIsBest ==
  Done => /\ Cardinality(report.best) = 1
          /\ \A p \in report.best : Unbeaten(p, report.points)

\* However often its scripts die, the grid is completed, unless the backend is deployed
\* over or the catalog no longer holds the cohort.
GridConcludes == [](spent.moves = 0 /\ ToSet(Catalogs[catalog]) = ToSet(Scenarios)) => <>AllWritten
=============================================================================
