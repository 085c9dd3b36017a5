------------------------------ MODULE Studies ------------------------------
(***************************************************************************)
(* One study of the campaign from its first trial to its report: the       *)
(* scripts that run the arms against a backend deployed for each of them,  *)
(* the journal of trials, the store of scores, the artifacts of the arms   *)
(* and the report drawn from them.  Scripts run one at a time; what they do *)
(* in ChaosLab, and two of them at once, is ExperimentTrials' subject.     *)
(***************************************************************************)
EXTENDS StudyReports

CONSTANTS
  CohortOf,     \* the scenarios of each study, in the order of their ids; of the planning
                \* study those that its scripts select
  Outcomes,     \* how an agent may fare with each scenario: whether it has a hypothesis
                \* and is right, whether it stops before its plan is done
  Answers,      \* what a model may answer that is asked to plan for an incident
  Deployments,  \* settings that someone may deploy while a study runs
  MaxMoves,     \* bound: such deployments
  MaxDeaths,    \* bound: scripts that die
  MaxReruns     \* bound: scripts started for an arm that has its artifact

ASSUME StudiesAssumption ==
  /\ \A e \in Experiments :
       /\ CohortOf[e] \in Seq(ToSet(CohortOf[e]))
       /\ \A i, j \in DOMAIN CohortOf[e] : CohortOf[e][i].id = CohortOf[e][j].id => i = j
       /\ \A s \in ToSet(CohortOf[e]) : s.incident \in Incidents /\ s.difficulty \in Difficulties
  /\ \A s \in ToSet(CohortOf["planning_difficulty"]) :
       /\ s.split = SplitOf[s.difficulty]
       /\ Len(TierOf(CohortOf["planning_difficulty"], s.difficulty)) = PerTier
  /\ \A id \in DOMAIN Outcomes :
       Outcomes[id] \subseteq [right: BOOLEAN, found: BOOLEAN, early: BOOLEAN]
  /\ \A e \in Experiments : \A s \in ToSet(CohortOf[e]) :
       Answers[s.incident] \subseteq
         Seq([id: STRING, tool: STRING, service: STRING, about: STRING, limit: Nat, window: BOOLEAN])
  /\ Deployments \subseteq Settings
  /\ {MaxMoves, MaxDeaths, MaxReruns} \subseteq Nat

VARIABLES
  study,      \* the experiment
  backend,    \* the settings the backend runs with
  journal,    \* the status of each trial that was begun, and its outcome
  stored,     \* EvaluationLab: the outcome of each trial that was scored
  script,     \* the script that runs: its arm, its place, the next trial and the
              \* settings behind the health it has read
  artifacts,  \* the trials and outcomes that the script of each arm has written down
  report,     \* what the study reports
  runs,       \* agent runs made so far
  spent       \* what was used of each bound

vars == <<study, backend, journal, stored, script, artifacts, report, runs, spent>>

NoOutcome == [run |-> 0]
Idle == [arm |-> 0, at |-> "idle", next |-> 1, checked |-> DefaultSettings]
NoReport == <<>>

-----------------------------------------------------------------------------
(* The scripts of a study. *)

\* The tiers of difficulty that a cohort has, in their order.
TiersOf(cohort) ==
  LET tiers == <<"easy", "medium", "hard", "adversarial", "compound">> IN
  Only(tiers, {i \in DOMAIN tiers : TierOf(cohort, tiers[i]) # <<>>})

PlanOf == [e \in Experiments |-> Phase8Plan(e)]

\* What the script of an arm gives the runner: plans, cells and scenarios, in turn.
\* One script runs all the budgets.
Batches(e, a) ==
  LET plan == PlanOf[e]
      tiers == TiersOf(CohortOf[e])
  IN CASE e = "planning_difficulty" ->
            [i \in DOMAIN tiers |->
               LET tier == TierPlan(tiers[i])
               IN [plan |-> tier, cell |-> tier.cells[a],
                   scenarios |-> Selected(CohortOf[e], tiers[i])]]
       [] e = "investigation_budget" ->
            [i \in DOMAIN plan.cells |->
               [plan |-> plan, cell |-> plan.cells[i], scenarios |-> CohortOf[e]]]
       [] OTHER -> <<[plan |-> plan, cell |-> plan.cells[a], scenarios |-> CohortOf[e]]>>

ScriptsOf(e) == IF e = "investigation_budget" THEN {1} ELSE DOMAIN PlanOf[e].cells

\* The trials of each script with their scenarios, in their order.
WorkOf ==
  [e \in Experiments |-> [a \in ScriptsOf(e) |->
     LET given == Batches(e, a) IN
     FlattenSeq([i \in DOMAIN given |->
                   Enumerated(given[i].plan, given[i].cell, given[i].scenarios)])]]

\* What a script checks before its first trial.
Preregistered(e, a) ==
  LET plan == PlanOf[e]
      cohort == CohortOf[e]
  IN /\ CASE e = "tool_order"              -> ToolOrderPlan(plan) /\ ToolOrderCohort(cohort)
          [] e = "passive_vs_verification" -> PassivePlan(plan) /\ PassiveCohort(cohort)
          [] e = "compound_handling"       -> CompoundStudyPlan(plan) /\ CompoundCohort(cohort)
          [] e = "temporal_reasoning"      -> TemporalPlan(plan) /\ TemporalCohort(cohort)
          [] e = "investigation_budget"    -> BudgetPlan(plan) /\ BudgetCohort(cohort)
          [] e = "planning_difficulty"     -> PlanningCohort(cohort)
     /\ \A i \in DOMAIN Batches(e, a) :
          LET given == Batches(e, a)[i] IN
          ValidPlan(given.plan) /\ EnumerationAllowed(given.plan, given.cell, given.scenarios)

Startable == [e \in Experiments |-> {a \in ScriptsOf(e) : Preregistered(e, a)}]

Plan == PlanOf[study]
Cohort == CohortOf[study]
Scripts == ScriptsOf(study)
Work(a) == WorkOf[study][a]

\* The backend that the workflow deploys for an arm.
Deployed(e, a) ==
  LET value == ValuesOf(PlanOf[e])[a] IN
  CASE e = "planning_difficulty" -> [DefaultSettings EXCEPT !.architecture = value]
    [] e = "investigation_budget" -> DefaultSettings
    [] e = "tool_order" -> [DefaultSettings EXCEPT !.order = value, !.ordered = TRUE]
    [] e = "passive_vs_verification" -> [DefaultSettings EXCEPT !.evidence = value]
    [] e = "temporal_reasoning" -> [DefaultSettings EXCEPT !.temporal = value]
    [] e = "compound_handling" -> [DefaultSettings EXCEPT !.stopping = value, !.compound = TRUE]

\* The settings that occur.
Backends ==
  Deployments \cup UNION {{Deployed(e, a) : a \in ScriptsOf(e)} : e \in Experiments}
AllScenarios == UNION {ToSet(CohortOf[e]) : e \in Experiments}

\* For a compound plan the provider inside is not asked.
AsksModel(s) == ModelOf(s.llm) # "deterministic" /\ ~s.compound

\* What the provider inside plans: a model may put the steps in another order.
BasesOf(s, i) ==
  IF AsksModel(s) THEN UNION {OllamaPlan(i, answer) : answer \in Answers[i]} ELSE {BaselinePlan(i)}

\* The plans an agent may have for each incident.  It has none where a model changes the
\* steps or cannot be reached: the run fails, and is scored like any other.
NoPlan == <<>>
PlansOf ==
  [s \in Backends |-> [i \in {x.incident : x \in AllScenarios} |->
     {WrappedPlan(ChainOf(s, 0), i, base) : base \in BasesOf(s, i)}
     \cup (IF AsksModel(s) THEN {NoPlan} ELSE {})]]

-----------------------------------------------------------------------------
Init ==
  /\ study \in Experiments
  /\ backend = DefaultSettings
  /\ journal = <<>> /\ stored = <<>>
  /\ script = Idle
  /\ artifacts = [a \in Scripts |-> <<>>]
  /\ report = NoReport
  /\ runs = 0
  /\ spent = [moves |-> 0, deaths |-> 0, reruns |-> 0]

Spend(bound) == spent' = [spent EXCEPT ![bound] = @ + 1]
Running == script.at # "idle"
Current == Work(script.arm)[script.next]
Status(trial) == IF trial \in DOMAIN journal THEN journal[trial].status ELSE "pending"

\* A journal or a store with an entry that is new or takes the place of an older one.
With(entries, trial, entry) ==
  [t \in DOMAIN entries \cup {trial} |-> IF t = trial THEN entry ELSE entries[t]]

Write(trial, status, outcome) ==
  journal' = With(journal, trial, [status |-> status, outcome |-> outcome])

\* A script is started, for the first time or again, with the backend of its arm.
\* The arms do not depend on each other, and are begun in their order.
Begin(a) ==
  /\ ~Running /\ report = NoReport
  /\ a \in Startable[study] /\ \A b \in 1 .. a - 1 : artifacts[b] # <<>>
  /\ IF artifacts[a] = <<>> THEN UNCHANGED spent
     ELSE spent.reruns < MaxReruns /\ Spend("reruns")
  /\ backend' = Deployed(study, a)
  /\ script' = [Idle EXCEPT !.arm = a, !.at = "load"]
  /\ UNCHANGED <<study, journal, stored, artifacts, report, runs>>

\* Someone deploys the backend anew; the script asks for the backend's health and for
\* a run of its agent, and nothing else of it.
Deploy ==
  /\ script.at \in {"check", "run"} /\ spent.moves < MaxMoves
  /\ backend' \in Deployments \ {backend}
  /\ Spend("moves")
  /\ UNCHANGED <<study, journal, script, stored, artifacts, report, runs>>

\* Mutant: a completed trial is not skipped.
LoadAlways ==
  /\ script.at = "load"
  /\ IF script.next > Len(Work(script.arm))
     THEN script' = [script EXCEPT !.at = "finish"] /\ UNCHANGED journal
     ELSE script' = [script EXCEPT !.at = "check"] /\ Write(Current.trial, "running", NoOutcome)
  /\ UNCHANGED <<study, backend, stored, artifacts, report, runs, spent>>

\* ExperimentRunner.run: the next trial is skipped or journaled as running.
Load ==
  /\ script.at = "load"
  /\ IF script.next > Len(Work(script.arm))
     THEN script' = [script EXCEPT !.at = "finish"] /\ UNCHANGED journal
     ELSE IF Status(Current.trial) = "completed"
     THEN script' = [script EXCEPT !.next = @ + 1] /\ UNCHANGED journal
     ELSE script' = [script EXCEPT !.at = "check"] /\ Write(Current.trial, "running", NoOutcome)
  /\ UNCHANGED <<study, backend, stored, artifacts, report, runs, spent>>

\* LiveTrialExecutor.execute up to the run: the treatment is checked first, then
\* a stored score is taken up.
Check ==
  /\ script.at = "check"
  /\ IF Supported(Current.trial) /\ HealthMatches(Current.trial, Health(backend))
     THEN /\ script' = [script EXCEPT !.at = IF Current.trial \in DOMAIN stored
                                             THEN "save" ELSE "run", !.checked = backend]
          /\ UNCHANGED journal
     ELSE script' = Idle /\ Write(Current.trial, "failed", NoOutcome)
  /\ UNCHANGED <<study, backend, stored, artifacts, report, runs, spent>>

\* What is known of an agent run: a run without a plan finds nothing.
Outcome(number, how, plan) ==
  LET made == plan # NoPlan IN
  [run |-> number, right |-> made /\ how.right, found |-> made /\ how.found,
   early |-> made /\ how.early, plan |-> plan, checked |-> script.checked, settings |-> backend]

\* Mutant: a run is known by its place in the script, whatever the arm.
RunAgentByPlace ==
  /\ script.at = "run"
  /\ \E how \in Outcomes[Current.scenario.id] :
     \E plan \in PlansOf[backend][Current.scenario.incident] :
       stored' = With(stored, Current.trial, Outcome(script.next, how, plan))
  /\ runs' = runs + 1
  /\ script' = [script EXCEPT !.at = "save"]
  /\ UNCHANGED <<study, backend, journal, artifacts, report, spent>>

\* The health that was read belongs to the arm; the run is the backend's that is
\* there now.
RunAgent ==
  /\ script.at = "run"
  /\ \E how \in Outcomes[Current.scenario.id] :
     \E plan \in PlansOf[backend][Current.scenario.incident] :
       stored' = With(stored, Current.trial, Outcome(runs + 1, how, plan))
  /\ runs' = runs + 1
  /\ script' = [script EXCEPT !.at = "save"]
  /\ UNCHANGED <<study, backend, journal, artifacts, report, spent>>

Save ==
  /\ script.at = "save"
  /\ Write(Current.trial, "completed", stored[Current.trial])
  /\ script' = [script EXCEPT !.at = "load", !.next = @ + 1]
  /\ UNCHANGED <<study, backend, stored, artifacts, report, runs, spent>>

\* The script dies, or a step of it fails and the trial is journaled so.
Die ==
  /\ Running /\ spent.deaths < MaxDeaths
  /\ \/ UNCHANGED journal
     \/ script.at \in {"check", "run"} /\ Write(Current.trial, "failed", NoOutcome)
  /\ script' = Idle
  /\ Spend("deaths")
  /\ UNCHANGED <<study, backend, stored, artifacts, report, runs>>

-----------------------------------------------------------------------------
(* Records, artifacts and the report. *)

\* What a record says of a run.  An agent that stops early has made two calls: it takes
\* as many to be convinced, or to get nowhere with the limits that are shipped.  With
\* others it may stop at the first.
RecordOf(entry) ==
  LET outcome == entry.outcome
      scenario == entry.scenario
      budget == entry.trial.configuration.budget
      chain == ChainOf(outcome.settings, budget)
      plan == outcome.plan
      most == IF Len(plan) < budget THEN Len(plan) ELSE budget
      patience == IF outcome.settings.limits = "shipped" THEN 2 ELSE 1
      calls == IF outcome.early /\ ~chain.unresolved /\ patience < most THEN patience ELSE most
  IN [trial |-> entry.trial, status |-> "completed", run |-> outcome.run,
      right |-> outcome.right, faulty |-> scenario.faults # {},
      hypotheses |-> IF outcome.found THEN 1 ELSE 0,
      plan |-> plan, history |-> SubSeq(plan, 1, calls), applied |-> budget,
      health |-> Health(outcome.checked), dated |-> chain.temporal]

RecordsOf(entries) == [i \in DOMAIN entries |-> RecordOf(entries[i])]

\* What the script of arm a of study e asserts of each record.
Healthy(e, record, a) ==
  LET arm == ValuesOf(PlanOf[e])[a] IN
  CASE e = "tool_order"              -> ToolOrderHealthy(record, arm)
    [] e = "passive_vs_verification" -> PassiveHealthy(record, arm)
    [] e = "compound_handling"       -> CompoundHealthy(record, arm)
    [] e = "temporal_reasoning"      -> TemporalHealthy(record, arm)
    [] e = "investigation_budget"    -> BudgetHealthy(record)
    [] e = "planning_difficulty"     -> PlanningHealthy(record, arm)

\* What the script of an arm has in hand once all its trials are completed.
Entries(a) ==
  [i \in DOMAIN Work(a) |->
     [trial |-> Work(a)[i].trial, scenario |-> Work(a)[i].scenario,
      outcome |-> journal[Work(a)[i].trial].outcome]]

\* The planning script looks into the journal of its arm, which has a database of its
\* own: it holds as many trials of each tier as were selected.
Persisted(e, a) ==
  e = "planning_difficulty" =>
    \A d \in ToSet(TiersOf(CohortOf[e])) :
      Cardinality({t \in DOMAIN journal : t.cell = PlanningArms[a] /\ t.difficulty = d}) = PerTier

\* No trial and no run twice, and the asserts of the script hold.
Sound(e, entries, a) ==
  /\ Persisted(e, a)
  /\ Cardinality({x.trial : x \in ToSet(entries)}) = Len(entries)
  /\ Cardinality({x.outcome.run : x \in ToSet(entries)}) = Len(entries)
  /\ \A record \in {RecordOf(x) : x \in ToSet(entries)} : Healthy(e, record, a)

\* The script looks at its records, sees that a resumed campaign adds none, and
\* writes its artifact, or it fails.
Finish ==
  /\ script.at = "finish"
  /\ \E entries \in {Entries(script.arm)} :
       artifacts' = IF Sound(study, entries, script.arm)
                    THEN [artifacts EXCEPT ![script.arm] = entries] ELSE artifacts
  /\ script' = Idle
  /\ UNCHANGED <<study, backend, journal, stored, report, runs, spent>>

Observable(record) ==
  CASE study = "tool_order"              -> ToolOrderObservable(record)
    [] study = "passive_vs_verification" -> PassiveObservable(record)
    [] study = "compound_handling"       -> CompoundObservable(record)
    [] study = "temporal_reasoning"      -> TemporalObservable(record)
    [] study = "investigation_budget"    -> BudgetObservable(record)
    [] study = "planning_difficulty"     -> PlanningObservable(record)

Observation(record) ==
  CASE study = "tool_order"              -> ToolOrderObservation(record)
    [] study = "passive_vs_verification" -> PassiveObservation(record)
    [] study = "compound_handling"       -> CompoundObservation(record)
    [] study = "temporal_reasoning"      -> TemporalObservation(record)
    [] study = "investigation_budget"    -> BudgetObservation(record)
    [] study = "planning_difficulty"     -> PlanningObservation(record)

Accepts(records, observations) ==
  CASE study = "tool_order"              -> ToolOrderAccepts(records, observations, Cohort)
    [] study = "passive_vs_verification" -> PassiveAccepts(records, observations, Cohort)
    [] study = "compound_handling"       -> CompoundAccepts(records, observations, Cohort)
    [] study = "temporal_reasoning"      -> TemporalAccepts(records, observations, Cohort)
    [] study = "investigation_budget"    -> BudgetAccepts(records, observations, Cohort)
    [] study = "planning_difficulty"     -> PlanningAccepts(records, observations, Cohort)

Drawn(observations) ==
  CASE study = "tool_order"              -> ToolOrderReport(observations, Cohort)
    [] study = "passive_vs_verification" -> PassiveReport(observations, Cohort)
    [] study = "compound_handling"       -> CompoundReport(observations, Cohort)
    [] study = "temporal_reasoning"      -> TemporalReport(observations, Cohort)
    [] study = "investigation_budget"    -> BudgetReport(observations, Cohort)
    [] study = "planning_difficulty"     -> PlanningReport(observations, Cohort)

\* What the report script insists on before it builds the report from the
\* artifacts it was given.
RightArtifacts(given) ==
  LET arms == [i \in DOMAIN given |-> RecordsOf(artifacts[given[i]])] IN
  /\ CASE study = "planning_difficulty" -> PlanningArtifacts(arms, Cohort)
       [] study = "compound_handling" -> ToSet(given) = Scripts /\ CompoundArms(arms, Cohort)
       [] OTHER -> ToSet(given) = Scripts

\* The artifacts of all arms are handed in, or one of them twice.
Handed == {[a \in Scripts |-> a], [a \in Scripts |-> IF a = 1 THEN Cardinality(Scripts) ELSE a]}

AllWritten == \A a \in Scripts : artifacts[a] # <<>>

RecordsIn(given) == RecordsOf(FlattenSeq([i \in DOMAIN given |-> artifacts[given[i]]]))
ObservationsOf(records) == {Observation(records[i]) : i \in DOMAIN records}

\* The script raises nothing of what it sees in the artifacts handed in.
Reportable(given) ==
  /\ RightArtifacts(given)
  /\ \A records \in {RecordsIn(given)} :
       /\ \A i \in DOMAIN records : Observable(records[i])
       /\ Accepts(records, ObservationsOf(records))

BuildReport ==
  /\ ~Running /\ report = NoReport /\ AllWritten
  /\ \E given \in Handed :
       Reportable(given) /\ report' = Drawn(ObservationsOf(RecordsIn(given)))
  /\ UNCHANGED <<study, backend, journal, stored, script, artifacts, runs, spent>>

Proceed == Load \/ Check \/ RunAgent \/ Save \/ Finish

Next == (\E a \in Scripts : Begin(a)) \/ Proceed \/ Deploy \/ Die \/ BuildReport

Spec == Init /\ [][Next]_vars

\* A script that runs goes on, and the script of an arm that is missing is run.  The
\* former is weak fairness of Proceed, which is enabled just when a script runs.
FairSpec ==
  /\ Spec
  /\ []<>~Running \/ []<><<Proceed>>_vars
  /\ WF_vars(\E a \in Scripts : artifacts[a] = <<>> /\ Begin(a))

-----------------------------------------------------------------------------
(* Properties. *)

Done == report # NoReport
Recorded == UNION {ToSet(artifacts[a]) : a \in Scripts}

\* A trial is journaled as completed with the outcome that EvaluationLab has of it,
\* and no trial that has a score was run again.
TypeOK ==
  /\ study \in Experiments /\ backend \in Backends
  /\ script.at \in {"idle", "load", "check", "run", "save", "finish"}
  /\ runs = Cardinality(DOMAIN stored)
  /\ \A t \in DOMAIN journal :
       /\ journal[t].status \in {"running", "completed", "failed"}
       /\ journal[t].status = "completed" => t \in DOMAIN stored /\ journal[t].outcome = stored[t]

\* What an arm has written down stays true of the journal: a script that is run
\* again skips what was completed, whatever was deployed or has died since
\* (runner.py 111-114).
ArtifactsStand ==
  \A e \in Recorded : journal[e.trial] = [status |-> "completed", outcome |-> e.outcome]

\* A record that is part of an arm comes from an agent that ran with the treatment of
\* this arm and of no other experiment, unless the backend was deployed anew between
\* the check and the run.  Neither the cap on records nor the model is compared, and the
\* limits are not told.
RecordsUnderTreatment ==
  \A a \in Scripts : \A e \in ToSet(artifacts[a]) :
    e.outcome.settings = e.outcome.checked =>
      [e.outcome.settings EXCEPT !.capped = FALSE, !.depth = 20, !.llm = "local", !.limits = "shipped"]
        = Deployed(study, IF study = "investigation_budget" THEN 1 ELSE a)

\* What the backends of two runs have in common if both plan alike: the same reading of
\* logs, the same windows, the same probes.
Depth(s) == IF s.capped /\ s.depth < DefaultLimit THEN s.depth ELSE DefaultLimit
PlanAlike(s, t) ==
  /\ s.compound = t.compound
  /\ ~s.compound => s.temporal = t.temporal /\ Depth(s) = Depth(t)

\* Whatever was deployed between the check of a trial and its run, also where a report
\* script sees no settings but those checked: runs of one scenario that the studies of tool
\* orders, of probes and of compound incidents compare are those of backends that plan
\* alike, that probe alike or just as their arms say, and that plan for a compound incident
\* in the study of those alone (tool_order.py 320-420, passive_verification.py 355-401,
\* compound_handling.py).  What these plans do not show stays out: the architecture, the
\* limits, the stopping strategy, and what puts the steps into their order.
ComparedRunsPlanAlike ==
  Done =>
    \A one, other \in Recorded : one.trial.scenario = other.trial.scenario =>
      LET s == one.outcome.settings
          t == other.outcome.settings
      IN CASE study = "tool_order" ->
                PlanAlike(s, t) /\ (~s.compound => s.evidence = t.evidence)
           [] study = "passive_vs_verification" ->
                PlanAlike(s, t) /\ ~s.compound /\ s.evidence = one.trial.configuration.evidence
           [] study = "compound_handling" -> s.compound
           [] OTHER -> TRUE

\* A report counts every scenario once in each arm, by a run of its own, and its paired
\* differences and its groups by difficulty add up to the differences and the totals
\* of the arms.
ReportAddsUp ==
  Done =>
    LET Of(a) == InArm(report.observations, a)
        Arms == ToSet(ValuesOf(Plan))
        Reference == ValuesOf(Plan)[1]
    IN /\ \A s \in ToSet(Cohort), a \in Arms :
            Cardinality({o \in Of(a) : o.scenario = s.id}) = 1
       /\ Cardinality({o.run : o \in report.observations}) = Len(Cohort) * Cardinality(Arms)
       /\ report.deltas # {} =>
            \A a \in Arms \ {Reference}, f \in {"accuracy", "calls"} :
              TotalOf(f, {d \in report.deltas : d.arm = a})
                = TotalOf(f, Of(a)) - TotalOf(f, Of(Reference))
       /\ "byDifficulty" \in DOMAIN report =>
            \A a \in Arms, f \in {"n", "accuracy", "calls"} :
              MapThenSumSet(LAMBDA d : report.byDifficulty[d][a][f], DOMAIN report.byDifficulty)
                = Summary(Of(a))[f]
       /\ "aggregates" \in DOMAIN report =>
            \A a, b \in Arms : report.aggregates[a].controls = report.aggregates[b].controls

\* The checks of a report script turn away nothing that the arms have produced under
\* their treatments: a study that has all its artifacts can report.  Of what the check
\* before a run lets pass, two reports turn away runs of a backend that caps searches and
\* runs that failed for want of a plan, and the study of probes those that a model planned.
FinishedStudiesReport ==
  (AllWritten /\ ~Running /\ report = NoReport
     /\ \A e \in Recorded :
          LET s == e.outcome.settings IN
          /\ s = e.outcome.checked
          /\ study \in {"tool_order", "passive_vs_verification"} =>
               ~s.capped /\ e.outcome.plan # NoPlan
          /\ study = "passive_vs_verification" => ~AsksModel(s))
  => Reportable([a \in Scripts |-> a])

\* However often scripts die, are run again or have the backend deployed over, and
\* whichever artifacts are handed in: the evidence of an arm appears as a whole and is no
\* other arm's, a script that is run again repeats it, and the report rests on all the
\* runs of all the arms, as many of each, and stays as it is (runner.py 111-114, and the
\* artifacts that the report scripts of phase 8 collect).
EvidenceOf(a) == {e.outcome.run : e \in ToSet(artifacts[a])}

Publication ==
  INSTANCE PublishedStudy
    WITH evidence <- [a \in Scripts |-> EvidenceOf(a)],
         published <- IF Done THEN {o.run : o \in report.observations} ELSE {}

ArmsPublished == Publication!Spec

\* However often its scripts die, a study that nobody deploys over gets all its artifacts.
ArmsConclude == [](spent.moves = 0) => <>AllWritten
=============================================================================
