---------------------------- MODULE StudyReports ----------------------------
(***************************************************************************)
(* The six studies of the campaign: the cohort of scenarios each one       *)
(* insists on, what it reads from a trial's record, what it refuses, and   *)
(* the report it draws from the records of all its arms.  Means are kept   *)
(* as totals beside their count; latency, cost and the lists of failures   *)
(* behave like the two measures that are kept, accuracy and tool calls.    *)
(***************************************************************************)
EXTENDS Treatments

CONSTANTS
  Adversarials,   \* adversarial scenarios of a controlled cohort: 6 in the code
  Validations,    \* scenarios of the validation split: 10
  Misleading,     \* adversarial scenarios of the temporal cohort: 4
  PerTier         \* scenarios of each tier of difficulty: 2

ASSUME SizeAssumption == {Adversarials, Validations, Misleading, PerTier} \subseteq Nat

(***************************************************************************)
(* A scenario: its id, split, difficulty and kind, its service and text,   *)
(* the faults it injects and whether it plants a distractor.  A record: a  *)
(* trial, its status, the agent run with its settings, plan and calls, the *)
(* budget that was applied, the health that was read and the score.        *)
(***************************************************************************)

ValuesOf(plan) ==
  [i \in DOMAIN plan.cells |-> plan.cells[i].configuration[Dimension[plan.experiment]]]

ArmOf(record) == record.trial.configuration[Dimension[record.trial.experiment]]

TotalOf(field, group) == MapThenSumSet(LAMBDA o : o[field], group)

InArm(observations, arm) == {o \in observations : o.arm = arm}

\* The one observation of a scenario in an arm.
PairedWith(observations, scenario, arm) ==
  CHOOSE o \in observations : o.scenario = scenario /\ o.arm = arm

Controls(group) == {o \in group : o.falsePositive # "none"}
FalsePositives(group) == {o \in group : o.falsePositive = "yes"}

\* A record with further fields.
Extended(record, more) ==
  [f \in DOMAIN record \cup DOMAIN more |-> IF f \in DOMAIN record THEN record[f] ELSE more[f]]

\* What every observation holds, whatever else its study looks at.  Only a
\* scenario without a fault can have a false positive.
Measured(record) ==
  [trial |-> record.trial, scenario |-> record.trial.scenario, arm |-> ArmOf(record),
   difficulty |-> record.trial.difficulty, run |-> record.run,
   accuracy |-> IF record.right THEN 1 ELSE 0, calls |-> Len(record.history),
   falsePositive |-> IF record.faulty THEN "none" ELSE IF record.right THEN "no" ELSE "yes"]

\* What every aggregate holds.
Summary(group) ==
  [n |-> Cardinality(group), accuracy |-> TotalOf("accuracy", group),
   calls |-> TotalOf("calls", group), controls |-> Cardinality(Controls(group)),
   falsePositives |-> Cardinality(FalsePositives(group))]

\* Mutant: the arm is compared with itself.
DeltaOfOne(observations, scenario, arm, reference) ==
  [scenario |-> scenario, arm |-> arm, accuracy |-> 0, calls |-> 0]

Delta(observations, scenario, arm, reference) ==
  LET one == PairedWith(observations, scenario, arm)
      other == PairedWith(observations, scenario, reference)
  IN [scenario |-> scenario, arm |-> arm, accuracy |-> one.accuracy - other.accuracy,
      calls |-> one.calls - other.calls]

\* The right number of completed observations, no trial twice, and every
\* scenario in every arm.
Complete(records, observations, cohort, arms) ==
  /\ Len(records) = Len(cohort) * Len(arms)
  /\ Cardinality({o.trial : o \in observations}) = Len(records)
  /\ \A s \in ToSet(cohort), a \in ToSet(arms) :
       \E o \in observations : o.scenario = s.id /\ o.arm = a

Invocations(plan) == {[plan[i] EXCEPT !.id = "call"] : i \in DOMAIN plan}

NothingTwice(plan) ==
  plan # <<>> /\ \A i, j \in DOMAIN plan : i # j => ~SameInvocation(plan[i], plan[j])

\* The aggregate of every arm, and every arm but the first compared with the first.
ReportOf(observations, cohort, arms, aggregates) ==
  [observations |-> observations, aggregates |-> aggregates,
   deltas |-> {Delta(observations, s.id, a, arms[1]) :
                 s \in ToSet(cohort), a \in ToSet(Tail(arms))}]

ExplicitPlanner(record) == record.trial.configuration.architecture = "explicit_planner"

\* A cohort of validation scenarios, so many of them adversarial, the last of them
\* a control without any fault.
ControlledCohort(cohort) ==
  /\ \A i \in DOMAIN cohort : cohort[i].split = "validation"
  /\ Cardinality({i \in DOMAIN cohort : cohort[i].difficulty = "adversarial"}) = Adversarials
  /\ cohort[Len(cohort)].faults = {}

HoldsFixed(plan, fields) ==
  \A i \in DOMAIN plan.cells, f \in fields : plan.cells[i].configuration[f] = Baseline[f]

-----------------------------------------------------------------------------
(* Tool order. *)

ToolOrderArms == <<"free", "deployment_first", "symptom_first", "adaptive">>

ToolOrderPlan(plan) ==
  /\ ValuesOf(plan) = ToolOrderArms
  /\ HoldsFixed(plan, {"architecture", "budget", "evidence", "temporal", "stopping"})

ToolOrderCohort(cohort) == ControlledCohort(cohort) /\ cohort[Len(cohort)].id = "040"

ToolOrderObservable(record) ==
  record.status = "completed" /\ ExplicitPlanner(record) /\ NothingTwice(record.plan)

ToolOrderObservation(record) ==
  Extended(Measured(record),
           [planned |-> Invocations(record.plan), first |-> Head(record.plan).tool,
            asked |-> IF record.history = <<>> THEN "none" ELSE Head(record.history).tool])

ToolOrderAggregate(group) ==
  LET adversarial == {o \in group : o.difficulty = "adversarial"} IN
  Extended(Summary(group),
           [adversarial |-> Cardinality(adversarial),
            adversarialAccuracy |-> TotalOf("accuracy", adversarial),
            firsts |-> {o.first : o \in group}, askedFirst |-> {o.asked : o \in group}])

\* Mutant: the arms may plan different calls.
ToolOrderAcceptsAny(records, observations, cohort) ==
  Complete(records, observations, cohort, ToolOrderArms)

ToolOrderAccepts(records, observations, cohort) ==
  /\ Complete(records, observations, cohort, ToolOrderArms)
  /\ \A s \in ToSet(cohort) :
       Cardinality({o.planned : o \in {x \in observations : x.scenario = s.id}}) = 1

ToolOrderReport(observations, cohort) ==
  ReportOf(observations, cohort, ToolOrderArms,
           [a \in ToSet(ToolOrderArms) |-> ToolOrderAggregate(InArm(observations, a))])

\* The asserts of phase8-tool-order-arm.py on each record.
ToolOrderHealthy(record, arm) ==
  /\ record.health.architecture = "explicit_planner" /\ record.health.temporal = "standard"
  /\ record.health.order = arm /\ record.health.ordered
  /\ "tool-order-controlled-v1" \in record.health.provider
  /\ "temporal-cause-effect-v1" \notin record.health.provider

-----------------------------------------------------------------------------
(* Passive evidence against active verification (H4). *)

EvidenceArms == <<"passive_only", "verification_enabled">>

PassivePlan(plan) ==
  /\ ValuesOf(plan) = EvidenceArms
  /\ HoldsFixed(plan, {"architecture", "budget", "order", "temporal", "stopping"})

PassiveCohort(cohort) == ControlledCohort(cohort) /\ cohort[Len(cohort)].id = "040"

IsProbe(step) == step.tool \in VerificationTools
Probes(steps) == Cardinality({i \in DOMAIN steps : IsProbe(steps[i])})

\* The plan without its probes, as invocations.
Stripped(plan) ==
  LET passive == Only(plan, {i \in DOMAIN plan : ~IsProbe(plan[i])})
  IN [i \in DOMAIN passive |-> [passive[i] EXCEPT !.id = "call"]]

PassiveObservable(record) ==
  record.status = "completed" /\ ExplicitPlanner(record) /\ NothingTwice(record.plan)

PassiveObservation(record) ==
  Extended(Measured(record),
           [probes |-> Probes(record.plan), probed |-> Probes(record.history),
            first |-> Head(record.plan).tool, passive |-> Stripped(record.plan)])

PassiveAggregate(group) ==
  LET adversarial == {o \in group : o.difficulty = "adversarial"} IN
  Extended(Summary(group),
           [adversarial |-> Cardinality(adversarial),
            adversarialAccuracy |-> TotalOf("accuracy", adversarial),
            probed |-> TotalOf("probed", group)])

PassiveAccepts(records, observations, cohort) ==
  /\ Complete(records, observations, cohort, EvidenceArms)
  /\ \A s \in ToSet(cohort) :
       LET passive == PairedWith(observations, s.id, "passive_only")
           active == PairedWith(observations, s.id, "verification_enabled")
       IN /\ passive.probes = 0 /\ active.probes = 1
          /\ passive.probed = 0 /\ active.probed = 1
          /\ passive.first = active.first
          /\ passive.passive = active.passive

PassiveReport(observations, cohort) ==
  ReportOf(observations, cohort, EvidenceArms,
           [a \in ToSet(EvidenceArms) |-> PassiveAggregate(InArm(observations, a))])

\* The asserts of phase8-passive-verification-arm.py on each record.
PassiveHealthy(record, arm) ==
  /\ record.health.architecture = "explicit_planner" /\ record.health.temporal = "standard"
  /\ record.health.order = "free" /\ ~record.health.ordered
  /\ record.health.evidence = arm
  /\ ("active-verification-v1" \in record.health.provider) = (arm = "verification_enabled")
  /\ {"tool-order-controlled-v1", "temporal-cause-effect-v1"} \cap record.health.provider = {}
  /\ Probes(record.history) = IF arm = "verification_enabled" THEN 1 ELSE 0

-----------------------------------------------------------------------------
(* Stopping on compound incidents (H5). *)

StoppingArms == <<"confidence_threshold", "unresolved_evidence">>

CompoundStudyPlan(plan) ==
  /\ plan.split = "hidden_test" /\ ValuesOf(plan) = StoppingArms
  /\ \A i \in DOMAIN plan.cells : plan.cells[i].difficulties = {"compound"}
  /\ HoldsFixed(plan, {"architecture", "budget", "order", "temporal", "evidence"})

CompoundCohort(cohort) ==
  \A i \in DOMAIN cohort :
    cohort[i].split = "hidden_test" /\ cohort[i].difficulty = "compound" /\ cohort[i].compound

\* The plan of every run is the one that was registered, step by step.
ExpectedPlan == CompoundPlan

SharedPlan(record) == record.plan = ExpectedPlan

CompoundObservable(record) ==
  LET unresolved == ArmOf(record) = "unresolved_evidence" IN
  /\ record.status = "completed" /\ ExplicitPlanner(record)
  /\ record.trial.split = "hidden_test" /\ record.trial.difficulty = "compound"
  /\ record.health.compound /\ "compound-evidence-plan-v1" \in record.health.provider
  /\ record.health.stopping = ArmOf(record)
  /\ ("unresolved-evidence-stop-v1" \in record.health.provider) = unresolved
  /\ SharedPlan(record)
  /\ Len(record.history) <= Len(ExpectedPlan)
  /\ unresolved => Len(record.history) = Len(ExpectedPlan)

CompoundObservation(record) ==
  Extended(Measured(record),
           [steps |-> [i \in DOMAIN record.plan |-> record.plan[i].id],
            completed |-> Len(record.history)])

CompoundAggregate(group) ==
  Extended(Summary(group),
           [completed |-> TotalOf("completed", group),
            full |-> Cardinality({o \in group : o.completed = Len(ExpectedPlan)})])

CompoundAccepts(records, observations, cohort) ==
  /\ Complete(records, observations, cohort, StoppingArms)
  /\ \A s \in ToSet(cohort) :
       PairedWith(observations, s.id, StoppingArms[1]).steps
         = PairedWith(observations, s.id, StoppingArms[2]).steps

CompoundReport(observations, cohort) ==
  ReportOf(observations, cohort, StoppingArms,
           [a \in ToSet(StoppingArms) |-> CompoundAggregate(InArm(observations, a))])

\* The asserts of phase8-compound-handling-arm.py on each record.
CompoundHealthy(record, arm) ==
  /\ record.health.architecture = "explicit_planner" /\ record.health.temporal = "standard"
  /\ record.health.order = "free" /\ ~record.health.ordered
  /\ record.health.evidence = "passive_only" /\ record.health.stopping = arm
  /\ record.health.compound /\ "compound-evidence-plan-v1" \in record.health.provider
  /\ ("unresolved-evidence-stop-v1" \in record.health.provider) = (arm = "unresolved_evidence")
  /\ {"active-verification-v1", "tool-order-controlled-v1", "temporal-cause-effect-v1"}
       \cap record.health.provider = {}
  /\ CompoundObservable(record)

\* phase8-compound-handling-report.py looks at the arms' artifacts once more.
CompoundArms(arms, cohort) == \A a \in DOMAIN arms : Len(arms[a]) = Len(cohort)

-----------------------------------------------------------------------------
(* Temporal reasoning (H3). *)

TemporalArms == <<"standard", "explicit_cause_effect">>

TemporalPlan(plan) == ValuesOf(plan) = TemporalArms /\ HoldsFixed(plan, {"architecture"})

\* The misleading scenarios and a control.
TemporalCohort(cohort) ==
  /\ \A i \in DOMAIN cohort : cohort[i].split = "validation"
  /\ \A i \in 1 .. Misleading : cohort[i].difficulty = "adversarial" /\ cohort[i].distractor
  /\ cohort[Len(cohort)].id = "040" /\ cohort[Len(cohort)].faults = {}

TemporalObservable(record) == record.status = "completed" /\ ExplicitPlanner(record)

\* A run's hypotheses are dated, or none is.
TemporalObservation(record) ==
  Extended(Measured(record), [stamped |-> IF record.dated THEN record.hypotheses ELSE 0])

TemporalAggregate(group) == Extended(Summary(group), [stamped |-> TotalOf("stamped", group)])

TemporalAccepts(records, observations, cohort) ==
  Complete(records, observations, cohort, TemporalArms)

TemporalReport(observations, cohort) ==
  ReportOf(observations, cohort, TemporalArms,
           [a \in ToSet(TemporalArms) |-> TemporalAggregate(InArm(observations, a))])

\* The asserts of phase8-temporal-reasoning-arm.py on each record.
TemporalHealthy(record, arm) ==
  /\ record.health.architecture = "explicit_planner" /\ record.health.temporal = arm
  /\ ("temporal-cause-effect-v1" \in record.health.provider) = (arm = "explicit_cause_effect")

-----------------------------------------------------------------------------
(* Investigation budget (H2): the arms run in one script. *)

Budgets == <<5, 10, 15, 20>>

BudgetPlan(plan) == ValuesOf(plan) = Budgets /\ HoldsFixed(plan, {"architecture"})

BudgetCohort(cohort) ==
  Len(cohort) = Validations /\ \A i \in DOMAIN cohort : cohort[i].split = "validation"

BudgetObservable(record) ==
  record.status = "completed" /\ ExplicitPlanner(record) /\ ArmOf(record) \in ToSet(Budgets)

BudgetObservation(record) ==
  Extended(Measured(record), [exhausted |-> Len(record.history) >= record.applied])

BudgetAggregate(group) ==
  Extended(Summary(group), [exhausted |-> Cardinality({o \in group : o.exhausted})])

\* The same per difficulty, where there are scenarios of it.
BudgetByDifficulty(observations) ==
  [d \in {o.difficulty : o \in observations} |->
     [b \in ToSet(Budgets) |->
        BudgetAggregate({o \in InArm(observations, b) : o.difficulty = d})]]

BudgetAccepts(records, observations, cohort) ==
  Complete(records, observations, cohort, Budgets)

\* This report pairs no scenarios.
BudgetReport(observations, cohort) ==
  [observations |-> observations, deltas |-> {},
   aggregates |-> [b \in ToSet(Budgets) |-> BudgetAggregate(InArm(observations, b))],
   byDifficulty |-> BudgetByDifficulty(observations)]

\* The asserts of phase8-investigation-budget-experiment.py on each record; the
\* arm is the record's own.
BudgetHealthy(record) ==
  /\ record.health.architecture = "explicit_planner"
  /\ record.applied = ArmOf(record) /\ Len(record.history) <= ArmOf(record)

-----------------------------------------------------------------------------
(* Planning against difficulty (H1): a plan for every tier of difficulty, and *)
(* a reactive and a planning arm that run all of them.                        *)

SplitOf ==
  [easy |-> "dev", medium |-> "validation", hard |-> "validation",
   adversarial |-> "validation", compound |-> "hidden_test"]

PlanningArms == <<"reactive_react", "explicit_planner">>

\* build_planning_difficulty_tier_plans.
TierPlan(difficulty) ==
  PlanOver("planning_difficulty", PlanningArms, SplitOf[difficulty], {difficulty})

\* The scenarios of a tier, in the split of the tier and the order of their ids.
TierOf(cohort, difficulty) ==
  Only(cohort, {i \in DOMAIN cohort : cohort[i].difficulty = difficulty
                                      /\ cohort[i].split = SplitOf[difficulty]})

\* select_planning_difficulty_scenarios: as many of each tier, or none at all.
PlanningCohort(cohort) ==
  \A d \in {s.difficulty : s \in ToSet(cohort)} : Len(TierOf(cohort, d)) >= PerTier

Selected(cohort, difficulty) == SubSeq(TierOf(cohort, difficulty), 1, PerTier)

PlanningObservable(record) == record.status = "completed"

PlanningObservation(record) ==
  Extended([Measured(record) EXCEPT !.falsePositive = "none"], [split |-> record.trial.split])

PlanningAggregate(group) == Summary(group)

\* Aggregates and differences per tier.
PlanningReport(observations, cohort) ==
  LET tiers == {s.difficulty : s \in ToSet(cohort)}
      Aggregate(arm, d) ==
        PlanningAggregate({o \in InArm(observations, arm) : o.difficulty = d})
      Difference(d, field) ==
        Aggregate("explicit_planner", d)[field] - Aggregate("reactive_react", d)[field]
  IN [observations |-> observations,
      byDifficulty |-> [d \in tiers |-> [a \in ToSet(PlanningArms) |-> Aggregate(a, d)]],
      deltas |-> {[scenario |-> d, arm |-> "explicit_planner",
                   accuracy |-> Difference(d, "accuracy"), calls |-> Difference(d, "calls")] :
                     d \in tiers}]

\* The count and the groups: the report itself does not pair the scenarios, the
\* script that calls it looks at the trials and at the arms they are from.
PlanningAccepts(records, observations, cohort) ==
  /\ Len(records) = Len(cohort) * Len(PlanningArms)
  /\ \A s \in ToSet(cohort), a \in ToSet(PlanningArms) :
       {o \in InArm(observations, a) : o.difficulty = s.difficulty} # {}

\* phase8-planning-difficulty-report.py, before it builds the report.
PlanningArtifacts(arms, cohort) ==
  /\ \A a \in DOMAIN arms :
       /\ Len(arms[a]) = Len(cohort)
       /\ \A i \in DOMAIN arms[a] : ArmOf(arms[a][i]) = PlanningArms[a]
  /\ Cardinality(UNION {{arms[a][i].trial : i \in DOMAIN arms[a]} : a \in DOMAIN arms})
       = Len(cohort) * Len(PlanningArms)

\* The asserts of phase8-planning-difficulty-arm.py on each record.
PlanningHealthy(record, arm) ==
  record.health.architecture = arm /\ ArmOf(record) = arm
=============================================================================
