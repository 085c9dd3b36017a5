--------------------------- MODULE Studies_proofs ---------------------------
(***************************************************************************)
(* Proofs about a study of the campaign: what its scripts have written     *)
(* down stands, and comes from the treatment of its arm, however often     *)
(* they die, are run again and have the backend deployed over; its report  *)
(* adds up, a study that has all its artifacts can report, and the plans a *)
(* report compares give the backends behind them away.                     *)
(***************************************************************************)
EXTENDS Studies, Plans_proofs

-----------------------------------------------------------------------------
(* The trials of a study. *)

\* t is a trial of study e in arm a: its configuration has the treatment of the
\* arm and of no other study.
Treated(e, a, t) ==
  /\ t.experiment = e
  /\ IF e = "investigation_budget"
     THEN \E budget : t.configuration = [Baseline EXCEPT !.budget = budget]
     ELSE t.configuration = [Baseline EXCEPT ![Dimension[e]] = ValuesOf(PlanOf[e])[a]]

\* A list of trials with their scenarios.
Listed(work) ==
  /\ work \in Seq(ToSet(work))
  /\ \A i \in DOMAIN work : work[i] = [trial |-> work[i].trial, scenario |-> work[i].scenario]

LEMMA TheExperiments ==
  Experiments = {"planning_difficulty", "investigation_budget", "tool_order",
                 "passive_vs_verification", "temporal_reasoning", "compound_handling"}
  BY DEF Experiments, Dimension

\* The enumeration makes trials of its plan and its cell.
LEMMA EnumeratedTrials ==
  ASSUME NEW plan, NEW cell, NEW scenarios, IsFiniteSet(DOMAIN scenarios)
  PROVE  /\ Enumerated(plan, cell, scenarios) \in Seq(ToSet(Enumerated(plan, cell, scenarios)))
         /\ \A i \in DOMAIN Enumerated(plan, cell, scenarios) :
              LET entry == Enumerated(plan, cell, scenarios)[i] IN
              /\ entry = [trial |-> entry.trial, scenario |-> entry.scenario]
              /\ entry.trial.experiment = plan.experiment
              /\ entry.trial.configuration = cell.configuration
<1> DEFINE places == {i \in DOMAIN scenarios : scenarios[i].difficulty \in cell.difficulties}
<1> DEFINE enabled == Only(scenarios, places)
<1> DEFINE list == [i \in DOMAIN enabled |-> [trial |-> Trial(plan, cell, enabled[i]),
                                              scenario |-> enabled[i]]]
<1>1. Enumerated(plan, cell, scenarios) = list
  BY DEF Enumerated
<1>2. Cardinality(places) \in Nat
  <2>1. places \in SUBSET DOMAIN scenarios
    OBVIOUS
  <2> HIDE DEF places
  <2>2. IsFiniteSet(places)
    BY <2>1, FS_Subset
  <2> QED
    BY <2>2, FS_CardinalityType
<1>3. DOMAIN enabled = 1 .. Cardinality(places)
  BY DEF Only
<1>4. /\ DOMAIN list = 1 .. Cardinality(places)
      /\ \A i \in DOMAIN list : list[i] = [trial |-> Trial(plan, cell, enabled[i]),
                                           scenario |-> enabled[i]]
  BY <1>3
<1> HIDE DEF places, enabled
<1>5. \A i \in DOMAIN list :
        /\ list[i] = [trial |-> list[i].trial, scenario |-> list[i].scenario]
        /\ list[i].trial.experiment = plan.experiment
        /\ list[i].trial.configuration = cell.configuration
  BY <1>4 DEF Trial
<1>6. list \in [1 .. Cardinality(places) -> ToSet(list)]
  BY <1>4 DEF ToSet
<1> HIDE DEF list
<1>7. list \in Seq(ToSet(list))
  BY <1>2, <1>6, FunctionIsSequence
<1> QED
  BY <1>1, <1>5, <1>7

\* The values of the experiments, arm by arm.
Levels ==
  [planning_difficulty     |-> <<"reactive_react", "explicit_planner">>,
   investigation_budget    |-> <<5, 10, 15, 20>>,
   tool_order              |-> <<"free", "deployment_first", "symptom_first", "adaptive">>,
   passive_vs_verification |-> <<"passive_only", "verification_enabled">>,
   temporal_reasoning      |-> <<"standard", "explicit_cause_effect">>,
   compound_handling       |-> <<"confidence_threshold", "unresolved_evidence">>]

\* A cell for every value, on top of the baseline.
Spans(plan, e, values) ==
  /\ plan.experiment = e
  /\ DOMAIN plan.cells = DOMAIN values /\ DOMAIN ValuesOf(plan) = DOMAIN values
  /\ \A i \in DOMAIN values :
       /\ plan.cells[i].configuration = [Baseline EXCEPT ![Dimension[e]] = values[i]]
       /\ ValuesOf(plan)[i] = values[i]

\* The dimension of an experiment is a field of the configuration.
LEMMA DimensionVaries ==
  ASSUME NEW e \in Experiments
  PROVE  \A v : [Baseline EXCEPT ![Dimension[e]] = v][Dimension[e]] = v
<1>1. DOMAIN Baseline
        = {"architecture", "budget", "order", "evidence", "temporal", "stopping"}
  BY DEF Baseline
<1>2. Dimension[e]
        \in {"architecture", "budget", "order", "evidence", "temporal", "stopping"}
  BY TheExperiments DEF Dimension
<1>3. Dimension[e] \in DOMAIN Baseline
  BY <1>1, <1>2
<1> DEFINE base == Baseline
<1>4. base = [x \in DOMAIN base |-> base[x]]
  BY DEF Baseline
<1>5. Dimension[e] \in DOMAIN base
  BY <1>3
<1> HIDE DEF base
<1>6. \A v : [base EXCEPT ![Dimension[e]] = v][Dimension[e]] = v
  BY <1>4, <1>5
<1> QED
  BY <1>6 DEF base

LEMMA PlanOverSpans ==
  ASSUME NEW e \in Experiments, NEW values, NEW split, NEW difficulties
  PROVE  Spans(PlanOver(e, values, split, difficulties), e, values)
<1> DEFINE plan == PlanOver(e, values, split, difficulties)
<1>1. plan.experiment = e /\ plan.cells = CellsOver(e, values, difficulties)
  BY DEF PlanOver
<1>2. /\ DOMAIN plan.cells = DOMAIN values
      /\ \A i \in DOMAIN values :
           plan.cells[i].configuration = [Baseline EXCEPT ![Dimension[e]] = values[i]]
  BY <1>1 DEF CellsOver, Cell
<1> HIDE DEF plan
<1>3. \A v : [Baseline EXCEPT ![Dimension[e]] = v][Dimension[e]] = v
  BY DimensionVaries
<1>4. /\ DOMAIN ValuesOf(plan) = DOMAIN values
      /\ \A i \in DOMAIN values : ValuesOf(plan)[i] = values[i]
  <2>1. ValuesOf(plan) = [i \in DOMAIN plan.cells |-> plan.cells[i].configuration[Dimension[e]]]
    BY <1>1 DEF ValuesOf
  <2>2. ASSUME NEW i \in DOMAIN values
        PROVE  ValuesOf(plan)[i] = values[i]
    <3>1. ValuesOf(plan)[i] = plan.cells[i].configuration[Dimension[e]]
      BY <1>2, <2>1
    <3>2. plan.cells[i].configuration = [Baseline EXCEPT ![Dimension[e]] = values[i]]
      BY <1>2
    <3> QED
      BY <1>3, <3>1, <3>2, Zenon
  <2> QED
    BY <1>2, <2>1, <2>2
<1> QED
  BY <1>1, <1>2, <1>4 DEF Spans, plan

\* The registered plans.
LEMMA PlansSpan ==
  ASSUME NEW e \in Experiments
  PROVE  Spans(PlanOf[e], e, Levels[e])
<1>1. PlanOf[e] = Phase8Plan(e)
  BY DEF PlanOf
<1>2. CASE e = "planning_difficulty"
  <2>1. PlanOf[e] = PlanOver("planning_difficulty", Levels[e], "validation", Difficulties)
    BY <1>1, <1>2 DEF Phase8Plan, Levels
  <2> QED
    BY <1>2, <2>1, PlanOverSpans
<1>3. CASE e = "investigation_budget"
  <2>1. PlanOf[e] = PlanOver("investigation_budget", Levels[e], "validation", Difficulties)
    BY <1>1, <1>3 DEF Phase8Plan, Levels
  <2> QED
    BY <1>3, <2>1, PlanOverSpans
<1>4. CASE e = "tool_order"
  <2>1. PlanOf[e] = PlanOver("tool_order", Levels[e], "validation", Difficulties)
    BY <1>1, <1>4 DEF Phase8Plan, Levels
  <2> QED
    BY <1>4, <2>1, PlanOverSpans
<1>5. CASE e = "passive_vs_verification"
  <2>1. PlanOf[e] = PlanOver("passive_vs_verification", Levels[e], "validation", Difficulties)
    BY <1>1, <1>5 DEF Phase8Plan, Levels
  <2> QED
    BY <1>5, <2>1, PlanOverSpans
<1>6. CASE e = "temporal_reasoning"
  <2>1. PlanOf[e] = PlanOver("temporal_reasoning", Levels[e], "validation", Difficulties)
    BY <1>1, <1>6 DEF Phase8Plan, Levels
  <2> QED
    BY <1>6, <2>1, PlanOverSpans
<1>7. CASE e = "compound_handling"
  <2>1. PlanOf[e] = PlanOver("compound_handling", Levels[e], "hidden_test", {"compound"})
    BY <1>1, <1>7 DEF Phase8Plan, Levels
  <2> QED
    BY <1>7, <2>1, PlanOverSpans
<1> QED
  BY <1>2, <1>3, <1>4, <1>5, <1>6, <1>7, TheExperiments

LEMMA TierSpans ==
  ASSUME NEW difficulty
  PROVE  Spans(TierPlan(difficulty), "planning_difficulty", Levels["planning_difficulty"])
<1>1. TierPlan(difficulty)
        = PlanOver("planning_difficulty", Levels["planning_difficulty"],
                   SplitOf[difficulty], {difficulty})
  BY DEF TierPlan, PlanningArms, Levels
<1> QED
  BY <1>1, PlanOverSpans, TheExperiments

\* The parts a script is given to enumerate.
LEMMA BatchesSpan ==
  ASSUME NEW e \in Experiments, NEW a \in ScriptsOf(e)
  PROVE  LET given == Batches(e, a) IN
         /\ \E n \in Nat : DOMAIN given = 1 .. n
         /\ \A i \in DOMAIN given :
              /\ IsFiniteSet(DOMAIN given[i].scenarios)
              /\ given[i].plan.experiment = e
              /\ \E t : Treated(e, a, t) /\ given[i].cell.configuration = t.configuration
<1> DEFINE plan == PlanOf[e]
<1> DEFINE given == Batches(e, a)
<1> DEFINE Treats(c) == IF e = "investigation_budget"
                        THEN \E budget : c = [Baseline EXCEPT !.budget = budget]
                        ELSE c = [Baseline EXCEPT ![Dimension[e]] = ValuesOf(PlanOf[e])[a]]
<1>1. Spans(plan, e, Levels[e])
  BY PlansSpan
<1>2. CohortOf[e] \in Seq(ToSet(CohortOf[e])) /\ IsFiniteSet(DOMAIN CohortOf[e])
  <2>1. CohortOf[e] \in Seq(ToSet(CohortOf[e]))
    BY StudiesAssumption
  <2>2. Len(CohortOf[e]) \in Nat /\ DOMAIN CohortOf[e] = 1 .. Len(CohortOf[e])
    BY <2>1, LenProperties
  <2>3. \A n \in Nat : IsFiniteSet(1 .. n)
    BY FS_Interval
  <2> QED
    BY <2>1, <2>2, <2>3
<1>3. \A c : Treats(c) => \E t : Treated(e, a, t) /\ c = t.configuration
  <2> SUFFICES ASSUME NEW c, Treats(c)
               PROVE  \E t : Treated(e, a, t) /\ c = t.configuration
    OBVIOUS
  <2> DEFINE t == [experiment |-> e, configuration |-> c]
  <2>1. t.experiment = e /\ t.configuration = c
    OBVIOUS
  <2> HIDE DEF t
  <2>2. Treated(e, a, t)
    BY <2>1 DEF Treated
  <2> QED
    BY <2>1, <2>2
<1>4. CASE e = "planning_difficulty"
  <2> DEFINE tiers == TiersOf(CohortOf[e])
  <2>1. \E n \in Nat : DOMAIN tiers = 1 .. n
    <3> DEFINE names == <<"easy", "medium", "hard", "adversarial", "compound">>
    <3> DEFINE places == {i \in DOMAIN names : TierOf(CohortOf[e], names[i]) # <<>>}
    <3>1. tiers = Only(names, places)
      BY DEF TiersOf
    <3>2. names \in Seq({"easy", "medium", "hard", "adversarial", "compound"})
      OBVIOUS
    <3>3. places \in SUBSET DOMAIN names
      OBVIOUS
    <3> HIDE DEF names, places
    <3> QED
      BY <3>1, <3>2, <3>3, OnlyKeeps
  <2>2. given = [i \in DOMAIN tiers |->
                   [plan |-> TierPlan(tiers[i]), cell |-> TierPlan(tiers[i]).cells[a],
                    scenarios |-> Selected(CohortOf[e], tiers[i])]]
    BY <1>4 DEF Batches
  <2> HIDE DEF tiers
  <2>3. ASSUME NEW i \in DOMAIN given
        PROVE  /\ IsFiniteSet(DOMAIN given[i].scenarios)
               /\ given[i].plan.experiment = e
               /\ Treats(given[i].cell.configuration)
    <3>1. /\ given[i].plan = TierPlan(tiers[i]) /\ given[i].cell = TierPlan(tiers[i]).cells[a]
          /\ given[i].scenarios = Selected(CohortOf[e], tiers[i])
      BY <2>2, <2>3
    <3>2. a \in DOMAIN Levels[e]
      BY <1>1, <1>4 DEF ScriptsOf, Spans
    <3>3. Spans(TierPlan(tiers[i]), e, Levels[e])
      BY <1>4, TierSpans
    <3>4. /\ TierPlan(tiers[i]).experiment = e
          /\ TierPlan(tiers[i]).cells[a].configuration
               = [Baseline EXCEPT ![Dimension[e]] = ValuesOf(PlanOf[e])[a]]
      BY <1>1, <3>2, <3>3 DEF Spans
    <3>5. IsFiniteSet(DOMAIN Selected(CohortOf[e], tiers[i]))
      <4>1. DOMAIN Selected(CohortOf[e], tiers[i]) = 1 .. PerTier
        <5>1. PerTier \in Nat
          BY SizeAssumption
        <5> QED
          BY <5>1 DEF Selected, SubSeq
      <4>2. \A n \in Nat : IsFiniteSet(1 .. n)
        BY FS_Interval
      <4> QED
        BY <4>1, <4>2, SizeAssumption
    <3> QED
      BY <1>4, <3>1, <3>4, <3>5
  <2>4. DOMAIN given = DOMAIN tiers
    BY <2>2
  <2> HIDE DEF given, Treats
  <2> QED
    BY <1>3, <2>1, <2>3, <2>4 DEF given
<1>5. CASE e = "investigation_budget"
  <2>1. given = [i \in DOMAIN plan.cells |->
                   [plan |-> plan, cell |-> plan.cells[i], scenarios |-> CohortOf[e]]]
    BY <1>5 DEF Batches
  <2>2. DOMAIN plan.cells = 1 .. 4
    BY <1>1, <1>5 DEF Spans, Levels
  <2> HIDE DEF plan
  <2>3. ASSUME NEW i \in DOMAIN given
        PROVE  /\ IsFiniteSet(DOMAIN given[i].scenarios)
               /\ given[i].plan.experiment = e
               /\ Treats(given[i].cell.configuration)
    <3>1. /\ i \in DOMAIN plan.cells
          /\ given[i].plan = plan /\ given[i].cell = plan.cells[i]
          /\ given[i].scenarios = CohortOf[e]
      BY <2>1, <2>3
    <3>2. plan.cells[i].configuration = [Baseline EXCEPT !.budget = Levels[e][i]]
      <4>1. plan.cells[i].configuration = [Baseline EXCEPT ![Dimension[e]] = Levels[e][i]]
        BY <1>1, <3>1 DEF Spans
      <4>2. Dimension[e] = "budget"
        BY <1>5 DEF Dimension
      <4> QED
        BY <4>1, <4>2
    <3>3. plan.experiment = e
      BY <1>1 DEF Spans
    <3> QED
      BY <1>2, <1>5, <3>1, <3>2, <3>3
  <2>4. DOMAIN given = 1 .. 4 /\ 4 \in Nat
    BY <2>1, <2>2
  <2> HIDE DEF given, Treats
  <2> QED
    BY <1>3, <2>3, <2>4 DEF given
<1>6. CASE e \notin {"planning_difficulty", "investigation_budget"}
  <2>1. given = <<[plan |-> plan, cell |-> plan.cells[a], scenarios |-> CohortOf[e]]>>
    BY <1>6 DEF Batches
  <2>2. a \in DOMAIN plan.cells
    BY <1>6 DEF ScriptsOf
  <2>3. plan.cells[a].configuration = [Baseline EXCEPT ![Dimension[e]] = ValuesOf(PlanOf[e])[a]]
        /\ plan.experiment = e
    BY <1>1, <2>2 DEF Spans
  <2> HIDE DEF plan
  <2>4. DOMAIN given = 1 .. 1 /\ 1 \in Nat
    BY <2>1
  <2>5. ASSUME NEW i \in DOMAIN given
        PROVE  /\ IsFiniteSet(DOMAIN given[i].scenarios)
               /\ given[i].plan.experiment = e
               /\ Treats(given[i].cell.configuration)
    <3>1. /\ given[i].plan = plan /\ given[i].cell = plan.cells[a]
          /\ given[i].scenarios = CohortOf[e]
      BY <2>1, <2>4, <2>5
    <3> QED
      BY <1>2, <1>6, <2>3, <3>1
  <2> HIDE DEF given, Treats
  <2> QED
    BY <1>3, <2>4, <2>5 DEF given
<1> QED
  BY <1>4, <1>5, <1>6

\* Every script has a list of trials, all under the treatment of its arm.
LEMMA WorkListed ==
  ASSUME NEW e \in Experiments, NEW a \in ScriptsOf(e)
  PROVE  /\ Listed(WorkOf[e][a])
         /\ \A i \in DOMAIN WorkOf[e][a] : Treated(e, a, WorkOf[e][a][i].trial)
<1> DEFINE given == Batches(e, a)
<1> DEFINE parts == [i \in DOMAIN given |->
                       Enumerated(given[i].plan, given[i].cell, given[i].scenarios)]
<1> DEFINE S == UNION {ToSet(parts[i]) : i \in DOMAIN parts}
<1> DEFINE work == WorkOf[e][a]
<1>1. work = FlattenSeq(parts)
  BY DEF WorkOf
<1>2. PICK n \in Nat : DOMAIN given = 1 .. n
  BY BatchesSpan
<1>3. ASSUME NEW i \in DOMAIN given
      PROVE  /\ parts[i] \in Seq(ToSet(parts[i]))
             /\ \A k \in DOMAIN parts[i] :
                  /\ parts[i][k] = [trial |-> parts[i][k].trial,
                                    scenario |-> parts[i][k].scenario]
                  /\ Treated(e, a, parts[i][k].trial)
  <2> DEFINE plan == given[i].plan
  <2> DEFINE cell == given[i].cell
  <2> DEFINE scenarios == given[i].scenarios
  <2>1. /\ IsFiniteSet(DOMAIN scenarios) /\ plan.experiment = e
        /\ \E t : Treated(e, a, t) /\ cell.configuration = t.configuration
    BY BatchesSpan
  <2>2. parts[i] = Enumerated(plan, cell, scenarios)
    OBVIOUS
  <2> HIDE DEF plan, cell, scenarios, parts, given
  <2>3. /\ parts[i] \in Seq(ToSet(parts[i]))
        /\ \A k \in DOMAIN parts[i] :
             /\ parts[i][k] = [trial |-> parts[i][k].trial, scenario |-> parts[i][k].scenario]
             /\ parts[i][k].trial.experiment = plan.experiment
             /\ parts[i][k].trial.configuration = cell.configuration
    BY <2>1, <2>2, EnumeratedTrials
  <2>4. PICK t : Treated(e, a, t) /\ cell.configuration = t.configuration
    BY <2>1
  <2>5. ASSUME NEW k \in DOMAIN parts[i]
        PROVE  Treated(e, a, parts[i][k].trial)
    <3>1. /\ parts[i][k].trial.experiment = e
          /\ parts[i][k].trial.configuration = t.configuration
      BY <2>1, <2>3, <2>4
    <3> QED
      BY <2>4, <3>1 DEF Treated
  <2> QED
    BY <2>3, <2>5
<1>4. DOMAIN parts = 1 .. n
  BY <1>2
<1> HIDE DEF parts
<1>5. parts \in Seq(Seq(S))
  <2>1. ASSUME NEW i \in DOMAIN parts
        PROVE  parts[i] \in Seq(S)
    <3>1. i \in DOMAIN given
      BY <1>2, <1>4
    <3>2. ToSet(parts[i]) \subseteq S
      OBVIOUS
    <3>3. parts[i] \in Seq(ToSet(parts[i]))
      BY <1>3, <3>1
    <3> HIDE DEF S
    <3> QED
      BY <3>2, <3>3
  <2> HIDE DEF S
  <2>2. parts \in [1 .. n -> Seq(S)]
    <3>1. parts = [i \in DOMAIN parts |-> parts[i]]
      BY DEF parts
    <3> QED
      BY <1>4, <2>1, <3>1
  <2> QED
    BY <1>2, <2>2, FunctionIsSequence
<1> HIDE DEF S
<1>6. /\ work \in Seq(S)
      /\ \A p \in DOMAIN work : \E i \in DOMAIN parts : \E k \in DOMAIN parts[i] :
           work[p] = parts[i][k]
  BY <1>1, <1>5, FlattenKeeps
<1> HIDE DEF work, given
<1>7. \A p \in DOMAIN work : /\ work[p] = [trial |-> work[p].trial, scenario |-> work[p].scenario]
                             /\ Treated(e, a, work[p].trial)
  BY <1>2, <1>3, <1>4, <1>6
<1>8. work \in Seq(ToSet(work))
  <2>1. Len(work) \in Nat /\ DOMAIN work = 1 .. Len(work) /\ work = [p \in DOMAIN work |-> work[p]]
    BY <1>6
  <2>2. work \in [1 .. Len(work) -> ToSet(work)]
    BY <2>1 DEF ToSet
  <2> QED
    BY <2>1, <2>2, FunctionIsSequence
<1> QED
  BY <1>7, <1>8 DEF Listed, work

-----------------------------------------------------------------------------
(* The settings of the backend. *)

\* Settings that agree in every field are the same.
LEMMA SettingsAreRecords ==
  ASSUME NEW s \in Settings, NEW t \in Settings,
         s.architecture = t.architecture, s.temporal = t.temporal, s.order = t.order,
         s.ordered = t.ordered, s.evidence = t.evidence, s.depth = t.depth,
         s.capped = t.capped, s.stopping = t.stopping, s.compound = t.compound, s.llm = t.llm,
         s.limits = t.limits
  PROVE  s = t
  BY DEF Settings

LEMMA DefaultIsSetting ==
  /\ DefaultSettings \in Settings
  /\ DefaultSettings.architecture = "explicit_planner" /\ DefaultSettings.temporal = "standard"
  /\ DefaultSettings.order = "free" /\ DefaultSettings.ordered = FALSE
  /\ DefaultSettings.evidence = "passive_only" /\ DefaultSettings.depth = 20
  /\ DefaultSettings.capped = FALSE /\ DefaultSettings.stopping = "confidence_threshold"
  /\ DefaultSettings.compound = FALSE /\ DefaultSettings.llm = "local"
  /\ DefaultSettings.limits = "shipped"
  BY DEF DefaultSettings, Settings, Architectures, TemporalModes, Orders, EvidenceModes, Stoppings

\* The value of an arm of a study whose arms have backends of their own.
LEMMA ArmValues ==
  ASSUME NEW e \in Experiments, e # "investigation_budget", NEW a \in ScriptsOf(e)
  PROVE  /\ ValuesOf(PlanOf[e])[a] = Levels[e][a]
         /\ e = "planning_difficulty" => Levels[e][a] \in Architectures
         /\ e = "tool_order" => Levels[e][a] \in Orders
         /\ e = "passive_vs_verification" => Levels[e][a] \in EvidenceModes
         /\ e = "temporal_reasoning" => Levels[e][a] \in TemporalModes
         /\ e = "compound_handling" => Levels[e][a] \in Stoppings
<1>1. Spans(PlanOf[e], e, Levels[e])
  BY PlansSpan
<1>2. a \in DOMAIN Levels[e] /\ ValuesOf(PlanOf[e])[a] = Levels[e][a]
  BY <1>1 DEF ScriptsOf, Spans
<1>3. CASE e = "planning_difficulty"
  BY <1>2, <1>3 DEF Levels, Architectures
<1>4. CASE e = "tool_order"
  BY <1>2, <1>4 DEF Levels, Orders
<1>5. CASE e = "passive_vs_verification"
  BY <1>2, <1>5 DEF Levels, EvidenceModes
<1>6. CASE e = "temporal_reasoning"
  BY <1>2, <1>6 DEF Levels, TemporalModes
<1>7. CASE e = "compound_handling"
  BY <1>2, <1>7 DEF Levels, Stoppings
<1> QED
  BY <1>2, <1>3, <1>4, <1>5, <1>6, <1>7, TheExperiments

\* The backends that the workflow deploys, field by field.
LEMMA DeployedSettings ==
  ASSUME NEW e \in Experiments, NEW a \in ScriptsOf(e)
  PROVE  LET d == Deployed(e, a)
             value == ValuesOf(PlanOf[e])[a]
         IN /\ d \in Settings
            /\ d.architecture = IF e = "planning_difficulty" THEN value ELSE "explicit_planner"
            /\ d.temporal = IF e = "temporal_reasoning" THEN value ELSE "standard"
            /\ d.order = IF e = "tool_order" THEN value ELSE "free"
            /\ d.ordered = (e = "tool_order")
            /\ d.evidence = IF e = "passive_vs_verification" THEN value ELSE "passive_only"
            /\ d.stopping = IF e = "compound_handling" THEN value ELSE "confidence_threshold"
            /\ d.compound = (e = "compound_handling")
            /\ d.depth = 20 /\ d.capped = FALSE /\ d.llm = "local" /\ d.limits = "shipped"
<1> DEFINE value == ValuesOf(PlanOf[e])[a]
<1>1. /\ e = "planning_difficulty" => value \in Architectures
      /\ e = "tool_order" => value \in Orders
      /\ e = "passive_vs_verification" => value \in EvidenceModes
      /\ e = "temporal_reasoning" => value \in TemporalModes
      /\ e = "compound_handling" => value \in Stoppings
  BY ArmValues
<1> HIDE DEF value
<1>2. CASE e = "planning_difficulty"
  BY <1>1, <1>2, DefaultIsSetting DEF Deployed, value, Settings
<1>3. CASE e = "investigation_budget"
  BY <1>1, <1>3, DefaultIsSetting DEF Deployed, value, Settings
<1>4. CASE e = "tool_order"
  BY <1>1, <1>4, DefaultIsSetting DEF Deployed, value, Settings
<1>5. CASE e = "passive_vs_verification"
  BY <1>1, <1>5, DefaultIsSetting DEF Deployed, value, Settings
<1>6. CASE e = "temporal_reasoning"
  BY <1>1, <1>6, DefaultIsSetting DEF Deployed, value, Settings
<1>7. CASE e = "compound_handling"
  BY <1>1, <1>7, DefaultIsSetting DEF Deployed, value, Settings
<1> QED
  BY <1>2, <1>3, <1>4, <1>5, <1>6, <1>7, TheExperiments

LEMMA BackendsAreSettings ==
  /\ Backends \subseteq Settings
  /\ DefaultSettings \in Backends
  /\ \A e \in Experiments : \A a \in ScriptsOf(e) : Deployed(e, a) \in Backends
<1>1. Deployments \subseteq Settings
  BY StudiesAssumption
<1>2. \A e \in Experiments : \A a \in ScriptsOf(e) : Deployed(e, a) \in Settings
  BY DeployedSettings
<1>3. "investigation_budget" \in Experiments /\ 1 \in ScriptsOf("investigation_budget")
  BY TheExperiments DEF ScriptsOf
<1>4. Deployed("investigation_budget", 1) = DefaultSettings
  BY DEF Deployed
<1> QED
  BY <1>1, <1>2, <1>3, <1>4 DEF Backends

\* The arm whose deployment stands for arm a: one backend serves all the budgets.
ArmServed(e, a) == IF e = "investigation_budget" THEN 1 ELSE a

LEMMA TreatedConfiguration ==
  ASSUME NEW e \in Experiments, NEW a \in ScriptsOf(e), NEW t, Treated(e, a, t)
  PROVE  LET c == t.configuration
             value == ValuesOf(PlanOf[e])[a]
         IN /\ c.architecture = IF e = "planning_difficulty" THEN value ELSE "explicit_planner"
            /\ c.temporal = IF e = "temporal_reasoning" THEN value ELSE "standard"
            /\ c.order = IF e = "tool_order" THEN value ELSE "free"
            /\ c.evidence = IF e = "passive_vs_verification" THEN value ELSE "passive_only"
            /\ c.stopping = IF e = "compound_handling" THEN value ELSE "confidence_threshold"
<1> DEFINE value == ValuesOf(PlanOf[e])[a]
<1> DEFINE c == t.configuration
<1>1. e # "investigation_budget" => c = [Baseline EXCEPT ![Dimension[e]] = value]
  BY DEF Treated
<1>2. e = "investigation_budget" => \E budget : c = [Baseline EXCEPT !.budget = budget]
  BY DEF Treated
<1> HIDE DEF value, c
<1>3. CASE e = "planning_difficulty"
  <2>1. Dimension[e] = "architecture"
    BY <1>3 DEF Dimension
  <2>2. c = [Baseline EXCEPT !.architecture = value]
    BY <1>1, <1>3, <2>1
  <2> QED
    BY <1>3, <2>2 DEF Baseline, c, value
<1>4. CASE e = "investigation_budget"
  BY <1>2, <1>4 DEF Baseline, c, value
<1>5. CASE e = "tool_order"
  <2>1. Dimension[e] = "order"
    BY <1>5 DEF Dimension
  <2>2. c = [Baseline EXCEPT !.order = value]
    BY <1>1, <1>5, <2>1
  <2> QED
    BY <1>5, <2>2 DEF Baseline, c, value
<1>6. CASE e = "passive_vs_verification"
  <2>1. Dimension[e] = "evidence"
    BY <1>6 DEF Dimension
  <2>2. c = [Baseline EXCEPT !.evidence = value]
    BY <1>1, <1>6, <2>1
  <2> QED
    BY <1>6, <2>2 DEF Baseline, c, value
<1>7. CASE e = "temporal_reasoning"
  <2>1. Dimension[e] = "temporal"
    BY <1>7 DEF Dimension
  <2>2. c = [Baseline EXCEPT !.temporal = value]
    BY <1>1, <1>7, <2>1
  <2> QED
    BY <1>7, <2>2 DEF Baseline, c, value
<1>8. CASE e = "compound_handling"
  <2>1. Dimension[e] = "stopping"
    BY <1>8 DEF Dimension
  <2>2. c = [Baseline EXCEPT !.stopping = value]
    BY <1>1, <1>8, <2>1
  <2> QED
    BY <1>8, <2>2 DEF Baseline, c, value
<1> QED
  BY <1>3, <1>4, <1>5, <1>6, <1>7, <1>8, TheExperiments

\* A backend whose health is accepted for a trial runs with what the workflow deploys
\* for the trial's arm, up to the cap on records, the model and the limits.
LEMMA TreatmentTold ==
  ASSUME NEW e \in Experiments, NEW a \in ScriptsOf(e), NEW t, Treated(e, a, t),
         NEW s \in Settings, HealthMatches(t, Health(s))
  PROVE  [s EXCEPT !.capped = FALSE, !.depth = 20, !.llm = "local", !.limits = "shipped"]
           = Deployed(e, ArmServed(e, a))
<1> DEFINE told == [s EXCEPT !.capped = FALSE, !.depth = 20, !.llm = "local", !.limits = "shipped"]
<1> DEFINE served == ArmServed(e, a)
<1> DEFINE d == Deployed(e, served)
<1> DEFINE c == t.configuration
<1>1. served \in ScriptsOf(e) /\ (e # "investigation_budget" => served = a)
  BY DEF ArmServed, ScriptsOf
<1>2. t.experiment = e
  BY DEF Treated
<1>3. /\ s.architecture = c.architecture /\ s.temporal = c.temporal /\ s.order = c.order
      /\ s.ordered = (e = "tool_order") /\ s.evidence = c.evidence /\ s.stopping = c.stopping
      /\ s.compound = (e = "compound_handling")
  BY <1>2 DEF HealthMatches, Health
<1>4. /\ told \in Settings /\ told.capped = FALSE /\ told.depth = 20 /\ told.llm = "local"
      /\ told.limits = "shipped"
      /\ told.architecture = s.architecture /\ told.temporal = s.temporal
      /\ told.order = s.order /\ told.ordered = s.ordered /\ told.evidence = s.evidence
      /\ told.stopping = s.stopping /\ told.compound = s.compound
  <2>1. /\ told.capped = FALSE /\ told.depth = 20 /\ told.llm = "local" /\ told.limits = "shipped"
        /\ told.architecture = s.architecture /\ told.temporal = s.temporal
        /\ told.order = s.order /\ told.ordered = s.ordered /\ told.evidence = s.evidence
        /\ told.stopping = s.stopping /\ told.compound = s.compound
    BY DEF Settings
  <2>2. told \in Settings
    <3> DEFINE uncapped == [s EXCEPT !.capped = FALSE]
    <3> DEFINE deep == [uncapped EXCEPT !.depth = 20]
    <3>1. uncapped \in Settings
      BY DEF Settings
    <3> DEFINE plain == [deep EXCEPT !.llm = "local"]
    <3>2. told = [plain EXCEPT !.limits = "shipped"]
      OBVIOUS
    <3> HIDE DEF uncapped
    <3>3. deep \in Settings
      BY <3>1 DEF Settings
    <3> HIDE DEF deep
    <3>4. plain \in Settings
      BY <3>3 DEF Settings
    <3> HIDE DEF plain, told
    <3> QED
      BY <3>2, <3>4 DEF Settings
  <2> HIDE DEF told
  <2> QED
    BY <2>1, <2>2, Zenon
<1> DEFINE value == ValuesOf(PlanOf[e])[a]
<1>5. /\ c.architecture = IF e = "planning_difficulty" THEN value ELSE "explicit_planner"
      /\ c.temporal = IF e = "temporal_reasoning" THEN value ELSE "standard"
      /\ c.order = IF e = "tool_order" THEN value ELSE "free"
      /\ c.evidence = IF e = "passive_vs_verification" THEN value ELSE "passive_only"
      /\ c.stopping = IF e = "compound_handling" THEN value ELSE "confidence_threshold"
  BY TreatedConfiguration
<1> DEFINE other == ValuesOf(PlanOf[e])[served]
<1>6. /\ d \in Settings
      /\ d.architecture = IF e = "planning_difficulty" THEN other ELSE "explicit_planner"
      /\ d.temporal = IF e = "temporal_reasoning" THEN other ELSE "standard"
      /\ d.order = IF e = "tool_order" THEN other ELSE "free"
      /\ d.ordered = (e = "tool_order")
      /\ d.evidence = IF e = "passive_vs_verification" THEN other ELSE "passive_only"
      /\ d.stopping = IF e = "compound_handling" THEN other ELSE "confidence_threshold"
      /\ d.compound = (e = "compound_handling")
      /\ d.depth = 20 /\ d.capped = FALSE /\ d.llm = "local" /\ d.limits = "shipped"
  BY <1>1, DeployedSettings
<1>7. e = "investigation_budget" \/ value = other
  BY <1>1
<1> HIDE DEF told, d, c, value, other
<1>8. /\ told.architecture = d.architecture /\ told.temporal = d.temporal /\ told.order = d.order
      /\ told.ordered = d.ordered /\ told.evidence = d.evidence /\ told.depth = d.depth
      /\ told.capped = d.capped /\ told.stopping = d.stopping /\ told.compound = d.compound
      /\ told.llm = d.llm /\ told.limits = d.limits
  <2>1. /\ told.depth = d.depth /\ told.capped = d.capped /\ told.llm = d.llm
        /\ told.limits = d.limits
    BY <1>4, <1>6
  <2>2. /\ told.ordered = d.ordered /\ told.compound = d.compound
    <3>1. told.ordered = (e = "tool_order") /\ told.compound = (e = "compound_handling")
      BY <1>3, <1>4, Zenon
    <3> QED
      BY <1>6, <3>1, Zenon
  <2>3. /\ told.architecture = c.architecture /\ told.temporal = c.temporal
        /\ told.order = c.order /\ told.evidence = c.evidence /\ told.stopping = c.stopping
    BY <1>3, <1>4, Zenon
  <2>4. /\ c.architecture = d.architecture /\ c.temporal = d.temporal
        /\ c.order = d.order /\ c.evidence = d.evidence /\ c.stopping = d.stopping
    <3>1. CASE e = "investigation_budget"
      BY <1>5, <1>6, <3>1
    <3>2. CASE e # "investigation_budget"
      BY <1>5, <1>6, <1>7, <3>2
    <3> QED
      BY <3>1, <3>2
  <2> QED
    BY <2>1, <2>2, <2>3, <2>4, Zenon
<1>9. told = d
  BY <1>4, <1>6, <1>8, SettingsAreRecords
<1> QED
  BY <1>9 DEF told, d

-----------------------------------------------------------------------------
(* The inductive invariant: the store, the journal, the script that runs and the *)
(* artifacts, each as far as the others depend on it.                            *)

\* Every score comes from an agent whose backend was found to fit the trial.
Scored(scores, made) ==
  /\ IsFiniteSet(DOMAIN scores) /\ made = Cardinality(DOMAIN scores)
  /\ \A t \in DOMAIN scores :
       /\ scores[t].settings \in Settings /\ scores[t].checked \in Settings
       /\ HealthMatches(t, Health(scores[t].checked))

\* A trial is completed with its score.
Journaled(entries, scores) ==
  \A t \in DOMAIN entries :
    /\ entries[t].status \in {"running", "completed", "failed"}
    /\ entries[t].status = "completed" =>
         /\ t \in DOMAIN scores
         /\ entries[t] = [status |-> "completed", outcome |-> scores[t]]

CompletedIn(entries, t) == t \in DOMAIN entries /\ entries[t].status = "completed"

Places == {"idle", "load", "check", "run", "save", "finish"}

\* What is behind the script is completed; its own trial is running, and has been
\* found to fit the backend once the script is past its check.
Working(e, s, entries, scores) ==
  LET work == WorkOf[e][s.arm]
      trial == work[s.next].trial
  IN /\ s.at \in Places /\ s.next \in Nat \ {0} /\ s.checked \in Settings
     /\ s = [arm |-> s.arm, at |-> s.at, next |-> s.next, checked |-> s.checked]
     /\ s.at # "idle" => /\ s.arm \in ScriptsOf(e)
                         /\ \A i \in DOMAIN work : i < s.next => CompletedIn(entries, work[i].trial)
     /\ s.at = "finish" => s.next > Len(work)
     /\ s.at \in {"check", "run", "save"} =>
          s.next \in DOMAIN work /\ trial \in DOMAIN entries /\ entries[trial].status = "running"
     /\ s.at \in {"run", "save"} => HealthMatches(trial, Health(s.checked))
     /\ s.at = "run" => trial \notin DOMAIN scores
     /\ s.at = "save" => trial \in DOMAIN scores

\* What an arm has written down are trials of its own, as the journal has them.
Written(e, arms, entries) ==
  /\ DOMAIN arms = ScriptsOf(e)
  /\ \A a \in DOMAIN arms : \A x \in ToSet(arms[a]) :
       /\ x.trial \in DOMAIN entries
       /\ entries[x.trial] = [status |-> "completed", outcome |-> x.outcome]
       /\ \E i \in DOMAIN WorkOf[e][a] : WorkOf[e][a][i].trial = x.trial

StudyInv ==
  /\ study \in Experiments /\ backend \in Backends
  /\ Scored(stored, runs)
  /\ Journaled(journal, stored)
  /\ Working(study, script, journal, stored)
  /\ Written(study, artifacts, journal)

\* What was completed stays so, entry by entry.
KeepsDone(entries, later) ==
  \A t \in DOMAIN entries :
    entries[t].status = "completed" => t \in DOMAIN later /\ later[t] = entries[t]

LEMMA OpenTrialsKeep ==
  ASSUME NEW entries, NEW trial, NEW entry, ~CompletedIn(entries, trial)
  PROVE  KeepsDone(entries, With(entries, trial, entry))
<1> DEFINE later == With(entries, trial, entry)
<1>1. /\ DOMAIN later = DOMAIN entries \cup {trial}
      /\ \A t \in DOMAIN entries : t # trial => later[t] = entries[t]
  BY DEF With
<1> HIDE DEF later
<1>2. KeepsDone(entries, later)
  BY <1>1 DEF KeepsDone, CompletedIn
<1> QED
  BY <1>2 DEF later

LEMMA CompletedStays ==
  ASSUME NEW entries, NEW later, KeepsDone(entries, later)
  PROVE  \A t : CompletedIn(entries, t) => CompletedIn(later, t)
  BY DEF KeepsDone, CompletedIn

LEMMA WrittenStays ==
  ASSUME NEW e, NEW arms, NEW entries, NEW later, KeepsDone(entries, later), Written(e, arms, entries)
  PROVE  Written(e, arms, later)
<1>1. ASSUME NEW a \in DOMAIN arms, NEW x \in ToSet(arms[a])
      PROVE  /\ x.trial \in DOMAIN later
             /\ later[x.trial] = [status |-> "completed", outcome |-> x.outcome]
             /\ \E i \in DOMAIN WorkOf[e][a] : WorkOf[e][a][i].trial = x.trial
  <2>1. /\ x.trial \in DOMAIN entries
        /\ entries[x.trial] = [status |-> "completed", outcome |-> x.outcome]
        /\ \E i \in DOMAIN WorkOf[e][a] : WorkOf[e][a][i].trial = x.trial
    BY DEF Written
  <2>2. entries[x.trial].status = "completed"
    BY <2>1
  <2>3. x.trial \in DOMAIN later /\ later[x.trial] = entries[x.trial]
    BY <2>1, <2>2 DEF KeepsDone
  <2> QED
    BY <2>1, <2>3
<1>2. DOMAIN arms = ScriptsOf(e)
  BY DEF Written
<1> QED
  BY <1>1, <1>2 DEF Written

LEMMA JournalGrows ==
  ASSUME NEW entries, NEW scores, NEW trial, NEW status, NEW outcome,
         Journaled(entries, scores), status \in {"running", "completed", "failed"},
         status = "completed" => trial \in DOMAIN scores /\ outcome = scores[trial]
  PROVE  Journaled(With(entries, trial, [status |-> status, outcome |-> outcome]), scores)
<1> DEFINE entry == [status |-> status, outcome |-> outcome]
<1> DEFINE later == With(entries, trial, entry)
<1>1. /\ DOMAIN later = DOMAIN entries \cup {trial} /\ later[trial] = entry
      /\ \A t \in DOMAIN entries : t # trial => later[t] = entries[t]
  BY DEF With
<1> HIDE DEF later
<1>2. ASSUME NEW t \in DOMAIN later
      PROVE  /\ later[t].status \in {"running", "completed", "failed"}
             /\ later[t].status = "completed" =>
                  /\ t \in DOMAIN scores
                  /\ later[t] = [status |-> "completed", outcome |-> scores[t]]
  <2>1. CASE t = trial
    BY <1>1, <2>1
  <2>2. CASE t # trial
    <3>1. t \in DOMAIN entries /\ later[t] = entries[t]
      BY <1>1, <2>2
    <3> QED
      BY <3>1 DEF Journaled
  <2> QED
    BY <2>1, <2>2
<1>3. Journaled(later, scores)
  BY <1>2 DEF Journaled
<1> QED
  BY <1>3 DEF later

\* A score that is new.
LEMMA StoreGrows ==
  ASSUME NEW scores, NEW made, NEW trial, NEW entry, Scored(scores, made),
         trial \notin DOMAIN scores, entry.settings \in Settings, entry.checked \in Settings,
         HealthMatches(trial, Health(entry.checked))
  PROVE  /\ Scored(With(scores, trial, entry), made + 1)
         /\ \A entries : Journaled(entries, scores) =>
                         Journaled(entries, With(scores, trial, entry))
<1> DEFINE later == With(scores, trial, entry)
<1>1. /\ DOMAIN later = DOMAIN scores \cup {trial} /\ later[trial] = entry
      /\ \A t \in DOMAIN scores : later[t] = scores[t]
  BY DEF With
<1> HIDE DEF later
<1>2. IsFiniteSet(DOMAIN later) /\ made + 1 = Cardinality(DOMAIN later)
  <2>1. IsFiniteSet(DOMAIN scores) /\ made = Cardinality(DOMAIN scores)
    BY DEF Scored
  <2> QED
    BY <1>1, <2>1, FS_AddElement
<1>3. ASSUME NEW t \in DOMAIN later
      PROVE  /\ later[t].settings \in Settings /\ later[t].checked \in Settings
             /\ HealthMatches(t, Health(later[t].checked))
  <2>1. CASE t = trial
    BY <1>1, <2>1
  <2>2. CASE t # trial
    <3>1. t \in DOMAIN scores /\ later[t] = scores[t]
      BY <1>1, <2>2
    <3> QED
      BY <3>1 DEF Scored
  <2> QED
    BY <2>1, <2>2
<1>4. Scored(later, made + 1)
  BY <1>2, <1>3 DEF Scored
<1>5. ASSUME NEW entries, Journaled(entries, scores)
      PROVE  Journaled(entries, later)
  BY <1>1, <1>5 DEF Journaled
<1> QED
  BY <1>4, <1>5 DEF later

LEMMA IdleWorks ==
  ASSUME NEW e, NEW entries, NEW scores
  PROVE  Working(e, Idle, entries, scores)
  BY DefaultIsSetting DEF Working, Idle, Places

LEMMA StudyStarts == Init => StudyInv
<1> SUFFICES ASSUME Init
             PROVE  StudyInv
  OBVIOUS
<1>1. study \in Experiments /\ backend \in Backends
  BY BackendsAreSettings DEF Init
<1>2. Scored(stored, runs) /\ Journaled(journal, stored)
  <2>1. DOMAIN stored = {} /\ DOMAIN journal = {} /\ runs = 0
    BY DEF Init
  <2> QED
    BY <2>1, FS_EmptySet DEF Scored, Journaled
<1>3. Working(study, script, journal, stored)
  BY IdleWorks DEF Init
<1>4. Written(study, artifacts, journal)
  <2>1. DOMAIN artifacts = ScriptsOf(study) /\ \A a \in DOMAIN artifacts : artifacts[a] = <<>>
    BY DEF Init, Scripts
  <2>2. ToSet(<<>>) = {}
    BY DEF ToSet
  <2> QED
    BY <2>1, <2>2 DEF Written
<1> QED
  BY <1>1, <1>2, <1>3, <1>4 DEF StudyInv

\* The script that runs and the trial it is at, as the invariant has them.
LEMMA AtTrial ==
  ASSUME StudyInv, Running
  PROVE  /\ script.arm \in ScriptsOf(study)
         /\ script.next \in Nat \ {0}
         /\ Listed(Work(script.arm))
         /\ Work(script.arm) = WorkOf[study][script.arm]
         /\ DOMAIN Work(script.arm) = 1 .. Len(Work(script.arm)) /\ Len(Work(script.arm)) \in Nat
         /\ Current = WorkOf[study][script.arm][script.next]
         /\ \A i \in DOMAIN Work(script.arm) :
              i < script.next => CompletedIn(journal, Work(script.arm)[i].trial)
<1>1. study \in Experiments /\ Working(study, script, journal, stored)
  BY DEF StudyInv
<1>2. script.arm \in ScriptsOf(study) /\ script.next \in Nat \ {0}
  BY <1>1 DEF Working, Running
<1>3. Work(script.arm) = WorkOf[study][script.arm]
  BY DEF Work
<1>4. Listed(Work(script.arm))
  BY <1>1, <1>2, <1>3, WorkListed
<1>5. DOMAIN Work(script.arm) = 1 .. Len(Work(script.arm)) /\ Len(Work(script.arm)) \in Nat
  BY <1>4, LenProperties DEF Listed
<1>6. Current = WorkOf[study][script.arm][script.next]
  BY <1>3 DEF Current
<1>7. \A i \in DOMAIN Work(script.arm) :
        i < script.next => CompletedIn(journal, Work(script.arm)[i].trial)
  BY <1>1, <1>3 DEF Working, Running
<1> QED
  BY <1>2, <1>3, <1>4, <1>5, <1>6, <1>7

\* What is left of the invariant when a trial that is not completed is written down,
\* and the store stays as it is.
LEMMA WritesKeep ==
  ASSUME StudyInv, NEW trial, NEW status, NEW outcome, ~CompletedIn(journal, trial),
         Write(trial, status, outcome), status \in {"running", "completed", "failed"},
         status = "completed" => trial \in DOMAIN stored /\ outcome = stored[trial]
  PROVE  /\ Journaled(journal', stored)
         /\ Written(study, artifacts, journal')
         /\ KeepsDone(journal, journal')
         /\ trial \in DOMAIN journal' /\ journal'[trial] = [status |-> status, outcome |-> outcome]
<1> DEFINE entry == [status |-> status, outcome |-> outcome]
<1>1. journal' = With(journal, trial, entry)
  BY DEF Write
<1>2. Journaled(journal', stored)
  BY <1>1, JournalGrows DEF StudyInv
<1>3. KeepsDone(journal, journal')
  BY <1>1, OpenTrialsKeep
<1>4. Written(study, artifacts, journal')
  BY <1>3, WrittenStays DEF StudyInv
<1>5. trial \in DOMAIN journal' /\ journal'[trial] = entry
  BY <1>1 DEF With
<1> QED
  BY <1>2, <1>3, <1>4, <1>5

\* A script is started.
LEMMA BeginKeeps ==
  ASSUME StudyInv, NEW a \in Scripts, Begin(a)
  PROVE  StudyInv'
<1>1. /\ study \in Experiments /\ study' = study /\ journal' = journal /\ stored' = stored
      /\ artifacts' = artifacts /\ runs' = runs /\ backend' = Deployed(study, a)
      /\ script' = [Idle EXCEPT !.arm = a, !.at = "load"] /\ a \in ScriptsOf(study)
  BY DEF StudyInv, Begin, Scripts
<1>2. backend' \in Backends
  BY <1>1, BackendsAreSettings
<1>3. Working(study, script', journal, stored)
  <2>1. script' = [arm |-> a, at |-> "load", next |-> 1, checked |-> DefaultSettings]
    BY <1>1 DEF Idle
  <2>2. \A i \in DOMAIN WorkOf[study][a] : ~(i < 1)
    <3>1. Listed(WorkOf[study][a])
      BY <1>1, WorkListed
    <3>2. DOMAIN WorkOf[study][a] = 1 .. Len(WorkOf[study][a]) /\ Len(WorkOf[study][a]) \in Nat
      BY <3>1, LenProperties DEF Listed
    <3> QED
      BY <3>2
  <2>3. /\ script'.arm = a /\ script'.at = "load" /\ script'.next = 1
        /\ script'.checked = DefaultSettings /\ DefaultSettings \in Settings
    BY <2>1, DefaultIsSetting
  <2>4. a \in ScriptsOf(study)
    BY <1>1
  <2> QED
    BY <2>1, <2>2, <2>3, <2>4 DEF Working, Places
<1> QED
  BY <1>1, <1>2, <1>3 DEF StudyInv

LEMMA DeployKeeps ==
  ASSUME StudyInv, Deploy
  PROVE  StudyInv'
<1>1. /\ study' = study /\ journal' = journal /\ stored' = stored /\ script' = script
      /\ artifacts' = artifacts /\ runs' = runs /\ backend' \in Deployments
  BY DEF Deploy
<1>2. backend' \in Backends
  BY <1>1 DEF Backends
<1> QED
  BY <1>1, <1>2 DEF StudyInv

LEMMA ReportKeeps ==
  ASSUME StudyInv, BuildReport
  PROVE  StudyInv'
<1>1. /\ study' = study /\ journal' = journal /\ stored' = stored /\ script' = script
      /\ artifacts' = artifacts /\ runs' = runs /\ backend' = backend
  BY DEF BuildReport
<1> QED
  BY <1>1 DEF StudyInv

\* The script skips a completed trial, begins the next one, or is through.
LEMMA LoadKeeps ==
  ASSUME StudyInv, Load
  PROVE  StudyInv'
<1> DEFINE work == Work(script.arm)
<1> DEFINE trial == Current.trial
<1>1. /\ study' = study /\ backend' = backend /\ stored' = stored /\ artifacts' = artifacts
      /\ runs' = runs /\ script.at = "load"
  BY DEF Load
<1>2. /\ script.arm \in ScriptsOf(study) /\ script.next \in Nat \ {0}
      /\ work = WorkOf[study][script.arm]
      /\ DOMAIN work = 1 .. Len(work) /\ Len(work) \in Nat
      /\ Current = WorkOf[study][script.arm][script.next]
      /\ \A i \in DOMAIN work : i < script.next => CompletedIn(journal, work[i].trial)
  BY <1>1, AtTrial DEF Running
<1>3. /\ script.checked \in Settings
      /\ script = [arm |-> script.arm, at |-> script.at, next |-> script.next,
                   checked |-> script.checked]
  BY DEF StudyInv, Working
<1> HIDE DEF work
<1>4. CASE script.next > Len(work)
  <2>1. journal' = journal /\ script' = [script EXCEPT !.at = "finish"]
    BY <1>4 DEF Load, work
  <2>2. script' = [arm |-> script.arm, at |-> "finish", next |-> script.next,
                   checked |-> script.checked]
    BY <1>3, <2>1
  <2>3. Working(study, script', journal, stored)
    BY <1>2, <1>3, <1>4, <2>2 DEF Working, Places
  <2> QED
    BY <1>1, <2>1, <2>3 DEF StudyInv
<1>5. CASE ~(script.next > Len(work)) /\ Status(trial) = "completed"
  <2>1. journal' = journal /\ script' = [script EXCEPT !.next = @ + 1]
    BY <1>5 DEF Load, work
  <2>2. script' = [arm |-> script.arm, at |-> "load", next |-> script.next + 1,
                   checked |-> script.checked]
    BY <1>1, <1>3, <2>1
  <2>3. CompletedIn(journal, work[script.next].trial)
    BY <1>2, <1>5 DEF Status, CompletedIn
  <2>4. \A i \in DOMAIN work : i < script.next + 1 => CompletedIn(journal, work[i].trial)
    BY <1>2, <2>3
  <2>5. Working(study, script', journal, stored)
    BY <1>2, <1>3, <2>2, <2>4 DEF Working, Places
  <2> QED
    BY <1>1, <2>1, <2>5 DEF StudyInv
<1>6. CASE ~(script.next > Len(work)) /\ Status(trial) # "completed"
  <2>1. /\ script' = [script EXCEPT !.at = "check"] /\ Write(trial, "running", NoOutcome)
    BY <1>6 DEF Load, work
  <2>2. script' = [arm |-> script.arm, at |-> "check", next |-> script.next,
                   checked |-> script.checked]
    BY <1>3, <2>1
  <2>3. ~CompletedIn(journal, trial)
    BY <1>6 DEF Status, CompletedIn
  <2>4. /\ Journaled(journal', stored) /\ Written(study, artifacts, journal')
        /\ KeepsDone(journal, journal') /\ trial \in DOMAIN journal'
        /\ journal'[trial] = [status |-> "running", outcome |-> NoOutcome]
    BY <2>1, <2>3, WritesKeep
  <2>5. \A i \in DOMAIN work : i < script.next => CompletedIn(journal', work[i].trial)
    BY <1>2, <2>4, CompletedStays
  <2>6. script.next \in DOMAIN work /\ trial = work[script.next].trial
    BY <1>2, <1>6
  <2> HIDE DEF trial
  <2>7. Working(study, script', journal', stored)
    BY <1>2, <1>3, <2>2, <2>4, <2>5, <2>6 DEF Working, Places
  <2> QED
    BY <1>1, <2>4, <2>7 DEF StudyInv
<1> QED
  BY <1>4, <1>5, <1>6

\* The trial of a script that is at its check, its run or its save.
LEMMA OpenTrial ==
  ASSUME StudyInv, script.at \in {"check", "run", "save"}
  PROVE  /\ Running /\ script.next \in DOMAIN WorkOf[study][script.arm]
         /\ Current.trial \in DOMAIN journal /\ journal[Current.trial].status = "running"
         /\ ~CompletedIn(journal, Current.trial)
         /\ script.checked \in Settings
         /\ script = [arm |-> script.arm, at |-> script.at, next |-> script.next,
                      checked |-> script.checked]
         /\ script.at \in {"run", "save"} => HealthMatches(Current.trial, Health(script.checked))
         /\ script.at = "run" => Current.trial \notin DOMAIN stored
         /\ script.at = "save" => Current.trial \in DOMAIN stored
<1>1. Running
  BY DEF Running
<1>2. Current = WorkOf[study][script.arm][script.next]
  BY <1>1, AtTrial
<1>3. Working(study, script, journal, stored)
  BY DEF StudyInv
<1>4. /\ script.next \in DOMAIN WorkOf[study][script.arm]
      /\ Current.trial \in DOMAIN journal /\ journal[Current.trial].status = "running"
      /\ script.checked \in Settings
      /\ script = [arm |-> script.arm, at |-> script.at, next |-> script.next,
                   checked |-> script.checked]
      /\ script.at \in {"run", "save"} => HealthMatches(Current.trial, Health(script.checked))
      /\ script.at = "run" => Current.trial \notin DOMAIN stored
      /\ script.at = "save" => Current.trial \in DOMAIN stored
  BY <1>2, <1>3 DEF Working
<1>5. ~CompletedIn(journal, Current.trial)
  BY <1>4 DEF CompletedIn
<1> QED
  BY <1>1, <1>4, <1>5

\* The health of the backend is read, and accepted or not.
LEMMA CheckKeeps ==
  ASSUME StudyInv, Check
  PROVE  StudyInv'
<1> DEFINE work == WorkOf[study][script.arm]
<1> DEFINE trial == Current.trial
<1>1. /\ study' = study /\ backend' = backend /\ stored' = stored /\ artifacts' = artifacts
      /\ runs' = runs /\ script.at = "check"
  BY DEF Check
<1>2. /\ script.next \in DOMAIN work
      /\ trial \in DOMAIN journal /\ journal[trial].status = "running"
      /\ ~CompletedIn(journal, trial)
      /\ script = [arm |-> script.arm, at |-> script.at, next |-> script.next,
                   checked |-> script.checked]
  BY <1>1, OpenTrial
<1>3. /\ script.arm \in ScriptsOf(study) /\ script.next \in Nat \ {0} /\ trial = work[script.next].trial
      /\ \A i \in DOMAIN work : i < script.next => CompletedIn(journal, work[i].trial)
  BY <1>1, AtTrial DEF Running
<1>4. CASE Supported(trial) /\ HealthMatches(trial, Health(backend))
  <2> DEFINE at == IF trial \in DOMAIN stored THEN "save" ELSE "run"
  <2>1. journal' = journal /\ script' = [script EXCEPT !.at = at, !.checked = backend]
    BY <1>4 DEF Check
  <2>2. script' = [arm |-> script.arm, at |-> at, next |-> script.next, checked |-> backend]
    BY <1>2, <2>1
  <2>3. backend \in Settings
    BY BackendsAreSettings DEF StudyInv
  <2>4. /\ at \in {"run", "save"} /\ (at = "run" => trial \notin DOMAIN stored)
        /\ (at = "save" => trial \in DOMAIN stored)
    OBVIOUS
  <2> HIDE DEF at, trial, work
  <2>5. /\ script'.arm = script.arm /\ script'.at = at /\ script'.next = script.next
        /\ script'.checked = backend
    BY <2>2
  <2>6. Working(study, script', journal, stored)
    BY <1>2, <1>3, <1>4, <2>2, <2>3, <2>4, <2>5 DEF Working, Places, work
  <2> QED
    BY <1>1, <2>1, <2>6 DEF StudyInv
<1>5. CASE ~(Supported(trial) /\ HealthMatches(trial, Health(backend)))
  <2>1. script' = Idle /\ Write(trial, "failed", NoOutcome)
    BY <1>5 DEF Check
  <2>2. Journaled(journal', stored) /\ Written(study, artifacts, journal')
    BY <1>2, <2>1, WritesKeep
  <2>3. Working(study, script', journal', stored)
    BY <2>1, IdleWorks
  <2> QED
    BY <1>1, <2>2, <2>3 DEF StudyInv
<1> QED
  BY <1>4, <1>5

\* The agent runs with the settings that are there now.
LEMMA RunAgentKeeps ==
  ASSUME StudyInv, RunAgent
  PROVE  StudyInv'
<1> DEFINE work == WorkOf[study][script.arm]
<1> DEFINE trial == Current.trial
<1>1. /\ study' = study /\ backend' = backend /\ journal' = journal /\ artifacts' = artifacts
      /\ runs' = runs + 1 /\ script.at = "run" /\ script' = [script EXCEPT !.at = "save"]
  BY DEF RunAgent
<1>2. /\ script.next \in DOMAIN work
      /\ trial \in DOMAIN journal /\ journal[trial].status = "running"
      /\ script = [arm |-> script.arm, at |-> script.at, next |-> script.next,
                   checked |-> script.checked]
      /\ script.checked \in Settings
      /\ HealthMatches(trial, Health(script.checked)) /\ trial \notin DOMAIN stored
  BY <1>1, OpenTrial
<1>3. /\ script.arm \in ScriptsOf(study) /\ script.next \in Nat \ {0} /\ trial = work[script.next].trial
      /\ \A i \in DOMAIN work : i < script.next => CompletedIn(journal, work[i].trial)
  BY <1>1, AtTrial DEF Running
<1>4. PICK entry : /\ stored' = With(stored, trial, entry)
                   /\ entry.settings = backend /\ entry.checked = script.checked
  BY DEF RunAgent, Outcome
<1>5. entry.settings \in Settings /\ entry.checked = script.checked /\ stored' = With(stored, trial, entry)
  BY <1>4, BackendsAreSettings DEF StudyInv
<1> HIDE DEF trial, work
<1>6. Scored(stored', runs') /\ Journaled(journal', stored')
  BY <1>1, <1>2, <1>5, StoreGrows DEF StudyInv
<1>7. trial \in DOMAIN stored'
  BY <1>5 DEF With
<1>8. script' = [arm |-> script.arm, at |-> "save", next |-> script.next,
                 checked |-> script.checked]
  BY <1>1, <1>2
<1>9. Working(study, script', journal, stored')
  <2>1. /\ script'.arm = script.arm /\ script'.at = "save" /\ script'.next = script.next
        /\ script'.checked = script.checked
    BY <1>8
  <2> QED
    BY <1>2, <1>3, <1>7, <1>8, <2>1 DEF Working, Places, work
<1> QED
  BY <1>1, <1>6, <1>9 DEF StudyInv

\* The trial is completed with the score that is there.
LEMMA SaveKeeps ==
  ASSUME StudyInv, Save
  PROVE  StudyInv'
<1> DEFINE work == WorkOf[study][script.arm]
<1> DEFINE trial == Current.trial
<1>1. /\ study' = study /\ backend' = backend /\ stored' = stored /\ artifacts' = artifacts
      /\ runs' = runs /\ script.at = "save" /\ Write(trial, "completed", stored[trial])
      /\ script' = [script EXCEPT !.at = "load", !.next = @ + 1]
  BY DEF Save
<1>2. /\ ~CompletedIn(journal, trial) /\ trial \in DOMAIN stored /\ script.checked \in Settings
      /\ script = [arm |-> script.arm, at |-> script.at, next |-> script.next,
                   checked |-> script.checked]
  BY <1>1, OpenTrial
<1>3. /\ script.arm \in ScriptsOf(study) /\ script.next \in Nat \ {0} /\ trial = work[script.next].trial
      /\ DOMAIN work = 1 .. Len(work) /\ Len(work) \in Nat
      /\ \A i \in DOMAIN work : i < script.next => CompletedIn(journal, work[i].trial)
  BY <1>1, AtTrial DEF Running
<1>4. /\ Journaled(journal', stored) /\ Written(study, artifacts, journal')
      /\ KeepsDone(journal, journal') /\ trial \in DOMAIN journal'
      /\ journal'[trial] = [status |-> "completed", outcome |-> stored[trial]]
  BY <1>1, <1>2, WritesKeep
<1>5. script' = [arm |-> script.arm, at |-> "load", next |-> script.next + 1,
                 checked |-> script.checked]
  BY <1>1, <1>2
<1> HIDE DEF trial
<1>6. \A i \in DOMAIN work : i < script.next + 1 => CompletedIn(journal', work[i].trial)
  <2> HIDE DEF work
  <2>1. CompletedIn(journal', trial)
    BY <1>4 DEF CompletedIn
  <2>2. \A t : CompletedIn(journal, t) => CompletedIn(journal', t)
    BY <1>4, CompletedStays
  <2> QED
    BY <1>3, <2>1, <2>2
<1>7. Working(study, script', journal', stored)
  <2>1. /\ script'.arm = script.arm /\ script'.at = "load" /\ script'.next = script.next + 1
        /\ script'.checked = script.checked
    BY <1>5
  <2> QED
    BY <1>2, <1>3, <1>5, <1>6, <2>1 DEF Working, Places
<1> QED
  BY <1>1, <1>4, <1>7 DEF StudyInv

\* The script dies, and may leave its trial behind as failed.
LEMMA DieKeeps ==
  ASSUME StudyInv, Die
  PROVE  StudyInv'
<1>1. /\ study' = study /\ backend' = backend /\ stored' = stored /\ artifacts' = artifacts
      /\ runs' = runs /\ script' = Idle
      /\ \/ journal' = journal
         \/ script.at \in {"check", "run"} /\ Write(Current.trial, "failed", NoOutcome)
  BY DEF Die
<1>2. Journaled(journal', stored) /\ Written(study, artifacts, journal')
  <2>1. CASE journal' = journal
    BY <2>1 DEF StudyInv
  <2>2. CASE script.at \in {"check", "run"} /\ Write(Current.trial, "failed", NoOutcome)
    <3>1. ~CompletedIn(journal, Current.trial)
      BY <2>2, OpenTrial
    <3> QED
      BY <2>2, <3>1, WritesKeep
  <2> QED
    BY <1>1, <2>1, <2>2
<1>3. Working(study, script', journal', stored)
  BY <1>1, IdleWorks
<1> QED
  BY <1>1, <1>2, <1>3 DEF StudyInv

\* The arm is written down, or not.
LEMMA FinishKeeps ==
  ASSUME StudyInv, Finish
  PROVE  StudyInv'
<1> DEFINE a == script.arm
<1> DEFINE work == Work(a)
<1> DEFINE entries == [i \in DOMAIN work |->
                         [trial |-> work[i].trial, scenario |-> work[i].scenario,
                          outcome |-> journal[work[i].trial].outcome]]
<1>1. /\ study' = study /\ backend' = backend /\ journal' = journal /\ stored' = stored
      /\ runs' = runs /\ script' = Idle /\ script.at = "finish"
      /\ artifacts' = [artifacts EXCEPT ![a] = entries] \/ artifacts' = artifacts
  BY DEF Finish, Entries
<1>2. /\ a \in ScriptsOf(study) /\ work = WorkOf[study][a] /\ script.next \in Nat \ {0}
      /\ DOMAIN work = 1 .. Len(work) /\ Len(work) \in Nat
      /\ \A i \in DOMAIN work : i < script.next => CompletedIn(journal, work[i].trial)
  BY <1>1, AtTrial DEF Running
<1>3. script.next > Len(work)
  BY <1>1, <1>2 DEF StudyInv, Working
<1>4. \A i \in DOMAIN work : CompletedIn(journal, work[i].trial)
  <2> HIDE DEF work, a
  <2> QED
    BY <1>2, <1>3
<1>5. \A x \in ToSet(entries) : \E i \in DOMAIN work :
        x = [trial |-> work[i].trial, scenario |-> work[i].scenario,
             outcome |-> journal[work[i].trial].outcome]
  BY DEF ToSet
<1> HIDE DEF entries
<1>6. ASSUME NEW x \in ToSet(entries)
      PROVE  /\ x.trial \in DOMAIN journal
             /\ journal[x.trial] = [status |-> "completed", outcome |-> x.outcome]
             /\ \E i \in DOMAIN work : work[i].trial = x.trial
  <2>1. PICK i \in DOMAIN work :
          x = [trial |-> work[i].trial, scenario |-> work[i].scenario,
               outcome |-> journal[work[i].trial].outcome]
    BY <1>5
  <2>2. x.trial = work[i].trial /\ x.outcome = journal[work[i].trial].outcome
    BY <2>1
  <2>3. x.trial \in DOMAIN journal /\ journal[x.trial].status = "completed"
    BY <1>4, <2>2 DEF CompletedIn
  <2>4. journal[x.trial] = [status |-> "completed", outcome |-> stored[x.trial]]
    BY <2>3 DEF StudyInv, Journaled
  <2> QED
    BY <2>2, <2>3, <2>4
<1>7. Written(study, artifacts', journal)
  <2>1. Written(study, artifacts, journal)
    BY DEF StudyInv
  <2>2. CASE artifacts' = artifacts
    BY <2>1, <2>2
  <2>3. CASE artifacts' = [artifacts EXCEPT ![a] = entries]
    <3> HIDE DEF work, a
    <3>1. DOMAIN artifacts' = DOMAIN artifacts /\ artifacts'[a] = entries
          /\ \A b \in DOMAIN artifacts : b # a => artifacts'[b] = artifacts[b]
      <4>1. a \in DOMAIN artifacts
        BY <1>2, <2>1 DEF Written
      <4> QED
        BY <2>3, <4>1
    <3>2. DOMAIN artifacts = ScriptsOf(study)
      BY <2>1 DEF Written
    <3>3. ASSUME NEW b \in DOMAIN artifacts', NEW x \in ToSet(artifacts'[b])
          PROVE  /\ x.trial \in DOMAIN journal
                 /\ journal[x.trial] = [status |-> "completed", outcome |-> x.outcome]
                 /\ \E i \in DOMAIN WorkOf[study][b] : WorkOf[study][b][i].trial = x.trial
      <4>1. CASE b = a
        BY <1>2, <1>6, <3>1, <4>1
      <4>2. CASE b # a
        <5>1. b \in DOMAIN artifacts /\ x \in ToSet(artifacts[b])
          BY <3>1, <4>2
        <5> QED
          BY <2>1, <5>1 DEF Written
      <4> QED
        BY <4>1, <4>2
    <3> QED
      BY <3>1, <3>2, <3>3 DEF Written
  <2> QED
    BY <1>1, <2>2, <2>3
<1>8. Working(study, script', journal, stored)
  BY <1>1, IdleWorks
<1> QED
  BY <1>1, <1>7, <1>8 DEF StudyInv

-----------------------------------------------------------------------------
(* The theorems. *)

LEMMA StudyGoesOn == StudyInv /\ [Next]_vars => StudyInv'
<1> SUFFICES ASSUME StudyInv, [Next]_vars
             PROVE  StudyInv'
  OBVIOUS
<1>1. ASSUME NEW a \in Scripts, Begin(a)
      PROVE  StudyInv'
  BY <1>1, BeginKeeps
<1>2. CASE Load
  BY <1>2, LoadKeeps
<1>3. CASE Check
  BY <1>3, CheckKeeps
<1>4. CASE RunAgent
  BY <1>4, RunAgentKeeps
<1>5. CASE Save
  BY <1>5, SaveKeeps
<1>6. CASE Finish
  BY <1>6, FinishKeeps
<1>7. CASE Deploy
  BY <1>7, DeployKeeps
<1>8. CASE Die
  BY <1>8, DieKeeps
<1>9. CASE BuildReport
  BY <1>9, ReportKeeps
<1>10. CASE UNCHANGED vars
  BY <1>10 DEF vars, StudyInv
<1> QED
  BY <1>1, <1>2, <1>3, <1>4, <1>5, <1>6, <1>7, <1>8, <1>9, <1>10 DEF Next, Proceed

\* The invariant holds of every study, with any cohorts, outcomes and deployments, and
\* with any number of moves, deaths and reruns.
THEOREM StudyInvariance == Spec => []StudyInv
<1>1. Init => StudyInv
  BY StudyStarts
<1>2. StudyInv /\ [Next]_vars => StudyInv'
  BY StudyGoesOn
<1> QED
  BY <1>1, <1>2, PTL DEF Spec

\* A trial is completed with the outcome that EvaluationLab has of it, and the agent has
\* run once for each trial that has a score, however often the scripts have died and
\* been run again (executor.py takes up a stored score; runner.py skips a completed trial).
THEOREM TypeCorrect == Spec => []TypeOK
<1>1. StudyInv => TypeOK
  <2> SUFFICES ASSUME StudyInv
               PROVE  TypeOK
    OBVIOUS
  <2>1. /\ study \in Experiments /\ backend \in Backends /\ Scored(stored, runs)
        /\ Journaled(journal, stored) /\ Working(study, script, journal, stored)
    BY DEF StudyInv
  <2>2. script.at \in {"idle", "load", "check", "run", "save", "finish"}
    BY <2>1 DEF Working, Places
  <2>3. runs = Cardinality(DOMAIN stored)
    BY <2>1 DEF Scored
  <2>4. ASSUME NEW t \in DOMAIN journal
        PROVE  /\ journal[t].status \in {"running", "completed", "failed"}
               /\ journal[t].status = "completed" =>
                    t \in DOMAIN stored /\ journal[t].outcome = stored[t]
    BY <2>1 DEF Journaled
  <2> QED
    BY <2>1, <2>2, <2>3, <2>4 DEF TypeOK
<1> QED
  BY <1>1, StudyInvariance, PTL

\* What an arm has written down stays true of the journal, whatever was deployed and
\* whichever scripts have died or were run again since (runner.py 111-114).
THEOREM ArtifactsStay == Spec => []ArtifactsStand
<1>1. StudyInv => ArtifactsStand
  <2> SUFFICES ASSUME StudyInv, NEW e \in Recorded
               PROVE  journal[e.trial] = [status |-> "completed", outcome |-> e.outcome]
    BY DEF ArtifactsStand
  <2>1. Written(study, artifacts, journal)
    BY DEF StudyInv
  <2>2. PICK a \in Scripts : e \in ToSet(artifacts[a])
    BY DEF Recorded
  <2> QED
    BY <2>1, <2>2 DEF Written, Scripts
<1> QED
  BY <1>1, StudyInvariance, PTL

\* The entries of an arm come from the treatment of this arm.
LEMMA UnderTreatment == StudyInv => RecordsUnderTreatment
<1> SUFFICES ASSUME StudyInv, NEW a \in Scripts, NEW e \in ToSet(artifacts[a]),
                    e.outcome.settings = e.outcome.checked
             PROVE  [e.outcome.settings EXCEPT !.capped = FALSE, !.depth = 20, !.llm = "local",
                                               !.limits = "shipped"]
                      = Deployed(study, IF study = "investigation_budget" THEN 1 ELSE a)
  BY DEF RecordsUnderTreatment
<1>1. /\ study \in Experiments /\ a \in ScriptsOf(study)
      /\ Written(study, artifacts, journal) /\ Journaled(journal, stored) /\ Scored(stored, runs)
  BY DEF StudyInv, Scripts
<1>2. /\ e.trial \in DOMAIN journal
      /\ journal[e.trial] = [status |-> "completed", outcome |-> e.outcome]
      /\ \E i \in DOMAIN WorkOf[study][a] : WorkOf[study][a][i].trial = e.trial
  BY <1>1 DEF Written
<1>3. e.trial \in DOMAIN stored /\ e.outcome = stored[e.trial]
  <2>1. journal[e.trial].status = "completed" /\ journal[e.trial].outcome = e.outcome
    BY <1>2
  <2>2. /\ e.trial \in DOMAIN stored
        /\ journal[e.trial] = [status |-> "completed", outcome |-> stored[e.trial]]
    BY <1>1, <1>2, <2>1 DEF Journaled
  <2> QED
    BY <2>1, <2>2
<1>4. e.outcome.settings \in Settings /\ HealthMatches(e.trial, Health(e.outcome.settings))
  BY <1>1, <1>3 DEF Scored
<1>5. Treated(study, a, e.trial)
  BY <1>1, <1>2, WorkListed
<1>6. [e.outcome.settings EXCEPT !.capped = FALSE, !.depth = 20, !.llm = "local", !.limits = "shipped"]
        = Deployed(study, ArmServed(study, a))
  BY <1>1, <1>4, <1>5, TreatmentTold
<1> QED
  BY <1>6 DEF ArmServed

\* Whatever is recorded of an arm comes from an agent under the treatment of this arm and
\* of no other study, up to the cap on records, the model and the limits, unless the backend
\* was deployed anew between the check and the run: what the executor compares determines
\* the rest of the settings (executor.py's comparison of the health with the trial).
THEOREM RecordsAreTreated == Spec => []RecordsUnderTreatment
  BY UnderTreatment, StudyInvariance, PTL

-----------------------------------------------------------------------------
(* What a script has asserted of the records of its arm stays true of them.     *)

\* The entries of an arm are for trials of its work list, and its script found
\* nothing wrong with them.
Asserted(e, a, entries) ==
  /\ entries \in Seq(ToSet(entries))
  /\ \A i \in DOMAIN entries : \E k \in DOMAIN WorkOf[e][a] :
       entries[i].trial = WorkOf[e][a][k].trial /\ entries[i].scenario = WorkOf[e][a][k].scenario
  /\ Cardinality({x.trial : x \in ToSet(entries)}) = Len(entries)
  /\ Cardinality({x.outcome.run : x \in ToSet(entries)}) = Len(entries)
  /\ \A record \in {RecordOf(x) : x \in ToSet(entries)} : Healthy(e, record, a)

ArmsInv == \A a \in Scripts : artifacts[a] # <<>> => Asserted(study, a, artifacts[a])

LEMMA FinishAsserts ==
  ASSUME StudyInv, ArmsInv, Finish
  PROVE  ArmsInv'
<1> DEFINE a == script.arm
<1> DEFINE work == WorkOf[study][a]
<1> DEFINE entries == Entries(a)
<1>1. /\ study' = study /\ script.at = "finish"
      /\ \/ artifacts' = [artifacts EXCEPT ![a] = entries] /\ Sound(study, entries, a)
         \/ artifacts' = artifacts
  BY DEF Finish
<1>2. /\ a \in ScriptsOf(study) /\ Work(a) = work
      /\ DOMAIN work = 1 .. Len(work) /\ Len(work) \in Nat
  BY <1>1, AtTrial DEF Running
<1>3. entries = [i \in DOMAIN work |-> [trial |-> work[i].trial, scenario |-> work[i].scenario,
                                        outcome |-> journal[work[i].trial].outcome]]
  BY <1>2 DEF Entries
<1> HIDE DEF entries
<1>4. \A i \in DOMAIN entries : \E k \in DOMAIN work :
        entries[i].trial = work[k].trial /\ entries[i].scenario = work[k].scenario
  BY <1>3
<1>5. entries \in Seq(ToSet(entries))
  <2>1. entries \in [1 .. Len(work) -> ToSet(entries)]
    BY <1>2, <1>3 DEF ToSet
  <2> QED
    BY <1>2, <2>1, FunctionIsSequence
<1>6. Sound(study, entries, a) => Asserted(study, a, entries)
  BY <1>4, <1>5 DEF Asserted, Sound
<1>7. DOMAIN artifacts = ScriptsOf(study)
  BY DEF StudyInv, Written
<1> HIDE DEF work, a
<1>8. ASSUME NEW b \in ScriptsOf(study), artifacts'[b] # <<>>
      PROVE  Asserted(study, b, artifacts'[b])
  <2>1. CASE artifacts' = artifacts
    BY <1>8, <2>1 DEF ArmsInv, Scripts
  <2>2. CASE artifacts' = [artifacts EXCEPT ![a] = entries] /\ Sound(study, entries, a)
    <3>1. CASE b = a
      BY <1>6, <1>7, <2>2, <3>1
    <3>2. CASE b # a
      <4>1. artifacts'[b] = artifacts[b]
        BY <1>7, <2>2, <3>2
      <4> QED
        BY <1>8, <4>1 DEF ArmsInv, Scripts
    <3> QED
      BY <3>1, <3>2
  <2> QED
    BY <1>1, <2>1, <2>2
<1> QED
  BY <1>1, <1>8 DEF ArmsInv, Scripts

LEMMA ArmsStayAsserted == StudyInv /\ ArmsInv /\ [Next]_vars => ArmsInv'
<1> SUFFICES ASSUME StudyInv, ArmsInv, [Next]_vars
             PROVE  ArmsInv'
  OBVIOUS
<1>1. CASE Finish
  BY <1>1, FinishAsserts
<1>2. CASE ~Finish
  <2>1. study' = study /\ artifacts' = artifacts
    BY <1>2 DEF Next, Proceed, Begin, Load, Check, RunAgent, Save, Deploy, Die, BuildReport, vars
  <2> QED
    BY <2>1 DEF ArmsInv, Scripts
<1> QED
  BY <1>1, <1>2

-----------------------------------------------------------------------------
(* What an observation says of its record. *)

LEMMA ExtendedKeeps ==
  ASSUME NEW record, NEW more
  PROVE  /\ \A f \in DOMAIN record : Extended(record, more)[f] = record[f]
         /\ \A f \in DOMAIN more \ DOMAIN record : Extended(record, more)[f] = more[f]
  BY DEF Extended

\* The fields that every observation has.
Tells(o, record) ==
  /\ o.trial = record.trial /\ o.scenario = record.trial.scenario /\ o.arm = ArmOf(record)
  /\ o.difficulty = record.trial.difficulty /\ o.run = record.run
  /\ o.accuracy = (IF record.right THEN 1 ELSE 0) /\ o.calls = Len(record.history)

LEMMA MeasuredTells ==
  ASSUME NEW record, NEW more
  PROVE  /\ Tells(Extended(Measured(record), more), record)
         /\ Tells(Extended([Measured(record) EXCEPT !.falsePositive = "none"], more), record)
<1> DEFINE m == Measured(record)
<1> DEFINE n == [m EXCEPT !.falsePositive = "none"]
<1>1. /\ DOMAIN m = {"trial", "scenario", "arm", "difficulty", "run", "accuracy", "calls",
                     "falsePositive"}
      /\ m.trial = record.trial /\ m.scenario = record.trial.scenario /\ m.arm = ArmOf(record)
      /\ m.difficulty = record.trial.difficulty /\ m.run = record.run
      /\ m.accuracy = (IF record.right THEN 1 ELSE 0) /\ m.calls = Len(record.history)
  BY DEF Measured
<1>2. /\ DOMAIN n = DOMAIN m
      /\ n.trial = m.trial /\ n.scenario = m.scenario /\ n.arm = m.arm
      /\ n.difficulty = m.difficulty /\ n.run = m.run /\ n.accuracy = m.accuracy
      /\ n.calls = m.calls
  BY DEF Measured
<1> HIDE DEF m, n
<1>3. ASSUME NEW base, DOMAIN base = DOMAIN m,
             base.trial = m.trial, base.scenario = m.scenario, base.arm = m.arm,
             base.difficulty = m.difficulty, base.run = m.run, base.accuracy = m.accuracy,
             base.calls = m.calls
      PROVE  Tells(Extended(base, more), record)
  <2> DEFINE o == Extended(base, more)
  <2>1. \A f \in DOMAIN base : o[f] = base[f]
    BY ExtendedKeeps
  <2> HIDE DEF o
  <2>2. /\ o.trial = m.trial /\ o.scenario = m.scenario /\ o.arm = m.arm
        /\ o.difficulty = m.difficulty /\ o.run = m.run /\ o.accuracy = m.accuracy
        /\ o.calls = m.calls
    BY <1>1, <1>3, <2>1
  <2>3. Tells(o, record)
    BY <1>1, <2>2 DEF Tells
  <2> QED
    BY <2>3 DEF o
<1>4. Tells(Extended(m, more), record)
  BY <1>3
<1>5. Tells(Extended(n, more), record)
  BY <1>2, <1>3
<1> QED
  BY <1>4, <1>5 DEF m, n

LEMMA ObservationTells ==
  ASSUME study \in Experiments, NEW record
  PROVE  Tells(Observation(record), record)
<1>1. CASE study = "tool_order"
  BY <1>1, MeasuredTells DEF Observation, ToolOrderObservation
<1>2. CASE study = "passive_vs_verification"
  BY <1>2, MeasuredTells DEF Observation, PassiveObservation
<1>3. CASE study = "compound_handling"
  BY <1>3, MeasuredTells DEF Observation, CompoundObservation
<1>4. CASE study = "temporal_reasoning"
  BY <1>4, MeasuredTells DEF Observation, TemporalObservation
<1>5. CASE study = "investigation_budget"
  BY <1>5, MeasuredTells DEF Observation, BudgetObservation
<1>6. CASE study = "planning_difficulty"
  BY <1>6, MeasuredTells DEF Observation, PlanningObservation
<1> QED
  BY <1>1, <1>2, <1>3, <1>4, <1>5, <1>6, TheExperiments

LEMMA PlannedCalls ==
  ASSUME NEW record
  PROVE  ToolOrderObservation(record).planned = Invocations(record.plan)
<1> DEFINE more == [planned |-> Invocations(record.plan), first |-> Head(record.plan).tool,
                    asked |-> IF record.history = <<>> THEN "none" ELSE Head(record.history).tool]
<1>1. DOMAIN Measured(record) = {"trial", "scenario", "arm", "difficulty", "run", "accuracy",
                                 "calls", "falsePositive"}
  BY DEF Measured
<1>2. "planned" \in DOMAIN more \ DOMAIN Measured(record) /\ more.planned = Invocations(record.plan)
  BY <1>1
<1>3. ToolOrderObservation(record) = Extended(Measured(record), more)
  BY DEF ToolOrderObservation
<1> HIDE DEF more
<1> QED
  BY <1>2, <1>3, ExtendedKeeps

LEMMA PassivePart ==
  ASSUME NEW record
  PROVE  /\ PassiveObservation(record).passive = Stripped(record.plan)
         /\ PassiveObservation(record).probes = Probes(record.plan)
         /\ PassiveObservation(record).probed = Probes(record.history)
         /\ PassiveObservation(record).first = Head(record.plan).tool
<1> DEFINE more == [probes |-> Probes(record.plan), probed |-> Probes(record.history),
                    first |-> Head(record.plan).tool, passive |-> Stripped(record.plan)]
<1>1. DOMAIN Measured(record) = {"trial", "scenario", "arm", "difficulty", "run", "accuracy",
                                 "calls", "falsePositive"}
  BY DEF Measured
<1>2. /\ {"passive", "probes", "probed", "first"} \subseteq DOMAIN more \ DOMAIN Measured(record)
      /\ more.passive = Stripped(record.plan) /\ more.probes = Probes(record.plan)
      /\ more.probed = Probes(record.history) /\ more.first = Head(record.plan).tool
  BY <1>1
<1>3. PassiveObservation(record) = Extended(Measured(record), more)
  BY DEF PassiveObservation
<1> HIDE DEF more
<1>4. \A f \in {"passive", "probes", "probed", "first"} : PassiveObservation(record)[f] = more[f]
  BY <1>2, <1>3, ExtendedKeeps
<1> QED
  BY <1>2, <1>4

\* The steps of a plan are its ids, in turn.
LEMMA CompoundPart ==
  ASSUME NEW record
  PROVE  CompoundObservation(record).steps = [i \in DOMAIN record.plan |-> record.plan[i].id]
<1> DEFINE ids == [i \in DOMAIN record.plan |-> record.plan[i].id]
<1> DEFINE more == [steps |-> ids, completed |-> Len(record.history)]
<1>1. DOMAIN Measured(record) = {"trial", "scenario", "arm", "difficulty", "run", "accuracy",
                                 "calls", "falsePositive"}
  BY DEF Measured
<1> HIDE DEF ids
<1>2. "steps" \in DOMAIN more \ DOMAIN Measured(record) /\ more.steps = ids
  BY <1>1
<1>3. CompoundObservation(record) = Extended(Measured(record), more)
  BY DEF CompoundObservation, ids
<1> HIDE DEF more
<1> QED
  BY <1>2, <1>3, ExtendedKeeps DEF ids

-----------------------------------------------------------------------------
(* The records of an arm: its treatment, and one for each scenario. *)

\* The studies whose arms are scripts with the whole cohort each.
Paired == {"tool_order", "passive_vs_verification", "temporal_reasoning", "compound_handling"}

LEMMA ArmTold ==
  ASSUME NEW e \in Experiments, e # "investigation_budget", NEW a \in ScriptsOf(e),
         NEW t, Treated(e, a, t)
  PROVE  t.configuration[Dimension[t.experiment]] = Levels[e][a]
<1>1. t.experiment = e /\ t.configuration = [Baseline EXCEPT ![Dimension[e]] = ValuesOf(PlanOf[e])[a]]
  BY DEF Treated
<1>2. ValuesOf(PlanOf[e])[a] = Levels[e][a]
  BY ArmValues
<1> DEFINE level == Levels[e][a]
<1>3. [Baseline EXCEPT ![Dimension[e]] = level][Dimension[e]] = level
  BY DimensionVaries
<1> HIDE DEF level
<1>4. t.configuration = [Baseline EXCEPT ![Dimension[e]] = level]
  BY <1>1, <1>2 DEF level
<1>5. t.configuration[Dimension[t.experiment]]
        = [Baseline EXCEPT ![Dimension[e]] = level][Dimension[e]]
  BY <1>1, <1>4, Zenon
<1> QED
  BY <1>3, <1>5 DEF level

LEMMA EnumeratedFrom ==
  ASSUME NEW plan, NEW cell, NEW S, NEW scenarios \in Seq(S)
  PROVE  \A k \in DOMAIN Enumerated(plan, cell, scenarios) :
           \E i \in DOMAIN scenarios :
             Enumerated(plan, cell, scenarios)[k]
               = [trial |-> Trial(plan, cell, scenarios[i]), scenario |-> scenarios[i]]
<1> DEFINE places == {i \in DOMAIN scenarios : scenarios[i].difficulty \in cell.difficulties}
<1> DEFINE enabled == Only(scenarios, places)
<1> DEFINE list == [i \in DOMAIN enabled |-> [trial |-> Trial(plan, cell, enabled[i]),
                                              scenario |-> enabled[i]]]
<1>1. Enumerated(plan, cell, scenarios) = list
  BY DEF Enumerated
<1>2. places \in SUBSET DOMAIN scenarios
  OBVIOUS
<1> HIDE DEF places
<1>3. \A k \in DOMAIN enabled : \E i \in places : enabled[k] = scenarios[i]
  BY <1>2, OnlyKeeps
<1> HIDE DEF enabled
<1>4. \A k \in DOMAIN list : \E i \in DOMAIN scenarios :
        list[k] = [trial |-> Trial(plan, cell, scenarios[i]), scenario |-> scenarios[i]]
  BY <1>2, <1>3
<1> HIDE DEF list
<1> QED
  BY <1>1, <1>4

\* The trial of a study for a scenario in its c-th arm.
TrialOf(e, c, scenario) ==
  LET plan == IF e = "planning_difficulty" THEN TierPlan(scenario.difficulty) ELSE PlanOf[e]
  IN Trial(plan, plan.cells[c], scenario)

\* The scenarios that are selected of a tier are scenarios of the cohort and of this tier.
LEMMA SelectedFrom ==
  ASSUME NEW tier \in ToSet(TiersOf(CohortOf["planning_difficulty"]))
  PROVE  LET cohort == CohortOf["planning_difficulty"] IN
         /\ Selected(cohort, tier) \in Seq(ToSet(cohort)) /\ Len(Selected(cohort, tier)) = PerTier
         /\ \A s \in ToSet(Selected(cohort, tier)) : s \in ToSet(cohort) /\ s.difficulty = tier
<1> DEFINE cohort == CohortOf["planning_difficulty"]
<1> DEFINE names == <<"easy", "medium", "hard", "adversarial", "compound">>
<1> DEFINE there == {i \in DOMAIN names : TierOf(cohort, names[i]) # <<>>}
<1> DEFINE places == {i \in DOMAIN cohort : cohort[i].difficulty = tier
                                            /\ cohort[i].split = SplitOf[tier]}
<1>1. cohort \in Seq(ToSet(cohort))
  BY TheExperiments, StudiesAssumption
<1>2. TierOf(cohort, tier) # <<>>
  <2>1. TiersOf(cohort) = Only(names, there)
    BY DEF TiersOf
  <2>2. names \in Seq({"easy", "medium", "hard", "adversarial", "compound"})
    OBVIOUS
  <2>3. there \in SUBSET DOMAIN names
    OBVIOUS
  <2> HIDE DEF names, cohort
  <2>4. tier \in {names[i] : i \in there}
    <3>1. ToSet(Only(names, there)) = {names[i] : i \in there}
      <4> HIDE DEF there
      <4> QED
        BY <2>2, <2>3, OnlyKeeps
    <3> QED
      BY <2>1, <3>1 DEF cohort
  <2> QED
    BY <2>4
<1>3. places \in SUBSET DOMAIN cohort
  OBVIOUS
<1>4. \A i \in places : cohort[i] \in ToSet(cohort) /\ cohort[i].difficulty = tier
  BY DEF ToSet
<1>5. TierOf(cohort, tier) = Only(cohort, places)
  BY DEF TierOf
<1> DEFINE all == Only(cohort, places)
<1>6. Selected(cohort, tier) = SubSeq(all, 1, PerTier)
  BY <1>5 DEF Selected
<1> HIDE DEF places, cohort
<1>7. /\ all \in Seq(ToSet(cohort)) /\ Len(all) \in Nat /\ DOMAIN all = 1 .. Len(all)
      /\ \A k \in DOMAIN all : all[k] \in ToSet(cohort) /\ all[k].difficulty = tier
  BY <1>1, <1>3, <1>4, OnlyKeeps
<1>8. Len(all) = PerTier
  <2>1. 1 \in DOMAIN all
    BY <1>2, <1>5, <1>7
  <2>2. \A s \in ToSet(cohort) : Len(TierOf(cohort, s.difficulty)) = PerTier
    BY StudiesAssumption DEF cohort
  <2> QED
    BY <1>5, <1>7, <2>1, <2>2
<1> HIDE DEF all
<1>9. SubSeq(all, 1, PerTier) = all
  BY <1>7, <1>8
<1> QED
  BY <1>6, <1>7, <1>8, <1>9 DEF cohort, ToSet

\* Every part that a script is given holds scenarios of the cohort, for one arm.
LEMMA BatchesFrom ==
  ASSUME NEW e \in Experiments, NEW a \in ScriptsOf(e), NEW i \in DOMAIN Batches(e, a)
  PROVE  LET given == Batches(e, a)[i] IN
         /\ given.scenarios \in Seq(ToSet(CohortOf[e]))
         /\ \E c \in DOMAIN Levels[e] :
              /\ e # "investigation_budget" => c = a
              /\ \A s \in ToSet(given.scenarios) :
                   /\ s \in ToSet(CohortOf[e])
                   /\ Trial(given.plan, given.cell, s) = TrialOf(e, c, s)
<1> DEFINE plan == PlanOf[e]
<1> DEFINE cohort == CohortOf[e]
<1>1. Spans(plan, e, Levels[e]) /\ cohort \in Seq(ToSet(cohort))
  BY PlansSpan, StudiesAssumption
<1>2. CASE e = "planning_difficulty"
  <2> DEFINE tiers == TiersOf(cohort)
  <2> DEFINE tier == tiers[i]
  <2>1. Batches(e, a) = [j \in DOMAIN tiers |->
                           [plan |-> TierPlan(tiers[j]), cell |-> TierPlan(tiers[j]).cells[a],
                            scenarios |-> Selected(cohort, tiers[j])]]
    BY <1>2 DEF Batches
  <2>2. /\ i \in DOMAIN tiers
        /\ Batches(e, a)[i] = [plan |-> TierPlan(tier), cell |-> TierPlan(tier).cells[a],
                               scenarios |-> Selected(cohort, tier)]
    <3> HIDE DEF tiers
    <3> QED
      BY <2>1
  <2>3. tier \in ToSet(tiers)
    BY <2>2 DEF ToSet
  <2>4. /\ Selected(cohort, tier) \in Seq(ToSet(cohort))
        /\ \A s \in ToSet(Selected(cohort, tier)) : s \in ToSet(cohort) /\ s.difficulty = tier
    BY <1>2, <2>3, SelectedFrom
  <2>5. a \in DOMAIN Levels[e]
    BY <1>1, <1>2 DEF ScriptsOf, Spans
  <2> HIDE DEF tiers, cohort, plan
  <2>6. \A s : s.difficulty = tier => Trial(TierPlan(tier), TierPlan(tier).cells[a], s) = TrialOf(e, a, s)
    BY <1>2 DEF TrialOf
  <2> QED
    BY <2>2, <2>4, <2>5, <2>6 DEF cohort
<1>3. CASE e = "investigation_budget"
  <2>1. Batches(e, a) = [j \in DOMAIN plan.cells |->
                           [plan |-> plan, cell |-> plan.cells[j], scenarios |-> cohort]]
    BY <1>3 DEF Batches
  <2>2. /\ i \in DOMAIN plan.cells
        /\ Batches(e, a)[i] = [plan |-> plan, cell |-> plan.cells[i], scenarios |-> cohort]
    <3> HIDE DEF plan
    <3> QED
      BY <2>1
  <2>3. i \in DOMAIN Levels[e]
    BY <1>1, <2>2 DEF Spans
  <2>4. \A s : Trial(plan, plan.cells[i], s) = TrialOf(e, i, s)
    BY <1>3 DEF TrialOf
  <2> HIDE DEF plan, cohort
  <2> QED
    BY <1>1, <1>3, <2>2, <2>3, <2>4 DEF cohort
<1>4. CASE e \notin {"planning_difficulty", "investigation_budget"}
  <2>1. Batches(e, a) = <<[plan |-> plan, cell |-> plan.cells[a], scenarios |-> cohort]>>
    BY <1>4 DEF Batches
  <2>2. Batches(e, a)[i] = [plan |-> plan, cell |-> plan.cells[a], scenarios |-> cohort]
    <3> HIDE DEF plan, cohort
    <3> QED
      BY <2>1
  <2>3. a \in DOMAIN Levels[e]
    BY <1>1, <1>4 DEF ScriptsOf, Spans
  <2>4. \A s : Trial(plan, plan.cells[a], s) = TrialOf(e, a, s)
    BY <1>4 DEF TrialOf
  <2> HIDE DEF plan, cohort
  <2> QED
    BY <1>1, <2>2, <2>3, <2>4 DEF cohort
<1> QED
  BY <1>2, <1>3, <1>4

\* The trials of a script are trials of its study, each with its scenario.
LEMMA WorkFrom ==
  ASSUME NEW e \in Experiments, NEW a \in ScriptsOf(e), NEW k \in DOMAIN WorkOf[e][a]
  PROVE  \E i \in DOMAIN CohortOf[e], c \in DOMAIN Levels[e] :
           /\ e # "investigation_budget" => c = a
           /\ WorkOf[e][a][k] = [trial |-> TrialOf(e, c, CohortOf[e][i]), scenario |-> CohortOf[e][i]]
<1> DEFINE given == Batches(e, a)
<1> DEFINE parts == [i \in DOMAIN given |->
                       Enumerated(given[i].plan, given[i].cell, given[i].scenarios)]
<1> DEFINE S == UNION {ToSet(parts[i]) : i \in DOMAIN parts}
<1>1. WorkOf[e][a] = FlattenSeq(parts)
  BY DEF WorkOf
<1>2. PICK n \in Nat : DOMAIN given = 1 .. n
  BY BatchesSpan
<1>3. \A i \in DOMAIN given : parts[i] = Enumerated(given[i].plan, given[i].cell, given[i].scenarios)
  OBVIOUS
<1>4. DOMAIN parts = 1 .. n /\ parts = [i \in DOMAIN parts |-> parts[i]]
  BY <1>2
<1> HIDE DEF parts, given
<1>5. \A i \in DOMAIN given : parts[i] \in Seq(ToSet(parts[i]))
  <2> SUFFICES ASSUME NEW i \in DOMAIN given
               PROVE  parts[i] \in Seq(ToSet(parts[i]))
    OBVIOUS
  <2>1. IsFiniteSet(DOMAIN given[i].scenarios)
    BY BatchesSpan DEF given
  <2> QED
    BY <1>3, <2>1, EnumeratedTrials
<1>6. parts \in Seq(Seq(S))
  <2>1. \A i \in DOMAIN parts : parts[i] \in Seq(S)
    <3> SUFFICES ASSUME NEW i \in DOMAIN parts
                 PROVE  parts[i] \in Seq(S)
      OBVIOUS
    <3>1. parts[i] \in Seq(ToSet(parts[i])) /\ ToSet(parts[i]) \subseteq S
      BY <1>2, <1>4, <1>5
    <3> HIDE DEF S
    <3> QED
      BY <3>1
  <2> HIDE DEF S
  <2>2. parts \in [1 .. n -> Seq(S)]
    BY <1>4, <2>1
  <2> QED
    BY <2>2, FunctionIsSequence
<1> HIDE DEF S
<1>7. PICK i \in DOMAIN parts : \E j \in DOMAIN parts[i] : WorkOf[e][a][k] = parts[i][j]
  BY <1>1, <1>6, FlattenKeeps
<1> DEFINE part == given[i]
<1>8. PICK j \in DOMAIN part.scenarios :
        WorkOf[e][a][k] = [trial |-> Trial(part.plan, part.cell, part.scenarios[j]),
                           scenario |-> part.scenarios[j]]
  <2>1. i \in DOMAIN given /\ part.scenarios \in Seq(ToSet(CohortOf[e]))
    BY <1>2, <1>4, BatchesFrom DEF given
  <2> QED
    BY <1>3, <1>7, <2>1, EnumeratedFrom
<1> DEFINE s == part.scenarios[j]
<1>9. PICK c \in DOMAIN Levels[e] :
        /\ e # "investigation_budget" => c = a
        /\ s \in ToSet(CohortOf[e])
        /\ Trial(part.plan, part.cell, s) = TrialOf(e, c, s)
  <2>1. i \in DOMAIN given /\ s \in ToSet(part.scenarios)
    BY <1>2, <1>4 DEF ToSet
  <2> QED
    BY <2>1, BatchesFrom DEF given
<1>10. PICK m \in DOMAIN CohortOf[e] : s = CohortOf[e][m]
  BY <1>9 DEF ToSet
<1> QED
  BY <1>8, <1>9, <1>10

LEMMA OneBatch ==
  ASSUME NEW e \in Paired, NEW a \in ScriptsOf(e), NEW k \in DOMAIN WorkOf[e][a]
  PROVE  \E i \in DOMAIN CohortOf[e] :
           WorkOf[e][a][k] = [trial |-> Trial(PlanOf[e], PlanOf[e].cells[a], CohortOf[e][i]),
                              scenario |-> CohortOf[e][i]]
<1>1. e \in Experiments /\ e # "planning_difficulty" /\ e # "investigation_budget"
  BY TheExperiments DEF Paired
<1>2. \A s : TrialOf(e, a, s) = Trial(PlanOf[e], PlanOf[e].cells[a], s)
  BY <1>1 DEF TrialOf
<1>3. PICK i \in DOMAIN CohortOf[e], c \in DOMAIN Levels[e] :
        /\ c = a
        /\ WorkOf[e][a][k] = [trial |-> TrialOf(e, c, CohortOf[e][i]), scenario |-> CohortOf[e][i]]
  BY <1>1, WorkFrom
<1> QED
  BY <1>2, <1>3

\* The entries of an arm are for different trials.
LEMMA OnePlace ==
  ASSUME NEW e, NEW a, NEW entries, Asserted(e, a, entries),
         NEW k \in DOMAIN entries, NEW l \in DOMAIN entries, entries[k].trial = entries[l].trial
  PROVE  k = l
<1> DEFINE T == {z.trial : z \in ToSet(entries)}
<1> DEFINE f == [i \in 1 .. Len(entries) |-> entries[i].trial]
<1>1. /\ entries \in Seq(ToSet(entries)) /\ Len(entries) \in Nat
      /\ DOMAIN entries = 1 .. Len(entries)
  BY LenProperties DEF Asserted
<1>2. ToSet(entries) = {entries[i] : i \in DOMAIN entries}
  BY DEF ToSet
<1>3. Cardinality(T) = Len(entries)
  BY DEF Asserted
<1>4. f \in Surjection(1 .. Len(entries), T)
  <2>1. \A i \in 1 .. Len(entries) : entries[i].trial \in T
    BY <1>1, <1>2
  <2>2. \A t \in T : \E i \in 1 .. Len(entries) : entries[i].trial = t
    BY <1>1, <1>2
  <2> HIDE DEF T
  <2> QED
    BY <2>1, <2>2 DEF Surjection
<1>5. IsFiniteSet(1 .. Len(entries)) /\ Cardinality(1 .. Len(entries)) = Len(entries)
  <2>1. \A n \in Nat : IsFiniteSet(1 .. n) /\ Cardinality(1 .. n) = n
    BY FS_Interval
  <2> QED
    BY <1>1, <2>1
<1> HIDE DEF T, f
<1>6. f \in Injection(1 .. Len(entries), T)
  BY <1>3, <1>4, <1>5, FS_SurjSameCardinalityImpliesInj
<1>7. k \in 1 .. Len(entries) /\ l \in 1 .. Len(entries) /\ f[k] = f[l]
  BY <1>1 DEF f
<1> QED
  BY <1>6, <1>7 DEF Injection, IsInjective

\* An arm has at most one entry for each trial.
LEMMA OneEntry ==
  ASSUME NEW e, NEW a, NEW entries, Asserted(e, a, entries),
         NEW x \in ToSet(entries), NEW y \in ToSet(entries), x.trial = y.trial
  PROVE  x = y
<1>1. PICK k \in DOMAIN entries : x = entries[k]
  BY DEF ToSet
<1>2. PICK l \in DOMAIN entries : y = entries[l]
  BY DEF ToSet
<1>3. k = l
  BY <1>1, <1>2, OnePlace
<1> QED
  BY <1>1, <1>2, <1>3

-----------------------------------------------------------------------------
(* The records that the report script is handed. *)

LEMMA ScriptsCounted ==
  ASSUME NEW e \in Experiments
  PROVE  \E n \in Nat : ScriptsOf(e) = 1 .. n
<1>1. CASE e = "investigation_budget"
  <2>1. ScriptsOf(e) = 1 .. 1 /\ 1 \in Nat
    BY <1>1 DEF ScriptsOf
  <2> QED
    BY <2>1
<1>2. CASE e # "investigation_budget"
  <2>1. ScriptsOf(e) = DOMAIN Levels[e]
    BY <1>2, PlansSpan DEF ScriptsOf, Spans
  <2>2. DOMAIN Levels[e] = 1 .. 2 \/ DOMAIN Levels[e] = 1 .. 4
    BY <1>2, TheExperiments DEF Levels
  <2> QED
    BY <2>1, <2>2
<1> QED
  BY <1>1, <1>2

\* What an entry says of its trial is what its record says.
LEMMA RecordTells ==
  ASSUME NEW x
  PROVE  RecordOf(x).trial = x.trial
  BY DEF RecordOf

\* The records handed in are those of all arms, once every arm is handed in.
LEMMA RecordsGathered ==
  ASSUME StudyInv, ArmsInv, AllWritten, NEW given \in Handed, ToSet(given) = Scripts
  PROVE  /\ \E n \in Nat : DOMAIN RecordsIn(given) = 1 .. n
         /\ \A a \in Scripts : \A x \in ToSet(artifacts[a]) :
              \E p \in DOMAIN RecordsIn(given) : RecordsIn(given)[p] = RecordOf(x)
         /\ \A p \in DOMAIN RecordsIn(given) : \E a \in Scripts : \E x \in ToSet(artifacts[a]) :
              RecordsIn(given)[p] = RecordOf(x)
<1> DEFINE parts == [i \in DOMAIN given |-> artifacts[given[i]]]
<1> DEFINE flat == FlattenSeq(parts)
<1>1. PICK n \in Nat : Scripts = 1 .. n
  BY ScriptsCounted DEF StudyInv, Scripts
<1>2. DOMAIN given = 1 .. n
  BY <1>1 DEF Handed
<1>3. /\ \A i \in DOMAIN given : given[i] \in Scripts
      /\ \A a \in Scripts : \E i \in DOMAIN given : given[i] = a
  BY DEF ToSet
<1>4. \A a \in Scripts : artifacts[a] \in Seq(ToSet(artifacts[a]))
  BY DEF AllWritten, ArmsInv, Asserted
<1>5. \A a \in Scripts : artifacts[a] \in Seq(Recorded)
  <2> SUFFICES ASSUME NEW a \in Scripts
               PROVE  artifacts[a] \in Seq(Recorded)
    OBVIOUS
  <2> DEFINE S == ToSet(artifacts[a])
  <2>1. S \subseteq Recorded /\ artifacts[a] \in Seq(S)
    BY <1>4 DEF Recorded
  <2> HIDE DEF S
  <2> QED
    BY <2>1
<1>6. /\ DOMAIN parts = 1 .. n
      /\ \A i \in DOMAIN parts : parts[i] = artifacts[given[i]]
  BY <1>2
<1>7. parts \in Seq(Seq(Recorded))
  <2>1. parts = [i \in DOMAIN parts |-> parts[i]]
    OBVIOUS
  <2> HIDE DEF parts
  <2>2. parts \in [1 .. n -> Seq(Recorded)]
    BY <1>2, <1>3, <1>5, <1>6, <2>1
  <2> QED
    BY <2>2, FunctionIsSequence
<1>8. RecordsIn(given) = [i \in DOMAIN flat |-> RecordOf(flat[i])]
  BY DEF RecordsIn, RecordsOf
<1> HIDE DEF parts
<1>9. /\ flat \in Seq(Recorded)
      /\ \A p \in DOMAIN flat : \E i \in DOMAIN parts : \E k \in DOMAIN parts[i] :
           flat[p] = parts[i][k]
      /\ \A i \in DOMAIN parts : \A k \in DOMAIN parts[i] :
           \E p \in DOMAIN flat : flat[p] = parts[i][k]
  BY <1>7, FlattenKeeps
<1> HIDE DEF flat
<1>10. DOMAIN RecordsIn(given) = DOMAIN flat /\ \E m \in Nat : DOMAIN flat = 1 .. m
  BY <1>8, <1>9, LenProperties
<1>11. ASSUME NEW a \in Scripts, NEW x \in ToSet(artifacts[a])
       PROVE  \E p \in DOMAIN RecordsIn(given) : RecordsIn(given)[p] = RecordOf(x)
  <2>1. PICK i \in DOMAIN given : given[i] = a
    BY <1>3
  <2>2. PICK k \in DOMAIN artifacts[a] : x = artifacts[a][k]
    BY DEF ToSet
  <2>3. i \in DOMAIN parts /\ parts[i] = artifacts[a]
    BY <1>2, <1>6, <2>1
  <2>4. PICK p \in DOMAIN flat : flat[p] = parts[i][k]
    BY <1>9, <2>2, <2>3
  <2> QED
    BY <1>8, <2>2, <2>3, <2>4
<1>12. ASSUME NEW p \in DOMAIN RecordsIn(given)
       PROVE  \E a \in Scripts : \E x \in ToSet(artifacts[a]) : RecordsIn(given)[p] = RecordOf(x)
  <2>1. PICK i \in DOMAIN parts : \E k \in DOMAIN parts[i] : flat[p] = parts[i][k]
    BY <1>9, <1>10
  <2>2. PICK k \in DOMAIN parts[i] : flat[p] = parts[i][k]
    BY <2>1
  <2>3. given[i] \in Scripts /\ parts[i] = artifacts[given[i]]
    BY <1>2, <1>3, <1>6
  <2>4. flat[p] \in ToSet(artifacts[given[i]])
    BY <2>2, <2>3 DEF ToSet
  <2>5. RecordsIn(given)[p] = RecordOf(flat[p])
    BY <1>8, <1>10
  <2> QED
    BY <2>3, <2>4, <2>5
<1> QED
  BY <1>10, <1>11, <1>12

\* The arm and the scenario of an entry, and what it is an entry for.
LEMMA EntryPlaced ==
  ASSUME StudyInv, ArmsInv, AllWritten, study \in Paired,
         NEW a \in Scripts, NEW x \in ToSet(artifacts[a])
  PROVE  /\ Asserted(study, a, artifacts[a])
         /\ ArmOf(RecordOf(x)) = Levels[study][a]
         /\ \E i \in DOMAIN Cohort : /\ x.trial = Trial(PlanOf[study], PlanOf[study].cells[a], Cohort[i])
                                     /\ x.trial.scenario = Cohort[i].id
<1>1. study \in Experiments /\ study # "investigation_budget" /\ a \in ScriptsOf(study)
  BY DEF StudyInv, Scripts, Paired
<1>2. Asserted(study, a, artifacts[a])
  BY DEF ArmsInv, AllWritten
<1>3. PICK k \in DOMAIN WorkOf[study][a] : x.trial = WorkOf[study][a][k].trial
  BY <1>2 DEF Asserted, ToSet
<1>4. Treated(study, a, x.trial)
  BY <1>1, <1>3, WorkListed
<1>5. ArmOf(RecordOf(x)) = Levels[study][a]
  BY <1>1, <1>4, ArmTold, RecordTells DEF ArmOf
<1>6. PICK i \in DOMAIN CohortOf[study] :
        WorkOf[study][a][k] = [trial |-> Trial(PlanOf[study], PlanOf[study].cells[a], CohortOf[study][i]),
                               scenario |-> CohortOf[study][i]]
  BY <1>1, OneBatch
<1>7. x.trial = Trial(PlanOf[study], PlanOf[study].cells[a], Cohort[i])
  BY <1>3, <1>6 DEF Cohort
<1>8. x.trial.scenario = Cohort[i].id
  BY <1>7 DEF Trial
<1> QED
  BY <1>2, <1>5, <1>6, <1>7, <1>8 DEF Cohort

\* The observation that a report pairs for a scenario and an arm is that of the one
\* entry the arm has for it.
LEMMA PairFound ==
  ASSUME StudyInv, ArmsInv, AllWritten, study \in Paired, NEW given \in Handed,
         ToSet(given) = Scripts, NEW a \in Scripts, NEW x \in ToSet(artifacts[a])
  PROVE  PairedWith(ObservationsOf(RecordsIn(given)), x.trial.scenario, Levels[study][a])
           = Observation(RecordOf(x))
<1> DEFINE observations == ObservationsOf(RecordsIn(given))
<1> DEFINE mine == Observation(RecordOf(x))
<1> DEFINE level == Levels[study][a]
<1>1. study \in Experiments /\ study # "investigation_budget"
  BY DEF StudyInv, Paired
<1>2. observations = {Observation(RecordsIn(given)[p]) : p \in DOMAIN RecordsIn(given)}
  BY DEF ObservationsOf
<1>3. \A b \in Scripts : \A y \in ToSet(artifacts[b]) :
        /\ Observation(RecordOf(y)).scenario = y.trial.scenario
        /\ Observation(RecordOf(y)).arm = Levels[study][b]
  <2> SUFFICES ASSUME NEW b \in Scripts, NEW y \in ToSet(artifacts[b])
               PROVE  /\ Observation(RecordOf(y)).scenario = y.trial.scenario
                      /\ Observation(RecordOf(y)).arm = Levels[study][b]
    OBVIOUS
  <2>1. Tells(Observation(RecordOf(y)), RecordOf(y))
    BY <1>1, ObservationTells
  <2>2. ArmOf(RecordOf(y)) = Levels[study][b] /\ RecordOf(y).trial = y.trial
    BY EntryPlaced, RecordTells
  <2> QED
    BY <2>1, <2>2 DEF Tells
<1>4. mine \in observations /\ mine.scenario = x.trial.scenario /\ mine.arm = level
  <2>1. \E p \in DOMAIN RecordsIn(given) : RecordsIn(given)[p] = RecordOf(x)
    BY RecordsGathered
  <2> QED
    BY <1>2, <1>3, <2>1
<1>5. ASSUME NEW o \in observations, o.scenario = x.trial.scenario, o.arm = level
      PROVE  o = mine
  <2>1. PICK p \in DOMAIN RecordsIn(given) : o = Observation(RecordsIn(given)[p])
    BY <1>2
  <2>2. PICK b \in Scripts : \E y \in ToSet(artifacts[b]) : RecordsIn(given)[p] = RecordOf(y)
    BY RecordsGathered
  <2>3. PICK y \in ToSet(artifacts[b]) : RecordsIn(given)[p] = RecordOf(y)
    BY <2>2
  <2>4. y.trial.scenario = x.trial.scenario /\ Levels[study][b] = Levels[study][a]
    BY <1>3, <1>5, <2>1, <2>3
  <2>5. a = b
    <3>1. a \in DOMAIN Levels[study] /\ b \in DOMAIN Levels[study]
      BY <1>1, PlansSpan DEF Scripts, ScriptsOf, Spans
    <3> QED
      BY <1>1, <2>4, <3>1, TheExperiments DEF Levels
  <2>6. PICK i \in DOMAIN Cohort :
          /\ x.trial = Trial(PlanOf[study], PlanOf[study].cells[a], Cohort[i])
          /\ x.trial.scenario = Cohort[i].id
    BY EntryPlaced
  <2>7. PICK j \in DOMAIN Cohort :
          /\ y.trial = Trial(PlanOf[study], PlanOf[study].cells[b], Cohort[j])
          /\ y.trial.scenario = Cohort[j].id
    BY EntryPlaced
  <2>8. i = j
    BY <1>1, <2>4, <2>6, <2>7, StudiesAssumption DEF Cohort
  <2>9. x.trial = y.trial
    BY <2>5, <2>6, <2>7, <2>8, Zenon
  <2>10. Asserted(study, a, artifacts[a])
    BY EntryPlaced
  <2>11. x = y
    BY <2>5, <2>9, <2>10, OneEntry
  <2> QED
    BY <2>1, <2>3, <2>11
<1>6. PairedWith(observations, x.trial.scenario, level)
        = CHOOSE o \in observations : o.scenario = x.trial.scenario /\ o.arm = level
  BY DEF PairedWith
<1> HIDE DEF observations, mine, level
<1>7. PairedWith(observations, x.trial.scenario, level) = mine
  BY <1>4, <1>5, <1>6
<1> QED
  BY <1>7 DEF observations, mine, level

\* A study that has its report is over.
ReportInv == Done => ~Running

LEMMA ReportStays == ReportInv /\ [Next]_vars => ReportInv'
<1> SUFFICES ASSUME ReportInv, [Next]_vars
             PROVE  ReportInv'
  OBVIOUS
<1>1. CASE UNCHANGED vars \/ BuildReport
  <2>1. script' = script /\ (report' = report \/ ~Running)
    BY <1>1 DEF vars, BuildReport
  <2> QED
    BY <2>1 DEF ReportInv, Done, Running
<1>2. CASE (\E a \in Scripts : Begin(a)) \/ Proceed \/ Deploy \/ Die
  <2>1. report' = report
    BY <1>2 DEF Begin, Proceed, Load, Check, RunAgent, Save, Finish, Deploy, Die
  <2>2. report = NoReport \/ Running
    BY <1>2 DEF Begin, Proceed, Load, Check, RunAgent, Save, Finish, Deploy, Die, Running
  <2>3. ~Done
    BY <2>2 DEF Done, ReportInv
  <2> QED
    BY <2>1, <2>3 DEF ReportInv, Done
<1> QED
  BY <1>1, <1>2 DEF Next

\* The script of an arm has found each of its records healthy.
LEMMA RecordsHealthy ==
  ASSUME StudyInv, ArmsInv, AllWritten, NEW a \in Scripts, NEW x \in ToSet(artifacts[a])
  PROVE  Healthy(study, RecordOf(x), a)
  BY DEF ArmsInv, AllWritten, Asserted

\* A run's calls are the first of its plan: all of them, as many as its budget, or one or two.
LEMMA RecordCalls ==
  ASSUME NEW x
  PROVE  LET plan == RecordOf(x).plan
             budget == x.trial.configuration.budget
         IN \E calls \in {1, 2, Len(plan), budget} :
              /\ RecordOf(x).history = SubSeq(plan, 1, calls)
              /\ calls = budget => calls \in {1, 2} \/ calls = Len(plan) \/ ~(Len(plan) < budget)
  BY DEF RecordOf

LEMMA WholePlan ==
  ASSUME NEW S, NEW plan \in Seq(S), Len(plan) = 10, NEW calls \in {1, 2, 10},
         Len(SubSeq(plan, 1, calls)) = 10
  PROVE  SubSeq(plan, 1, calls) = plan
<1>1. CASE calls \in {1, 2}
  BY <1>1
<1>2. CASE calls = 10
  BY <1>2
<1> QED
  BY <1>1, <1>2

LEMMA StepsControlled ==
  ASSUME StudyInv, ArmsInv, AllWritten, study = "compound_handling",
         NEW a \in Scripts, NEW x \in ToSet(artifacts[a])
  PROVE  /\ RecordOf(x).plan = CompoundPlan
         /\ ArmOf(RecordOf(x)) = "unresolved_evidence" => RecordOf(x).history = CompoundPlan
<1>1. study \in Paired /\ study \in Experiments /\ study # "investigation_budget"
      /\ a \in ScriptsOf(study)
  BY DEF Paired, StudyInv, Scripts
<1>2. CompoundObservable(RecordOf(x))
  BY RecordsHealthy DEF Healthy, CompoundHealthy
<1>3. RecordOf(x).plan = CompoundPlan
  BY <1>2 DEF CompoundObservable, SharedPlan, ExpectedPlan
<1>4. ArmOf(RecordOf(x)) = "unresolved_evidence" => Len(RecordOf(x).history) = Len(CompoundPlan)
  BY <1>2 DEF CompoundObservable, ExpectedPlan
<1>5. x.trial.configuration.budget = 15
  <2>0. Asserted(study, a, artifacts[a])
    BY <1>1, EntryPlaced
  <2>1. PICK k \in DOMAIN WorkOf[study][a] : x.trial = WorkOf[study][a][k].trial
    BY <2>0 DEF Asserted, ToSet
  <2>2. Treated(study, a, x.trial)
    BY <1>1, <2>1, WorkListed
  <2>3. Dimension[study] = "stopping"
    BY DEF Dimension
  <2>4. x.trial.configuration = [Baseline EXCEPT !["stopping"] = ValuesOf(PlanOf[study])[a]]
    BY <1>1, <2>2, <2>3 DEF Treated
  <2> QED
    BY <2>4 DEF Baseline
<1>6. CompoundPlan \in Seq(Steps) /\ Len(CompoundPlan) = 10
  BY CompoundSound DEF CompoundPlan
<1>7. PICK calls \in {1, 2, 10} : RecordOf(x).history = SubSeq(CompoundPlan, 1, calls)
  <2>1. PICK calls \in {1, 2, 10, 15} :
          /\ RecordOf(x).history = SubSeq(CompoundPlan, 1, calls)
          /\ calls = 15 => calls \in {1, 2} \/ calls = 10 \/ ~(10 < 15)
    <3>1. \E calls \in {1, 2, Len(RecordOf(x).plan), x.trial.configuration.budget} :
            /\ RecordOf(x).history = SubSeq(RecordOf(x).plan, 1, calls)
            /\ calls = x.trial.configuration.budget =>
                  \/ calls \in {1, 2}
                  \/ calls = Len(RecordOf(x).plan)
                  \/ ~(Len(RecordOf(x).plan) < x.trial.configuration.budget)
      BY RecordCalls, Zenon
    <3> QED
      BY <1>3, <1>5, <1>6, <3>1
  <2> QED
    BY <2>1
<1>8. ArmOf(RecordOf(x)) = "unresolved_evidence" => RecordOf(x).history = CompoundPlan
  BY <1>4, <1>6, <1>7, WholePlan
<1> QED
  BY <1>3, <1>8

-----------------------------------------------------------------------------
(* The study keeps what PublishedStudy promises. *)

\* No two trials have their score from one run.
Apart(scores, made) ==
  /\ \A t \in DOMAIN scores : scores[t].run \in 1 .. made
  /\ \A t, u \in DOMAIN scores : scores[t].run = scores[u].run => t = u

RunsInv == Apart(stored, runs)

\* What an arm has written down is what its script would write down again.
RepeatInv == \A a \in Scripts : artifacts[a] # <<>> => artifacts[a] = Entries(a)

LEMMA RunsStayApart == StudyInv /\ RunsInv /\ [Next]_vars => RunsInv'
<1> SUFFICES ASSUME StudyInv, RunsInv, [Next]_vars
             PROVE  RunsInv'
  OBVIOUS
<1>1. CASE RunAgent
  <2> DEFINE trial == Current.trial
  <2>1. trial \notin DOMAIN stored
    BY <1>1, OpenTrial DEF RunAgent
  <2>2. runs \in Nat /\ runs' = runs + 1
    BY <1>1, FS_CardinalityType DEF StudyInv, Scored, RunAgent
  <2>3. \E entry : stored' = With(stored, trial, entry) /\ entry.run = runs + 1
    BY <1>1 DEF RunAgent, Outcome
  <2>4. PICK entry : stored' = With(stored, trial, entry) /\ entry.run = runs + 1
    BY <2>3
  <2> HIDE DEF trial
  <2>5. /\ DOMAIN stored' = DOMAIN stored \cup {trial} /\ stored'[trial] = entry
        /\ \A t \in DOMAIN stored : stored'[t] = stored[t]
    BY <2>1, <2>4 DEF With
  <2>6. \A t \in DOMAIN stored : stored'[t].run \in 1 .. runs
    BY <2>5 DEF RunsInv, Apart
  <2>7. \A t \in DOMAIN stored' : stored'[t].run \in 1 .. runs'
    BY <2>2, <2>4, <2>5, <2>6
  <2>8. ASSUME NEW t \in DOMAIN stored', NEW u \in DOMAIN stored', stored'[t].run = stored'[u].run
        PROVE  t = u
    <3>1. runs + 1 \notin 1 .. runs
      BY <2>2
    <3>2. t = trial <=> u = trial
      BY <2>4, <2>5, <2>6, <2>8, <3>1
    <3>3. CASE t # trial
      BY <2>5, <2>8, <3>2, <3>3 DEF RunsInv, Apart
    <3> QED
      BY <3>2, <3>3
  <2> QED
    BY <2>7, <2>8 DEF RunsInv, Apart
<1>2. CASE ~RunAgent
  <2>1. stored' = stored /\ runs' = runs
    BY <1>2 DEF Next, Proceed, Begin, Load, Check, Save, Finish, Deploy, Die, BuildReport, vars
  <2> QED
    BY <2>1 DEF RunsInv, Apart
<1> QED
  BY <1>1, <1>2

\* No step takes back that a trial is completed, or its outcome.
LEMMA JournalStands == StudyInv /\ [Next]_vars => study' = study /\ KeepsDone(journal, journal')
<1> SUFFICES ASSUME StudyInv, [Next]_vars
             PROVE  study' = study /\ KeepsDone(journal, journal')
  OBVIOUS
<1>1. CASE Load /\ journal' # journal
  <2>1. Write(Current.trial, "running", NoOutcome) /\ Status(Current.trial) # "completed"
    BY <1>1 DEF Load
  <2>2. ~CompletedIn(journal, Current.trial)
    BY <2>1 DEF Status, CompletedIn
  <2> QED
    BY <1>1, <2>1, <2>2, WritesKeep DEF Load
<1>2. CASE Check /\ journal' # journal
  <2>1. Write(Current.trial, "failed", NoOutcome) /\ script.at = "check"
    BY <1>2 DEF Check
  <2>2. ~CompletedIn(journal, Current.trial)
    BY <2>1, OpenTrial
  <2> QED
    BY <1>2, <2>1, <2>2, WritesKeep DEF Check
<1>3. CASE Save
  <2>1. Write(Current.trial, "completed", stored[Current.trial]) /\ script.at = "save"
    BY <1>3 DEF Save
  <2>2. ~CompletedIn(journal, Current.trial) /\ Current.trial \in DOMAIN stored
    BY <2>1, OpenTrial
  <2> QED
    BY <1>3, <2>1, <2>2, WritesKeep DEF Save
<1>4. CASE Die /\ journal' # journal
  <2>1. Write(Current.trial, "failed", NoOutcome) /\ script.at \in {"check", "run"}
    BY <1>4 DEF Die
  <2>2. ~CompletedIn(journal, Current.trial)
    BY <2>1, OpenTrial
  <2> QED
    BY <1>4, <2>1, <2>2, WritesKeep DEF Die
<1>5. CASE journal' = journal
  <2>1. study' = study
    BY DEF Next, Proceed, Begin, Load, Check, RunAgent, Save, Finish, Deploy, Die, BuildReport, vars
  <2> QED
    BY <1>5, <2>1 DEF KeepsDone
<1> QED
  BY <1>1, <1>2, <1>3, <1>4, <1>5
     DEF Next, Proceed, Begin, RunAgent, Finish, Deploy, BuildReport, vars

\* What is written of an arm whose trials are completed would be written again.
LEMMA EntriesStay ==
  ASSUME StudyInv, [Next]_vars, NEW a \in Scripts, artifacts[a] # <<>>, artifacts[a] = Entries(a)
  PROVE  Entries(a)' = Entries(a)
<1> DEFINE work == Work(a)
<1>1. study' = study /\ KeepsDone(journal, journal')
  BY JournalStands
<1>2. Work(a)' = work
  BY <1>1 DEF Work
<1>3. ASSUME NEW i \in DOMAIN work
      PROVE  journal'[work[i].trial] = journal[work[i].trial]
  <2> DEFINE x == Entries(a)[i]
  <2>1. i \in DOMAIN Entries(a) /\ x.trial = work[i].trial
    BY <1>3 DEF Entries
  <2>2. x \in ToSet(artifacts[a])
    BY <2>1 DEF ToSet
  <2>3. a \in DOMAIN artifacts /\ Written(study, artifacts, journal)
    BY DEF StudyInv, Written, Scripts
  <2> HIDE DEF x
  <2>4. /\ x.trial \in DOMAIN journal
        /\ journal[x.trial] = [status |-> "completed", outcome |-> x.outcome]
    BY <2>2, <2>3 DEF Written
  <2> QED
    BY <1>1, <2>1, <2>4 DEF KeepsDone
<1> HIDE DEF work
<1>4. /\ Entries(a) = [i \in DOMAIN work |-> [trial |-> work[i].trial, scenario |-> work[i].scenario,
                                             outcome |-> journal[work[i].trial].outcome]]
      /\ Entries(a)' = [i \in DOMAIN work |-> [trial |-> work[i].trial, scenario |-> work[i].scenario,
                                              outcome |-> journal'[work[i].trial].outcome]]
  BY <1>2 DEF Entries, work
<1> QED
  BY <1>3, <1>4

LEMMA RepeatsStay == StudyInv /\ RepeatInv /\ [Next]_vars => RepeatInv'
<1> SUFFICES ASSUME StudyInv, RepeatInv, [Next]_vars
             PROVE  RepeatInv'
  OBVIOUS
<1>1. study' = study /\ Scripts' = Scripts
  BY JournalStands DEF Scripts
<1>2. ASSUME NEW a \in Scripts, artifacts'[a] = artifacts[a], artifacts[a] # <<>>
      PROVE  artifacts'[a] = Entries(a)'
  BY <1>2, EntriesStay DEF RepeatInv
<1>3. CASE artifacts' = artifacts
  <2>1. ASSUME NEW a \in Scripts, artifacts'[a] # <<>>
        PROVE  artifacts'[a] = Entries(a)'
    BY <1>2, <1>3, <2>1
  <2> QED
    BY <1>1, <2>1 DEF RepeatInv
<1>4. CASE Finish /\ artifacts' # artifacts
  <2>1. PICK mine \in Scripts : mine = script.arm
    BY <1>4, AtTrial DEF Running, Scripts, Finish
  <2>2. artifacts' = [artifacts EXCEPT ![mine] = Entries(mine)] /\ journal' = journal
    BY <1>4, <2>1 DEF Finish
  <2>3. DOMAIN artifacts = Scripts
    BY DEF StudyInv, Written, Scripts
  <2>4. Entries(mine)' = Entries(mine)
    BY <1>1, <2>2 DEF Entries, Work
  <2>5. artifacts'[mine] = Entries(mine) /\ \A a \in Scripts : a # mine => artifacts'[a] = artifacts[a]
    BY <2>1, <2>2, <2>3
  <2>6. ASSUME NEW a \in Scripts, artifacts'[a] # <<>>
        PROVE  artifacts'[a] = Entries(a)'
    <3>1. CASE a = mine
      BY <2>4, <2>5, <3>1
    <3>2. CASE a # mine
      BY <1>2, <2>5, <2>6, <3>2
    <3> QED
      BY <3>1, <3>2
  <2> QED
    BY <1>1, <2>6 DEF RepeatInv
<1>5. artifacts' = artifacts \/ Finish
  BY DEF Next, Proceed, Begin, Load, Check, RunAgent, Save, Deploy, Die, BuildReport, vars
<1> QED
  BY <1>3, <1>4, <1>5

\* An entry of an arm has the outcome that is stored for its trial.
LEMMA EntryStored ==
  ASSUME NEW e, NEW arms, NEW entries, NEW scores, Written(e, arms, entries),
         Journaled(entries, scores), NEW a \in DOMAIN arms, NEW x \in ToSet(arms[a])
  PROVE  x.trial \in DOMAIN scores /\ x.outcome = scores[x.trial]
<1>1. /\ x.trial \in DOMAIN entries
      /\ entries[x.trial] = [status |-> "completed", outcome |-> x.outcome]
  BY DEF Written
<1>2. entries[x.trial].status = "completed" /\ entries[x.trial].outcome = x.outcome
  BY <1>1
<1>3. /\ x.trial \in DOMAIN scores
      /\ entries[x.trial] = [status |-> "completed", outcome |-> scores[x.trial]]
  BY <1>1, <1>2 DEF Journaled
<1> QED
  BY <1>2, <1>3

\* Two arms have no trial in common.
LEMMA ArmsApart ==
  ASSUME NEW e \in Experiments, NEW a \in ScriptsOf(e), NEW b \in ScriptsOf(e), NEW t,
         Treated(e, a, t), Treated(e, b, t)
  PROVE  a = b
<1>1. CASE e = "investigation_budget"
  BY <1>1 DEF ScriptsOf
<1>2. CASE e # "investigation_budget"
  <2>1. Levels[e][a] = Levels[e][b]
    BY <1>2, ArmTold
  <2>2. a \in DOMAIN Levels[e] /\ b \in DOMAIN Levels[e]
    BY <1>2, PlansSpan DEF ScriptsOf, Spans
  <2> QED
    BY <1>2, <2>1, <2>2, TheExperiments DEF Levels
<1> QED
  BY <1>1, <1>2

\* ... and no run: an arm that appears shares none with those that are there.
LEMMA EvidenceApart ==
  ASSUME NEW e \in Experiments, NEW arms, NEW entries, NEW scores, NEW made,
         Written(e, arms, entries), Journaled(entries, scores), Apart(scores, made),
         NEW a \in ScriptsOf(e), NEW b \in ScriptsOf(e),
         NEW x \in ToSet(arms[a]), NEW y \in ToSet(arms[b]), x.outcome.run = y.outcome.run
  PROVE  a = b
<1>1. DOMAIN arms = ScriptsOf(e)
  BY DEF Written
<1>2. /\ x.trial \in DOMAIN scores /\ x.outcome = scores[x.trial]
      /\ y.trial \in DOMAIN scores /\ y.outcome = scores[y.trial]
  BY <1>1, EntryStored
<1>3. x.trial = y.trial
  BY <1>2 DEF Apart
<1>4. /\ \E i \in DOMAIN WorkOf[e][a] : WorkOf[e][a][i].trial = x.trial
      /\ \E i \in DOMAIN WorkOf[e][b] : WorkOf[e][b][i].trial = y.trial
  BY <1>1 DEF Written
<1>5. Treated(e, a, x.trial) /\ Treated(e, b, x.trial)
  BY <1>3, <1>4, WorkListed
<1> QED
  BY <1>5, ArmsApart

LEMMA FinishDelivers ==
  ASSUME StudyInv, ArmsInv, RunsInv, RepeatInv, ReportInv, Finish
  PROVE  [Publication!Next]_(Publication!study)
<1> DEFINE evidence == [a \in Scripts |-> EvidenceOf(a)]
<1>1. PICK mine \in Scripts : mine = script.arm
  BY AtTrial DEF Running, Scripts, Finish
<1>2. /\ study' = study /\ stored' = stored /\ runs' = runs /\ report' = report
      /\ \/ artifacts' = artifacts
         \/ artifacts' = [artifacts EXCEPT ![mine] = Entries(mine)]
  BY <1>1 DEF Finish
<1>3. ~Done /\ ~Done'
  BY <1>2 DEF ReportInv, Running, Finish, Done
<1>4. Scripts' = Scripts /\ DOMAIN artifacts = Scripts /\ Scripts = ScriptsOf(study)
  BY <1>2 DEF Scripts, StudyInv, Written
<1>5. CASE \A a \in Scripts : artifacts'[a] = artifacts[a]
  <2>1. \A a \in Scripts : EvidenceOf(a)' = EvidenceOf(a)
    BY <1>5 DEF EvidenceOf
  <2> QED
    BY <1>3, <1>4, <2>1 DEF Publication!study
<1>6. CASE /\ artifacts[mine] = <<>> /\ Entries(mine) # <<>>
           /\ artifacts'[mine] = Entries(mine)
           /\ \A a \in Scripts : a # mine => artifacts'[a] = artifacts[a]
  <2> DEFINE new == EvidenceOf(mine)'
  <2>1. \A a \in Scripts : a # mine => EvidenceOf(a)' = EvidenceOf(a)
    BY <1>6 DEF EvidenceOf
  <2>2. EvidenceOf(mine) = {}
    BY <1>6 DEF EvidenceOf, ToSet
  <2>3. new # {}
    <3>1. ArmsInv'
      BY FinishAsserts
    <3>2. artifacts'[mine] \in Seq(ToSet(artifacts'[mine])) /\ artifacts'[mine] # <<>>
      BY <1>4, <1>6, <3>1 DEF ArmsInv, Asserted
    <3>3. 1 \in DOMAIN artifacts'[mine]
      BY <3>2
    <3>4. artifacts'[mine][1].outcome.run \in new
      BY <3>3 DEF EvidenceOf, ToSet
    <3> QED
      BY <3>4
  <2>4. ASSUME NEW a \in Scripts, NEW r \in new, r \in EvidenceOf(a)
        PROVE  FALSE
    <3>1. a # mine
      BY <2>2, <2>4
    <3>2. PICK x \in ToSet(artifacts'[mine]) : r = x.outcome.run
      BY <2>4 DEF EvidenceOf
    <3>3. PICK y \in ToSet(artifacts'[a]) : r = y.outcome.run
      BY <1>6, <2>4, <3>1 DEF EvidenceOf
    <3>4. /\ study \in Experiments /\ Written(study, artifacts', journal')
          /\ Journaled(journal', stored) /\ Apart(stored, runs)
      BY <1>2, FinishKeeps DEF StudyInv, RunsInv
    <3>5. a = mine
      BY <1>4, <3>2, <3>3, <3>4, EvidenceApart
    <3> QED
      BY <3>1, <3>5
  <2>5. evidence' = [evidence EXCEPT ![mine] = new] /\ evidence'[mine] = new
    <3> HIDE DEF new
    <3>1. evidence' = [a \in Scripts |-> IF a = mine THEN new ELSE EvidenceOf(a)]
      BY <1>4, <2>1 DEF new
    <3> QED
      BY <3>1
  <2>6. \A a \in Scripts : new \cap evidence[a] = {}
    BY <2>4
  <2>7. DOMAIN evidence = Scripts
    OBVIOUS
  <2> HIDE DEF evidence, new
  <2>8. /\ evidence'[mine] # {}
        /\ evidence' = [evidence EXCEPT ![mine] = evidence'[mine]]
        /\ \A other \in DOMAIN evidence : evidence'[mine] \cap evidence[other] = {}
    BY <2>3, <2>5, <2>6, <2>7
  <2>9. Publication!Deliver(mine)
    BY <1>3, <2>8 DEF Publication!Deliver, Publication!Arms, evidence
  <2>10. mine \in Publication!Arms
    BY DEF Publication!Arms
  <2> QED
    BY <2>9, <2>10 DEF Publication!Next
<1>7. artifacts[mine] = <<>> \/ artifacts[mine] = Entries(mine)
  BY DEF RepeatInv
<1>8. \/ \A a \in Scripts : artifacts'[a] = artifacts[a]
      \/ /\ artifacts'[mine] = Entries(mine)
         /\ \A a \in Scripts : a # mine => artifacts'[a] = artifacts[a]
  BY <1>2, <1>4
<1> QED
  BY <1>5, <1>6, <1>7, <1>8

\* What a report is drawn from has every scenario in every arm, where the report looks.
LEMMA EveryArmHeard ==
  ASSUME study \in Paired, NEW records, NEW observations, Accepts(records, observations),
         NEW a \in Scripts, NEW i \in DOMAIN Cohort
  PROVE  \E o \in observations : o.scenario = Cohort[i].id /\ o.arm = Levels[study][a]
<1> DEFINE arms == Levels[study]
<1>1. study \in Experiments /\ study # "investigation_budget"
  BY TheExperiments DEF Paired
<1>2. Complete(records, observations, Cohort, arms)
  <2>1. CASE study = "tool_order"
    BY <2>1 DEF Accepts, ToolOrderAccepts, ToolOrderArms, Levels
  <2>2. CASE study = "passive_vs_verification"
    BY <2>2 DEF Accepts, PassiveAccepts, EvidenceArms, Levels
  <2>3. CASE study = "temporal_reasoning"
    BY <2>3 DEF Accepts, TemporalAccepts, TemporalArms, Levels
  <2>4. CASE study = "compound_handling"
    BY <2>4 DEF Accepts, CompoundAccepts, StoppingArms, Levels
  <2> QED
    BY <2>1, <2>2, <2>3, <2>4 DEF Paired
<1>3. arms[a] \in ToSet(arms)
  <2>1. a \in DOMAIN arms
    BY <1>1, PlansSpan DEF Scripts, ScriptsOf, Spans
  <2> HIDE DEF arms
  <2> QED
    BY <2>1 DEF ToSet
<1>4. Cohort[i] \in ToSet(Cohort)
  BY DEF ToSet
<1> HIDE DEF arms
<1>5. \E o \in observations : o.scenario = Cohort[i].id /\ o.arm = arms[a]
  BY <1>2, <1>3, <1>4 DEF Complete
<1> QED
  BY <1>5 DEF arms

\* An observation of an arm is one of the arm's entries.
LEMMA ObservedFrom ==
  ASSUME StudyInv, ArmsInv, AllWritten, study \in Paired, NEW given \in Handed,
         ToSet(given) = Scripts, NEW o \in ObservationsOf(RecordsIn(given)),
         NEW a \in Scripts, o.arm = Levels[study][a]
  PROVE  \E x \in ToSet(artifacts[a]) : o = Observation(RecordOf(x))
<1>1. study \in Experiments /\ study # "investigation_budget"
  BY DEF StudyInv, Paired
<1>2. PICK p \in DOMAIN RecordsIn(given) : o = Observation(RecordsIn(given)[p])
  BY DEF ObservationsOf
<1>3. PICK b \in Scripts : \E y \in ToSet(artifacts[b]) : RecordsIn(given)[p] = RecordOf(y)
  BY RecordsGathered
<1>4. PICK y \in ToSet(artifacts[b]) : RecordsIn(given)[p] = RecordOf(y)
  BY <1>3
<1>5. o.arm = Levels[study][b]
  <2>1. Tells(Observation(RecordOf(y)), RecordOf(y))
    BY <1>1, ObservationTells
  <2>2. ArmOf(RecordOf(y)) = Levels[study][b]
    BY EntryPlaced
  <2> QED
    BY <1>2, <1>4, <2>1, <2>2 DEF Tells
<1>6. a = b
  <2>1. a \in DOMAIN Levels[study] /\ b \in DOMAIN Levels[study]
    BY <1>1, PlansSpan DEF Scripts, ScriptsOf, Spans
  <2> QED
    BY <1>1, <1>5, <2>1, TheExperiments DEF Levels
<1> QED
  BY <1>2, <1>4, <1>6

\* The trials an arm has written down, and as many scenarios and runs.
LEMMA TrialsCounted ==
  ASSUME NEW e, NEW a, NEW entries, Asserted(e, a, entries)
  PROVE  /\ IsFiniteSet({x.trial : x \in ToSet(entries)})
         /\ Cardinality({x.trial : x \in ToSet(entries)}) = Len(entries)
         /\ Cardinality({x.outcome.run : x \in ToSet(entries)}) = Len(entries)
<1> DEFINE T == {x.trial : x \in ToSet(entries)}
<1> DEFINE f == [i \in 1 .. Len(entries) |-> entries[i].trial]
<1>1. /\ Len(entries) \in Nat /\ DOMAIN entries = 1 .. Len(entries)
      /\ ToSet(entries) = {entries[i] : i \in DOMAIN entries}
  BY LenProperties DEF Asserted, ToSet
<1>2. f \in Surjection(1 .. Len(entries), T)
  <2>1. \A i \in 1 .. Len(entries) : entries[i].trial \in T
    BY <1>1
  <2>2. \A t \in T : \E i \in 1 .. Len(entries) : entries[i].trial = t
    BY <1>1
  <2> HIDE DEF T
  <2> QED
    BY <2>1, <2>2 DEF Surjection
<1>3. IsFiniteSet(1 .. Len(entries))
  BY <1>1, FS_Interval
<1> HIDE DEF T, f
<1>4. IsFiniteSet(T)
  BY <1>2, <1>3, FS_Surjection
<1> QED
  BY <1>4 DEF Asserted, T

\* Every arm that a paired report accepts has one trial for each scenario.
LEMMA ArmCovers ==
  ASSUME StudyInv, ArmsInv, AllWritten, study \in Paired, NEW given \in Handed,
         ToSet(given) = Scripts, Accepts(RecordsIn(given), ObservationsOf(RecordsIn(given))),
         NEW a \in Scripts
  PROVE  Len(artifacts[a]) = Cardinality({Cohort[i].id : i \in DOMAIN Cohort})
<1> DEFINE ids == {Cohort[i].id : i \in DOMAIN Cohort}
<1> DEFINE T == {x.trial : x \in ToSet(artifacts[a])}
<1> DEFINE f == [t \in T |-> t.scenario]
<1> DEFINE made(i) == Trial(PlanOf[study], PlanOf[study].cells[a], Cohort[i])
<1>1. study \in Experiments /\ Asserted(study, a, artifacts[a])
  BY DEF StudyInv, ArmsInv, AllWritten
<1>2. IsFiniteSet(T) /\ Cardinality(T) = Len(artifacts[a])
  BY <1>1, TrialsCounted
<1>3. \A x \in ToSet(artifacts[a]) : \E i \in DOMAIN Cohort :
        x.trial = made(i) /\ x.trial.scenario = Cohort[i].id
  BY EntryPlaced
<1>4. \A t \in T : \E i \in DOMAIN Cohort : t = made(i) /\ t.scenario = Cohort[i].id
  BY <1>3
<1>5. \A i \in DOMAIN Cohort : \E t \in T : t.scenario = Cohort[i].id
  <2> SUFFICES ASSUME NEW i \in DOMAIN Cohort
               PROVE  \E t \in T : t.scenario = Cohort[i].id
    OBVIOUS
  <2>1. PICK o \in ObservationsOf(RecordsIn(given)) :
          o.scenario = Cohort[i].id /\ o.arm = Levels[study][a]
    BY EveryArmHeard
  <2>2. PICK x \in ToSet(artifacts[a]) : o = Observation(RecordOf(x))
    BY <2>1, ObservedFrom
  <2>3. o.scenario = x.trial.scenario
    BY <1>1, <2>2, ObservationTells, RecordTells DEF Tells
  <2> QED
    BY <2>1, <2>2, <2>3
<1>6. \A i, j \in DOMAIN Cohort : Cohort[i].id = Cohort[j].id => i = j
  BY <1>1, StudiesAssumption DEF Cohort
<1> HIDE DEF T, made
<1>7. f \in [T -> ids]
  BY <1>4
<1>8. \A t, u \in T : f[t] = f[u] => t = u
  <2> SUFFICES ASSUME NEW t \in T, NEW u \in T, t.scenario = u.scenario
               PROVE  t = u
    OBVIOUS
  <2>1. PICK i \in DOMAIN Cohort : t = made(i) /\ t.scenario = Cohort[i].id
    BY <1>4
  <2>2. PICK j \in DOMAIN Cohort : u = made(j) /\ u.scenario = Cohort[j].id
    BY <1>4
  <2>3. i = j
    BY <1>6, <2>1, <2>2
  <2> QED
    BY <2>1, <2>2, <2>3
<1>9. \A d \in ids : \E t \in T : f[t] = d
  BY <1>5
<1> HIDE DEF ids, f
<1>10. f \in Bijection(T, ids)
  BY <1>7, <1>8, <1>9 DEF Bijection, Injection, Surjection, IsInjective
<1>11. Cardinality(T) = Cardinality(ids)
  BY <1>2, <1>10, FS_Bijection DEF ExistsBijection
<1> QED
  BY <1>2, <1>11 DEF ids

LEMMA RecordsLength ==
  ASSUME NEW S, NEW entries \in Seq(S)
  PROVE  /\ DOMAIN RecordsOf(entries) = DOMAIN entries /\ Len(RecordsOf(entries)) = Len(entries)
         /\ \A i \in DOMAIN entries : RecordsOf(entries)[i] = RecordOf(entries[i])
<1> DEFINE records == RecordsOf(entries)
<1>1. /\ Len(entries) \in Nat /\ DOMAIN entries = 1 .. Len(entries)
      /\ records = [i \in 1 .. Len(entries) |-> RecordOf(entries[i])]
  BY LenProperties DEF RecordsOf
<1> HIDE DEF records
<1>2. records \in [1 .. Len(entries) -> {RecordOf(entries[i]) : i \in 1 .. Len(entries)}]
  BY <1>1
<1>3. records \in Seq({RecordOf(entries[i]) : i \in 1 .. Len(entries)})
  BY <1>1, <1>2, FunctionIsSequence
<1>4. Len(records) = Len(entries)
  BY <1>1, <1>3, LenProperties
<1> QED
  BY <1>1, <1>4 DEF records

\* The planning study is handed each arm in its place.
LEMMA PlanningHanded ==
  ASSUME StudyInv, ArmsInv, AllWritten, study = "planning_difficulty", NEW given \in Handed,
         RightArtifacts(given)
  PROVE  ToSet(given) = Scripts /\ \A a \in Scripts : Len(artifacts[a]) = Len(Cohort)
<1> DEFINE arms == [i \in DOMAIN given |-> RecordsOf(artifacts[given[i]])]
<1>1. PlanningArtifacts(arms, Cohort)
  BY DEF RightArtifacts
<1>2. Scripts = {1, 2} /\ Scripts = 1 .. 2
  <2>1. DOMAIN Levels[study] = 1 .. 2 /\ study \in Experiments
    BY DEF Levels, StudyInv
  <2>2. Scripts = 1 .. 2
    BY <2>1, PlansSpan DEF Scripts, ScriptsOf, Spans
  <2> QED
    BY <2>2
<1>3. Cardinality(Scripts) = 2
  <2>1. \A n \in Nat : Cardinality(1 .. n) = n
    BY FS_Interval
  <2>2. Cardinality(1 .. 2) = 2
    BY <2>1
  <2> QED
    BY <1>2, <2>2, Zenon
<1>4. /\ DOMAIN given = Scripts /\ given[2] = 2
      /\ given[1] \in {1, 2}
  BY <1>2, <1>3 DEF Handed
<1>5. \A a \in Scripts : artifacts[a] \in Seq(ToSet(artifacts[a])) /\ artifacts[a] # <<>>
  BY DEF AllWritten, ArmsInv, Asserted
<1>6. /\ DOMAIN arms = Scripts
      /\ \A i \in Scripts : arms[i] = RecordsOf(artifacts[given[i]])
  BY <1>4
<1> HIDE DEF arms
<1>7. /\ \A i \in Scripts : Len(arms[i]) = Len(Cohort)
      /\ \A i \in Scripts : \A k \in DOMAIN arms[i] : ArmOf(arms[i][k]) = PlanningArms[i]
  BY <1>1, <1>6 DEF PlanningArtifacts
<1>8. given[1] = 1
  <2> SUFFICES ASSUME given[1] = 2
               PROVE  FALSE
    BY <1>4
  <2>1. arms[1] = arms[2] /\ arms[2] = RecordsOf(artifacts[2])
    BY <1>2, <1>4, <1>6
  <2>2. 1 \in DOMAIN artifacts[2]
    BY <1>2, <1>5
  <2>3. 1 \in DOMAIN arms[2]
    BY <1>2, <1>5, <2>1, <2>2, RecordsLength
  <2>4. PlanningArms[1] = PlanningArms[2]
    BY <1>2, <1>7, <2>1, <2>3
  <2> QED
    BY <2>4 DEF PlanningArms
<1>9. ToSet(given) = Scripts
  BY <1>2, <1>4, <1>8 DEF ToSet
<1>10. ASSUME NEW a \in Scripts
       PROVE  Len(artifacts[a]) = Len(Cohort)
  <2>1. arms[a] = RecordsOf(artifacts[a])
    BY <1>2, <1>4, <1>6, <1>8
  <2> QED
    BY <1>5, <1>7, <2>1, RecordsLength
<1> QED
  BY <1>9, <1>10

\* What a report is drawn from are all the arms, and they are equally long.
LEMMA ArmsEqual ==
  ASSUME StudyInv, ArmsInv, AllWritten, NEW given \in Handed, Reportable(given)
  PROVE  /\ ToSet(given) = Scripts
         /\ \A a, b \in Scripts : Len(artifacts[a]) = Len(artifacts[b])
<1>1. RightArtifacts(given) /\ Accepts(RecordsIn(given), ObservationsOf(RecordsIn(given)))
  BY DEF Reportable
<1>2. CASE study = "planning_difficulty"
  BY <1>1, <1>2, PlanningHanded
<1>3. CASE study = "investigation_budget"
  <2>1. ToSet(given) = Scripts
    BY <1>1, <1>3 DEF RightArtifacts
  <2>2. Scripts = {1}
    BY <1>3 DEF Scripts, ScriptsOf
  <2> QED
    BY <2>1, <2>2
<1>4. CASE study \in Paired
  <2>1. ToSet(given) = Scripts
    BY <1>1, <1>4 DEF RightArtifacts, Paired
  <2>2. \A a \in Scripts : Len(artifacts[a]) = Cardinality({Cohort[i].id : i \in DOMAIN Cohort})
    BY <1>1, <1>4, <2>1, ArmCovers
  <2> QED
    BY <2>1, <2>2
<1> QED
  BY <1>2, <1>3, <1>4, TheExperiments DEF StudyInv, Paired

LEMMA DrawnFrom ==
  ASSUME study \in Experiments, NEW observations
  PROVE  Drawn(observations).observations = observations /\ Drawn(observations) # NoReport
<1>1. /\ Drawn(observations).observations = observations
      /\ "observations" \in DOMAIN Drawn(observations)
  <2>1. CASE study = "tool_order"
    BY <2>1 DEF Drawn, ToolOrderReport, ReportOf
  <2>2. CASE study = "passive_vs_verification"
    BY <2>2 DEF Drawn, PassiveReport, ReportOf
  <2>3. CASE study = "compound_handling"
    BY <2>3 DEF Drawn, CompoundReport, ReportOf
  <2>4. CASE study = "temporal_reasoning"
    BY <2>4 DEF Drawn, TemporalReport, ReportOf
  <2>5. CASE study = "investigation_budget"
    BY <2>5 DEF Drawn, BudgetReport
  <2>6. CASE study = "planning_difficulty"
    BY <2>6 DEF Drawn, PlanningReport
  <2> QED
    BY <2>1, <2>2, <2>3, <2>4, <2>5, <2>6, TheExperiments
<1>2. DOMAIN NoReport = {}
  BY DEF NoReport
<1> QED
  BY <1>1, <1>2

LEMMA SameCardinality == \A S : Publication!Cardinality(S) = Cardinality(S)
  BY DEF Publication!Cardinality, Cardinality

\* The report rests on all the runs of all the arms.
LEMMA BuildReportPublishes ==
  ASSUME StudyInv, ArmsInv, BuildReport
  PROVE  Publication!Publish
<1> DEFINE evidence == [a \in Scripts |-> EvidenceOf(a)]
<1>1. /\ report = NoReport /\ AllWritten /\ study' = study /\ artifacts' = artifacts
      /\ study \in Experiments
  BY DEF BuildReport, StudyInv
<1>2. PICK given \in Handed :
        Reportable(given) /\ report' = Drawn(ObservationsOf(RecordsIn(given)))
  BY DEF BuildReport
<1>3. /\ ToSet(given) = Scripts
      /\ \A a, b \in Scripts : Len(artifacts[a]) = Len(artifacts[b])
  BY <1>1, <1>2, ArmsEqual
<1>4. /\ report'.observations = ObservationsOf(RecordsIn(given))
      /\ ~Done /\ Done'
  BY <1>1, <1>2, DrawnFrom DEF Done, NoReport
<1>5. \A x : Observation(RecordOf(x)).run = x.outcome.run
  <2> SUFFICES ASSUME NEW x
               PROVE  Observation(RecordOf(x)).run = x.outcome.run
    OBVIOUS
  <2>1. Tells(Observation(RecordOf(x)), RecordOf(x))
    BY <1>1, ObservationTells
  <2>2. RecordOf(x).run = x.outcome.run
    BY DEF RecordOf
  <2> QED
    BY <2>1, <2>2 DEF Tells
<1>6. /\ \A a \in Scripts : \A x \in ToSet(artifacts[a]) :
           \E p \in DOMAIN RecordsIn(given) : RecordsIn(given)[p] = RecordOf(x)
      /\ \A p \in DOMAIN RecordsIn(given) : \E a \in Scripts : \E x \in ToSet(artifacts[a]) :
           RecordsIn(given)[p] = RecordOf(x)
  BY <1>1, <1>3, RecordsGathered
<1>7. {o.run : o \in report'.observations} = UNION {EvidenceOf(a) : a \in Scripts}
  <2>1. \A r : r \in {o.run : o \in ObservationsOf(RecordsIn(given))}
                 <=> \E p \in DOMAIN RecordsIn(given) : r = Observation(RecordsIn(given)[p]).run
    BY DEF ObservationsOf
  <2>2. \A r : r \in UNION {EvidenceOf(a) : a \in Scripts}
                 <=> \E a \in Scripts : \E x \in ToSet(artifacts[a]) : r = x.outcome.run
    BY DEF EvidenceOf
  <2>3. \A r : (\E p \in DOMAIN RecordsIn(given) : r = Observation(RecordsIn(given)[p]).run)
                 <=> \E a \in Scripts : \E x \in ToSet(artifacts[a]) : r = x.outcome.run
    BY <1>5, <1>6
  <2>4. \A r : r \in {o.run : o \in ObservationsOf(RecordsIn(given))}
                 <=> r \in UNION {EvidenceOf(a) : a \in Scripts}
    BY <2>1, <2>2, <2>3, Zenon
  <2> QED
    BY <1>4, <2>4
<1>8. \A a \in Scripts : EvidenceOf(a) # {} /\ Cardinality(EvidenceOf(a)) = Len(artifacts[a])
  <2> SUFFICES ASSUME NEW a \in Scripts
               PROVE  EvidenceOf(a) # {} /\ Cardinality(EvidenceOf(a)) = Len(artifacts[a])
    OBVIOUS
  <2>1. Asserted(study, a, artifacts[a]) /\ artifacts[a] # <<>>
    BY <1>1 DEF AllWritten, ArmsInv
  <2>2. Cardinality(EvidenceOf(a)) = Len(artifacts[a])
    BY <2>1, TrialsCounted DEF EvidenceOf
  <2>3. artifacts[a] \in Seq(ToSet(artifacts[a])) /\ artifacts[a] # <<>>
    BY <2>1 DEF Asserted
  <2>4. 1 \in DOMAIN artifacts[a]
    BY <2>3
  <2>5. artifacts[a][1].outcome.run \in EvidenceOf(a)
    BY <2>4 DEF EvidenceOf, ToSet
  <2> QED
    BY <2>2, <2>5
<1>9. evidence' = evidence
  BY <1>1 DEF EvidenceOf, Scripts
<1>10. /\ DOMAIN evidence = Scripts /\ \A a \in Scripts : evidence[a] = EvidenceOf(a)
       /\ UNION {evidence[arm] : arm \in DOMAIN evidence} = UNION {EvidenceOf(a) : a \in Scripts}
  OBVIOUS
<1> HIDE DEF evidence
<1>11. /\ \A a, b \in DOMAIN evidence :
            evidence[a] # {} /\ Cardinality(evidence[a]) = Cardinality(evidence[b])
       /\ {o.run : o \in report'.observations} = UNION {evidence[arm] : arm \in DOMAIN evidence}
  BY <1>3, <1>7, <1>8, <1>10
<1> QED
  BY <1>4, <1>9, <1>11, SameCardinality DEF Publication!Publish, Publication!Arms, evidence

\* Whichever scripts die or are run again and whatever is deployed in between, the evidence
\* of an arm appears as a whole and is no other arm's, a script that is run again repeats
\* it, and the report rests on all the runs of all the arms, as many of each, and stays as
\* it is (runner.py 111-114 and the report scripts of phase 8).
THEOREM StudyPublishes == Spec => ArmsPublished
<1>1. Init => Publication!Init /\ ArmsInv /\ ReportInv /\ RunsInv /\ RepeatInv
  <2> SUFFICES ASSUME Init
               PROVE  Publication!Init /\ ArmsInv /\ ReportInv /\ RunsInv /\ RepeatInv
    OBVIOUS
  <2>1. Publication!Init
    BY DEF Init, Publication!Init, EvidenceOf, ToSet, Done
  <2>2. RunsInv
    BY DEF Init, RunsInv, Apart
  <2> QED
    BY <2>1, <2>2 DEF Init, ArmsInv, ReportInv, RepeatInv, Done
<1>2. StudyInv /\ ArmsInv /\ ReportInv /\ RunsInv /\ RepeatInv /\ [Next]_vars
        => ArmsInv' /\ ReportInv' /\ RunsInv' /\ RepeatInv'
  BY ArmsStayAsserted, ReportStays, RunsStayApart, RepeatsStay
<1>3. ASSUME StudyInv, ArmsInv, ReportInv, RunsInv, RepeatInv, [Next]_vars
      PROVE  [Publication!Next]_(Publication!study)
  <2>1. CASE study' = study /\ artifacts' = artifacts /\ report' = report
    BY <2>1 DEF Publication!study, EvidenceOf, Done, Scripts
  <2>2. CASE Finish
    BY <1>3, <2>2, FinishDelivers
  <2>3. CASE BuildReport
    BY <1>3, <2>3, BuildReportPublishes DEF Publication!Next
  <2> QED
    BY <1>3, <2>1, <2>2, <2>3
       DEF Next, Proceed, Begin, Load, Check, RunAgent, Save, Deploy, Die, vars
<1> QED
  BY <1>1, <1>2, <1>3, StudyInvariance, PTL DEF Spec, ArmsPublished, Publication!Spec

-----------------------------------------------------------------------------
(* What a report is drawn from, place by place: a scenario in an arm. *)

\* What the trial for a scenario in an arm says of both.
LEMMA TrialSays ==
  ASSUME NEW e \in Experiments, NEW c \in DOMAIN Levels[e], NEW s
  PROVE  LET t == TrialOf(e, c, s) IN
         /\ t.experiment = e /\ t.scenario = s.id /\ t.difficulty = s.difficulty
         /\ t.configuration[Dimension[t.experiment]] = Levels[e][c]
         /\ t.configuration.budget \in Nat
<1> DEFINE plan == IF e = "planning_difficulty" THEN TierPlan(s.difficulty) ELSE PlanOf[e]
<1> DEFINE t == TrialOf(e, c, s)
<1> DEFINE level == Levels[e][c]
<1>1. t = Trial(plan, plan.cells[c], s)
  BY DEF TrialOf
<1>2. Spans(plan, e, Levels[e])
  <2>1. CASE e = "planning_difficulty"
    BY <2>1, TierSpans
  <2>2. CASE e # "planning_difficulty"
    BY <2>2, PlansSpan
  <2> QED
    BY <2>1, <2>2
<1> HIDE DEF plan
<1>3. /\ t.experiment = e /\ t.scenario = s.id /\ t.difficulty = s.difficulty
      /\ t.configuration = [Baseline EXCEPT ![Dimension[e]] = level]
  BY <1>1, <1>2 DEF Trial, Spans
<1>4. [Baseline EXCEPT ![Dimension[e]] = level][Dimension[e]] = level
  BY DimensionVaries
<1> HIDE DEF t
<1>5. t.configuration[Dimension[t.experiment]] = level
  <2> HIDE DEF level
  <2> QED
    BY <1>3, <1>4, Zenon
<1>6. t.configuration.budget \in Nat
  <2>1. CASE e = "investigation_budget"
    <3>1. Dimension[e] = "budget" /\ level \in Nat
      BY <2>1 DEF Dimension, Levels
    <3> QED
      BY <1>3, <1>5, <3>1
  <2>2. CASE e # "investigation_budget"
    <3>1. Dimension[e] # "budget"
      BY <2>2, TheExperiments DEF Dimension
    <3>2. t.configuration.budget = 15
      <4> HIDE DEF level
      <4> QED
        BY <1>3, <3>1 DEF Baseline
    <3> QED
      BY <3>2
  <2> QED
    BY <2>1, <2>2
<1> QED
  BY <1>3, <1>5, <1>6 DEF t

\* Every score comes from an agent with settings that occur and with a plan that they
\* allow for the scenario.
Plausible(e, scores) ==
  \A t \in DOMAIN scores :
    /\ scores[t].settings \in Backends
    /\ \A s \in ToSet(CohortOf[e]) :
         s.id = t.scenario => scores[t].plan \in PlansOf[scores[t].settings][s.incident]

SettingsInv == Plausible(study, stored)

LEMMA SettingsStay == StudyInv /\ SettingsInv /\ [Next]_vars => SettingsInv'
<1> SUFFICES ASSUME StudyInv, SettingsInv, [Next]_vars
             PROVE  SettingsInv'
  OBVIOUS
<1>1. CASE RunAgent
  <2> DEFINE trial == Current.trial
  <2> DEFINE scenario == Current.scenario
  <2>1. PICK plan \in PlansOf[backend][scenario.incident] :
          \E entry : stored' = With(stored, trial, entry) /\ entry.settings = backend
                      /\ entry.plan = plan
    BY <1>1 DEF RunAgent, Outcome
  <2>2. backend \in Backends /\ study \in Experiments /\ study' = study
    BY <1>1 DEF StudyInv, RunAgent
  <2>3. script.arm \in ScriptsOf(study) /\ script.next \in DOMAIN WorkOf[study][script.arm]
    <3>1. script.at = "run"
      BY <1>1 DEF RunAgent
    <3> QED
      BY <3>1, OpenTrial, AtTrial DEF Running
  <2>4. PICK i \in DOMAIN CohortOf[study], c \in DOMAIN Levels[study] :
          WorkOf[study][script.arm][script.next]
            = [trial |-> TrialOf(study, c, CohortOf[study][i]), scenario |-> CohortOf[study][i]]
    BY <2>2, <2>3, WorkFrom
  <2>5. trial.scenario = CohortOf[study][i].id /\ scenario = CohortOf[study][i]
    <3>1. trial = TrialOf(study, c, CohortOf[study][i]) /\ scenario = CohortOf[study][i]
      BY <2>4 DEF Current, Work
    <3> HIDE DEF trial, scenario
    <3> QED
      BY <2>2, <3>1, TrialSays
  <2>6. \A s \in ToSet(CohortOf[study]) : s.id = trial.scenario => s = scenario
    BY <2>2, <2>5, StudiesAssumption DEF ToSet
  <2> HIDE DEF trial, scenario
  <2>7. \A t \in DOMAIN stored' :
          \/ t = trial /\ stored'[t].settings = backend /\ stored'[t].plan = plan
          \/ t \in DOMAIN stored /\ stored'[t] = stored[t]
    BY <2>1 DEF With
  <2>8. Plausible(study, stored')
    BY <2>1, <2>2, <2>6, <2>7 DEF SettingsInv, Plausible
  <2> QED
    BY <2>2, <2>8 DEF SettingsInv
<1>2. CASE ~RunAgent
  <2>1. stored' = stored /\ study' = study
    BY <1>2 DEF Next, Proceed, Begin, Load, Check, Save, Finish, Deploy, Die, BuildReport, vars
  <2> QED
    BY <2>1 DEF SettingsInv
<1> QED
  BY <1>1, <1>2

\* What an agent may have planned: nothing if a model was asked, or the plan that is wrapped
\* around an order of the steps of the incident.
Ordered(base, i) ==
  base \in Seq(PlainSteps) /\ Distinct(base) /\ ToSet(base) = ToSet(BaselinePlan(i))

\* Whatever a model answers, it is an order of the legal steps or it is refused.
LEMMA AnswerOrders ==
  ASSUME NEW incident \in Incidents,
         NEW answer \in Seq([id: STRING, tool: STRING, service: STRING, about: STRING, limit: Nat,
                             window: BOOLEAN]),
         NEW plan \in OllamaPlan(incident, answer)
  PROVE  Ordered(plan, incident)
<1> DEFINE legal == BaselinePlan(incident)
<1> DEFINE Typed == [id: STRING, tool: STRING, service: STRING, about: STRING, limit: Nat,
                     window: BOOLEAN]
<1>1. \A i \in DOMAIN answer : \E j \in DOMAIN legal :
        answer[i].id = legal[j].id /\ SameInvocation(answer[i], legal[j])
  BY DEF OllamaPlan
<1>2. legal \in Seq(PlainSteps)
  BY BaselineSound
<1>3. \A s \in Typed : [s EXCEPT !.id = s.id] = s
  OBVIOUS
<1>4. answer \in Seq(Typed)
  OBVIOUS
<1> HIDE DEF legal, Typed
<1>5. \A i \in DOMAIN answer : answer[i] \in Steps
  <2> SUFFICES ASSUME NEW i \in DOMAIN answer
               PROVE  answer[i] \in Steps
    OBVIOUS
  <2>1. PICK j \in DOMAIN legal : answer[i].id = legal[j].id /\ SameInvocation(answer[i], legal[j])
    BY <1>1
  <2>2. answer[i] \in Typed
    BY <1>4
  <2>3. answer[i] = legal[j]
    BY <1>3, <2>1, <2>2 DEF SameInvocation
  <2>4. legal[j] \in PlainSteps
    BY <1>2
  <2> QED
    BY <2>3, <2>4, PlainAreSteps
<1>6. answer \in Seq(Steps)
  <2>1. answer = [i \in 1 .. Len(answer) |-> answer[i]] /\ Len(answer) \in Nat
        /\ DOMAIN answer = 1 .. Len(answer)
    BY <1>4
  <2>2. answer \in [1 .. Len(answer) -> Steps]
    BY <1>5, <2>1
  <2> QED
    BY <2>1, <2>2, FunctionIsSequence
<1> QED
  BY <1>6, OllamaSound DEF Ordered

LEMMA CapOfChain ==
  ASSUME NEW s \in Settings
  PROVE  /\ ChainOf(s, 0).cap \in Nat
         /\ s.depth \in 1 .. 1000 /\ s.capped \in BOOLEAN
<1>1. \A t \in Settings : t.depth \in 1 .. 1000 /\ t.capped \in BOOLEAN
  BY DEF Settings
<1>2. s.depth \in 1 .. 1000 /\ s.capped \in BOOLEAN
  BY <1>1
<1> QED
  BY <1>2 DEF ChainOf

LEMMA PlanBased ==
  ASSUME NEW s \in Backends, NEW x \in AllScenarios, NEW plan \in PlansOf[s][x.incident]
  PROVE  /\ x.incident \in Incidents
         /\ \/ plan = NoPlan /\ AsksModel(s)
            \/ \E base \in BasesOf(s, x.incident) :
                 /\ Ordered(base, x.incident)
                 /\ plan = WrappedPlan(ChainOf(s, 0), x.incident, base)
<1> DEFINE i == x.incident
<1>1. PICK e \in Experiments : x \in ToSet(CohortOf[e])
  BY DEF AllScenarios
<1>2. i \in Incidents
  BY <1>1, StudiesAssumption
<1>3. \/ plan = NoPlan /\ AsksModel(s)
      \/ \E base \in BasesOf(s, i) : plan = WrappedPlan(ChainOf(s, 0), i, base)
  BY DEF PlansOf
<1>4. ASSUME NEW base \in BasesOf(s, i)
      PROVE  Ordered(base, i)
  <2>1. CASE ~AsksModel(s)
    BY <1>2, <2>1, BaselineSound DEF BasesOf, Ordered
  <2>2. CASE AsksModel(s)
    <3>1. PICK answer \in Answers[i] : base \in OllamaPlan(i, answer)
      BY <1>4, <2>2 DEF BasesOf
    <3>2. answer \in Seq([id: STRING, tool: STRING, service: STRING, about: STRING, limit: Nat,
                          window: BOOLEAN])
      BY <1>1, StudiesAssumption
    <3> QED
      BY <1>2, <3>1, <3>2, AnswerOrders DEF Ordered
  <2> QED
    BY <2>1, <2>2
<1> QED
  BY <1>2, <1>3, <1>4

\* The settings, the plan and the calls behind a record.
LEMMA RecordPlanned ==
  ASSUME NEW x, x.outcome.settings \in Backends, x.scenario \in AllScenarios,
         x.outcome.plan \in PlansOf[x.outcome.settings][x.scenario.incident],
         x.trial.configuration.budget \in Nat
  PROVE  /\ RecordOf(x).plan = x.outcome.plan
         /\ RecordOf(x).plan \in Seq(Steps)
         /\ x.scenario.incident \in Incidents
         /\ Len(RecordOf(x).history) \in Nat
<1> DEFINE plan == x.outcome.plan
<1> DEFINE settings == x.outcome.settings
<1> DEFINE incident == x.scenario.incident
<1>1. /\ incident \in Incidents
      /\ \/ plan = NoPlan
         \/ \E base \in BasesOf(settings, incident) :
              Ordered(base, incident) /\ plan = WrappedPlan(ChainOf(settings, 0), incident, base)
  BY PlanBased
<1>2. ChainOf(settings, 0).cap \in Nat
  BY BackendsAreSettings, CapOfChain
<1>3. RecordOf(x).plan = plan
  BY DEF RecordOf
<1> HIDE DEF plan, settings, incident
<1>5. plan \in Seq(Steps)
  <2>1. CASE plan = NoPlan
    BY <2>1 DEF NoPlan
  <2>2. CASE plan # NoPlan
    BY <1>1, <1>2, <2>2, WrappedSound DEF Ordered
  <2> QED
    BY <2>1, <2>2
<1>6. PICK calls \in Nat : RecordOf(x).history = SubSeq(plan, 1, calls)
  <2>1. Len(plan) \in Nat
    BY <1>5
  <2> DEFINE budget == x.trial.configuration.budget
  <2>2. \E calls \in {1, 2, Len(plan), budget} : RecordOf(x).history = SubSeq(plan, 1, calls)
    <3>1. \E calls \in {1, 2, Len(RecordOf(x).plan), budget} :
            RecordOf(x).history = SubSeq(RecordOf(x).plan, 1, calls)
      BY RecordCalls
    <3> QED
      BY <1>3, <3>1
  <2> HIDE DEF budget
  <2>3. {1, 2, Len(plan), budget} \subseteq Nat
    BY <2>1 DEF budget
  <2> QED
    BY <2>2, <2>3
<1>7. Len(SubSeq(plan, 1, calls)) \in Nat
  <2> DEFINE calling == [i \in 1 .. calls |-> plan[i]]
  <2>1. SubSeq(plan, 1, calls) = calling
    BY DEF SubSeq
  <2>2. calling \in [1 .. calls -> {plan[i] : i \in 1 .. calls}]
    OBVIOUS
  <2> HIDE DEF calling
  <2>3. calling \in Seq({plan[i] : i \in 1 .. calls})
    BY <2>2, FunctionIsSequence
  <2> QED
    BY <2>1, <2>3
<1> QED
  BY <1>1, <1>3, <1>5, <1>6, <1>7 DEF plan, incident

LEMMA LevelsApart ==
  ASSUME NEW e \in Experiments, NEW c \in DOMAIN Levels[e], NEW d \in DOMAIN Levels[e],
         Levels[e][c] = Levels[e][d]
  PROVE  c = d
<1>1. e = "investigation_budget" => c = d
  BY DEF Levels
<1> QED
  BY <1>1, TheExperiments DEF Levels

\* Only the study of planning does not ask whether a scenario is a control.
LEMMA ControlTells ==
  ASSUME study \in Experiments, study # "planning_difficulty", NEW record
  PROVE  (Observation(record).falsePositive # "none") <=> ~record.faulty
<1> DEFINE m == Measured(record)
<1>1. "falsePositive" \in DOMAIN m /\ (m.falsePositive # "none" <=> ~record.faulty)
  BY DEF Measured
<1> HIDE DEF m
<1>2. \A more : (Extended(m, more).falsePositive # "none") <=> ~record.faulty
  BY <1>1, ExtendedKeeps
<1>3. \E more : Observation(record) = Extended(m, more)
  <2>1. CASE study = "tool_order"
    BY <2>1 DEF Observation, ToolOrderObservation, m
  <2>2. CASE study = "passive_vs_verification"
    BY <2>2 DEF Observation, PassiveObservation, m
  <2>3. CASE study = "compound_handling"
    BY <2>3 DEF Observation, CompoundObservation, m
  <2>4. CASE study = "temporal_reasoning"
    BY <2>4 DEF Observation, TemporalObservation, m
  <2>5. CASE study = "investigation_budget"
    BY <2>5 DEF Observation, BudgetObservation, m
  <2> QED
    BY <2>1, <2>2, <2>3, <2>4, <2>5, TheExperiments
<1> QED
  BY <1>2, <1>3

\* o observes the i-th scenario in the c-th arm.
Located(o, i, c) ==
  /\ o.scenario = Cohort[i].id /\ o.arm = Levels[study][c] /\ o.difficulty = Cohort[i].difficulty
  /\ o.accuracy \in {0, 1} /\ o.calls \in Nat
  /\ study # "planning_difficulty" => (o.falsePositive # "none" <=> Cohort[i].faults = {})

\* An entry is for a scenario in an arm, and its observation is located there.
LEMMA EntryAt ==
  ASSUME StudyInv, ArmsInv, SettingsInv, AllWritten, NEW a \in Scripts, NEW x \in ToSet(artifacts[a])
  PROVE  /\ Treated(study, a, x.trial)
         /\ x.outcome.settings \in Backends
         /\ x.outcome.plan \in PlansOf[x.outcome.settings][x.scenario.incident]
         /\ RecordOf(x).plan = x.outcome.plan /\ RecordOf(x).plan \in Seq(Steps)
         /\ \E i \in DOMAIN Cohort, c \in DOMAIN Levels[study] :
              /\ study # "investigation_budget" => c = a
              /\ x.trial = TrialOf(study, c, Cohort[i]) /\ x.scenario = Cohort[i]
              /\ Located(Observation(RecordOf(x)), i, c)
<1>1. study \in Experiments /\ a \in ScriptsOf(study) /\ Asserted(study, a, artifacts[a])
  BY DEF StudyInv, Scripts, ArmsInv, AllWritten
<1>2. PICK k \in DOMAIN WorkOf[study][a] :
        x.trial = WorkOf[study][a][k].trial /\ x.scenario = WorkOf[study][a][k].scenario
  BY <1>1 DEF Asserted, ToSet
<1>3. Treated(study, a, x.trial)
  BY <1>1, <1>2, WorkListed
<1>4. PICK i \in DOMAIN CohortOf[study], c \in DOMAIN Levels[study] :
        /\ study # "investigation_budget" => c = a
        /\ WorkOf[study][a][k] = [trial |-> TrialOf(study, c, CohortOf[study][i]),
                                  scenario |-> CohortOf[study][i]]
  BY <1>1, WorkFrom
<1>5. /\ i \in DOMAIN Cohort /\ x.scenario = Cohort[i]
      /\ x.trial = TrialOf(study, c, Cohort[i])
  BY <1>2, <1>4 DEF Cohort
<1> DEFINE o == Observation(RecordOf(x))
<1>6. Tells(o, RecordOf(x)) /\ RecordOf(x).trial = x.trial
  BY <1>1, ObservationTells, RecordTells
<1>7. /\ x.trial.scenario = Cohort[i].id /\ x.trial.difficulty = Cohort[i].difficulty
      /\ x.trial.configuration[Dimension[x.trial.experiment]] = Levels[study][c]
      /\ x.trial.configuration.budget \in Nat
  <2>1. ASSUME NEW s
        PROVE  LET t == TrialOf(study, c, s) IN
               /\ t.scenario = s.id /\ t.difficulty = s.difficulty
               /\ t.configuration[Dimension[t.experiment]] = Levels[study][c]
               /\ t.configuration.budget \in Nat
    BY <1>1, TrialSays
  <2> QED
    BY <1>5, <2>1
<1>8. /\ x.outcome.settings \in Backends
      /\ x.outcome.plan \in PlansOf[x.outcome.settings][x.scenario.incident]
  <2>1. /\ Written(study, artifacts, journal) /\ Journaled(journal, stored)
        /\ a \in DOMAIN artifacts
    BY DEF StudyInv, Written, Scripts
  <2>2. x.trial \in DOMAIN stored /\ x.outcome = stored[x.trial]
    BY <2>1, EntryStored
  <2>3. x.scenario \in ToSet(CohortOf[study]) /\ x.scenario.id = x.trial.scenario
    BY <1>5, <1>7 DEF ToSet, Cohort
  <2> QED
    BY <2>2, <2>3 DEF SettingsInv, Plausible
<1>9. /\ RecordOf(x).plan = x.outcome.plan /\ RecordOf(x).plan \in Seq(Steps)
      /\ Len(RecordOf(x).history) \in Nat
  <2>1. x.scenario \in AllScenarios
    BY <1>1, <1>5 DEF ToSet, Cohort, AllScenarios
  <2> QED
    BY <1>7, <1>8, <2>1, RecordPlanned
<1>10. study # "planning_difficulty" => (o.falsePositive # "none" <=> Cohort[i].faults = {})
  <2>1. RecordOf(x).faulty <=> Cohort[i].faults # {}
    BY <1>5 DEF RecordOf
  <2> QED
    BY <1>1, <2>1, ControlTells
<1>11. o.arm = Levels[study][c]
  BY <1>6, <1>7 DEF Tells, ArmOf
<1>12. /\ o.scenario = Cohort[i].id /\ o.difficulty = Cohort[i].difficulty
       /\ o.accuracy \in {0, 1} /\ o.calls \in Nat
  BY <1>6, <1>7, <1>9 DEF Tells
<1> HIDE DEF o
<1>13. Located(o, i, c)
  BY <1>10, <1>11, <1>12 DEF Located
<1> QED
  BY <1>3, <1>4, <1>5, <1>8, <1>9, <1>13 DEF o

\* An entry for a scenario in an arm is the only one in all the artifacts.
LEMMA OneAtPlace ==
  ASSUME StudyInv, ArmsInv, SettingsInv, AllWritten,
         NEW a \in Scripts, NEW x \in ToSet(artifacts[a]),
         NEW b \in Scripts, NEW y \in ToSet(artifacts[b]),
         NEW i \in DOMAIN Cohort, NEW c \in DOMAIN Levels[study],
         Located(Observation(RecordOf(x)), i, c), Located(Observation(RecordOf(y)), i, c)
  PROVE  x = y
<1>1. study \in Experiments /\ a \in ScriptsOf(study) /\ b \in ScriptsOf(study)
  BY DEF StudyInv, Scripts
<1>2. \A j \in DOMAIN Cohort, d \in DOMAIN Levels[study] : \A o :
        Located(o, i, c) /\ Located(o, j, d) => j = i /\ d = c
  <2>1. \A j \in DOMAIN Cohort : Cohort[j].id = Cohort[i].id => j = i
    BY <1>1, StudiesAssumption DEF Cohort
  <2>2. \A d \in DOMAIN Levels[study] : Levels[study][d] = Levels[study][c] => d = c
    BY <1>1, LevelsApart
  <2> QED
    BY <2>1, <2>2 DEF Located
<1>3. Treated(study, a, x.trial) /\ x.trial = TrialOf(study, c, Cohort[i])
  BY <1>2, EntryAt
<1>4. Treated(study, b, y.trial) /\ y.trial = TrialOf(study, c, Cohort[i])
  BY <1>2, EntryAt
<1>5. a = b
  BY <1>1, <1>3, <1>4, ArmsApart
<1>6. Asserted(study, a, artifacts[a])
  BY DEF ArmsInv, AllWritten
<1> QED
  BY <1>3, <1>4, <1>5, <1>6, OneEntry

\* ... and the only one of its run.
LEMMA OneOfRun ==
  ASSUME StudyInv, ArmsInv, RunsInv, AllWritten,
         NEW a \in Scripts, NEW x \in ToSet(artifacts[a]),
         NEW b \in Scripts, NEW y \in ToSet(artifacts[b]), x.outcome.run = y.outcome.run
  PROVE  x = y
<1>1. /\ study \in Experiments /\ a \in ScriptsOf(study) /\ b \in ScriptsOf(study)
      /\ Written(study, artifacts, journal) /\ Journaled(journal, stored) /\ Apart(stored, runs)
      /\ a \in DOMAIN artifacts /\ b \in DOMAIN artifacts
  BY DEF StudyInv, Scripts, RunsInv, Written
<1>2. /\ x.trial \in DOMAIN stored /\ x.outcome = stored[x.trial]
      /\ y.trial \in DOMAIN stored /\ y.outcome = stored[y.trial]
  BY <1>1, EntryStored
<1>3. x.trial = y.trial
  BY <1>1, <1>2 DEF Apart
<1>4. a = b
  BY <1>1, EvidenceApart
<1>5. Asserted(study, a, artifacts[a])
  BY DEF ArmsInv, AllWritten
<1> QED
  BY <1>3, <1>4, <1>5, OneEntry

\* What is drawn up has one observation for each scenario in each arm, of a run of its own.
Grid(observations) ==
  /\ \A o \in observations : \E i \in DOMAIN Cohort, c \in DOMAIN Levels[study] : Located(o, i, c)
  /\ \A i \in DOMAIN Cohort, c \in DOMAIN Levels[study] :
       /\ \E o \in observations : Located(o, i, c)
       /\ \A o, p \in observations : Located(o, i, c) /\ Located(p, i, c) => o = p
  /\ \A o, p \in observations : o.run = p.run => o = p

\* An artifact of the planning study that is as long as the cohort has every scenario.
LEMMA ArmFull ==
  ASSUME StudyInv, ArmsInv, SettingsInv, AllWritten, study # "investigation_budget",
         NEW a \in Scripts, Len(artifacts[a]) = Len(Cohort), NEW i \in DOMAIN Cohort
  PROVE  \E x \in ToSet(artifacts[a]) : Located(Observation(RecordOf(x)), i, a)
<1> DEFINE entries == artifacts[a]
<1> DEFINE Fits(k, j) == entries[k].scenario = Cohort[j]
                         /\ entries[k].trial = TrialOf(study, a, Cohort[j])
                         /\ Located(Observation(RecordOf(entries[k])), j, a)
<1> DEFINE n == Len(Cohort)
<1> DEFINE f == [k \in 1 .. n |-> CHOOSE j \in 1 .. n : Fits(k, j)]
<1>1. study \in Experiments /\ Asserted(study, a, entries)
  BY DEF StudyInv, ArmsInv, AllWritten
<1>2. Cohort \in Seq(ToSet(Cohort))
  BY <1>1, StudiesAssumption DEF Cohort
<1>3. /\ n \in Nat /\ DOMAIN Cohort = 1 .. n /\ DOMAIN entries = 1 .. n
      /\ \A k \in 1 .. n : entries[k] \in ToSet(entries)
  BY <1>1, <1>2, LenProperties DEF Asserted, ToSet
<1>4. \A k \in 1 .. n : \E j \in 1 .. n : Fits(k, j)
  BY <1>3, EntryAt
<1>5. \A k \in 1 .. n : f[k] \in 1 .. n /\ Fits(k, f[k])
  <2> HIDE DEF Fits
  <2> QED
    BY <1>4
<1> HIDE DEF f
<1>6. \A k, m \in 1 .. n : f[k] = f[m] => k = m
  <2> SUFFICES ASSUME NEW k \in 1 .. n, NEW m \in 1 .. n, f[k] = f[m]
               PROVE  k = m
    OBVIOUS
  <2> DEFINE T == {z.trial : z \in ToSet(entries)}
  <2> DEFINE g == [p \in 1 .. n |-> entries[p].trial]
  <2>1. g[k] = g[m]
    <3>1. entries[k].trial = TrialOf(study, a, Cohort[f[k]])
      BY <1>5
    <3>2. entries[m].trial = TrialOf(study, a, Cohort[f[m]])
      BY <1>5
    <3> QED
      BY <3>1, <3>2
  <2>2. Cardinality(T) = n
    BY <1>1 DEF Asserted
  <2>3. g \in Surjection(1 .. n, T)
    <3>1. \A p \in 1 .. n : entries[p].trial \in T
      BY <1>3
    <3>2. \A t \in T : \E p \in 1 .. n : entries[p].trial = t
      BY <1>3 DEF ToSet
    <3> HIDE DEF T
    <3> QED
      BY <3>1, <3>2 DEF Surjection
  <2>4. IsFiniteSet(1 .. n) /\ Cardinality(1 .. n) = n
    <3> HIDE DEF n
    <3>1. IsFiniteSet(1 .. n) /\ Cardinality(1 .. n) = IF 1 > n THEN 0 ELSE n - 1 + 1
      BY <1>3, FS_Interval
    <3> QED
      BY <1>3, <3>1
  <2> HIDE DEF T, g
  <2>5. g \in Injection(1 .. n, T)
    BY <2>2, <2>3, <2>4, FS_SurjSameCardinalityImpliesInj
  <2> QED
    BY <2>1, <2>5 DEF Injection, IsInjective
<1>7. f \in Injection(1 .. n, 1 .. n)
  <2>1. f \in [1 .. n -> 1 .. n]
    BY <1>5 DEF f
  <2> QED
    BY <1>6, <2>1 DEF Injection, IsInjective
<1>8. f \in Surjection(1 .. n, 1 .. n)
  <2>1. IsFiniteSet(1 .. n)
    BY <1>3, FS_Interval
  <2> QED
    BY <1>7, <2>1, FS_Injection
<1>9. PICK k \in 1 .. n : f[k] = i
  BY <1>3, <1>8 DEF Surjection
<1> QED
  BY <1>3, <1>5, <1>9

\* The observations of a report are those of all the entries that the arms have.
LEMMA ObservationsGathered ==
  ASSUME StudyInv, ArmsInv, AllWritten, NEW given \in Handed, ToSet(given) = Scripts
  PROVE  LET O == ObservationsOf(RecordsIn(given)) IN
         /\ \A o \in O : \E a \in Scripts : \E x \in ToSet(artifacts[a]) : o = Observation(RecordOf(x))
         /\ \A a \in Scripts : \A x \in ToSet(artifacts[a]) : Observation(RecordOf(x)) \in O
<1> DEFINE records == RecordsIn(given)
<1> DEFINE O == ObservationsOf(records)
<1>1. O = {Observation(records[p]) : p \in DOMAIN records}
  BY DEF ObservationsOf
<1>2. /\ \A a \in Scripts : \A x \in ToSet(artifacts[a]) :
           \E p \in DOMAIN records : records[p] = RecordOf(x)
      /\ \A p \in DOMAIN records : \E a \in Scripts : \E x \in ToSet(artifacts[a]) :
           records[p] = RecordOf(x)
  BY RecordsGathered
<1> HIDE DEF records, O
<1>3. /\ \A o \in O : \E a \in Scripts : \E x \in ToSet(artifacts[a]) : o = Observation(RecordOf(x))
      /\ \A a \in Scripts : \A x \in ToSet(artifacts[a]) : Observation(RecordOf(x)) \in O
  BY <1>1, <1>2
<1> QED
  BY <1>3 DEF O, records

LEMMA GridGathered ==
  ASSUME StudyInv, ArmsInv, SettingsInv, RunsInv, AllWritten, NEW given \in Handed,
         ToSet(given) = Scripts,
         \A i \in DOMAIN Cohort, c \in DOMAIN Levels[study] :
           \E o \in ObservationsOf(RecordsIn(given)) : Located(o, i, c)
  PROVE  Grid(ObservationsOf(RecordsIn(given)))
<1> DEFINE O == ObservationsOf(RecordsIn(given))
<1>1. study \in Experiments
  BY DEF StudyInv
<1>2. /\ \A o \in O : \E a \in Scripts : \E x \in ToSet(artifacts[a]) : o = Observation(RecordOf(x))
      /\ \A a \in Scripts : \A x \in ToSet(artifacts[a]) : Observation(RecordOf(x)) \in O
  BY ObservationsGathered
<1>3. \A i \in DOMAIN Cohort, c \in DOMAIN Levels[study] : \E o \in O : Located(o, i, c)
  OBVIOUS
<1> HIDE DEF O
<1>4. \A i \in DOMAIN Cohort, c \in DOMAIN Levels[study] :
        \A o, p \in O : Located(o, i, c) /\ Located(p, i, c) => o = p
  BY <1>2, OneAtPlace
<1>5. \A o, p \in O : o.run = p.run => o = p
  <2> SUFFICES ASSUME NEW o \in O, NEW p \in O, o.run = p.run
               PROVE  o = p
    OBVIOUS
  <2>1. PICK a \in Scripts : \E x \in ToSet(artifacts[a]) : o = Observation(RecordOf(x))
    BY <1>2
  <2>2. PICK x \in ToSet(artifacts[a]) : o = Observation(RecordOf(x))
    BY <2>1
  <2>3. PICK b \in Scripts : \E y \in ToSet(artifacts[b]) : p = Observation(RecordOf(y))
    BY <1>2
  <2>4. PICK y \in ToSet(artifacts[b]) : p = Observation(RecordOf(y))
    BY <2>3
  <2>5. Tells(o, RecordOf(x)) /\ Tells(p, RecordOf(y))
    BY <1>1, <2>2, <2>4, ObservationTells
  <2>6. RecordOf(x).run = x.outcome.run /\ RecordOf(y).run = y.outcome.run
    BY DEF RecordOf
  <2>7. x.outcome.run = y.outcome.run
    BY <2>5, <2>6 DEF Tells
  <2> QED
    BY <2>2, <2>4, <2>7, OneOfRun
<1>6. \A o \in O : \E i \in DOMAIN Cohort, c \in DOMAIN Levels[study] : Located(o, i, c)
  BY <1>2, EntryAt
<1>7. Grid(O)
  BY <1>3, <1>4, <1>5, <1>6 DEF Grid
<1> QED
  BY <1>7 DEF O

LEMMA GridDrawn ==
  ASSUME StudyInv, ArmsInv, SettingsInv, RunsInv, AllWritten, NEW given \in Handed, Reportable(given)
  PROVE  Grid(ObservationsOf(RecordsIn(given)))
<1> DEFINE records == RecordsIn(given)
<1> DEFINE O == ObservationsOf(records)
<1>1. /\ study \in Experiments /\ ToSet(given) = Scripts /\ Accepts(records, O)
      /\ RightArtifacts(given)
  BY ArmsEqual DEF StudyInv, Reportable
<1>2. /\ \A o \in O : \E a \in Scripts : \E x \in ToSet(artifacts[a]) : o = Observation(RecordOf(x))
      /\ \A a \in Scripts : \A x \in ToSet(artifacts[a]) : Observation(RecordOf(x)) \in O
  BY <1>1, ObservationsGathered
<1> HIDE DEF O, records
<1>3. \A o \in O : \E i \in DOMAIN Cohort, c \in DOMAIN Levels[study] : Located(o, i, c)
  BY <1>2, EntryAt
<1>4. ASSUME NEW i \in DOMAIN Cohort, NEW c \in DOMAIN Levels[study]
      PROVE  \E o \in O : Located(o, i, c)
  <2>1. CASE study = "planning_difficulty"
    <3>1. c \in Scripts
      BY <1>1, <2>1, PlansSpan DEF Scripts, ScriptsOf, Spans
    <3>2. Len(artifacts[c]) = Len(Cohort)
      BY <1>1, <2>1, <3>1, PlanningHanded
    <3>3. PICK x \in ToSet(artifacts[c]) : Located(Observation(RecordOf(x)), i, c)
      BY <2>1, <3>1, <3>2, ArmFull
    <3> QED
      BY <1>2, <3>1, <3>3
  <2>2. CASE study # "planning_difficulty"
    <3>1. PICK o \in O : o.scenario = Cohort[i].id /\ o.arm = Levels[study][c]
      <4>1. CASE study = "investigation_budget"
        <5>1. Complete(records, O, Cohort, Budgets)
          BY <1>1, <4>1 DEF Accepts, BudgetAccepts
        <5>2. Cohort[i] \in ToSet(Cohort)
          BY DEF ToSet
        <5>3. Levels[study] = Budgets
          BY <4>1 DEF Levels, Budgets
        <5>4. Levels[study][c] \in ToSet(Budgets)
          BY <5>3 DEF ToSet
        <5> QED
          BY <5>1, <5>2, <5>4 DEF Complete
      <4>2. CASE study \in Paired
        <5>1. c \in Scripts
          BY <1>1, <4>2, PlansSpan DEF Scripts, ScriptsOf, Spans, Paired
        <5> QED
          BY <1>1, <4>2, <5>1, EveryArmHeard
      <4> QED
        BY <1>1, <2>2, <4>1, <4>2, TheExperiments DEF Paired
    <3>2. PICK j \in DOMAIN Cohort, d \in DOMAIN Levels[study] : Located(o, j, d)
      BY <1>3
    <3>3. j = i /\ d = c
      <4>1. Cohort[j].id = Cohort[i].id /\ Levels[study][d] = Levels[study][c]
        BY <3>1, <3>2 DEF Located
      <4>2. j = i
        BY <1>1, <4>1, StudiesAssumption DEF Cohort
      <4> QED
        BY <1>1, <4>1, <4>2, LevelsApart
    <3> QED
      BY <3>2, <3>3
  <2> QED
    BY <2>1, <2>2
<1> QED
  BY <1>1, <1>4, GridGathered DEF O, records

-----------------------------------------------------------------------------
(* The sums of a report over such a grid. *)

\* A total of a report is a sum, ...
LEMMA TotalIsSum ==
  ASSUME NEW group, IsFiniteSet(group), NEW field
  PROVE  TotalOf(field, group) = SumOf([o \in group |-> o[field]], group)
<1> DEFINE value == [o \in group |-> o[field]]
<1> DEFINE one == [s \in SUBSET group |-> CHOOSE o \in s : TRUE]
<1> DEFINE Iterates(f) == f = [s \in SUBSET group |->
                               IF s = {} THEN 0
                               ELSE (CHOOSE o \in s : TRUE)[field]
                                    + f[s \ {CHOOSE o \in s : TRUE}]]
<1>1. \A s \in SUBSET group : s # {} => one[s] \in s
  OBVIOUS
<1>2. \E f : IsSum(f, group, value, one)
  <2> HIDE DEF value, one
  <2> QED
    BY <1>1, SumExists
<1>3. \A f : IsSum(f, group, value, one) <=> Iterates(f)
  <2> SUFFICES ASSUME NEW f
               PROVE  IsSum(f, group, value, one) <=> Iterates(f)
    OBVIOUS
  <2>1. \A s \in SUBSET group : s # {} =>
          value[one[s]] + f[s \ {one[s]}]
            = (CHOOSE o \in s : TRUE)[field] + f[s \ {CHOOSE o \in s : TRUE}]
    BY <1>1
  <2> HIDE DEF value, one
  <2> QED
    BY <2>1 DEF IsSum
<1> DEFINE sum == CHOOSE f : Iterates(f)
<1>4. TotalOf(field, group) = sum[group]
  BY DEF TotalOf, MapThenSumSet, MapThenFoldSet
<1>5. IsSum(sum, group, value, one)
  <2> HIDE DEF Iterates, value, one
  <2> QED
    BY <1>2, <1>3
<1> HIDE DEF sum, value
<1>6. sum[group] = SumOf(value, group)
  BY <1>5, SumFound
<1> QED
  BY <1>4, <1>6 DEF value

\* A measure added over the groups of difficulty.
GroupedTotal(groups, a, f) == MapThenSumSet(LAMBDA d : groups[d][a][f], DOMAIN groups)

\* ... and so is a total over the groups of difficulty.
LEMMA GroupsTotal ==
  ASSUME NEW groups, IsFiniteSet(DOMAIN groups), NEW a, NEW field
  PROVE  GroupedTotal(groups, a, field)
           = SumOf([d \in DOMAIN groups |-> groups[d][a][field]], DOMAIN groups)
<1> DEFINE D == DOMAIN groups
<1> DEFINE value == [d \in D |-> groups[d][a][field]]
<1> DEFINE one == [s \in SUBSET D |-> CHOOSE d \in s : TRUE]
<1> DEFINE Iterates(f) == f = [s \in SUBSET D |->
                               IF s = {} THEN 0
                               ELSE groups[CHOOSE d \in s : TRUE][a][field]
                                    + f[s \ {CHOOSE d \in s : TRUE}]]
<1>1. \A s \in SUBSET D : s # {} => one[s] \in s
  OBVIOUS
<1>2. \E f : IsSum(f, D, value, one)
  <2> HIDE DEF value, one
  <2> QED
    BY <1>1, SumExists
<1>3. \A f : IsSum(f, D, value, one) <=> Iterates(f)
  <2> SUFFICES ASSUME NEW f
               PROVE  IsSum(f, D, value, one) <=> Iterates(f)
    OBVIOUS
  <2>1. \A s \in SUBSET D : s # {} =>
          value[one[s]] + f[s \ {one[s]}]
            = groups[CHOOSE d \in s : TRUE][a][field] + f[s \ {CHOOSE d \in s : TRUE}]
    BY <1>1
  <2> HIDE DEF value, one
  <2> QED
    BY <2>1 DEF IsSum
<1> DEFINE sum == CHOOSE f : Iterates(f)
<1>4. GroupedTotal(groups, a, field) = sum[D]
  BY DEF GroupedTotal, MapThenSumSet, MapThenFoldSet
<1>5. IsSum(sum, D, value, one)
  <2> HIDE DEF Iterates, value, one
  <2> QED
    BY <1>2, <1>3
<1> HIDE DEF sum, value
<1>6. sum[D] = SumOf(value, D)
  BY <1>5, SumFound
<1> QED
  BY <1>4, <1>6 DEF value

\* The observations of an arm, scenario by scenario.
Column(observations, c) ==
  [i \in DOMAIN Cohort |-> CHOOSE o \in observations : Located(o, i, c)]

LEMMA CohortListed ==
  ASSUME study \in Experiments
  PROVE  /\ Len(Cohort) \in Nat /\ DOMAIN Cohort = 1 .. Len(Cohort)
         /\ IsFiniteSet(DOMAIN Cohort) /\ Cardinality(DOMAIN Cohort) = Len(Cohort)
         /\ ToSet(Cohort) = {Cohort[i] : i \in DOMAIN Cohort}
         /\ \A i, j \in DOMAIN Cohort : Cohort[i].id = Cohort[j].id => i = j
<1>1. Cohort \in Seq(ToSet(Cohort))
  BY StudiesAssumption DEF Cohort
<1> DEFINE n == Len(Cohort)
<1>2. n \in Nat /\ DOMAIN Cohort = 1 .. n
  BY <1>1, LenProperties
<1>3. IsFiniteSet(1 .. n) /\ Cardinality(1 .. n) = n
  <2> HIDE DEF n
  <2>1. IsFiniteSet(1 .. n) /\ Cardinality(1 .. n) = IF 1 > n THEN 0 ELSE n - 1 + 1
    BY <1>2, FS_Interval
  <2> QED
    BY <1>2, <2>1
<1>4. \A i, j \in DOMAIN Cohort : Cohort[i].id = Cohort[j].id => i = j
  BY StudiesAssumption DEF Cohort
<1> QED
  BY <1>2, <1>3, <1>4 DEF ToSet

LEMMA GridColumn ==
  ASSUME study \in Experiments, NEW O, Grid(O), NEW c \in DOMAIN Levels[study]
  PROVE  /\ Column(O, c) \in Bijection(DOMAIN Cohort, InArm(O, Levels[study][c]))
         /\ \A i \in DOMAIN Cohort : /\ Column(O, c)[i] \in O
                                     /\ Column(O, c)[i].arm = Levels[study][c]
                                     /\ Located(Column(O, c)[i], i, c)
         /\ IsFiniteSet(InArm(O, Levels[study][c]))
         /\ Cardinality(InArm(O, Levels[study][c])) = Len(Cohort)
<1> DEFINE I == DOMAIN Cohort
<1> DEFINE arm == InArm(O, Levels[study][c])
<1> DEFINE h == Column(O, c)
<1>1. /\ \A i \in I : h[i] \in O /\ Located(h[i], i, c)
      /\ h \in [I -> O]
  BY DEF Grid, Column
<1>2. \A i \in I : h[i] \in arm
  BY <1>1 DEF InArm, Located
<1>3. \A i, j \in I : h[i] = h[j] => i = j
  <2> SUFFICES ASSUME NEW i \in I, NEW j \in I, h[i] = h[j]
               PROVE  i = j
    OBVIOUS
  <2>1. Cohort[i].id = Cohort[j].id
    BY <1>1 DEF Located
  <2> QED
    BY <2>1, CohortListed
<1>4. \A o \in arm : \E i \in I : h[i] = o
  <2> SUFFICES ASSUME NEW o \in arm
               PROVE  \E i \in I : h[i] = o
    OBVIOUS
  <2>1. o \in O /\ o.arm = Levels[study][c]
    BY DEF InArm
  <2>2. PICK i \in I, d \in DOMAIN Levels[study] : Located(o, i, d)
    BY <2>1 DEF Grid
  <2>3. d = c
    BY <2>1, <2>2, LevelsApart DEF Located
  <2> QED
    BY <1>1, <2>1, <2>2, <2>3 DEF Grid
<1>5. h \in Bijection(I, arm)
  <2> HIDE DEF h, arm
  <2>1. h \in [I -> arm]
    BY <1>1, <1>2
  <2> QED
    BY <1>3, <1>4, <2>1 DEF Bijection, Injection, Surjection, IsInjective
<1>6. IsFiniteSet(I) /\ Cardinality(I) = Len(Cohort)
  BY CohortListed
<1>7. IsFiniteSet(arm) /\ Cardinality(arm) = Cardinality(I)
  <2> HIDE DEF h, arm, I
  <2> QED
    BY <1>5, <1>6, FS_Bijection DEF ExistsBijection
<1> HIDE DEF h, arm
<1>8. \A i \in I : h[i] \in O /\ h[i].arm = Levels[study][c] /\ Located(h[i], i, c)
  BY <1>1 DEF Located
<1> QED
  BY <1>5, <1>6, <1>7, <1>8 DEF h, arm

\* Every scenario once in each arm.
LEMMA GridCounts ==
  ASSUME study \in Experiments, NEW O, Grid(O), NEW c \in DOMAIN Levels[study],
         NEW i \in DOMAIN Cohort
  PROVE  Cardinality({o \in InArm(O, Levels[study][c]) : o.scenario = Cohort[i].id}) = 1
<1> DEFINE arm == InArm(O, Levels[study][c])
<1> DEFINE h == Column(O, c)
<1>1. /\ h \in Bijection(DOMAIN Cohort, arm)
      /\ \A j \in DOMAIN Cohort : Located(h[j], j, c)
  BY GridColumn
<1>2. \A j \in DOMAIN Cohort : Cohort[j].id = Cohort[i].id => j = i
  BY CohortListed
<1> HIDE DEF h, arm
<1>3. {o \in arm : o.scenario = Cohort[i].id} = {h[i]}
  <2>1. h[i] \in arm /\ h[i].scenario = Cohort[i].id
    BY <1>1 DEF Bijection, Injection, Located
  <2>2. \A o \in arm : o.scenario = Cohort[i].id => o = h[i]
    <3> SUFFICES ASSUME NEW o \in arm, o.scenario = Cohort[i].id
                 PROVE  o = h[i]
      OBVIOUS
    <3>1. PICK j \in DOMAIN Cohort : h[j] = o
      BY <1>1 DEF Bijection, Surjection
    <3> QED
      BY <1>1, <1>2, <3>1 DEF Located
  <2> QED
    BY <2>1, <2>2
<1>4. Cardinality({h[i]}) = 1
  BY FS_Singleton
<1> QED
  BY <1>3, <1>4 DEF arm

\* The arms of a study are the values of its plan.
LEMMA LevelsListed ==
  ASSUME NEW e \in Experiments
  PROVE  /\ IsFiniteSet(DOMAIN Levels[e]) /\ 1 \in DOMAIN Levels[e]
         /\ IsFiniteSet(ToSet(Levels[e]))
         /\ Cardinality(ToSet(Levels[e])) = Cardinality(DOMAIN Levels[e])
         /\ ToSet(ValuesOf(PlanOf[e])) = ToSet(Levels[e])
         /\ ValuesOf(PlanOf[e])[1] = Levels[e][1]
<1> DEFINE C == DOMAIN Levels[e]
<1> DEFINE h == [c \in C |-> Levels[e][c]]
<1>1. 1 \in C /\ (C = 1 .. 2 \/ C = 1 .. 4)
  BY TheExperiments DEF Levels
<1>2. IsFiniteSet(C)
  <2>1. \A n \in Nat : IsFiniteSet(1 .. n)
    BY FS_Interval
  <2>2. IsFiniteSet(1 .. 2) /\ IsFiniteSet(1 .. 4)
    BY <2>1
  <2> HIDE DEF C
  <2> QED
    BY <1>1, <2>2
<1>3. ToSet(Levels[e]) = {Levels[e][c] : c \in C}
  BY DEF ToSet
<1>4. h \in Bijection(C, ToSet(Levels[e]))
  <2>1. \A c, d \in C : Levels[e][c] = Levels[e][d] => c = d
    BY LevelsApart
  <2> HIDE DEF C
  <2> QED
    BY <1>3, <2>1 DEF Bijection, Injection, Surjection, IsInjective
<1> HIDE DEF h, C
<1>5. IsFiniteSet(ToSet(Levels[e])) /\ Cardinality(ToSet(Levels[e])) = Cardinality(C)
  BY <1>2, <1>4, FS_Bijection DEF ExistsBijection
<1>6. DOMAIN ValuesOf(PlanOf[e]) = C /\ \A c \in C : ValuesOf(PlanOf[e])[c] = Levels[e][c]
  BY PlansSpan DEF Spans, C
<1>7. ToSet(ValuesOf(PlanOf[e])) = ToSet(Levels[e])
  BY <1>3, <1>6 DEF ToSet
<1> QED
  BY <1>1, <1>2, <1>5, <1>6, <1>7 DEF C

\* What tells the observations apart is there as often as there are scenarios in arms.
LEMMA GridCounted ==
  ASSUME study \in Experiments, NEW O, Grid(O), NEW field,
         \A o, p \in O : o[field] = p[field] => o = p
  PROVE  Cardinality({o[field] : o \in O}) = Len(Cohort) * Cardinality(ToSet(Levels[study]))
<1> DEFINE I == DOMAIN Cohort
<1> DEFINE C == DOMAIN Levels[study]
<1> DEFINE R == {o[field] : o \in O}
<1> DEFINE f == [p \in I \X C |-> Column(O, p[2])[p[1]][field]]
<1>1. \A i \in I, c \in C : Column(O, c)[i] \in O /\ Located(Column(O, c)[i], i, c)
  BY GridColumn
<1>2. \A p \in I \X C : p[1] \in I /\ p[2] \in C /\ p = <<p[1], p[2]>>
  OBVIOUS
<1>3. \A p \in I \X C : f[p] = Column(O, p[2])[p[1]][field] /\ f[p] \in R
  BY <1>1, <1>2
<1>4. ASSUME NEW p \in I \X C, NEW q \in I \X C, f[p] = f[q]
      PROVE  p = q
  <2> DEFINE one == Column(O, p[2])[p[1]]
  <2> DEFINE other == Column(O, q[2])[q[1]]
  <2>1. one \in O /\ other \in O /\ Located(one, p[1], p[2]) /\ Located(other, q[1], q[2])
    BY <1>1, <1>2
  <2>2. one[field] = other[field]
    BY <1>3, <1>4
  <2> HIDE DEF one, other
  <2>3. one = other
    BY <2>1, <2>2
  <2>4. p[1] \in I /\ q[1] \in I /\ Cohort[p[1]].id = Cohort[q[1]].id
    BY <1>2, <2>1, <2>3 DEF Located
  <2>5. p[1] = q[1]
    BY <2>4, CohortListed
  <2>6. p[2] \in C /\ q[2] \in C /\ Levels[study][p[2]] = Levels[study][q[2]]
    BY <1>2, <2>1, <2>3 DEF Located
  <2>7. p[2] = q[2]
    BY <2>6, LevelsApart
  <2> QED
    BY <1>2, <2>5, <2>7
<1>5. ASSUME NEW r \in R
      PROVE  \E p \in I \X C : f[p] = r
  <2>1. PICK o \in O : r = o[field]
    OBVIOUS
  <2>2. PICK i \in I, c \in C : Located(o, i, c)
    BY <2>1 DEF Grid
  <2>3. Column(O, c)[i] = o
    BY <1>1, <2>1, <2>2 DEF Grid
  <2>4. <<i, c>> \in I \X C /\ f[<<i, c>>] = r
    BY <2>1, <2>3
  <2> QED
    BY <2>4
<1>6. f = [p \in I \X C |-> f[p]]
  OBVIOUS
<1> HIDE DEF f, R, I, C
<1>7. f \in [I \X C -> R]
  BY <1>3, <1>6
<1>8. f \in Bijection(I \X C, R)
  BY <1>4, <1>5, <1>7 DEF Bijection, Injection, Surjection, IsInjective
<1>9. IsFiniteSet(I) /\ Cardinality(I) = Len(Cohort) /\ IsFiniteSet(C)
  BY CohortListed, LevelsListed DEF I, C
<1>10. IsFiniteSet(I \X C) /\ Cardinality(I \X C) = Len(Cohort) * Cardinality(C)
  BY <1>9, FS_Product
<1>11. Cardinality(R) = Cardinality(I \X C)
  BY <1>8, <1>10, FS_Bijection DEF ExistsBijection
<1>12. Cardinality(ToSet(Levels[study])) = Cardinality(C)
  BY LevelsListed DEF C
<1> QED
  BY <1>10, <1>11, <1>12 DEF R

\* A run of its own for every scenario in every arm.
LEMMA GridRuns ==
  ASSUME study \in Experiments, NEW O, Grid(O)
  PROVE  Cardinality({o.run : o \in O}) = Len(Cohort) * Cardinality(ToSet(Levels[study]))
<1>1. \A o, p \in O : o["run"] = p["run"] => o = p
  BY DEF Grid
<1>2. Cardinality({o["run"] : o \in O}) = Len(Cohort) * Cardinality(ToSet(Levels[study]))
  BY <1>1, GridCounted
<1> QED
  BY <1>2

\* The totals of an arm, scenario by scenario.
LEMMA GridTotals ==
  ASSUME study \in Experiments, NEW O, Grid(O), NEW c \in DOMAIN Levels[study],
         NEW field \in {"accuracy", "calls"}
  PROVE  LET arm == InArm(O, Levels[study][c]) IN
         /\ \A o \in arm : o[field] \in Int
         /\ TotalOf(field, arm)
              = SumOf([i \in DOMAIN Cohort |-> Column(O, c)[i][field]], DOMAIN Cohort)
<1> DEFINE I == DOMAIN Cohort
<1> DEFINE arm == InArm(O, Levels[study][c])
<1> DEFINE h == Column(O, c)
<1> DEFINE value == [o \in arm |-> o[field]]
<1> DEFINE other == [i \in I |-> h[i][field]]
<1>1. /\ h \in Bijection(I, arm) /\ IsFiniteSet(arm) /\ IsFiniteSet(I)
      /\ \A i \in I : Located(h[i], i, c)
  BY GridColumn, CohortListed
<1>2. \A i \in I : h[i] \in arm /\ h[i][field] \in Int
  <2>1. \A i \in I : h[i].accuracy \in {0, 1} /\ h[i].calls \in Nat
    BY <1>1 DEF Located
  <2>2. \A i \in I : h[i].accuracy \in Int /\ h[i].calls \in Int
    <3> HIDE DEF h, I
    <3> QED
      BY <2>1
  <2> HIDE DEF h, arm, I
  <2> QED
    BY <1>1, <2>2 DEF Bijection, Injection
<1> HIDE DEF h, arm
<1>3. \A o \in arm : \E i \in I : o = h[i]
  BY <1>1 DEF Bijection, Surjection
<1>4. \A i \in I : other[i] = value[h[i]] /\ value[h[i]] \in Int
  BY <1>2
<1>5. TotalOf(field, arm) = SumOf(value, arm)
  BY <1>1, TotalIsSum
<1> HIDE DEF value, other, I
<1>6. SumOf(value, arm) = SumOf(other, I)
  BY <1>1, <1>4, SumRenamed
<1>7. \A o \in arm : o[field] \in Int
  BY <1>2, <1>3
<1> QED
  BY <1>5, <1>6, <1>7 DEF arm, h, other, I

\* The one observation of a scenario in an arm is the one that is paired.
LEMMA GridPairs ==
  ASSUME study \in Experiments, NEW O, Grid(O), NEW c \in DOMAIN Levels[study],
         NEW i \in DOMAIN Cohort
  PROVE  PairedWith(O, Cohort[i].id, Levels[study][c]) = Column(O, c)[i]
<1> DEFINE mine == Column(O, c)[i]
<1> DEFINE Fits(o) == o.scenario = Cohort[i].id /\ o.arm = Levels[study][c]
<1>1. mine \in O /\ Located(mine, i, c)
  BY GridColumn
<1> HIDE DEF mine
<1>2. Fits(mine)
  BY <1>1 DEF Located
<1>3. ASSUME NEW o \in O, Fits(o)
      PROVE  o = mine
  <2>1. PICK j \in DOMAIN Cohort, d \in DOMAIN Levels[study] : Located(o, j, d)
    BY DEF Grid
  <2>2. Cohort[j].id = Cohort[i].id /\ Levels[study][d] = Levels[study][c]
    BY <1>3, <2>1 DEF Located
  <2>3. j = i /\ d = c
    BY <2>2, CohortListed, LevelsApart
  <2> QED
    BY <1>1, <2>1, <2>3 DEF Grid
<1>4. PairedWith(O, Cohort[i].id, Levels[study][c]) = CHOOSE o \in O : Fits(o)
  BY DEF PairedWith
<1> HIDE DEF Fits
<1>5. (CHOOSE o \in O : Fits(o)) = mine
  BY <1>1, <1>2, <1>3
<1> QED
  BY <1>4, <1>5 DEF mine

\* The differences between an arm and the first one add up to the difference of their totals.
LEMMA GridDifferences ==
  ASSUME study \in Experiments, NEW O, Grid(O), NEW c \in DOMAIN Levels[study],
         NEW deltas,
         deltas = {Delta(O, Cohort[i].id, Levels[study][c], Levels[study][1]) : i \in DOMAIN Cohort},
         NEW field \in {"accuracy", "calls"}
  PROVE  TotalOf(field, deltas)
           = TotalOf(field, InArm(O, Levels[study][c])) - TotalOf(field, InArm(O, Levels[study][1]))
<1> DEFINE I == DOMAIN Cohort
<1> DEFINE one == Column(O, c)
<1> DEFINE other == Column(O, 1)
<1> DEFINE h == [i \in I |-> Delta(O, Cohort[i].id, Levels[study][c], Levels[study][1])]
<1> DEFINE value == [d \in deltas |-> d[field]]
<1> DEFINE v == [i \in I |-> one[i][field]]
<1> DEFINE w == [i \in I |-> other[i][field]]
<1> DEFINE less == [i \in I |-> h[i][field]]
<1>1. 1 \in DOMAIN Levels[study] /\ IsFiniteSet(I)
  BY LevelsListed, CohortListed
<1>2. /\ \A i \in I : PairedWith(O, Cohort[i].id, Levels[study][c]) = one[i]
      /\ \A i \in I : PairedWith(O, Cohort[i].id, Levels[study][1]) = other[i]
      /\ \A i \in I : Located(one[i], i, c) /\ Located(other[i], i, 1)
  BY <1>1, GridPairs, GridColumn
<1> HIDE DEF one, other
<1>3. /\ \A i \in I : h[i] = [scenario |-> Cohort[i].id, arm |-> Levels[study][c],
                              accuracy |-> one[i].accuracy - other[i].accuracy,
                              calls |-> one[i].calls - other[i].calls]
      /\ deltas = {h[i] : i \in I} /\ h \in [I -> deltas]
  BY <1>2 DEF Delta
<1> HIDE DEF h
<1>4. \A i \in I : /\ h[i].scenario = Cohort[i].id
                   /\ h[i].accuracy = one[i].accuracy - other[i].accuracy
                   /\ h[i].calls = one[i].calls - other[i].calls
  BY <1>3
<1>5. \A i \in I : /\ one[i][field] \in Int /\ other[i][field] \in Int
                   /\ h[i][field] = one[i][field] - other[i][field]
  <2> SUFFICES ASSUME NEW i \in I
               PROVE  /\ one[i][field] \in Int /\ other[i][field] \in Int
                      /\ h[i][field] = one[i][field] - other[i][field]
    OBVIOUS
  <2>1. /\ one[i].accuracy \in {0, 1} /\ other[i].accuracy \in {0, 1}
        /\ one[i].calls \in Nat /\ other[i].calls \in Nat
    BY <1>2 DEF Located
  <2>2. /\ one[i].accuracy \in Int /\ other[i].accuracy \in Int
        /\ one[i].calls \in Int /\ other[i].calls \in Int
    BY <2>1
  <2>3. CASE field = "accuracy"
    BY <1>4, <2>2, <2>3
  <2>4. CASE field = "calls"
    BY <1>4, <2>2, <2>4
  <2> QED
    BY <2>3, <2>4
<1>6. \A i, j \in I : h[i] = h[j] => i = j
  BY <1>4, CohortListed
<1>7. h \in Bijection(I, deltas)
  <2> HIDE DEF I
  <2> QED
    BY <1>3, <1>6 DEF Bijection, Injection, Surjection, IsInjective
<1>8. IsFiniteSet(deltas)
  <2> HIDE DEF I
  <2> QED
    BY <1>1, <1>7, FS_Bijection DEF ExistsBijection
<1>9. \A i \in I : v[i] \in Int /\ w[i] \in Int /\ less[i] = v[i] - w[i]
  BY <1>5
<1>10. \A i \in I : less[i] = value[h[i]] /\ value[h[i]] \in Int
  <2> SUFFICES ASSUME NEW i \in I
               PROVE  h[i][field] = value[h[i]] /\ h[i][field] \in Int
    OBVIOUS
  <2>1. h[i] \in deltas
    BY <1>3
  <2> QED
    BY <1>5, <2>1
<1>11. TotalOf(field, deltas) = SumOf(value, deltas)
  BY <1>8, TotalIsSum
<1>12. /\ TotalOf(field, InArm(O, Levels[study][c])) = SumOf(v, I)
       /\ TotalOf(field, InArm(O, Levels[study][1])) = SumOf(w, I)
  BY <1>1, GridTotals DEF one, other
<1> HIDE DEF value, v, w, less, I
<1>13. SumOf(value, deltas) = SumOf(less, I)
  BY <1>1, <1>7, <1>10, SumRenamed
<1>14. SumOf(less, I) = SumOf(v, I) - SumOf(w, I)
  BY <1>1, <1>9, SumDifference
<1> QED
  BY <1>11, <1>12, <1>13, <1>14

\* What the groups of difficulty hold adds up to what they hold together.
LEMMA GroupSums ==
  ASSUME NEW S, IsFiniteSet(S), \A o \in S : o.accuracy \in Int /\ o.calls \in Int,
         NEW D, IsFiniteSet(D), \A o \in S : o.difficulty \in D,
         NEW field \in {"n", "accuracy", "calls"}
  PROVE  SumOf([d \in D |-> Summary({o \in S : o.difficulty = d})[field]], D) = Summary(S)[field]
<1> DEFINE value == [o \in S |-> IF field = "n" THEN 1 ELSE o[field]]
<1> DEFINE key == [o \in S |-> o.difficulty]
<1>1. \A o \in S : /\ field = "n" => value[o] = 1
                   /\ field = "accuracy" => value[o] = o.accuracy
                   /\ field = "calls" => value[o] = o.calls
  OBVIOUS
<1>2. \A o \in S : key[o] = o.difficulty /\ key[o] \in D
  OBVIOUS
<1> HIDE DEF value, key
<1>3. \A o \in S : value[o] \in Int
  <2>1. 1 \in Int
    OBVIOUS
  <2> QED
    BY <1>1, <2>1
<1>4. ASSUME NEW T, T \subseteq S
      PROVE  Summary(T)[field] = SumOf(value, T)
  <2>1. IsFiniteSet(T)
    BY <1>4, FS_Subset
  <2>2. /\ Summary(T).n = Cardinality(T)
        /\ Summary(T).accuracy = TotalOf("accuracy", T)
        /\ Summary(T).calls = TotalOf("calls", T)
    BY DEF Summary
  <2>3. CASE field = "n"
    <3>1. \A o \in T : value[o] = 1
      BY <1>1, <1>4, <2>3
    <3>2. SumOf(value, T) = IF 1 = 0 THEN 0 ELSE Cardinality(T)
      BY <2>1, <3>1, SumOfSame
    <3> QED
      BY <2>2, <2>3, <3>2
  <2>4. CASE field = "accuracy"
    <3> DEFINE same == [o \in T |-> o["accuracy"]]
    <3>1. TotalOf("accuracy", T) = SumOf(same, T)
      BY <2>1, TotalIsSum
    <3>2. \A o \in T : value[o] \in Int /\ same[o] = value[o]
      BY <1>1, <1>3, <1>4, <2>4
    <3> HIDE DEF same
    <3>3. SumOf(same, T) = SumOf(value, T)
      BY <2>1, <3>2, SumEqual
    <3> QED
      BY <2>2, <2>4, <3>1, <3>3
  <2>5. CASE field = "calls"
    <3> DEFINE same == [o \in T |-> o["calls"]]
    <3>1. TotalOf("calls", T) = SumOf(same, T)
      BY <2>1, TotalIsSum
    <3>2. \A o \in T : value[o] \in Int /\ same[o] = value[o]
      BY <1>1, <1>3, <1>4, <2>5
    <3> HIDE DEF same
    <3>3. SumOf(same, T) = SumOf(value, T)
      BY <2>1, <3>2, SumEqual
    <3> QED
      BY <2>2, <2>5, <3>1, <3>3
  <2> QED
    BY <2>3, <2>4, <2>5
<1> DEFINE grouped == [d \in D |-> Summary({o \in S : o.difficulty = d})[field]]
<1> DEFINE sums == [d \in D |-> SumOf(value, {o \in S : key[o] = d})]
<1>5. \A d \in D : grouped[d] = sums[d]
  <2> SUFFICES ASSUME NEW d \in D
               PROVE  Summary({o \in S : o.difficulty = d})[field]
                        = SumOf(value, {o \in S : key[o] = d})
    OBVIOUS
  <2>1. {o \in S : o.difficulty = d} = {o \in S : key[o] = d}
    BY <1>2
  <2>2. {o \in S : key[o] = d} \subseteq S
    OBVIOUS
  <2> QED
    BY <1>4, <2>1, <2>2
<1>6. grouped = sums
  BY <1>5
<1>7. SumOf(sums, D) = SumOf(value, S)
  BY <1>2, <1>3, SumGrouped
<1>8. Summary(S)[field] = SumOf(value, S)
  BY <1>4
<1> QED
  BY <1>6, <1>7, <1>8

\* The difficulties that are observed are those of the cohort.
LEMMA GridTiers ==
  ASSUME study \in Experiments, NEW O, Grid(O)
  PROVE  LET tiers == {s.difficulty : s \in ToSet(Cohort)} IN
         /\ IsFiniteSet(tiers) /\ \A o \in O : o.difficulty \in tiers
         /\ IsFiniteSet({o.difficulty : o \in O})
<1> DEFINE tiers == {s.difficulty : s \in ToSet(Cohort)}
<1> DEFINE I == DOMAIN Cohort
<1>1. IsFiniteSet(I) /\ ToSet(Cohort) = {Cohort[i] : i \in I}
  BY CohortListed
<1>2. tiers = {Cohort[i].difficulty : i \in I}
  BY <1>1
<1> DEFINE of == [i \in I |-> Cohort[i].difficulty]
<1>3. of \in Surjection(I, tiers)
  BY <1>2 DEF Surjection
<1>4. \A o \in O : o.difficulty \in tiers
  <2> SUFFICES ASSUME NEW o \in O
               PROVE  \E i \in I : o.difficulty = Cohort[i].difficulty
    BY <1>2
  <2> PICK i \in I, c \in DOMAIN Levels[study] : Located(o, i, c)
    BY DEF Grid
  <2> QED
    BY DEF Located
<1> HIDE DEF tiers, I, of
<1>5. IsFiniteSet(tiers)
  BY <1>1, <1>3, FS_Surjection
<1> DEFINE seen == {o.difficulty : o \in O}
<1>6. seen \subseteq tiers
  BY <1>4
<1> HIDE DEF seen
<1>7. IsFiniteSet(seen)
  BY <1>5, <1>6, FS_Subset
<1> QED
  BY <1>4, <1>5, <1>7 DEF tiers, seen

\* The observations of an arm that are of a difficulty.
OfDifficulty(observations, arm, d) == {o \in InArm(observations, arm) : o.difficulty = d}

\* The groups of difficulty of an arm add up to the arm.
LEMMA GridGroups ==
  ASSUME study \in Experiments, NEW O, Grid(O), NEW c \in DOMAIN Levels[study],
         NEW D, IsFiniteSet(D), \A o \in O : o.difficulty \in D,
         NEW field \in {"n", "accuracy", "calls"}
  PROVE  SumOf([d \in D |-> Summary(OfDifficulty(O, Levels[study][c], d))[field]], D)
           = Summary(InArm(O, Levels[study][c]))[field]
<1> DEFINE arm == InArm(O, Levels[study][c])
<1>1. IsFiniteSet(arm)
  BY GridColumn
<1>2. \A o \in arm : o["accuracy"] \in Int /\ o["calls"] \in Int
  BY GridTotals
<1>3. \A o \in arm : o.difficulty \in D
  BY DEF InArm
<1> HIDE DEF arm
<1>4. \A o \in arm : o.accuracy \in Int /\ o.calls \in Int
  BY <1>2
<1>5. SumOf([d \in D |-> Summary({o \in arm : o.difficulty = d})[field]], D) = Summary(arm)[field]
  BY <1>1, <1>3, <1>4, GroupSums
<1> QED
  BY <1>5 DEF arm, OfDifficulty

\* Every arm has the controls of the cohort.
LEMMA GridControls ==
  ASSUME study \in Experiments, study # "planning_difficulty", NEW O, Grid(O),
         NEW c \in DOMAIN Levels[study]
  PROVE  Cardinality(Controls(InArm(O, Levels[study][c])))
           = Cardinality({i \in DOMAIN Cohort : Cohort[i].faults = {}})
<1> DEFINE I == DOMAIN Cohort
<1> DEFINE J == {i \in I : Cohort[i].faults = {}}
<1> DEFINE arm == InArm(O, Levels[study][c])
<1> DEFINE one == Column(O, c)
<1> DEFINE g == [i \in J |-> one[i]]
<1>1. /\ IsFiniteSet(I) /\ one \in Bijection(I, arm)
      /\ \A i \in I : Located(one[i], i, c)
  BY CohortListed, GridColumn
<1>2. \A i \in I : one[i].falsePositive # "none" <=> Cohort[i].faults = {}
  BY <1>1 DEF Located
<1> HIDE DEF one, arm
<1>3. /\ \A i \in I : one[i] \in arm
      /\ \A i, j \in I : one[i] = one[j] => i = j
      /\ \A o \in arm : \E i \in I : one[i] = o
  <2> HIDE DEF I
  <2> QED
    BY <1>1 DEF Bijection, Injection, Surjection, IsInjective
<1>4. \A i \in J : g[i] = one[i] /\ g[i] \in Controls(arm)
  BY <1>2, <1>3 DEF Controls
<1>5. \A o \in Controls(arm) : \E i \in J : g[i] = o
  BY <1>2, <1>3 DEF Controls
<1>6. \A i, j \in J : g[i] = g[j] => i = j
  BY <1>3, <1>4
<1>7. g \in [J -> Controls(arm)]
  BY <1>4
<1> HIDE DEF g
<1>8. g \in Bijection(J, Controls(arm))
  <2> HIDE DEF J
  <2> QED
    BY <1>5, <1>6, <1>7 DEF Bijection, Injection, Surjection, IsInjective
<1>9. IsFiniteSet(J)
  <2>1. J \subseteq I
    OBVIOUS
  <2> HIDE DEF I, J
  <2> QED
    BY <1>1, <2>1, FS_Subset
<1>10. Cardinality(Controls(arm)) = Cardinality(J)
  <2> HIDE DEF J
  <2> QED
    BY <1>8, <1>9, FS_Bijection DEF ExistsBijection
<1> QED
  BY <1>10 DEF arm

\* What ReportAddsUp says of a report, arm by arm.
PairsAddUp(r) ==
  r.deltas # {} =>
    \A c \in DOMAIN Levels[study], f \in {"accuracy", "calls"} :
      c # 1 => TotalOf(f, {d \in r.deltas : d.arm = Levels[study][c]})
                 = TotalOf(f, InArm(r.observations, Levels[study][c]))
                     - TotalOf(f, InArm(r.observations, Levels[study][1]))

GroupsAddUp(r) ==
  "byDifficulty" \in DOMAIN r =>
    \A c \in DOMAIN Levels[study], f \in {"n", "accuracy", "calls"} :
      GroupedTotal(r.byDifficulty, Levels[study][c], f)
        = Summary(InArm(r.observations, Levels[study][c]))[f]

ControlsAgree(r) ==
  "aggregates" \in DOMAIN r =>
    \A c \in DOMAIN Levels[study] :
      r.aggregates[Levels[study][c]].controls
        = Cardinality({i \in DOMAIN Cohort : Cohort[i].faults = {}})

AddsUpIn(e, r) ==
  LET Of(a) == InArm(r.observations, a)
      Arms == ToSet(ValuesOf(PlanOf[e]))
      Reference == ValuesOf(PlanOf[e])[1]
  IN /\ \A s \in ToSet(CohortOf[e]), a \in Arms :
          Cardinality({o \in Of(a) : o.scenario = s.id}) = 1
     /\ Cardinality({o.run : o \in r.observations}) = Len(CohortOf[e]) * Cardinality(Arms)
     /\ r.deltas # {} =>
          \A a \in Arms \ {Reference}, f \in {"accuracy", "calls"} :
            TotalOf(f, {d \in r.deltas : d.arm = a}) = TotalOf(f, Of(a)) - TotalOf(f, Of(Reference))
     /\ "byDifficulty" \in DOMAIN r =>
          \A a \in Arms, f \in {"n", "accuracy", "calls"} :
            GroupedTotal(r.byDifficulty, a, f) = Summary(Of(a))[f]
     /\ "aggregates" \in DOMAIN r =>
          \A a, b \in Arms : r.aggregates[a].controls = r.aggregates[b].controls

AddsUp(r) == AddsUpIn(study, r)

LEMMA AddsUpIs == ReportAddsUp <=> (Done => AddsUpIn(study, report))
  BY DEF ReportAddsUp, AddsUpIn, GroupedTotal, Plan, Cohort

LEMMA GridAddsUp ==
  ASSUME study \in Experiments, NEW r, Grid(r.observations),
         PairsAddUp(r), GroupsAddUp(r), ControlsAgree(r)
  PROVE  AddsUp(r)
<1> DEFINE O == r.observations
<1> DEFINE Arms == ToSet(ValuesOf(Plan))
<1> DEFINE Reference == ValuesOf(Plan)[1]
<1>1. /\ Arms = ToSet(Levels[study]) /\ Reference = Levels[study][1]
      /\ \A a \in Arms : \E c \in DOMAIN Levels[study] : a = Levels[study][c]
  BY LevelsListed DEF Plan, ToSet
<1>2. ASSUME NEW s \in ToSet(Cohort), NEW a \in Arms
      PROVE  Cardinality({o \in InArm(O, a) : o.scenario = s.id}) = 1
  <2>1. PICK i \in DOMAIN Cohort : s = Cohort[i]
    BY CohortListed
  <2>2. PICK c \in DOMAIN Levels[study] : a = Levels[study][c]
    BY <1>1
  <2> QED
    BY <2>1, <2>2, GridCounts
<1>3. Cardinality({o.run : o \in O}) = Len(Cohort) * Cardinality(Arms)
  BY <1>1, GridRuns
<1>4. r.deltas # {} =>
        \A a \in Arms \ {Reference}, f \in {"accuracy", "calls"} :
          TotalOf(f, {d \in r.deltas : d.arm = a})
            = TotalOf(f, InArm(O, a)) - TotalOf(f, InArm(O, Reference))
  <2> SUFFICES ASSUME r.deltas # {}, NEW a \in Arms \ {Reference}, NEW f \in {"accuracy", "calls"}
               PROVE  TotalOf(f, {d \in r.deltas : d.arm = a})
                        = TotalOf(f, InArm(O, a)) - TotalOf(f, InArm(O, Reference))
    OBVIOUS
  <2>1. PICK c \in DOMAIN Levels[study] : a = Levels[study][c] /\ c # 1
    BY <1>1
  <2> QED
    BY <1>1, <2>1 DEF PairsAddUp
<1>5. "byDifficulty" \in DOMAIN r =>
        \A a \in Arms, f \in {"n", "accuracy", "calls"} :
          GroupedTotal(r.byDifficulty, a, f) = Summary(InArm(O, a))[f]
  BY <1>1 DEF GroupsAddUp
<1>6. "aggregates" \in DOMAIN r =>
        \A a, b \in Arms : r.aggregates[a].controls = r.aggregates[b].controls
  BY <1>1 DEF ControlsAgree
<1> HIDE DEF Arms, Reference
<1> QED
  BY <1>2, <1>3, <1>4, <1>5, <1>6 DEF AddsUp, AddsUpIn, Arms, Reference, Plan, Cohort

\* Every level but the first is in the tail.
LEMMA LevelsTail ==
  ASSUME NEW e \in Experiments, NEW c \in DOMAIN Levels[e], c # 1
  PROVE  Levels[e][c] \in ToSet(Tail(Levels[e]))
<1>1. PICK S : Levels[e] \in Seq(S) /\ Levels[e] # <<>>
  <2>1. CASE e = "planning_difficulty"
    <3>1. Levels[e] = <<"reactive_react", "explicit_planner">>
      BY <2>1 DEF Levels
    <3>2. Levels[e] \in Seq({"reactive_react", "explicit_planner"}) /\ Levels[e] # <<>>
      BY <3>1
    <3> QED
      BY <3>2
  <2>2. CASE e = "investigation_budget"
    <3>1. Levels[e] = <<5, 10, 15, 20>>
      BY <2>2 DEF Levels
    <3>2. Levels[e] \in Seq({5, 10, 15, 20}) /\ Levels[e] # <<>>
      BY <3>1
    <3> QED
      BY <3>2
  <2>3. CASE e = "tool_order"
    <3>1. Levels[e] = <<"free", "deployment_first", "symptom_first", "adaptive">>
      BY <2>3 DEF Levels
    <3>2. Levels[e] \in Seq({"free", "deployment_first", "symptom_first", "adaptive"}) /\ Levels[e] # <<>>
      BY <3>1
    <3> QED
      BY <3>2
  <2>4. CASE e = "passive_vs_verification"
    <3>1. Levels[e] = <<"passive_only", "verification_enabled">>
      BY <2>4 DEF Levels
    <3>2. Levels[e] \in Seq({"passive_only", "verification_enabled"}) /\ Levels[e] # <<>>
      BY <3>1
    <3> QED
      BY <3>2
  <2>5. CASE e = "temporal_reasoning"
    <3>1. Levels[e] = <<"standard", "explicit_cause_effect">>
      BY <2>5 DEF Levels
    <3>2. Levels[e] \in Seq({"standard", "explicit_cause_effect"}) /\ Levels[e] # <<>>
      BY <3>1
    <3> QED
      BY <3>2
  <2>6. CASE e = "compound_handling"
    <3>1. Levels[e] = <<"confidence_threshold", "unresolved_evidence">>
      BY <2>6 DEF Levels
    <3>2. Levels[e] \in Seq({"confidence_threshold", "unresolved_evidence"}) /\ Levels[e] # <<>>
      BY <3>1
    <3> QED
      BY <3>2
  <2> QED
    BY <2>1, <2>2, <2>3, <2>4, <2>5, <2>6, TheExperiments
<1> DEFINE v == Levels[e]
<1> DEFINE n == Len(v)
<1>2. n \in Nat /\ DOMAIN v = 1 .. n
  BY <1>1, LenProperties
<1>3. /\ Len(Tail(v)) = n - 1 /\ \A i \in 1 .. Len(Tail(v)) : Tail(v)[i] = v[i + 1]
      /\ Tail(v) \in Seq(S)
  <2> HIDE DEF v
  <2> QED
    BY <1>1, HeadTailProperties DEF v
<1>4. DOMAIN Tail(v) = 1 .. Len(Tail(v))
  BY <1>3, LenProperties
<1>5. c \in 1 .. n /\ c - 1 \in DOMAIN Tail(v) /\ Tail(v)[c - 1] = v[c]
  <2> HIDE DEF v, n
  <2> QED
    BY <1>2, <1>3, <1>4 DEF v
<1> QED
  BY <1>5 DEF ToSet

\* A report that pairs the scenarios adds up.
LEMMA PairedAddsUp ==
  ASSUME study \in Paired, NEW O, Grid(O), NEW aggregates,
         \A c \in DOMAIN Levels[study] :
           aggregates[Levels[study][c]].controls
             = Cardinality(Controls(InArm(O, Levels[study][c])))
  PROVE  AddsUp(ReportOf(O, Cohort, Levels[study], aggregates))
<1> DEFINE arms == Levels[study]
<1> DEFINE r == ReportOf(O, Cohort, arms, aggregates)
<1>1. study \in Experiments /\ study # "planning_difficulty"
  BY TheExperiments DEF Paired
<1>2. /\ r.observations = O /\ r.aggregates = aggregates
      /\ r.deltas = {Delta(O, s.id, a, arms[1]) : s \in ToSet(Cohort), a \in ToSet(Tail(arms))}
      /\ "byDifficulty" \notin DOMAIN r
  BY DEF ReportOf
<1> HIDE DEF r
<1>3. GroupsAddUp(r)
  BY <1>2 DEF GroupsAddUp
<1>4. ControlsAgree(r)
  BY <1>1, <1>2, GridControls DEF ControlsAgree
<1>5. ASSUME NEW c \in DOMAIN arms, NEW f \in {"accuracy", "calls"}, c # 1
      PROVE  TotalOf(f, {d \in r.deltas : d.arm = arms[c]})
               = TotalOf(f, InArm(O, arms[c])) - TotalOf(f, InArm(O, arms[1]))
  <2> DEFINE here == {d \in r.deltas : d.arm = arms[c]}
  <2>1. \A s, a : Delta(O, s, a, arms[1]).arm = a
    BY DEF Delta
  <2>2. arms[c] \in ToSet(Tail(arms))
    BY <1>1, <1>5, LevelsTail
  <2>3. ToSet(Cohort) = {Cohort[i] : i \in DOMAIN Cohort}
    BY <1>1, CohortListed
  <2> DEFINE one == {Delta(O, Cohort[i].id, arms[c], arms[1]) : i \in DOMAIN Cohort}
  <2>4. here = one
    <3>1. ASSUME NEW d \in here
          PROVE  d \in one
      <4>1. PICK s \in ToSet(Cohort), a \in ToSet(Tail(arms)) : d = Delta(O, s.id, a, arms[1])
        BY <1>2
      <4>2. a = arms[c]
        BY <2>1, <4>1
      <4> QED
        BY <2>3, <4>1, <4>2
    <3>2. ASSUME NEW i \in DOMAIN Cohort
          PROVE  Delta(O, Cohort[i].id, arms[c], arms[1]) \in here
      <4>1. Cohort[i] \in ToSet(Cohort)
        BY <2>3
      <4>2. Delta(O, Cohort[i].id, arms[c], arms[1]) \in r.deltas
        BY <1>2, <2>2, <4>1
      <4> QED
        BY <2>1, <4>2
    <3> HIDE DEF here
    <3>3. one \subseteq here
      BY <3>2
    <3> HIDE DEF one
    <3> QED
      BY <3>1, <3>3
  <2> HIDE DEF here
  <2>5. TotalOf(f, here) = TotalOf(f, InArm(O, arms[c])) - TotalOf(f, InArm(O, arms[1]))
    BY <1>1, <2>4, GridDifferences
  <2> QED
    BY <2>5 DEF here
<1>6. PairsAddUp(r)
  BY <1>2, <1>5 DEF PairsAddUp
<1>7. Grid(r.observations)
  BY <1>2
<1>8. AddsUp(r)
  BY <1>1, <1>3, <1>4, <1>6, <1>7, GridAddsUp
<1> QED
  BY <1>8 DEF r

\* The aggregates keep what every aggregate holds.
LEMMA AggregatesKeep ==
  ASSUME NEW group, NEW f \in {"n", "accuracy", "calls", "controls"}
  PROVE  /\ ToolOrderAggregate(group)[f] = Summary(group)[f]
         /\ PassiveAggregate(group)[f] = Summary(group)[f]
         /\ CompoundAggregate(group)[f] = Summary(group)[f]
         /\ TemporalAggregate(group)[f] = Summary(group)[f]
         /\ BudgetAggregate(group)[f] = Summary(group)[f]
<1>1. f \in DOMAIN Summary(group)
  BY DEF Summary
<1>2. \A more : Extended(Summary(group), more)[f] = Summary(group)[f]
  BY <1>1, ExtendedKeeps
<1> QED
  BY <1>2 DEF ToolOrderAggregate, PassiveAggregate, CompoundAggregate, TemporalAggregate,
              BudgetAggregate

\* The reports of the studies that pair scenarios.
LEMMA PairedDrawn ==
  ASSUME study \in Paired, NEW O, Grid(O)
  PROVE  AddsUp(Drawn(O))
<1>1. \A group : Summary(group).controls = Cardinality(Controls(group))
  BY DEF Summary
<1>2. \A group : /\ ToolOrderAggregate(group).controls = Cardinality(Controls(group))
                 /\ PassiveAggregate(group).controls = Cardinality(Controls(group))
                 /\ CompoundAggregate(group).controls = Cardinality(Controls(group))
                 /\ TemporalAggregate(group).controls = Cardinality(Controls(group))
  BY <1>1, AggregatesKeep
<1>3. CASE study = "tool_order"
  <2> DEFINE aggregates == [a \in ToSet(ToolOrderArms) |-> ToolOrderAggregate(InArm(O, a))]
  <2>1. ToolOrderArms = Levels[study]
    BY <1>3 DEF ToolOrderArms, Levels
  <2>2. Drawn(O) = ReportOf(O, Cohort, Levels[study], aggregates)
    BY <1>3, <2>1 DEF Drawn, ToolOrderReport
  <2>3. \A c \in DOMAIN Levels[study] :
          aggregates[Levels[study][c]] = ToolOrderAggregate(InArm(O, Levels[study][c]))
    BY <2>1 DEF ToSet
  <2> HIDE DEF aggregates
  <2> QED
    BY <1>2, <2>2, <2>3, PairedAddsUp
<1>4. CASE study = "passive_vs_verification"
  <2> DEFINE aggregates == [a \in ToSet(EvidenceArms) |-> PassiveAggregate(InArm(O, a))]
  <2>1. EvidenceArms = Levels[study]
    BY <1>4 DEF EvidenceArms, Levels
  <2>2. Drawn(O) = ReportOf(O, Cohort, Levels[study], aggregates)
    BY <1>4, <2>1 DEF Drawn, PassiveReport
  <2>3. \A c \in DOMAIN Levels[study] :
          aggregates[Levels[study][c]] = PassiveAggregate(InArm(O, Levels[study][c]))
    BY <2>1 DEF ToSet
  <2> HIDE DEF aggregates
  <2> QED
    BY <1>2, <2>2, <2>3, PairedAddsUp
<1>5. CASE study = "compound_handling"
  <2> DEFINE aggregates == [a \in ToSet(StoppingArms) |-> CompoundAggregate(InArm(O, a))]
  <2>1. StoppingArms = Levels[study]
    BY <1>5 DEF StoppingArms, Levels
  <2>2. Drawn(O) = ReportOf(O, Cohort, Levels[study], aggregates)
    BY <1>5, <2>1 DEF Drawn, CompoundReport
  <2>3. \A c \in DOMAIN Levels[study] :
          aggregates[Levels[study][c]] = CompoundAggregate(InArm(O, Levels[study][c]))
    BY <2>1 DEF ToSet
  <2> HIDE DEF aggregates
  <2> QED
    BY <1>2, <2>2, <2>3, PairedAddsUp
<1>6. CASE study = "temporal_reasoning"
  <2> DEFINE aggregates == [a \in ToSet(TemporalArms) |-> TemporalAggregate(InArm(O, a))]
  <2>1. TemporalArms = Levels[study]
    BY <1>6 DEF TemporalArms, Levels
  <2>2. Drawn(O) = ReportOf(O, Cohort, Levels[study], aggregates)
    BY <1>6, <2>1 DEF Drawn, TemporalReport
  <2>3. \A c \in DOMAIN Levels[study] :
          aggregates[Levels[study][c]] = TemporalAggregate(InArm(O, Levels[study][c]))
    BY <2>1 DEF ToSet
  <2> HIDE DEF aggregates
  <2> QED
    BY <1>2, <2>2, <2>3, PairedAddsUp
<1> QED
  BY <1>3, <1>4, <1>5, <1>6 DEF Paired

\* The report of the budgets.
LEMMA BudgetDrawn ==
  ASSUME study = "investigation_budget", NEW O, Grid(O)
  PROVE  AddsUp(Drawn(O))
<1> DEFINE r == Drawn(O)
<1> DEFINE D == {o.difficulty : o \in O}
<1> DEFINE V == Levels[study]
<1> DEFINE Group(c, d) == OfDifficulty(O, V[c], d)
<1>1. study \in Experiments /\ study # "planning_difficulty" /\ Budgets = V
  BY TheExperiments DEF Budgets, Levels
<1>2. \A c \in DOMAIN V : V[c] \in ToSet(Budgets)
  BY <1>1 DEF ToSet
<1>3. r = BudgetReport(O, Cohort)
  BY DEF Drawn
<1>4. /\ r.observations = O /\ r.deltas = {}
      /\ r.aggregates = [b \in ToSet(Budgets) |-> BudgetAggregate(InArm(O, b))]
      /\ r.byDifficulty = BudgetByDifficulty(O)
  BY <1>3 DEF BudgetReport
<1>5. /\ DOMAIN r.byDifficulty = D
      /\ \A d \in D, c \in DOMAIN V : r.byDifficulty[d][V[c]] = BudgetAggregate(Group(c, d))
  BY <1>2, <1>4 DEF BudgetByDifficulty, OfDifficulty
<1>6. IsFiniteSet(D) /\ \A o \in O : o.difficulty \in D
  BY <1>1, GridTiers
<1> HIDE DEF r
<1>7. ControlsAgree(r)
  <2>1. \A group : BudgetAggregate(group).controls = Cardinality(Controls(group))
    <3>1. \A group : Summary(group).controls = Cardinality(Controls(group))
      BY DEF Summary
    <3> QED
      BY <3>1, AggregatesKeep
  <2>2. \A c \in DOMAIN V : r.aggregates[V[c]] = BudgetAggregate(InArm(O, V[c]))
    BY <1>2, <1>4
  <2>3. \A c \in DOMAIN V : Cardinality(Controls(InArm(O, V[c])))
                           = Cardinality({i \in DOMAIN Cohort : Cohort[i].faults = {}})
    BY <1>1, GridControls
  <2>4. \A c \in DOMAIN V : r.aggregates[V[c]].controls
                           = Cardinality({i \in DOMAIN Cohort : Cohort[i].faults = {}})
    BY <2>1, <2>2, <2>3
  <2> QED
    BY <2>4 DEF ControlsAgree
<1>8. ASSUME NEW c \in DOMAIN V, NEW f \in {"n", "accuracy", "calls"}
      PROVE  GroupedTotal(r.byDifficulty, V[c], f) = Summary(InArm(O, V[c]))[f]
  <2> DEFINE grouped == [d \in D |-> r.byDifficulty[d][V[c]][f]]
  <2> DEFINE sums == [d \in D |-> Summary(Group(c, d))[f]]
  <2>1. \A group : BudgetAggregate(group)[f] = Summary(group)[f]
    BY AggregatesKeep
  <2>2. \A d \in D : r.byDifficulty[d][V[c]][f] = Summary(Group(c, d))[f]
    <3> HIDE DEF D
    <3> QED
      BY <1>5, <2>1
  <2>3. grouped = sums
    BY <2>2
  <2>4. SumOf(sums, D) = Summary(InArm(O, V[c]))[f]
    <3> HIDE DEF D
    <3> QED
      BY <1>1, <1>6, GridGroups
  <2> HIDE DEF sums
  <2>5. SumOf(grouped, D) = Summary(InArm(O, V[c]))[f]
    BY <2>3, <2>4
  <2> HIDE DEF D
  <2>6. GroupedTotal(r.byDifficulty, V[c], f) = SumOf(grouped, D)
    BY <1>5, <1>6, GroupsTotal
  <2> QED
    BY <2>5, <2>6
<1>9. GroupsAddUp(r)
  BY <1>4, <1>8 DEF GroupsAddUp
<1>10. PairsAddUp(r) /\ Grid(r.observations)
  BY <1>4 DEF PairsAddUp
<1> QED
  BY <1>1, <1>7, <1>9, <1>10, GridAddsUp DEF r

\* The totals of an arm's groups are numbers.
LEMMA GroupTotalled ==
  ASSUME study \in Experiments, NEW O, Grid(O), NEW c \in DOMAIN Levels[study], NEW d,
         NEW f \in {"accuracy", "calls"}
  PROVE  Summary(OfDifficulty(O, Levels[study][c], d))[f] \in Int
<1> DEFINE arm == InArm(O, Levels[study][c])
<1> DEFINE group == {o \in arm : o.difficulty = d}
<1>1. IsFiniteSet(arm) /\ group \subseteq arm
  BY GridColumn
<1>2. \A o \in arm : o[f] \in Int
  BY GridTotals
<1> HIDE DEF arm, group
<1>3. IsFiniteSet(group) /\ \A o \in group : o[f] \in Int
  BY <1>1, <1>2, FS_Subset
<1> DEFINE value == [o \in group |-> o[f]]
<1>4. \A o \in group : value[o] \in Int
  BY <1>3
<1>5. TotalOf(f, group) = SumOf(value, group)
  BY <1>3, TotalIsSum
<1> HIDE DEF value
<1>6. TotalOf(f, group) \in Int
  BY <1>3, <1>4, <1>5, SumTakes
<1>7. Summary(group)[f] = TotalOf(f, group)
  BY DEF Summary
<1> QED
  BY <1>6, <1>7 DEF group, arm, OfDifficulty

\* The differences of the tiers add up to the difference of the arms.
LEMMA TierDifferences ==
  ASSUME study \in Experiments, NEW O, Grid(O), NEW c \in DOMAIN Levels[study],
         NEW D, IsFiniteSet(D), \A o \in O : o.difficulty \in D,
         NEW f \in {"accuracy", "calls"}, NEW h, NEW deltas, h \in Bijection(D, deltas),
         \A d \in D :
           h[d][f] = Summary(OfDifficulty(O, Levels[study][c], d))[f]
                       - Summary(OfDifficulty(O, Levels[study][1], d))[f]
  PROVE  TotalOf(f, deltas)
           = TotalOf(f, InArm(O, Levels[study][c])) - TotalOf(f, InArm(O, Levels[study][1]))
<1> DEFINE one == InArm(O, Levels[study][c])
<1> DEFINE other == InArm(O, Levels[study][1])
<1> DEFINE v == [d \in D |-> Summary(OfDifficulty(O, Levels[study][c], d))[f]]
<1> DEFINE w == [d \in D |-> Summary(OfDifficulty(O, Levels[study][1], d))[f]]
<1> DEFINE less == [d \in D |-> h[d][f]]
<1> DEFINE value == [x \in deltas |-> x[f]]
<1>1. 1 \in DOMAIN Levels[study]
  BY LevelsListed
<1>2. \A d \in D : v[d] \in Int /\ w[d] \in Int /\ less[d] = v[d] - w[d]
  <2> SUFFICES ASSUME NEW d \in D
               PROVE  /\ Summary(OfDifficulty(O, Levels[study][c], d))[f] \in Int
                      /\ Summary(OfDifficulty(O, Levels[study][1], d))[f] \in Int
    OBVIOUS
  <2> QED
    BY <1>1, GroupTotalled
<1>3. SumOf(v, D) = Summary(one)[f] /\ SumOf(w, D) = Summary(other)[f]
  <2>1. f \in {"n", "accuracy", "calls"}
    OBVIOUS
  <2>2. SumOf(v, D) = Summary(one)[f]
    BY <2>1, GridGroups
  <2>3. SumOf(w, D) = Summary(other)[f]
    BY <1>1, <2>1, GridGroups
  <2> QED
    BY <2>2, <2>3
<1>4. Summary(one)[f] = TotalOf(f, one) /\ Summary(other)[f] = TotalOf(f, other)
  BY DEF Summary
<1>5. \A d \in D : h[d] \in deltas
  BY DEF Bijection, Injection
<1>6. \A d \in D : less[d] = value[h[d]]
  BY <1>5
<1>7. IsFiniteSet(deltas)
  BY FS_Bijection DEF ExistsBijection
<1>8. TotalOf(f, deltas) = SumOf(value, deltas)
  BY <1>7, TotalIsSum
<1> HIDE DEF one, other, v, w, less, value
<1>9. SumOf(less, D) = SumOf(v, D) - SumOf(w, D)
  BY <1>2, SumDifference
<1>10. \A d \in D : value[h[d]] \in Int
  BY <1>2, <1>6
<1>11. SumOf(value, deltas) = SumOf(less, D)
  BY <1>6, <1>10, SumRenamed
<1> QED
  BY <1>3, <1>4, <1>8, <1>9, <1>11 DEF one, other

\* The report of the planning study, tier by tier.
LEMMA PlanningDrawn ==
  ASSUME study = "planning_difficulty", NEW O, Grid(O)
  PROVE  AddsUp(Drawn(O))
<1> DEFINE r == Drawn(O)
<1> DEFINE D == {s.difficulty : s \in ToSet(Cohort)}
<1> DEFINE V == Levels[study]
<1> DEFINE Group(a, d) == OfDifficulty(O, a, d)
<1> DEFINE Less(d, f) == Summary(Group(V[2], d))[f] - Summary(Group(V[1], d))[f]
<1>1. /\ study \in Experiments /\ PlanningArms = V /\ DOMAIN V = 1 .. 2
      /\ V[1] = "reactive_react" /\ V[2] = "explicit_planner"
  BY TheExperiments DEF PlanningArms, Levels
<1>2. \A c \in DOMAIN V : V[c] \in ToSet(PlanningArms)
  BY <1>1 DEF ToSet
<1>3. /\ r.observations = O /\ "aggregates" \notin DOMAIN r
      /\ r.byDifficulty = [d \in D |-> [a \in ToSet(PlanningArms) |-> Summary(Group(a, d))]]
      /\ r.deltas = {[scenario |-> d, arm |-> V[2], accuracy |-> Less(d, "accuracy"),
                      calls |-> Less(d, "calls")] : d \in D}
  <2>1. r = PlanningReport(O, Cohort)
    BY DEF Drawn
  <2> HIDE DEF r
  <2> QED
    BY <1>1, <2>1 DEF PlanningReport, PlanningAggregate, OfDifficulty
<1>4. /\ DOMAIN r.byDifficulty = D
      /\ \A d \in D, c \in DOMAIN V : r.byDifficulty[d][V[c]] = Summary(Group(V[c], d))
  BY <1>2, <1>3
<1>5. IsFiniteSet(D) /\ \A o \in O : o.difficulty \in D
  BY <1>1, GridTiers
<1> HIDE DEF r
<1>6. ASSUME NEW c \in DOMAIN V, NEW f \in {"n", "accuracy", "calls"}
      PROVE  GroupedTotal(r.byDifficulty, V[c], f) = Summary(InArm(O, V[c]))[f]
  <2> DEFINE grouped == [d \in D |-> r.byDifficulty[d][V[c]][f]]
  <2> DEFINE sums == [d \in D |-> Summary(Group(V[c], d))[f]]
  <2>1. \A d \in D : r.byDifficulty[d][V[c]][f] = Summary(Group(V[c], d))[f]
    <3> HIDE DEF D
    <3> QED
      BY <1>4
  <2>2. grouped = sums
    BY <2>1
  <2>3. SumOf(sums, D) = Summary(InArm(O, V[c]))[f]
    <3> HIDE DEF D
    <3> QED
      BY <1>1, <1>5, GridGroups
  <2> HIDE DEF sums
  <2>4. SumOf(grouped, D) = Summary(InArm(O, V[c]))[f]
    BY <2>2, <2>3
  <2> HIDE DEF D
  <2>5. GroupedTotal(r.byDifficulty, V[c], f) = SumOf(grouped, D)
    BY <1>4, <1>5, GroupsTotal
  <2> QED
    BY <2>4, <2>5
<1>7. GroupsAddUp(r)
  BY <1>3, <1>6 DEF GroupsAddUp
<1> DEFINE h == [d \in D |-> [scenario |-> d, arm |-> V[2], accuracy |-> Less(d, "accuracy"),
                              calls |-> Less(d, "calls")]]
<1>8. /\ r.deltas = {h[d] : d \in D} /\ h \in [D -> r.deltas]
      /\ \A d \in D : /\ h[d].scenario = d /\ h[d].arm = V[2]
                      /\ h[d].accuracy = Less(d, "accuracy") /\ h[d].calls = Less(d, "calls")
  <2> HIDE DEF D, Less
  <2> QED
    BY <1>3
<1> HIDE DEF h
<1>9. h \in Bijection(D, r.deltas)
  <2>1. \A d, e \in D : h[d] = h[e] => d = e
    BY <1>8
  <2>2. h \in [D -> r.deltas] /\ \A x \in r.deltas : \E d \in D : h[d] = x
    BY <1>8
  <2> HIDE DEF D
  <2> QED
    BY <2>1, <2>2 DEF Bijection, Injection, Surjection, IsInjective
<1>10. {d \in r.deltas : d.arm = V[2]} = r.deltas
  <2>1. \A x \in r.deltas : x.arm = V[2]
    BY <1>8
  <2> QED
    BY <2>1
<1>11. ASSUME NEW f \in {"accuracy", "calls"}
       PROVE  TotalOf(f, r.deltas) = TotalOf(f, InArm(O, V[2])) - TotalOf(f, InArm(O, V[1]))
  <2>1. \A d \in D : h[d][f] = Less(d, f)
    <3> HIDE DEF D, Less
    <3> QED
      BY <1>8
  <2>2. 2 \in DOMAIN V
    BY <1>1
  <2> DEFINE deltas == r.deltas
  <2>3. h \in Bijection(D, deltas)
    BY <1>9
  <2> HIDE DEF D, deltas
  <2>4. TotalOf(f, deltas) = TotalOf(f, InArm(O, V[2])) - TotalOf(f, InArm(O, V[1]))
    BY <1>1, <1>5, <2>1, <2>2, <2>3, TierDifferences
  <2> QED
    BY <2>4 DEF deltas
<1>12. PairsAddUp(r)
  <2>1. \A c \in DOMAIN V : c # 1 => c = 2
    BY <1>1
  <2> QED
    BY <1>3, <1>10, <1>11, <2>1 DEF PairsAddUp
<1>13. ControlsAgree(r) /\ Grid(r.observations)
  BY <1>3 DEF ControlsAgree
<1> QED
  BY <1>1, <1>7, <1>12, <1>13, GridAddsUp DEF r

\* What is drawn from a grid adds up, whichever the study is.
LEMMA DrawnAddsUp ==
  ASSUME study \in Experiments, NEW O, Grid(O)
  PROVE  AddsUp(Drawn(O))
<1>1. CASE study \in Paired
  BY <1>1, PairedDrawn
<1>2. CASE study = "investigation_budget"
  BY <1>2, BudgetDrawn
<1>3. CASE study = "planning_difficulty"
  BY <1>3, PlanningDrawn
<1> QED
  BY <1>1, <1>2, <1>3, TheExperiments DEF Paired

LEMMA ReportStaysAdded ==
  StudyInv /\ ArmsInv /\ SettingsInv /\ RunsInv /\ ReportAddsUp /\ [Next]_vars => ReportAddsUp'
<1> SUFFICES ASSUME StudyInv, ArmsInv, SettingsInv, RunsInv, ReportAddsUp, [Next]_vars
             PROVE  ReportAddsUp'
  OBVIOUS
<1>1. (ReportAddsUp <=> (Done => AddsUpIn(study, report)))'
  BY AddsUpIs, PTL
<1>2. CASE study' = study /\ report' = report
  BY <1>1, <1>2, AddsUpIs DEF Done
<1>3. CASE BuildReport
  <2>1. PICK given \in Handed :
          Reportable(given) /\ report' = Drawn(ObservationsOf(RecordsIn(given)))
    BY <1>3 DEF BuildReport
  <2>2. AllWritten /\ study' = study /\ study \in Experiments
    BY <1>3 DEF BuildReport, StudyInv
  <2>3. Grid(ObservationsOf(RecordsIn(given)))
    BY <2>1, <2>2, GridDrawn
  <2>4. AddsUp(report')
    BY <2>1, <2>2, <2>3, DrawnAddsUp
  <2> QED
    BY <1>1, <2>2, <2>4 DEF AddsUp
<1> QED
  BY <1>2, <1>3
     DEF Next, Proceed, Begin, Load, Check, RunAgent, Save, Finish, Deploy, Die, vars

\* Whatever dies, is run again or is deployed over, and whichever artifacts are handed in: a
\* report has every scenario once in each arm, by a run of its own, its paired differences
\* and its groups by difficulty add up to the arms, and all arms have the same controls
\* (what the report builders of phase 8 draw from the records).
THEOREM ReportsAddUp == Spec => []ReportAddsUp
<1>1. Init => ArmsInv /\ RunsInv /\ SettingsInv /\ ReportAddsUp
  <2> SUFFICES ASSUME Init
               PROVE  ArmsInv /\ RunsInv /\ SettingsInv /\ ReportAddsUp
    OBVIOUS
  <2>1. RunsInv
    BY DEF Init, RunsInv, Apart
  <2> QED
    BY <2>1 DEF Init, ArmsInv, SettingsInv, Plausible, ReportAddsUp, Done
<1>2. StudyInv /\ ArmsInv /\ RunsInv /\ SettingsInv /\ ReportAddsUp /\ [Next]_vars
        => ArmsInv' /\ RunsInv' /\ SettingsInv' /\ ReportAddsUp'
  BY ArmsStayAsserted, RunsStayApart, SettingsStay, ReportStaysAdded
<1> QED
  BY <1>1, <1>2, StudyInvariance, PTL DEF Spec

-----------------------------------------------------------------------------
(* The scripts work through every scenario in every arm. *)

\* A script that runs, and one that has written its artifact, has found its plan and its
\* cohort as they were registered.
StartedInv ==
  /\ Running => script.arm \in Startable[study]
  /\ \A a \in Scripts : artifacts[a] # <<>> => a \in Startable[study]

LEMMA StartedStays == StudyInv /\ StartedInv /\ [Next]_vars => StartedInv'
<1> SUFFICES ASSUME StudyInv, StartedInv, [Next]_vars
             PROVE  StartedInv'
  OBVIOUS
<1>1. study' = study /\ Scripts' = Scripts /\ Startable' = Startable
  BY JournalStands DEF Scripts
<1>2. ASSUME NEW a \in Scripts, Begin(a)
      PROVE  StartedInv'
  <2>1. artifacts' = artifacts /\ a \in Startable[study] /\ script'.arm = a
    BY <1>2 DEF Begin, Idle
  <2> QED
    BY <1>1, <2>1 DEF StartedInv
<1>3. CASE Finish
  <2>1. /\ script.arm \in Startable[study] /\ ~Running'
        /\ \/ artifacts' = artifacts
           \/ artifacts' = [artifacts EXCEPT ![script.arm] = Entries(script.arm)]
    BY <1>3 DEF Finish, StartedInv, Running, Idle
  <2>2. DOMAIN artifacts = Scripts
    BY DEF StudyInv, Written, Scripts
  <2>3. ASSUME NEW a \in Scripts, artifacts'[a] # <<>>
        PROVE  a \in Startable[study]
    <3>1. a = script.arm \/ artifacts'[a] = artifacts[a]
      BY <2>1, <2>2
    <3> QED
      BY <2>1, <2>3, <3>1 DEF StartedInv
  <2> QED
    BY <1>1, <2>1, <2>3 DEF StartedInv
<1>4. CASE Load \/ Check \/ RunAgent \/ Save \/ Deploy \/ Die \/ BuildReport \/ UNCHANGED vars
  <2>1. artifacts' = artifacts
    BY <1>4 DEF Load, Check, RunAgent, Save, Deploy, Die, BuildReport, vars
  <2>2. ~Running' \/ (Running /\ script'.arm = script.arm) \/ script' = script
    <3>1. script = [arm |-> script.arm, at |-> script.at, next |-> script.next,
                    checked |-> script.checked]
      BY DEF StudyInv, Working
    <3>2. CASE Load \/ RunAgent \/ Save
      BY <3>1, <3>2 DEF Load, RunAgent, Save, Running
    <3>3. CASE Check
      <4>1. script.at = "check" /\ (script' = Idle \/ script'.arm = script.arm)
        BY <3>1, <3>3 DEF Check
      <4> QED
        BY <4>1 DEF Running, Idle
    <3>4. CASE Deploy \/ Die \/ BuildReport \/ UNCHANGED vars
      BY <3>4 DEF Deploy, Die, BuildReport, vars, Running, Idle
    <3> QED
      BY <1>4, <3>2, <3>3, <3>4
  <2> QED
    BY <1>1, <2>1, <2>2 DEF StartedInv, Running
<1> QED
  BY <1>2, <1>3, <1>4 DEF Next, Proceed

\* The difficulties that the cells of a plan enable.
LEMMA CellsEnable ==
  /\ \A e \in Experiments \ {"planning_difficulty", "compound_handling"} :
       \A c \in DOMAIN Levels[e] : PlanOf[e].cells[c].difficulties = Difficulties
  /\ \A c \in DOMAIN Levels["compound_handling"] :
       PlanOf["compound_handling"].cells[c].difficulties = {"compound"}
  /\ \A d : \A c \in DOMAIN Levels["planning_difficulty"] :
       TierPlan(d).cells[c].difficulties = {d}
<1>1. \A e, values, split, difficulties : \A c \in DOMAIN values :
        PlanOver(e, values, split, difficulties).cells[c].difficulties = difficulties
  BY DEF PlanOver, CellsOver, Cell
<1>2. ASSUME NEW e \in Experiments \ {"planning_difficulty", "compound_handling"}
      PROVE  PlanOf[e] = PlanOver(e, Levels[e], "validation", Difficulties)
  <2>1. PlanOf[e] = Phase8Plan(e)
    BY DEF PlanOf
  <2>2. CASE e = "investigation_budget"
    BY <2>1, <2>2 DEF Phase8Plan, Levels
  <2>3. CASE e = "tool_order"
    BY <2>1, <2>3 DEF Phase8Plan, Levels
  <2>4. CASE e = "passive_vs_verification"
    BY <2>1, <2>4 DEF Phase8Plan, Levels
  <2>5. CASE e = "temporal_reasoning"
    BY <2>1, <2>5 DEF Phase8Plan, Levels
  <2> QED
    BY <1>2, <2>2, <2>3, <2>4, <2>5, TheExperiments
<1>3. PlanOf["compound_handling"]
        = PlanOver("compound_handling", Levels["compound_handling"], "hidden_test", {"compound"})
  <2>1. PlanOf["compound_handling"] = Phase8Plan("compound_handling")
    BY TheExperiments DEF PlanOf
  <2> QED
    BY <2>1 DEF Phase8Plan, Levels
<1>4. \A d : TierPlan(d) = PlanOver("planning_difficulty", Levels["planning_difficulty"],
                                    SplitOf[d], {d})
  BY DEF TierPlan, PlanningArms, Levels
<1>5. ASSUME NEW e \in Experiments \ {"planning_difficulty", "compound_handling"},
             NEW c \in DOMAIN Levels[e]
      PROVE  PlanOf[e].cells[c].difficulties = Difficulties
  <2> DEFINE values == Levels[e]
  <2>1. PlanOf[e] = PlanOver(e, values, "validation", Difficulties)
    BY <1>2
  <2> HIDE DEF values
  <2>2. PlanOver(e, values, "validation", Difficulties).cells[c].difficulties = Difficulties
    BY <1>1 DEF values
  <2> QED
    BY <2>1, <2>2
<1>6. ASSUME NEW c \in DOMAIN Levels["compound_handling"]
      PROVE  PlanOf["compound_handling"].cells[c].difficulties = {"compound"}
  <2> DEFINE values == Levels["compound_handling"]
  <2> HIDE DEF values
  <2>1. PlanOver("compound_handling", values, "hidden_test", {"compound"}).cells[c].difficulties
          = {"compound"}
    BY <1>1 DEF values
  <2> QED
    BY <1>3, <2>1 DEF values
<1>7. ASSUME NEW d, NEW c \in DOMAIN Levels["planning_difficulty"]
      PROVE  TierPlan(d).cells[c].difficulties = {d}
  <2> DEFINE values == Levels["planning_difficulty"]
  <2> DEFINE split == SplitOf[d]
  <2> HIDE DEF values, split
  <2>1. PlanOver("planning_difficulty", values, split, {d}).cells[c].difficulties = {d}
    BY <1>1 DEF values
  <2> QED
    BY <1>4, <2>1 DEF values, split
<1> QED
  BY <1>5, <1>6, <1>7

\* The enumeration leaves out no scenario that its cell enables.
LEMMA EnumeratedCovers ==
  ASSUME NEW plan, NEW cell, NEW S, NEW scenarios \in Seq(S), NEW i \in DOMAIN scenarios,
         scenarios[i].difficulty \in cell.difficulties
  PROVE  \E k \in DOMAIN Enumerated(plan, cell, scenarios) :
           Enumerated(plan, cell, scenarios)[k]
             = [trial |-> Trial(plan, cell, scenarios[i]), scenario |-> scenarios[i]]
<1> DEFINE places == {j \in DOMAIN scenarios : scenarios[j].difficulty \in cell.difficulties}
<1> DEFINE enabled == Only(scenarios, places)
<1> DEFINE list == [j \in DOMAIN enabled |-> [trial |-> Trial(plan, cell, enabled[j]),
                                              scenario |-> enabled[j]]]
<1>1. Enumerated(plan, cell, scenarios) = list
  BY DEF Enumerated
<1>2. places \in SUBSET DOMAIN scenarios /\ i \in places
  OBVIOUS
<1> HIDE DEF places
<1>3. ToSet(enabled) = {scenarios[j] : j \in places}
  BY <1>2, OnlyKeeps
<1>4. PICK k \in DOMAIN enabled : enabled[k] = scenarios[i]
  BY <1>2, <1>3 DEF ToSet
<1> HIDE DEF enabled
<1>5. k \in DOMAIN list
      /\ list[k] = [trial |-> Trial(plan, cell, scenarios[i]), scenario |-> scenarios[i]]
  BY <1>4
<1> QED
  BY <1>1, <1>5

\* Every scenario of the planning cohort is selected with its tier.
LEMMA SelectedAll ==
  ASSUME NEW s \in ToSet(CohortOf["planning_difficulty"])
  PROVE  LET cohort == CohortOf["planning_difficulty"] IN
         /\ s.difficulty \in ToSet(TiersOf(cohort))
         /\ s \in ToSet(Selected(cohort, s.difficulty))
<1> DEFINE cohort == CohortOf["planning_difficulty"]
<1> DEFINE tier == s.difficulty
<1> DEFINE names == <<"easy", "medium", "hard", "adversarial", "compound">>
<1> DEFINE there == {i \in DOMAIN names : TierOf(cohort, names[i]) # <<>>}
<1> DEFINE places == {i \in DOMAIN cohort : cohort[i].difficulty = tier
                                            /\ cohort[i].split = SplitOf[tier]}
<1> DEFINE all == Only(cohort, places)
<1>1. cohort \in Seq(ToSet(cohort)) /\ tier \in Difficulties
  BY TheExperiments, StudiesAssumption
<1>2. s.split = SplitOf[tier] /\ Len(TierOf(cohort, tier)) = PerTier
  BY StudiesAssumption
<1>3. PICK i \in DOMAIN cohort : cohort[i] = s
  BY DEF ToSet
<1>4. places \in SUBSET DOMAIN cohort /\ i \in places
  BY <1>2, <1>3
<1>5. TierOf(cohort, tier) = all
  BY DEF TierOf
<1>6. Selected(cohort, tier) = SubSeq(all, 1, PerTier)
  BY <1>5 DEF Selected
<1>7. PICK m \in DOMAIN names : names[m] = tier
  BY <1>1 DEF Difficulties
<1>8. TiersOf(cohort) = Only(names, there)
  BY DEF TiersOf
<1>9. names \in Seq({"easy", "medium", "hard", "adversarial", "compound"})
  OBVIOUS
<1>10. there \in SUBSET DOMAIN names
  OBVIOUS
<1> HIDE DEF places, names
<1>11. /\ all \in Seq(ToSet(cohort)) /\ Len(all) \in Nat /\ DOMAIN all = 1 .. Len(all)
       /\ ToSet(all) = {cohort[j] : j \in places}
  <2> HIDE DEF cohort
  <2> QED
    BY <1>1, <1>4, OnlyKeeps
<1>12. s \in ToSet(all)
  BY <1>3, <1>4, <1>11
<1> HIDE DEF all
<1>13. TierOf(cohort, tier) # <<>>
  BY <1>5, <1>12 DEF ToSet
<1>14. m \in there
  BY <1>7, <1>13
<1>15. ToSet(Only(names, there)) = {names[j] : j \in there}
  <2> HIDE DEF there
  <2> QED
    BY <1>9, <1>10, OnlyKeeps
<1>16. tier \in ToSet(TiersOf(cohort))
  BY <1>7, <1>8, <1>14, <1>15
<1>17. SubSeq(all, 1, PerTier) = all
  BY <1>2, <1>5, <1>11
<1> QED
  BY <1>6, <1>12, <1>16, <1>17 DEF cohort

\* A script that may start is given every scenario of its cohort, in a cell that enables it.
LEMMA BatchesCover ==
  ASSUME NEW e \in Experiments, NEW a \in ScriptsOf(e), a \in Startable[e],
         NEW s \in ToSet(CohortOf[e]), NEW c \in DOMAIN Levels[e],
         e # "investigation_budget" => c = a
  PROVE  \E b \in DOMAIN Batches(e, a) :
           LET given == Batches(e, a)[b] IN
           /\ s \in ToSet(given.scenarios) /\ s.difficulty \in given.cell.difficulties
           /\ Trial(given.plan, given.cell, s) = TrialOf(e, c, s)
<1> DEFINE plan == PlanOf[e]
<1> DEFINE cohort == CohortOf[e]
<1>1. Spans(plan, e, Levels[e]) /\ s.difficulty \in Difficulties
  BY PlansSpan, StudiesAssumption
<1>2. CASE e = "planning_difficulty"
  <2> DEFINE tiers == TiersOf(cohort)
  <2> DEFINE tier == s.difficulty
  <2>1. Batches(e, a) = [j \in DOMAIN tiers |->
                           [plan |-> TierPlan(tiers[j]), cell |-> TierPlan(tiers[j]).cells[a],
                            scenarios |-> Selected(cohort, tiers[j])]]
    BY <1>2 DEF Batches
  <2>2. tier \in ToSet(tiers) /\ s \in ToSet(Selected(cohort, tier))
    BY <1>2, SelectedAll
  <2>3. TierPlan(tier).cells[a].difficulties = {tier}
    BY <1>2, CellsEnable
  <2>4. Trial(TierPlan(tier), TierPlan(tier).cells[a], s) = TrialOf(e, c, s)
    BY <1>2 DEF TrialOf
  <2> HIDE DEF tiers, cohort, tier
  <2>5. PICK b \in DOMAIN tiers : tiers[b] = tier
    BY <2>2 DEF ToSet
  <2>6. b \in DOMAIN Batches(e, a)
        /\ Batches(e, a)[b] = [plan |-> TierPlan(tier), cell |-> TierPlan(tier).cells[a],
                               scenarios |-> Selected(cohort, tier)]
    BY <2>1, <2>5
  <2> QED
    BY <2>2, <2>3, <2>4, <2>6 DEF tier
<1>3. CASE e = "investigation_budget"
  <2>1. Batches(e, a) = [j \in DOMAIN plan.cells |->
                           [plan |-> plan, cell |-> plan.cells[j], scenarios |-> cohort]]
    BY <1>3 DEF Batches
  <2>2. c \in DOMAIN plan.cells
    BY <1>1 DEF Spans
  <2>3. plan.cells[c].difficulties = Difficulties
    BY <1>3, CellsEnable
  <2>4. Trial(plan, plan.cells[c], s) = TrialOf(e, c, s)
    BY <1>3 DEF TrialOf
  <2>5. s \in ToSet(cohort)
    OBVIOUS
  <2> HIDE DEF plan, cohort
  <2>6. c \in DOMAIN Batches(e, a)
        /\ Batches(e, a)[c] = [plan |-> plan, cell |-> plan.cells[c], scenarios |-> cohort]
    BY <2>1, <2>2
  <2> QED
    BY <1>1, <2>3, <2>4, <2>5, <2>6
<1>4. CASE e \notin {"planning_difficulty", "investigation_budget"}
  <2>1. Batches(e, a) = <<[plan |-> plan, cell |-> plan.cells[a], scenarios |-> cohort]>>
    BY <1>4 DEF Batches
  <2>2. c = a
    BY <1>4
  <2>3. s.difficulty \in plan.cells[a].difficulties
    <3>1. CASE e = "compound_handling"
      <4>1. Preregistered(e, a)
        BY DEF Startable
      <4>2. CompoundCohort(cohort)
        BY <3>1, <4>1 DEF Preregistered
      <4>3. s.difficulty = "compound"
        BY <4>2 DEF CompoundCohort, ToSet
      <4> QED
        BY <2>2, <3>1, <4>3, CellsEnable
    <3>2. CASE e # "compound_handling"
      BY <1>1, <1>4, <2>2, <3>2, CellsEnable
    <3> QED
      BY <3>1, <3>2
  <2>4. Trial(plan, plan.cells[a], s) = TrialOf(e, c, s)
    BY <1>4, <2>2 DEF TrialOf
  <2>5. s \in ToSet(cohort)
    OBVIOUS
  <2> HIDE DEF plan, cohort
  <2>6. 1 \in DOMAIN Batches(e, a)
        /\ Batches(e, a)[1] = [plan |-> plan, cell |-> plan.cells[a], scenarios |-> cohort]
    BY <2>1
  <2> QED
    BY <2>3, <2>4, <2>5, <2>6
<1> QED
  BY <1>2, <1>3, <1>4

\* The converse of WorkFrom.
LEMMA WorkCovers ==
  ASSUME NEW e \in Experiments, NEW a \in ScriptsOf(e), a \in Startable[e],
         NEW i \in DOMAIN CohortOf[e], NEW c \in DOMAIN Levels[e],
         e # "investigation_budget" => c = a
  PROVE  \E k \in DOMAIN WorkOf[e][a] :
           WorkOf[e][a][k] = [trial |-> TrialOf(e, c, CohortOf[e][i]), scenario |-> CohortOf[e][i]]
<1> DEFINE s == CohortOf[e][i]
<1> DEFINE given == Batches(e, a)
<1> DEFINE parts == [b \in DOMAIN given |->
                       Enumerated(given[b].plan, given[b].cell, given[b].scenarios)]
<1> DEFINE S == UNION {ToSet(parts[b]) : b \in DOMAIN parts}
<1>1. WorkOf[e][a] = FlattenSeq(parts)
  BY DEF WorkOf
<1>2. PICK n \in Nat : DOMAIN given = 1 .. n
  BY BatchesSpan
<1>3. PICK b \in DOMAIN given :
        /\ s \in ToSet(given[b].scenarios) /\ s.difficulty \in given[b].cell.difficulties
        /\ Trial(given[b].plan, given[b].cell, s) = TrialOf(e, c, s)
  <2>1. s \in ToSet(CohortOf[e])
    BY DEF ToSet
  <2> HIDE DEF s
  <2> QED
    BY <2>1, BatchesCover DEF given
<1>4. given[b].scenarios \in Seq(ToSet(CohortOf[e]))
  BY BatchesFrom DEF given
<1>5. /\ DOMAIN parts = 1 .. n /\ parts = [p \in DOMAIN parts |-> parts[p]]
      /\ \A p \in DOMAIN given : parts[p] = Enumerated(given[p].plan, given[p].cell,
                                                       given[p].scenarios)
  BY <1>2
<1> HIDE DEF parts, given, s
<1>6. PICK k \in DOMAIN parts[b] : parts[b][k] = [trial |-> TrialOf(e, c, s), scenario |-> s]
  <2>1. PICK j \in DOMAIN given[b].scenarios : given[b].scenarios[j] = s
    BY <1>3 DEF ToSet
  <2> DEFINE plan == given[b].plan
  <2> DEFINE cell == given[b].cell
  <2> DEFINE scenarios == given[b].scenarios
  <2>2. /\ scenarios \in Seq(ToSet(CohortOf[e])) /\ j \in DOMAIN scenarios
        /\ scenarios[j] = s /\ s.difficulty \in cell.difficulties
        /\ Trial(plan, cell, s) = TrialOf(e, c, s) /\ parts[b] = Enumerated(plan, cell, scenarios)
    BY <1>3, <1>4, <1>5, <2>1
  <2> HIDE DEF plan, cell, scenarios
  <2>3. \E k \in DOMAIN Enumerated(plan, cell, scenarios) :
          Enumerated(plan, cell, scenarios)[k]
            = [trial |-> Trial(plan, cell, scenarios[j]), scenario |-> scenarios[j]]
    BY <2>2, EnumeratedCovers
  <2> QED
    BY <2>2, <2>3
<1>7. \A p \in DOMAIN given : parts[p] \in Seq(ToSet(parts[p]))
  <2> SUFFICES ASSUME NEW p \in DOMAIN given
               PROVE  parts[p] \in Seq(ToSet(parts[p]))
    OBVIOUS
  <2>1. IsFiniteSet(DOMAIN given[p].scenarios)
    BY BatchesSpan DEF given
  <2> QED
    BY <1>5, <2>1, EnumeratedTrials
<1>8. parts \in Seq(Seq(S))
  <2>1. \A p \in DOMAIN parts : parts[p] \in Seq(S)
    <3> SUFFICES ASSUME NEW p \in DOMAIN parts
                 PROVE  parts[p] \in Seq(S)
      OBVIOUS
    <3>1. parts[p] \in Seq(ToSet(parts[p])) /\ ToSet(parts[p]) \subseteq S
      BY <1>2, <1>5, <1>7
    <3> HIDE DEF S
    <3> QED
      BY <3>1
  <2> HIDE DEF S
  <2>2. parts \in [1 .. n -> Seq(S)]
    BY <1>5, <2>1
  <2> QED
    BY <2>2, FunctionIsSequence
<1> HIDE DEF S
<1>9. PICK p \in DOMAIN FlattenSeq(parts) : FlattenSeq(parts)[p] = parts[b][k]
  <2>1. b \in DOMAIN parts
    BY <1>2, <1>5
  <2> QED
    BY <1>6, <1>8, <2>1, FlattenKeeps
<1> QED
  BY <1>1, <1>6, <1>9 DEF s

\* An arm that has its artifact has an entry for every scenario, whatever became of its
\* scripts.
LEMMA ScenarioHeard ==
  ASSUME StudyInv, ArmsInv, SettingsInv, RepeatInv, StartedInv, AllWritten,
         NEW i \in DOMAIN Cohort, NEW c \in DOMAIN Levels[study]
  PROVE  \E a \in Scripts : \E x \in ToSet(artifacts[a]) :
           /\ study # "investigation_budget" => a = c
           /\ x.trial = TrialOf(study, c, Cohort[i]) /\ x.scenario = Cohort[i]
           /\ Located(Observation(RecordOf(x)), i, c)
<1>1. study \in Experiments
  BY DEF StudyInv
<1>2. PICK a \in Scripts : study # "investigation_budget" => a = c
  <2>1. CASE study = "investigation_budget"
    <3>1. 1 \in Scripts
      BY <2>1 DEF Scripts, ScriptsOf
    <3> QED
      BY <2>1, <3>1
  <2>2. CASE study # "investigation_budget"
    <3>1. c \in Scripts
      BY <1>1, <2>2, PlansSpan DEF Scripts, ScriptsOf, Spans
    <3> QED
      BY <3>1
  <2> QED
    BY <2>1, <2>2
<1>3. a \in Startable[study] /\ artifacts[a] = Entries(a) /\ a \in ScriptsOf(study)
  BY DEF AllWritten, StartedInv, RepeatInv, Scripts
<1>4. PICK k \in DOMAIN WorkOf[study][a] :
        WorkOf[study][a][k] = [trial |-> TrialOf(study, c, Cohort[i]), scenario |-> Cohort[i]]
  BY <1>1, <1>2, <1>3, WorkCovers DEF Cohort
<1> DEFINE x == artifacts[a][k]
<1>5. /\ x \in ToSet(artifacts[a])
      /\ x.trial = TrialOf(study, c, Cohort[i]) /\ x.scenario = Cohort[i]
  <2>1. artifacts[a] = [m \in DOMAIN WorkOf[study][a] |->
                          [trial |-> WorkOf[study][a][m].trial,
                           scenario |-> WorkOf[study][a][m].scenario,
                           outcome |-> journal[WorkOf[study][a][m].trial].outcome]]
    BY <1>3 DEF Entries, Work
  <2>2. /\ k \in DOMAIN artifacts[a]
        /\ x.trial = WorkOf[study][a][k].trial /\ x.scenario = WorkOf[study][a][k].scenario
    BY <2>1
  <2> QED
    BY <1>4, <2>2 DEF ToSet
<1> HIDE DEF x
<1>6. PICK j \in DOMAIN Cohort, d \in DOMAIN Levels[study] :
        x.trial = TrialOf(study, d, Cohort[j]) /\ Located(Observation(RecordOf(x)), j, d)
  BY <1>5, EntryAt
<1>7. j = i /\ d = c
  <2>1. ASSUME NEW b \in DOMAIN Levels[study], NEW s, x.trial = TrialOf(study, b, s)
        PROVE  /\ x.trial.scenario = s.id
               /\ x.trial.configuration[Dimension[x.trial.experiment]] = Levels[study][b]
    <3>1. LET t == TrialOf(study, b, s) IN
          /\ t.experiment = study /\ t.scenario = s.id /\ t.difficulty = s.difficulty
          /\ t.configuration[Dimension[t.experiment]] = Levels[study][b]
          /\ t.configuration.budget \in Nat
      BY <1>1, TrialSays
    <3> QED
      BY <2>1, <3>1
  <2>2. /\ x.trial.scenario = Cohort[i].id /\ x.trial.scenario = Cohort[j].id
        /\ x.trial.configuration[Dimension[x.trial.experiment]] = Levels[study][c]
        /\ x.trial.configuration[Dimension[x.trial.experiment]] = Levels[study][d]
    BY <1>5, <1>6, <2>1
  <2> QED
    BY <1>1, <2>2, CohortListed, LevelsApart
<1> QED
  BY <1>2, <1>5, <1>6, <1>7

-----------------------------------------------------------------------------
(* The report script turns away nothing of a study that ran as it was deployed. *)

\* A study all of whose artifacts are there, handed in each in its place.
Finished ==
  StudyInv /\ ArmsInv /\ SettingsInv /\ RunsInv /\ RepeatInv /\ StartedInv /\ AllWritten

InPlace == [a \in Scripts |-> a]
FinalRecords == RecordsIn(InPlace)
FinalObservations == ObservationsOf(FinalRecords)

LEMMA AllHanded == InPlace \in Handed /\ ToSet(InPlace) = Scripts
  BY DEF InPlace, Handed, ToSet

LEMMA FinishedGrid ==
  ASSUME Finished
  PROVE  Grid(FinalObservations)
<1>1. StudyInv /\ ArmsInv /\ SettingsInv /\ RunsInv /\ RepeatInv /\ StartedInv /\ AllWritten
  BY DEF Finished
<1>2. InPlace \in Handed /\ ToSet(InPlace) = Scripts
  BY AllHanded
<1> DEFINE O == ObservationsOf(RecordsIn(InPlace))
<1>3. \A a \in Scripts : \A x \in ToSet(artifacts[a]) : Observation(RecordOf(x)) \in O
  <2>1. /\ \A o \in O : \E a \in Scripts : \E x \in ToSet(artifacts[a]) :
             o = Observation(RecordOf(x))
        /\ \A a \in Scripts : \A x \in ToSet(artifacts[a]) : Observation(RecordOf(x)) \in O
    BY <1>1, <1>2, ObservationsGathered
  <2> HIDE DEF O
  <2> QED
    BY <2>1
<1>4. \A i \in DOMAIN Cohort, c \in DOMAIN Levels[study] : \E o \in O : Located(o, i, c)
  <2> SUFFICES ASSUME NEW i \in DOMAIN Cohort, NEW c \in DOMAIN Levels[study]
               PROVE  \E o \in O : Located(o, i, c)
    OBVIOUS
  <2> HIDE DEF O
  <2>1. PICK a \in Scripts : \E x \in ToSet(artifacts[a]) : Located(Observation(RecordOf(x)), i, c)
    BY <1>1, ScenarioHeard
  <2>2. PICK x \in ToSet(artifacts[a]) : Located(Observation(RecordOf(x)), i, c)
    BY <2>1
  <2> QED
    BY <1>3, <2>2
<1>5. Grid(ObservationsOf(RecordsIn(InPlace)))
  BY <1>1, <1>2, <1>4, GridGathered
<1> QED
  BY <1>5 DEF FinalObservations, FinalRecords

\* No trial is handed in twice.
LEMMA RecordsOnce ==
  ASSUME Finished
  PROVE  /\ \E n \in Nat : DOMAIN FinalRecords = 1 .. n /\ Len(FinalRecords) = n
         /\ \A p, q \in DOMAIN FinalRecords :
              FinalRecords[p].trial = FinalRecords[q].trial => p = q
<1> DEFINE parts == [i \in DOMAIN InPlace |-> artifacts[InPlace[i]]]
<1> DEFINE flat == FlattenSeq(parts)
<1>1. StudyInv /\ ArmsInv /\ SettingsInv /\ AllWritten /\ study \in Experiments
  BY DEF Finished, StudyInv
<1>2. PICK n \in Nat : Scripts = 1 .. n
  BY <1>1, ScriptsCounted DEF Scripts
<1>3. parts = [a \in 1 .. n |-> artifacts[a]]
  BY <1>2 DEF InPlace
<1>4. \A a \in Scripts : Asserted(study, a, artifacts[a]) /\ artifacts[a] \in Seq(Recorded)
  <2> SUFFICES ASSUME NEW a \in Scripts
               PROVE  Asserted(study, a, artifacts[a]) /\ artifacts[a] \in Seq(Recorded)
    OBVIOUS
  <2>1. Asserted(study, a, artifacts[a])
    BY <1>1 DEF AllWritten, ArmsInv
  <2> DEFINE S == ToSet(artifacts[a])
  <2>2. S \subseteq Recorded /\ artifacts[a] \in Seq(S)
    BY <2>1 DEF Recorded, Asserted
  <2> HIDE DEF S
  <2> QED
    BY <2>1, <2>2
<1>5. RecordsIn(InPlace) = [p \in DOMAIN flat |-> RecordOf(flat[p])]
  BY DEF RecordsIn, RecordsOf
<1> HIDE DEF parts
<1>6. parts \in [1 .. n -> Seq(Recorded)]
  BY <1>2, <1>3, <1>4
<1>7. parts \in Seq(Seq(Recorded)) /\ Len(parts) = n
  BY <1>6, FunctionIsSequence
<1>8. flat \in Seq(Recorded) /\ \E which, where : Laid(flat, parts, n, which, where)
  BY <1>7, FlattenLays
<1> HIDE DEF flat
<1>9. PICK which, where : Laid(flat, parts, n, which, where)
  BY <1>8
<1>10. DOMAIN FinalRecords = DOMAIN flat /\ \A p \in DOMAIN flat : FinalRecords[p] = RecordOf(flat[p])
  BY <1>5 DEF FinalRecords
<1>11. \E m \in Nat : DOMAIN FinalRecords = 1 .. m /\ Len(FinalRecords) = m
  <2>1. Len(RecordsOf(flat)) = Len(flat) /\ DOMAIN RecordsOf(flat) = DOMAIN flat
    BY <1>8, RecordsLength
  <2>2. FinalRecords = RecordsOf(flat)
    BY <1>5 DEF FinalRecords, RecordsOf
  <2>3. Len(flat) \in Nat /\ DOMAIN flat = 1 .. Len(flat)
    BY <1>8, LenProperties
  <2> QED
    BY <2>1, <2>2, <2>3
<1>12. ASSUME NEW p \in DOMAIN flat
       PROVE  /\ which[p] \in 1 .. n /\ which[p] \in Scripts /\ which[p] \in ScriptsOf(study)
              /\ where[p] \in DOMAIN artifacts[which[p]] /\ where[p] \in Nat
              /\ flat[p] = artifacts[which[p]][where[p]]
              /\ flat[p] \in ToSet(artifacts[which[p]])
              /\ Treated(study, which[p], flat[p].trial)
  <2>1. which[p] \in 1 .. n /\ where[p] \in Nat /\ where[p] \in DOMAIN parts[which[p]]
        /\ flat[p] = parts[which[p]][where[p]]
    BY <1>9, <1>12 DEF Laid
  <2>2. parts[which[p]] = artifacts[which[p]] /\ which[p] \in Scripts
    BY <1>2, <1>3, <2>1
  <2>3. flat[p] \in ToSet(artifacts[which[p]])
    BY <2>1, <2>2 DEF ToSet
  <2>4. Treated(study, which[p], flat[p].trial)
    BY <1>1, <2>2, <2>3, EntryAt
  <2> QED
    BY <2>1, <2>2, <2>3, <2>4 DEF Scripts
<1>13. ASSUME NEW p \in DOMAIN flat, NEW q \in DOMAIN flat, flat[p].trial = flat[q].trial
       PROVE  p = q
  <2>1. which[p] = which[q]
    BY <1>1, <1>12, <1>13, ArmsApart
  <2>2. where[p] = where[q]
    BY <1>4, <1>12, <1>13, <2>1, OnePlace
  <2>3. p \in Nat /\ q \in Nat
    BY <1>8, LenProperties
  <2>4. ~(p < q) /\ ~(q < p)
    BY <1>9, <1>12, <2>1, <2>2 DEF Laid
  <2> QED
    BY <2>3, <2>4
<1>14. ASSUME NEW p \in DOMAIN FinalRecords, NEW q \in DOMAIN FinalRecords,
              FinalRecords[p].trial = FinalRecords[q].trial
       PROVE  p = q
  <2>1. FinalRecords[p].trial = flat[p].trial /\ FinalRecords[q].trial = flat[q].trial
    BY <1>10, RecordTells
  <2> QED
    BY <1>10, <1>13, <1>14, <2>1
<1> QED
  BY <1>11, <1>14

LEMMA TrialsOnce ==
  ASSUME Finished, NEW o \in FinalObservations, NEW p \in FinalObservations, o.trial = p.trial
  PROVE  o = p
<1>1. StudyInv /\ ArmsInv /\ SettingsInv /\ AllWritten /\ study \in Experiments
  BY DEF Finished, StudyInv
<1>2. \A r \in FinalObservations : \E a \in Scripts : \E x \in ToSet(artifacts[a]) :
        r = Observation(RecordOf(x))
  <2> DEFINE O == ObservationsOf(RecordsIn(InPlace))
  <2>1. /\ \A r \in O : \E a \in Scripts : \E x \in ToSet(artifacts[a]) : r = Observation(RecordOf(x))
        /\ \A a \in Scripts : \A x \in ToSet(artifacts[a]) : Observation(RecordOf(x)) \in O
    BY <1>1, AllHanded, ObservationsGathered
  <2>2. FinalObservations = O
    BY DEF FinalObservations, FinalRecords
  <2> HIDE DEF O
  <2> QED
    BY <2>1, <2>2
<1>3. PICK a \in Scripts : \E x \in ToSet(artifacts[a]) : o = Observation(RecordOf(x))
  BY <1>2
<1>4. PICK x \in ToSet(artifacts[a]) : o = Observation(RecordOf(x))
  BY <1>3
<1>5. PICK b \in Scripts : \E y \in ToSet(artifacts[b]) : p = Observation(RecordOf(y))
  BY <1>2
<1>6. PICK y \in ToSet(artifacts[b]) : p = Observation(RecordOf(y))
  BY <1>5
<1>7. o.trial = x.trial /\ p.trial = y.trial
  <2>1. Tells(o, RecordOf(x)) /\ Tells(p, RecordOf(y))
    BY <1>1, <1>4, <1>6, ObservationTells
  <2> QED
    BY <2>1, RecordTells DEF Tells
<1>8. Treated(study, a, x.trial) /\ Treated(study, b, y.trial)
  BY <1>1, EntryAt
<1>9. a = b
  BY <1>1, <1>7, <1>8, ArmsApart DEF Scripts
<1>10. Asserted(study, a, artifacts[a])
  BY <1>1 DEF AllWritten, ArmsInv
<1>11. x = y
  BY <1>7, <1>9, <1>10, OneEntry
<1> QED
  BY <1>4, <1>6, <1>11

\* As many records as there are scenarios in all arms, each of a trial of its own.
LEMMA RecordsCounted ==
  ASSUME Finished
  PROVE  /\ Cardinality({o.trial : o \in FinalObservations}) = Len(FinalRecords)
         /\ Len(FinalRecords) = Len(Cohort) * Cardinality(ToSet(Levels[study]))
<1> DEFINE T == {o.trial : o \in FinalObservations}
<1> DEFINE f == [p \in DOMAIN FinalRecords |-> FinalRecords[p].trial]
<1>1. study \in Experiments /\ Grid(FinalObservations)
  BY FinishedGrid DEF Finished, StudyInv
<1>2. Cardinality(T) = Len(Cohort) * Cardinality(ToSet(Levels[study]))
  <2>1. \A o, p \in FinalObservations : o["trial"] = p["trial"] => o = p
    BY TrialsOnce
  <2>2. Cardinality({o["trial"] : o \in FinalObservations})
          = Len(Cohort) * Cardinality(ToSet(Levels[study]))
    BY <1>1, <2>1, GridCounted
  <2> QED
    BY <2>2
<1>3. PICK n \in Nat : DOMAIN FinalRecords = 1 .. n /\ Len(FinalRecords) = n
  BY RecordsOnce
<1>4. FinalObservations = {Observation(FinalRecords[p]) : p \in DOMAIN FinalRecords}
  BY DEF FinalObservations, ObservationsOf
<1>5. \A p \in DOMAIN FinalRecords : Observation(FinalRecords[p]).trial = FinalRecords[p].trial
  BY <1>1, ObservationTells DEF Tells
<1>6. \A p \in DOMAIN FinalRecords : FinalRecords[p].trial \in T
  BY <1>4, <1>5
<1>7. \A t \in T : \E p \in DOMAIN FinalRecords : FinalRecords[p].trial = t
  BY <1>4, <1>5
<1> HIDE DEF T
<1>8. f \in Bijection(1 .. n, T)
  <2>1. f \in [1 .. n -> T]
    BY <1>3, <1>6
  <2>2. \A p, q \in 1 .. n : f[p] = f[q] => p = q
    BY <1>3, RecordsOnce
  <2>3. \A t \in T : \E p \in 1 .. n : f[p] = t
    BY <1>3, <1>7
  <2> HIDE DEF f
  <2> QED
    BY <2>1, <2>2, <2>3 DEF Bijection, Injection, Surjection, IsInjective
<1>9. IsFiniteSet(1 .. n) /\ Cardinality(1 .. n) = n
  <2>1. \A m \in Nat : IsFiniteSet(1 .. m) /\ Cardinality(1 .. m) = m
    BY FS_Interval
  <2> QED
    BY <2>1
<1> HIDE DEF f
<1>10. Cardinality(T) = n
  BY <1>8, <1>9, FS_Bijection DEF ExistsBijection
<1> QED
  BY <1>2, <1>3, <1>10 DEF T

\* Every scenario is heard of in every arm.
LEMMA AllCovered ==
  ASSUME Finished
  PROVE  \A s \in ToSet(Cohort), c \in ToSet(Levels[study]) :
           \E o \in FinalObservations :
             o.scenario = s.id /\ o.arm = c /\ o.difficulty = s.difficulty
<1> SUFFICES ASSUME NEW s \in ToSet(Cohort), NEW c \in ToSet(Levels[study])
             PROVE  \E o \in FinalObservations :
                      o.scenario = s.id /\ o.arm = c /\ o.difficulty = s.difficulty
  OBVIOUS
<1>1. PICK i \in DOMAIN Cohort : s = Cohort[i]
  BY DEF ToSet
<1>2. PICK d \in DOMAIN Levels[study] : c = Levels[study][d]
  BY DEF ToSet
<1>3. PICK o \in FinalObservations : Located(o, i, d)
  BY FinishedGrid DEF Grid
<1> QED
  BY <1>1, <1>2, <1>3 DEF Located

LEMMA FinishedComplete ==
  ASSUME Finished, NEW arms, ToSet(arms) = ToSet(Levels[study]),
         Len(arms) = Cardinality(ToSet(Levels[study]))
  PROVE  Complete(FinalRecords, FinalObservations, Cohort, arms)
<1>1. Len(FinalRecords) = Len(Cohort) * Len(arms)
  BY RecordsCounted
<1>2. Cardinality({o.trial : o \in FinalObservations}) = Len(FinalRecords)
  BY RecordsCounted
<1>3. \A s \in ToSet(Cohort), a \in ToSet(arms) :
        \E o \in FinalObservations : o.scenario = s.id /\ o.arm = a
  BY AllCovered
<1> QED
  BY <1>1, <1>2, <1>3 DEF Complete

\* The arms of each study, as its report script lists them.
LEMMA ArmsListed ==
  ASSUME study \in Experiments
  PROVE  /\ study = "tool_order" => Levels[study] = ToolOrderArms
         /\ study = "passive_vs_verification" => Levels[study] = EvidenceArms
         /\ study = "compound_handling" => Levels[study] = StoppingArms
         /\ study = "temporal_reasoning" => Levels[study] = TemporalArms
         /\ study = "investigation_budget" => Levels[study] = Budgets
         /\ study = "planning_difficulty" => Levels[study] = PlanningArms
         /\ Len(Levels[study]) = Cardinality(ToSet(Levels[study]))
<1>1. /\ study = "tool_order" => Levels[study] = ToolOrderArms
      /\ study = "passive_vs_verification" => Levels[study] = EvidenceArms
      /\ study = "compound_handling" => Levels[study] = StoppingArms
  BY DEF Levels, ToolOrderArms, EvidenceArms, StoppingArms
<1>2. /\ study = "temporal_reasoning" => Levels[study] = TemporalArms
      /\ study = "investigation_budget" => Levels[study] = Budgets
      /\ study = "planning_difficulty" => Levels[study] = PlanningArms
  BY DEF Levels, TemporalArms, Budgets, PlanningArms
<1>3. \E n \in Nat : DOMAIN Levels[study] = 1 .. n /\ Len(Levels[study]) = n
  <2>1. \E n \in {2, 4} : DOMAIN Levels[study] = 1 .. n /\ Len(Levels[study]) = n
    <3>1. CASE study \in {"tool_order", "investigation_budget"}
      BY <3>1 DEF Levels
    <3>2. CASE study \notin {"tool_order", "investigation_budget"}
      BY <3>2, TheExperiments DEF Levels
    <3> QED
      BY <3>1, <3>2
  <2> QED
    BY <2>1
<1>4. Cardinality(ToSet(Levels[study])) = Cardinality(DOMAIN Levels[study])
  BY LevelsListed
<1>5. Len(Levels[study]) = Cardinality(ToSet(Levels[study]))
  <2>1. PICK n \in Nat : DOMAIN Levels[study] = 1 .. n /\ Len(Levels[study]) = n
    BY <1>3
  <2>2. \A m \in Nat : Cardinality(1 .. m) = m
    BY FS_Interval
  <2> QED
    BY <1>4, <2>1, <2>2
<1> QED
  BY <1>1, <1>2, <1>5

\* The script of an arm has an entry for every scenario and no other.
LEMMA ArmEach ==
  ASSUME Finished, study # "investigation_budget", NEW a \in Scripts
  PROVE  Len(artifacts[a]) = Len(Cohort)
<1> DEFINE T == {x.trial : x \in ToSet(artifacts[a])}
<1> DEFINE f == [i \in DOMAIN Cohort |-> TrialOf(study, a, Cohort[i])]
<1>1. /\ StudyInv /\ ArmsInv /\ SettingsInv /\ RepeatInv /\ StartedInv /\ AllWritten
      /\ study \in Experiments /\ Asserted(study, a, artifacts[a])
  BY DEF Finished, StudyInv, ArmsInv, AllWritten
<1>2. a \in DOMAIN Levels[study]
  BY <1>1, PlansSpan DEF Scripts, ScriptsOf, Spans
<1>3. \A i \in DOMAIN Cohort : f[i] \in T
  <2> SUFFICES ASSUME NEW i \in DOMAIN Cohort
               PROVE  f[i] \in T
    OBVIOUS
  <2>1. PICK b \in Scripts : \E x \in ToSet(artifacts[b]) :
               b = a /\ x.trial = TrialOf(study, a, Cohort[i])
    BY <1>1, <1>2, ScenarioHeard
  <2>2. PICK x \in ToSet(artifacts[b]) : b = a /\ x.trial = TrialOf(study, a, Cohort[i])
    BY <2>1
  <2>3. f[i] = x.trial /\ x \in ToSet(artifacts[a])
    BY <2>2
  <2> HIDE DEF f
  <2> QED
    BY <2>3
<1>4. \A t \in T : \E i \in DOMAIN Cohort : f[i] = t
  <2> SUFFICES ASSUME NEW x \in ToSet(artifacts[a])
               PROVE  \E i \in DOMAIN Cohort : f[i] = x.trial
    OBVIOUS
  <2>1. PICK i \in DOMAIN Cohort, c \in DOMAIN Levels[study] :
          c = a /\ x.trial = TrialOf(study, c, Cohort[i])
    BY <1>1, EntryAt
  <2> QED
    BY <2>1
<1>5. \A i, j \in DOMAIN Cohort : f[i] = f[j] => i = j
  <2> SUFFICES ASSUME NEW i \in DOMAIN Cohort, NEW j \in DOMAIN Cohort, f[i] = f[j]
               PROVE  i = j
    OBVIOUS
  <2>1. \A s : TrialOf(study, a, s).scenario = s.id
    BY <1>1, <1>2, TrialSays
  <2>2. Cohort[i].id = Cohort[j].id
    BY <2>1
  <2> QED
    BY <1>1, <2>2, CohortListed
<1>6. f = [i \in DOMAIN Cohort |-> f[i]]
  OBVIOUS
<1> HIDE DEF T, f
<1>7. f \in Bijection(DOMAIN Cohort, T)
  <2>1. f \in [DOMAIN Cohort -> T]
    BY <1>3, <1>6
  <2> QED
    BY <1>4, <1>5, <2>1 DEF Bijection, Injection, Surjection, IsInjective
<1>8. IsFiniteSet(DOMAIN Cohort) /\ Cardinality(DOMAIN Cohort) = Len(Cohort)
  BY <1>1, CohortListed
<1>9. Cardinality(T) = Len(Cohort)
  BY <1>7, <1>8, FS_Bijection DEF ExistsBijection
<1>10. Cardinality(T) = Len(artifacts[a])
  BY <1>1, TrialsCounted DEF T
<1> QED
  BY <1>9, <1>10

\* An entry whose agent ran with the settings that were checked.  Where the report compares
\* plans it has one that was not capped, and that no model made where the probes are compared.
AsDeployed(x) ==
  LET s == x.outcome.settings IN
  /\ s = x.outcome.checked
  /\ study \in {"tool_order", "passive_vs_verification"} => ~s.capped /\ x.outcome.plan # NoPlan
  /\ study = "passive_vs_verification" => ~AsksModel(s)

\* The providers behind such an entry are those of its arm.
LEMMA ProvidersTold ==
  ASSUME Finished, NEW a \in Scripts, NEW x \in ToSet(artifacts[a]), AsDeployed(x),
         study \in {"tool_order", "passive_vs_verification"}
  PROVE  LET chain == ChainOf(x.outcome.settings, 0) IN
         /\ chain.cap = 0 /\ ~chain.compound /\ ~chain.temporal
         /\ chain.verified = (study = "passive_vs_verification"
                                /\ Levels[study][a] = "verification_enabled")
         /\ chain.order = IF study = "tool_order" THEN Levels[study][a] ELSE "none"
<1> DEFINE s == x.outcome.settings
<1> DEFINE b == IF study = "investigation_budget" THEN 1 ELSE a
<1> DEFINE d == Deployed(study, b)
<1>1. StudyInv /\ study \in Experiments /\ a \in ScriptsOf(study)
  BY DEF Finished, StudyInv, Scripts
<1>2. b \in ScriptsOf(study)
  BY <1>1 DEF ScriptsOf
<1>3. [s EXCEPT !.capped = FALSE, !.depth = 20, !.llm = "local", !.limits = "shipped"] = d
  BY <1>1, UnderTreatment DEF AsDeployed, RecordsUnderTreatment
<1>4. s \in Settings
  <2>1. s \in Backends
    BY EntryAt DEF Finished
  <2> QED
    BY <2>1, BackendsAreSettings
<1> DEFINE v == ValuesOf(PlanOf[study])[b]
<1>5. /\ d.temporal = IF study = "temporal_reasoning" THEN v ELSE "standard"
      /\ d.order = IF study = "tool_order" THEN v ELSE "free"
      /\ d.ordered = (study = "tool_order")
      /\ d.evidence = IF study = "passive_vs_verification" THEN v ELSE "passive_only"
      /\ d.compound = (study = "compound_handling")
  <2> HIDE DEF b
  <2> QED
    BY <1>1, <1>2, DeployedSettings, ZenonT(60)
<1>6. study # "investigation_budget" => v = Levels[study][a]
  BY <1>1, ArmValues
<1> HIDE DEF s, d, v
<1>7. /\ s.temporal = d.temporal /\ s.order = d.order /\ s.ordered = d.ordered
      /\ s.evidence = d.evidence /\ s.compound = d.compound
  BY <1>3, <1>4 DEF Settings
<1>8. ~s.capped
  BY DEF AsDeployed, s
<1>9. /\ ChainOf(s, 0).cap = 0 /\ ChainOf(s, 0).compound = s.compound
      /\ ChainOf(s, 0).temporal = (s.temporal = "explicit_cause_effect")
      /\ ChainOf(s, 0).verified = (s.evidence = "verification_enabled")
      /\ ChainOf(s, 0).order = IF s.ordered THEN s.order ELSE "none"
  BY <1>8 DEF ChainOf
<1> DEFINE chain == ChainOf(s, 0)
<1>10. /\ chain.cap = 0 /\ ~chain.compound /\ ~chain.temporal
       /\ chain.verified = (study = "passive_vs_verification"
                              /\ Levels[study][a] = "verification_enabled")
       /\ chain.order = IF study = "tool_order" THEN Levels[study][a] ELSE "none"
  <2>1. ~d.compound /\ d.temporal = "standard"
    BY <1>5
  <2>2. ~chain.compound /\ ~chain.temporal
    BY <1>7, <1>9, <2>1
  <2> QED
    BY <1>5, <1>6, <1>7, <1>9, <2>2
<1> QED
  BY <1>10 DEF s

\* What an agent plans that ran as its backend was deployed, in the studies that compare
\* plans.
LEMMA PlanTold ==
  ASSUME Finished, NEW a \in Scripts, NEW x \in ToSet(artifacts[a]), AsDeployed(x),
         study \in {"tool_order", "passive_vs_verification"}
  PROVE  LET plan == RecordOf(x).plan
             incident == x.scenario.incident
         IN /\ incident \in Incidents /\ plan \in Seq(Steps) /\ Distinct(plan)
            /\ study = "tool_order" =>
                 \E base : /\ Ordered(base, incident)
                           /\ plan = ControlledOrder(base, Levels[study][a], incident)
            /\ study = "passive_vs_verification" =>
                 plan = IF Levels[study][a] = "verification_enabled"
                        THEN Verified(BaselinePlan(incident), incident) ELSE BaselinePlan(incident)
<1> DEFINE s == x.outcome.settings
<1> DEFINE chain == ChainOf(s, 0)
<1> DEFINE incident == x.scenario.incident
<1> DEFINE plan == RecordOf(x).plan
<1> DEFINE active == Levels[study][a] = "verification_enabled"
<1>1. /\ StudyInv /\ ArmsInv /\ SettingsInv /\ AllWritten /\ study \in Experiments
      /\ a \in ScriptsOf(study)
  BY DEF Finished, StudyInv, Scripts
<1>2. /\ chain.cap = 0 /\ ~chain.compound /\ ~chain.temporal
      /\ chain.verified = (study = "passive_vs_verification" /\ active)
      /\ chain.order = IF study = "tool_order" THEN Levels[study][a] ELSE "none"
  BY ProvidersTold
<1>3. /\ s \in Backends /\ x.scenario \in AllScenarios
      /\ plan = x.outcome.plan /\ plan \in PlansOf[s][incident]
  <2>1. PICK i \in DOMAIN Cohort, c \in DOMAIN Levels[study] : x.scenario = Cohort[i]
    BY <1>1, EntryAt
  <2>2. x.scenario \in AllScenarios
    BY <1>1, <2>1 DEF ToSet, Cohort, AllScenarios
  <2>3. /\ x.outcome.settings \in Backends /\ RecordOf(x).plan = x.outcome.plan
        /\ x.outcome.plan \in PlansOf[x.outcome.settings][x.scenario.incident]
    BY <1>1, EntryAt
  <2> QED
    BY <2>2, <2>3
<1>4. plan # NoPlan /\ (study = "passive_vs_verification" => ~AsksModel(s))
  BY <1>3 DEF AsDeployed
<1>5. /\ incident \in Incidents
      /\ \/ plan = NoPlan /\ AsksModel(s)
         \/ \E base \in BasesOf(s, incident) :
              Ordered(base, incident) /\ plan = WrappedPlan(ChainOf(s, 0), incident, base)
  <2> HIDE DEF plan, s
  <2> QED
    BY <1>3, PlanBased
<1>6. PICK base \in BasesOf(s, incident) : Ordered(base, incident) /\ plan = WrappedPlan(chain, incident, base)
  BY <1>4, <1>5
<1>7. study = "passive_vs_verification" => base = BaselinePlan(incident)
  BY <1>4, <1>6 DEF BasesOf
<1> HIDE DEF plan, chain, incident, s
<1>8. base \in Seq(PlainSteps) /\ Distinct(base)
  BY <1>6 DEF Ordered
<1>9. plan \in Seq(Steps) /\ Distinct(plan)
  <2>1. chain.cap \in Nat
    BY <1>2
  <2> QED
    BY <1>5, <1>6, <1>8, <2>1, WrappedSound
<1>10. ASSUME study = "tool_order"
       PROVE  plan = ControlledOrder(base, Levels[study][a], incident)
  <2>1. Levels[study][a] \in Orders
    BY <1>1, <1>10, ArmValues
  <2>2. chain.order = Levels[study][a] /\ chain.order # "none"
    BY <1>2, <1>10, <2>1 DEF Orders
  <2>3. ~chain.verified /\ ~(chain.cap > 0) /\ ~chain.temporal /\ ~chain.compound
    <3>1. chain.cap = 0 /\ ~(0 > 0)
      BY <1>2
    <3>2. ~chain.verified /\ ~chain.temporal /\ ~chain.compound
      <4>1. study # "passive_vs_verification"
        BY <1>10
      <4> QED
        BY <1>2, <4>1, Zenon
    <3> QED
      BY <3>1, <3>2, Zenon
  <2> QED
    BY <1>6, <2>2, <2>3 DEF WrappedPlan, When
<1>11. ASSUME study = "passive_vs_verification"
       PROVE  plan = IF active THEN Verified(BaselinePlan(incident), incident) ELSE BaselinePlan(incident)
  <2>1. /\ chain.order = "none" /\ ~(chain.cap > 0) /\ ~chain.temporal /\ ~chain.compound
        /\ chain.verified = active
    <3>1. study # "tool_order"
      BY <1>11
    <3>2. chain.cap = 0 /\ ~(0 > 0)
      BY <1>2
    <3>3. chain.order = "none" /\ ~chain.temporal /\ ~chain.compound
      BY <1>2, <3>1, Zenon
    <3>4. chain.verified = active
      BY <1>2, <1>11
    <3> QED
      BY <3>2, <3>3, <3>4, Zenon
  <2> HIDE DEF active
  <2> QED
    BY <1>6, <1>7, <1>11, <2>1 DEF WrappedPlan, When
<1>12. /\ incident \in Incidents /\ plan \in Seq(Steps) /\ Distinct(plan)
       /\ study = "tool_order" =>
            \E b : Ordered(b, incident) /\ plan = ControlledOrder(b, Levels[study][a], incident)
       /\ study = "passive_vs_verification" =>
            plan = IF active THEN Verified(BaselinePlan(incident), incident) ELSE BaselinePlan(incident)
  BY <1>5, <1>6, <1>9, <1>10, <1>11
<1> QED
  BY <1>12 DEF plan, incident

\* Two questions are never one invocation.
LEMMA DistinctOnce ==
  ASSUME NEW plan \in Seq(Steps), Distinct(plan), plan # <<>>
  PROVE  NothingTwice(plan)
<1> SUFFICES ASSUME NEW i \in DOMAIN plan, NEW j \in DOMAIN plan, i # j,
                    SameInvocation(plan[i], plan[j])
             PROVE  FALSE
  BY DEF NothingTwice
<1>1. plan[i] \in Steps /\ plan[j] \in Steps
  OBVIOUS
<1>2. [plan[i] EXCEPT !.id = plan[j].id] = plan[j]
  BY DEF SameInvocation
<1>3. /\ plan[i].tool = plan[j].tool /\ plan[i].service = plan[j].service
      /\ plan[i].about = plan[j].about
  BY <1>1, <1>2 DEF Steps
<1>4. Question(plan[i]) = Question(plan[j])
  BY <1>3 DEF Question
<1> QED
  BY <1>4 DEF Distinct

\* The calls of a plan, in whatever order it makes them.
LEMMA InvocationsOf ==
  ASSUME NEW plan
  PROVE  Invocations(plan) = {[t EXCEPT !.id = "call"] : t \in ToSet(plan)}
  BY DEF Invocations, ToSet

\* All tool orders plan the same calls, however a model has put the steps.
LEMMA OrdersAlike ==
  ASSUME NEW incident \in Incidents, NEW p, Ordered(p, incident), NEW q, Ordered(q, incident),
         NEW one, NEW other
  PROVE  /\ ControlledOrder(p, one, incident) # <<>>
         /\ Invocations(ControlledOrder(p, one, incident))
              = Invocations(ControlledOrder(q, other, incident))
<1> DEFINE base == BaselinePlan(incident)
<1>1. base \in Seq(PlainSteps) /\ base # <<>> /\ incident.service \in Services
  BY BaselineSound DEF Incidents
<1> HIDE DEF base
<1>2. ToSet(base) # {}
  <2>1. 1 \in DOMAIN base
    BY <1>1, EmptySeq
  <2> QED
    BY <2>1 DEF ToSet
<1> DEFINE Common(r) == CommonStepSet(r, incident.service)
<1> DEFINE all == ToSet(base) \cup {c \in ToSet(ContextSteps(incident.service)) :
                                     \A t \in ToSet(base) : ~SameInvocation(c, t)}
<1>3. ASSUME NEW r, Ordered(r, incident), NEW mode
      PROVE  ToSet(ControlledOrder(r, mode, incident)) = all
  <2>1. r \in Seq(PlainSteps) /\ Distinct(r) /\ ToSet(r) = ToSet(base)
    BY <1>3 DEF Ordered, base
  <2>2. Common(r) \in Seq(PlainSteps) /\ Distinct(Common(r)) /\ ToSet(Common(r)) = all
    BY <1>1, <2>1, CommonSound
  <2>3. ControlledOrder(r, mode, incident) = OrderedSteps(Common(r), mode, incident)
    BY DEF ControlledOrder
  <2> HIDE DEF Common, all
  <2> QED
    BY <2>2, <2>3, OrderedSound
<1>4. all # {}
  BY <1>2
<1> HIDE DEF all
<1>5. /\ ToSet(ControlledOrder(p, one, incident)) = all
      /\ ToSet(ControlledOrder(q, other, incident)) = all
  BY <1>3
<1>6. ControlledOrder(p, one, incident) # <<>>
  <2>1. ToSet(<<>>) = {}
    BY DEF ToSet
  <2> QED
    BY <1>4, <1>5, <2>1
<1>7. Invocations(ControlledOrder(p, one, incident)) = Invocations(ControlledOrder(q, other, incident))
  BY <1>5, InvocationsOf
<1> QED
  BY <1>6, <1>7

\* The probe is the second step of the active plan, and all that the passive one has not.
LEMMA ProbedAlike ==
  ASSUME NEW incident \in Incidents
  PROVE  LET base == BaselinePlan(incident)
             plan == Verified(base, incident)
         IN /\ base # <<>> /\ plan # <<>> /\ Probes(base) = 0 /\ Probes(plan) = 1
            /\ Head(plan) = Head(base) /\ Stripped(plan) = Stripped(base)
<1> DEFINE base == BaselinePlan(incident)
<1> DEFINE probe == VerificationStep(incident)
<1> DEFINE plan == Verified(base, incident)
<1> DEFINE n == Len(base)
<1>1. base \in Seq(PlainSteps) /\ Distinct(base) /\ base # <<>> /\ base \in Seq(Steps)
  BY BaselineSound, PlainAreSteps
<1>2. probe \in Steps /\ IsProbe(probe)
  BY ProbeTyped DEF IsProbe
<1>3. plan = InsertAt(base, 2, probe)
  BY <1>1 DEF Verified
<1> HIDE DEF base, probe
<1>4. n \in Nat /\ 1 <= n /\ DOMAIN base = 1 .. n
  BY <1>1, EmptySeq
<1>5. /\ DOMAIN plan = 1 .. n + 1
      /\ \A i \in 1 .. n + 1 : plan[i] = IF i <= 2 - 1 THEN base[i] ELSE IF i = 2 THEN probe
                                         ELSE base[i - 1]
  <2>1. 2 \in 1 .. n + 1
    BY <1>4
  <2> QED
    BY <1>1, <1>2, <1>3, <2>1, InsertPlaces
<1>6. plan \in Seq(Steps) /\ Len(plan) = n + 1
  BY <1>1, VerifiedSound
<1> HIDE DEF plan, n
<1>7. \A i \in DOMAIN base : ~IsProbe(base[i])
  <2>1. \A s \in PlainSteps : ~IsProbe(s)
    BY DEF PlainSteps, IsProbe, Tools, VerificationTools
  <2>2. \A i \in DOMAIN base : base[i] \in PlainSteps
    BY <1>1
  <2> QED
    BY <2>1, <2>2
<1>8. /\ plan[1] = base[1] /\ plan[2] = probe
      /\ \A k \in 2 .. n : plan[k + 1] = base[k]
  <2>1. 1 \in 1 .. n + 1 /\ 2 \in 1 .. n + 1
    BY <1>4
  <2>2. ASSUME NEW k \in 2 .. n
        PROVE  plan[k + 1] = base[k]
    <3>1. k + 1 \in 1 .. n + 1 /\ ~(k + 1 <= 2 - 1) /\ k + 1 # 2 /\ (k + 1) - 1 = k
      BY <1>4
    <3> QED
      BY <1>5, <3>1
  <2> QED
    BY <1>5, <2>1, <2>2
<1>9. {i \in DOMAIN base : ~IsProbe(base[i])} = DOMAIN base
      /\ {i \in DOMAIN base : IsProbe(base[i])} = {}
  BY <1>7
<1>10. {i \in DOMAIN plan : IsProbe(plan[i])} = {2}
       /\ {i \in DOMAIN plan : ~IsProbe(plan[i])} = (1 .. n + 1) \ {2}
  <2>1. \A i \in 1 .. n + 1 : IsProbe(plan[i]) <=> i = 2
    <3> SUFFICES ASSUME NEW i \in 1 .. n + 1
                 PROVE  IsProbe(plan[i]) <=> i = 2
      OBVIOUS
    <3>1. CASE i = 1
      BY <1>4, <1>7, <1>8, <3>1
    <3>2. CASE i = 2
      BY <1>2, <1>8, <3>2
    <3>3. CASE i # 1 /\ i # 2
      <4>1. i - 1 \in DOMAIN base /\ i - 1 \in 2 .. n /\ (i - 1) + 1 = i
        BY <1>4, <3>3
      <4> QED
        BY <1>7, <1>8, <3>3, <4>1
    <3> QED
      BY <3>1, <3>2, <3>3
  <2>2. 2 \in 1 .. n + 1
    BY <1>4
  <2> QED
    BY <1>5, <2>1, <2>2
<1>11. Probes(base) = 0 /\ Probes(plan) = 1
  BY <1>9, <1>10, FS_EmptySet, FS_Singleton DEF Probes
<1>12. Only(plan, (1 .. n + 1) \ {2}) = base
  <2>1. Only(plan, (1 .. n + 1) \ {2}) = [k \in 1 .. n |-> plan[IF k = 1 THEN 1 ELSE k + 1]]
    BY <1>4, OnlyBut
  <2>2. \A k \in 1 .. n : plan[IF k = 1 THEN 1 ELSE k + 1] = base[k]
    <3> SUFFICES ASSUME NEW k \in 1 .. n
                 PROVE  plan[IF k = 1 THEN 1 ELSE k + 1] = base[k]
      OBVIOUS
    <3>1. CASE k = 1
      BY <1>8, <3>1
    <3>2. CASE k # 1
      <4>1. k \in 2 .. n
        BY <1>4, <3>2
      <4> QED
        BY <1>8, <3>2, <4>1
    <3> QED
      BY <3>1, <3>2
  <2>3. base = [k \in 1 .. n |-> base[k]]
    BY <1>1, <1>4
  <2> QED
    BY <2>1, <2>2, <2>3
<1>13. Only(base, DOMAIN base) = base
  BY <1>1, OnlyAll
<1>14. Stripped(plan) = Stripped(base)
  BY <1>9, <1>10, <1>12, <1>13 DEF Stripped
<1>15. plan # <<>> /\ Head(plan) = Head(base)
  BY <1>1, <1>4, <1>6, <1>8
<1> QED
  BY <1>1, <1>11, <1>14, <1>15 DEF plan, base

\* Every observation is that of an entry for its scenario.
LEMMA ObservedAs ==
  ASSUME Finished, NEW o \in FinalObservations
  PROVE  \E a \in Scripts : \E x \in ToSet(artifacts[a]) :
           /\ o = Observation(RecordOf(x)) /\ x.scenario \in ToSet(Cohort)
           /\ o.scenario = x.scenario.id
<1>1. StudyInv /\ ArmsInv /\ SettingsInv /\ AllWritten
  BY DEF Finished
<1> DEFINE O == ObservationsOf(RecordsIn(InPlace))
<1>2. /\ \A r \in O : \E a \in Scripts : \E x \in ToSet(artifacts[a]) : r = Observation(RecordOf(x))
      /\ \A a \in Scripts : \A x \in ToSet(artifacts[a]) : Observation(RecordOf(x)) \in O
  BY <1>1, AllHanded, ObservationsGathered
<1>3. o \in O
  BY DEF FinalObservations, FinalRecords
<1> HIDE DEF O
<1>4. PICK a \in Scripts : \E x \in ToSet(artifacts[a]) : o = Observation(RecordOf(x))
  BY <1>2, <1>3
<1>5. PICK x \in ToSet(artifacts[a]) : o = Observation(RecordOf(x))
  BY <1>4
<1>6. PICK i \in DOMAIN Cohort, c \in DOMAIN Levels[study] :
        x.scenario = Cohort[i] /\ Located(Observation(RecordOf(x)), i, c)
  BY <1>1, EntryAt
<1>7. x.scenario \in ToSet(Cohort) /\ o.scenario = x.scenario.id
  BY <1>5, <1>6 DEF ToSet, Located
<1> QED
  BY <1>5, <1>7

\* Two scenarios of a cohort have different ids.
LEMMA ScenarioTold ==
  ASSUME Finished, NEW s \in ToSet(Cohort), NEW t \in ToSet(Cohort), s.id = t.id
  PROVE  s = t
<1>1. study \in Experiments
  BY DEF Finished, StudyInv
<1>2. PICK i \in DOMAIN Cohort : s = Cohort[i]
  BY DEF ToSet
<1>3. PICK j \in DOMAIN Cohort : t = Cohort[j]
  BY DEF ToSet
<1> QED
  BY <1>1, <1>2, <1>3, CohortListed

\* Each arm has an entry for each scenario, and the report pairs its observation.
LEMMA HeardOf ==
  ASSUME Finished, study \in Paired, NEW s \in ToSet(Cohort), NEW a \in Scripts
  PROVE  \E x \in ToSet(artifacts[a]) :
           /\ x.scenario = s
           /\ PairedWith(FinalObservations, s.id, Levels[study][a]) = Observation(RecordOf(x))
<1>1. /\ StudyInv /\ ArmsInv /\ SettingsInv /\ RepeatInv /\ StartedInv /\ AllWritten
      /\ study \in Experiments /\ study # "investigation_budget"
  BY DEF Finished, StudyInv, Paired
<1>2. PICK i \in DOMAIN Cohort : s = Cohort[i]
  BY DEF ToSet
<1>3. a \in DOMAIN Levels[study]
  BY <1>1, PlansSpan DEF Scripts, ScriptsOf, Spans
<1>4. PICK b \in Scripts : \E x \in ToSet(artifacts[b]) :
        /\ study # "investigation_budget" => b = a
        /\ x.trial = TrialOf(study, a, Cohort[i]) /\ x.scenario = Cohort[i]
  BY <1>1, <1>3, ScenarioHeard
<1>5. PICK x \in ToSet(artifacts[b]) :
        b = a /\ x.trial = TrialOf(study, a, Cohort[i]) /\ x.scenario = Cohort[i]
  BY <1>1, <1>4
<1>6. x \in ToSet(artifacts[a]) /\ x.scenario = s
  BY <1>2, <1>5
<1>7. x.trial.scenario = s.id
  <2>1. \A t : TrialOf(study, a, t).scenario = t.id
    BY <1>1, <1>3, TrialSays
  <2> QED
    BY <1>2, <1>5, <2>1
<1>8. PairedWith(ObservationsOf(RecordsIn(InPlace)), x.trial.scenario, Levels[study][a])
        = Observation(RecordOf(x))
  BY <1>1, <1>6, AllHanded, PairFound
<1> QED
  BY <1>6, <1>7, <1>8 DEF FinalObservations, FinalRecords

\* All agents of the study ran as their backends were deployed.
AsRun == \A e \in Recorded : AsDeployed(e)

LEMMA OrdersAccepted ==
  ASSUME Finished, AsRun, study = "tool_order"
  PROVE  ToolOrderAccepts(FinalRecords, FinalObservations, Cohort)
<1>1. study \in Experiments
  BY DEF Finished, StudyInv
<1>2. Complete(FinalRecords, FinalObservations, Cohort, ToolOrderArms)
  <2>1. Levels[study] = ToolOrderArms /\ Len(Levels[study]) = Cardinality(ToSet(Levels[study]))
    BY <1>1, ArmsListed
  <2> QED
    BY <2>1, FinishedComplete
<1>3. ASSUME NEW s \in ToSet(Cohort)
      PROVE  Cardinality({o.planned : o \in {r \in FinalObservations : r.scenario = s.id}}) = 1
  <2> DEFINE heard == {r \in FinalObservations : r.scenario = s.id}
  <2> DEFINE asked == Invocations(ControlledOrder(BaselinePlan(s.incident), "free", s.incident))
  <2>1. ASSUME NEW o \in heard
        PROVE  o.planned = asked
    <3>1. PICK a \in Scripts : \E x \in ToSet(artifacts[a]) :
            o = Observation(RecordOf(x)) /\ x.scenario \in ToSet(Cohort) /\ o.scenario = x.scenario.id
      BY ObservedAs
    <3>2. PICK x \in ToSet(artifacts[a]) :
            o = Observation(RecordOf(x)) /\ x.scenario \in ToSet(Cohort) /\ o.scenario = x.scenario.id
      BY <3>1
    <3>3. x.scenario = s
      BY <3>2, ScenarioTold
    <3>4. AsDeployed(x)
      BY <3>2 DEF AsRun, Recorded
    <3> DEFINE plan == RecordOf(x).plan
    <3> DEFINE incident == x.scenario.incident
    <3>5. incident \in Incidents
          /\ \E base : Ordered(base, incident) /\ plan = ControlledOrder(base, Levels[study][a], incident)
      BY <3>4, PlanTold
    <3>6. o.planned = Invocations(plan)
      <4>1. o = ToolOrderObservation(RecordOf(x))
        BY <3>2 DEF Observation
      <4> QED
        BY <4>1, PlannedCalls
    <3> HIDE DEF plan
    <3>7. Ordered(BaselinePlan(incident), incident)
      BY <3>5, BaselineSound DEF Ordered
    <3>8. Invocations(plan) = Invocations(ControlledOrder(BaselinePlan(incident), "free", incident))
      BY <3>5, <3>7, OrdersAlike
    <3> QED
      BY <3>3, <3>6, <3>8
  <2>2. heard # {}
    <3>1. Levels[study][1] \in ToSet(Levels[study])
      BY <1>1, LevelsListed DEF ToSet
    <3> QED
      BY <3>1, AllCovered
  <2> HIDE DEF heard, asked
  <2>3. {o.planned : o \in heard} = {asked}
    BY <2>1, <2>2
  <2> QED
    BY <2>3, FS_Singleton DEF heard
<1> QED
  BY <1>2, <1>3 DEF ToolOrderAccepts

\* What the report of the probes pairs for a scenario in an arm.
LEMMA ProbesPaired ==
  ASSUME Finished, AsRun, study = "passive_vs_verification", NEW s \in ToSet(Cohort),
         NEW a \in Scripts
  PROVE  LET o == PairedWith(FinalObservations, s.id, Levels[study][a])
             base == BaselinePlan(s.incident)
             probes == IF Levels[study][a] = "verification_enabled" THEN 1 ELSE 0
         IN /\ o.probes = probes /\ o.probed = probes
            /\ o.first = Head(base).tool /\ o.passive = Stripped(base)
<1> DEFINE o == PairedWith(FinalObservations, s.id, Levels[study][a])
<1> DEFINE base == BaselinePlan(s.incident)
<1> DEFINE active == Levels[study][a] = "verification_enabled"
<1>1. /\ StudyInv /\ ArmsInv /\ AllWritten /\ study \in Paired /\ study \in Experiments
      /\ study # "investigation_budget" /\ a \in ScriptsOf(study)
  BY DEF Finished, StudyInv, Paired, Scripts
<1>2. PICK x \in ToSet(artifacts[a]) : x.scenario = s /\ o = Observation(RecordOf(x))
  BY <1>1, HeardOf
<1>3. AsDeployed(x)
  BY DEF AsRun, Recorded
<1>4. /\ s.incident \in Incidents
      /\ RecordOf(x).plan = IF active THEN Verified(base, s.incident) ELSE base
  <2>1. /\ x.scenario.incident \in Incidents
        /\ study = "passive_vs_verification" =>
             RecordOf(x).plan = IF Levels[study][a] = "verification_enabled"
                                THEN Verified(BaselinePlan(x.scenario.incident), x.scenario.incident)
                                ELSE BaselinePlan(x.scenario.incident)
    BY <1>3, PlanTold
  <2> QED
    BY <1>2, <2>1
<1>5. o = PassiveObservation(RecordOf(x))
  BY <1>2 DEF Observation
<1>6. /\ o.passive = Stripped(RecordOf(x).plan) /\ o.probes = Probes(RecordOf(x).plan)
      /\ o.probed = Probes(RecordOf(x).history) /\ o.first = Head(RecordOf(x).plan).tool
  <2> HIDE DEF o
  <2> QED
    BY <1>5, PassivePart
<1>7. Probes(RecordOf(x).history) = IF active THEN 1 ELSE 0
  <2>1. ValuesOf(PlanOf[study])[a] = Levels[study][a]
    BY <1>1, ArmValues
  <2>2. PassiveHealthy(RecordOf(x), Levels[study][a])
    BY <1>1, <2>1, RecordsHealthy DEF Healthy
  <2> QED
    BY <2>2 DEF PassiveHealthy
<1>8. LET plan == Verified(base, s.incident) IN
      /\ base # <<>> /\ plan # <<>> /\ Probes(base) = 0 /\ Probes(plan) = 1
      /\ Head(plan) = Head(base) /\ Stripped(plan) = Stripped(base)
  BY <1>4, ProbedAlike
<1> HIDE DEF o, base, active
<1>9. CASE active
  BY <1>4, <1>6, <1>7, <1>8, <1>9 DEF active, o, base
<1>10. CASE ~active
  BY <1>4, <1>6, <1>7, <1>8, <1>10 DEF active, o, base
<1> QED
  BY <1>9, <1>10

LEMMA ProbesAccepted ==
  ASSUME Finished, AsRun, study = "passive_vs_verification"
  PROVE  PassiveAccepts(FinalRecords, FinalObservations, Cohort)
<1>1. study \in Experiments
  BY DEF Finished, StudyInv
<1>2. Complete(FinalRecords, FinalObservations, Cohort, EvidenceArms)
  <2>1. Levels[study] = EvidenceArms /\ Len(Levels[study]) = Cardinality(ToSet(Levels[study]))
    BY <1>1, ArmsListed
  <2> QED
    BY <2>1, FinishedComplete
<1>3. /\ 1 \in Scripts /\ 2 \in Scripts
      /\ Levels[study][1] = "passive_only" /\ Levels[study][2] = "verification_enabled"
  <2>1. DOMAIN Levels[study] = 1 .. 2
    BY DEF Levels
  <2> QED
    BY <1>1, <2>1, PlansSpan DEF Scripts, ScriptsOf, Spans, Levels
<1>4. ASSUME NEW s \in ToSet(Cohort)
      PROVE  LET passive == PairedWith(FinalObservations, s.id, "passive_only")
                 active == PairedWith(FinalObservations, s.id, "verification_enabled")
             IN /\ passive.probes = 0 /\ active.probes = 1
                /\ passive.probed = 0 /\ active.probed = 1
                /\ passive.first = active.first
                /\ passive.passive = active.passive
  <2> DEFINE one == PairedWith(FinalObservations, s.id, Levels[study][1])
  <2> DEFINE other == PairedWith(FinalObservations, s.id, Levels[study][2])
  <2> DEFINE base == BaselinePlan(s.incident)
  <2>1. /\ one.probes = (IF Levels[study][1] = "verification_enabled" THEN 1 ELSE 0)
        /\ one.probed = (IF Levels[study][1] = "verification_enabled" THEN 1 ELSE 0)
        /\ one.first = Head(base).tool /\ one.passive = Stripped(base)
    BY <1>3, ProbesPaired
  <2>2. /\ other.probes = (IF Levels[study][2] = "verification_enabled" THEN 1 ELSE 0)
        /\ other.probed = (IF Levels[study][2] = "verification_enabled" THEN 1 ELSE 0)
        /\ other.first = Head(base).tool /\ other.passive = Stripped(base)
    BY <1>3, ProbesPaired
  <2>3. /\ one = PairedWith(FinalObservations, s.id, "passive_only")
        /\ other = PairedWith(FinalObservations, s.id, "verification_enabled")
    BY <1>3
  <2> HIDE DEF one, other, base
  <2>4. /\ one.probes = 0 /\ other.probes = 1 /\ one.probed = 0 /\ other.probed = 1
        /\ one.first = other.first /\ one.passive = other.passive
    BY <1>3, <2>1, <2>2
  <2> QED
    BY <2>3, <2>4
<1> QED
  BY <1>2, <1>4 DEF PassiveAccepts

LEMMA StoppingAccepted ==
  ASSUME Finished, AsRun, study = "compound_handling"
  PROVE  CompoundAccepts(FinalRecords, FinalObservations, Cohort)
<1>1. StudyInv /\ ArmsInv /\ AllWritten /\ study \in Experiments /\ study \in Paired
  BY DEF Finished, StudyInv, Paired
<1>2. Complete(FinalRecords, FinalObservations, Cohort, StoppingArms)
  <2>1. Levels[study] = StoppingArms /\ Len(Levels[study]) = Cardinality(ToSet(Levels[study]))
    BY <1>1, ArmsListed
  <2> QED
    BY <2>1, FinishedComplete
<1>3. 1 \in Scripts /\ 2 \in Scripts
  <2>1. DOMAIN Levels[study] = 1 .. 2
    BY DEF Levels
  <2> QED
    BY <1>1, <2>1, PlansSpan DEF Scripts, ScriptsOf, Spans
<1> DEFINE ids == [i \in DOMAIN CompoundPlan |-> CompoundPlan[i].id]
<1>4. ASSUME NEW s \in ToSet(Cohort), NEW a \in Scripts
      PROVE  PairedWith(FinalObservations, s.id, Levels[study][a]).steps = ids
  <2> DEFINE o == PairedWith(FinalObservations, s.id, Levels[study][a])
  <2>1. PICK x \in ToSet(artifacts[a]) : o = Observation(RecordOf(x))
    BY <1>1, HeardOf
  <2>2. RecordOf(x).plan = CompoundPlan
    BY <1>1, StepsControlled
  <2>3. o = CompoundObservation(RecordOf(x))
    BY <2>1 DEF Observation
  <2> HIDE DEF o
  <2>4. o.steps = ids
    BY <2>2, <2>3, CompoundPart
  <2> QED
    BY <2>4 DEF o
<1> HIDE DEF ids
<1>5. Levels[study] = StoppingArms
  BY <1>1, ArmsListed
<1>6. \A s \in ToSet(Cohort) :
        PairedWith(FinalObservations, s.id, StoppingArms[1]).steps
          = PairedWith(FinalObservations, s.id, StoppingArms[2]).steps
  BY <1>3, <1>4, <1>5
<1> QED
  BY <1>2, <1>6 DEF CompoundAccepts

LEMMA FinishedAccepted ==
  ASSUME Finished, AsRun
  PROVE  Accepts(FinalRecords, FinalObservations)
<1>1. study \in Experiments
  BY DEF Finished, StudyInv
<1>2. CASE study = "tool_order"
  BY <1>2, OrdersAccepted DEF Accepts
<1>3. CASE study = "passive_vs_verification"
  BY <1>3, ProbesAccepted DEF Accepts
<1>4. CASE study = "compound_handling"
  BY <1>4, StoppingAccepted DEF Accepts
<1>5. CASE study = "temporal_reasoning"
  <2>1. Levels[study] = TemporalArms /\ Len(Levels[study]) = Cardinality(ToSet(Levels[study]))
    BY <1>1, <1>5, ArmsListed
  <2>2. Complete(FinalRecords, FinalObservations, Cohort, TemporalArms)
    BY <2>1, FinishedComplete
  <2> QED
    BY <1>5, <2>2 DEF Accepts, TemporalAccepts
<1>6. CASE study = "investigation_budget"
  <2>1. Levels[study] = Budgets /\ Len(Levels[study]) = Cardinality(ToSet(Levels[study]))
    BY <1>1, <1>6, ArmsListed
  <2>2. Complete(FinalRecords, FinalObservations, Cohort, Budgets)
    BY <2>1, FinishedComplete
  <2> QED
    BY <1>6, <2>2 DEF Accepts, BudgetAccepts
<1>7. CASE study = "planning_difficulty"
  <2>1. Levels[study] = PlanningArms /\ Len(Levels[study]) = Cardinality(ToSet(Levels[study]))
    BY <1>1, <1>7, ArmsListed
  <2>2. Len(FinalRecords) = Len(Cohort) * Len(PlanningArms)
    BY <2>1, RecordsCounted
  <2>3. ASSUME NEW s \in ToSet(Cohort), NEW a \in ToSet(PlanningArms)
        PROVE  {o \in InArm(FinalObservations, a) : o.difficulty = s.difficulty} # {}
    <3>1. PICK o \in FinalObservations : o.arm = a /\ o.difficulty = s.difficulty
      BY <2>1, AllCovered
    <3> QED
      BY <3>1 DEF InArm
  <2>4. PlanningAccepts(FinalRecords, FinalObservations, Cohort)
    BY <2>2, <2>3 DEF PlanningAccepts
  <2> QED
    BY <1>7, <2>4 DEF Accepts
<1> QED
  BY <1>1, <1>2, <1>3, <1>4, <1>5, <1>6, <1>7, TheExperiments

\* Nothing is wrong with any of the records.
LEMMA FinishedObservable ==
  ASSUME Finished, AsRun, NEW a \in Scripts, NEW x \in ToSet(artifacts[a])
  PROVE  Observable(RecordOf(x))
<1> DEFINE record == RecordOf(x)
<1>1. /\ StudyInv /\ ArmsInv /\ SettingsInv /\ AllWritten /\ study \in Experiments
      /\ a \in ScriptsOf(study) /\ AsDeployed(x)
  BY DEF Finished, StudyInv, Scripts, AsRun, Recorded
<1>2. record.status = "completed" /\ record.trial = x.trial
  BY DEF RecordOf
<1>3. study # "planning_difficulty" => ExplicitPlanner(record)
  <2>1. Treated(study, a, x.trial)
    BY <1>1, EntryAt
  <2>2. x.trial.configuration.architecture
          = IF study = "planning_difficulty" THEN ValuesOf(PlanOf[study])[a] ELSE "explicit_planner"
    BY <1>1, <2>1, TreatedConfiguration
  <2> QED
    BY <1>2, <2>2 DEF ExplicitPlanner
<1>4. CASE study \in {"tool_order", "passive_vs_verification"}
  <2> DEFINE incident == x.scenario.incident
  <2> DEFINE base == BaselinePlan(incident)
  <2>1. /\ incident \in Incidents /\ record.plan \in Seq(Steps) /\ Distinct(record.plan)
        /\ study = "tool_order" =>
             \E b : Ordered(b, incident) /\ record.plan = ControlledOrder(b, Levels[study][a], incident)
        /\ study = "passive_vs_verification" =>
             record.plan = IF Levels[study][a] = "verification_enabled"
                           THEN Verified(base, incident) ELSE base
    BY <1>1, <1>4, PlanTold
  <2>2. record.plan # <<>>
    <3>1. \A b : Ordered(b, incident) => ControlledOrder(b, Levels[study][a], incident) # <<>>
      BY <2>1, OrdersAlike
    <3>2. base # <<>> /\ Verified(base, incident) # <<>>
      BY <2>1, ProbedAlike
    <3> HIDE DEF base, record
    <3> QED
      BY <1>4, <2>1, <3>1, <3>2
  <2>3. NothingTwice(record.plan)
    BY <2>1, <2>2, DistinctOnce
  <2>4. ToolOrderObservable(record) /\ PassiveObservable(record)
    <3> HIDE DEF record
    <3> QED
      BY <1>2, <1>3, <1>4, <2>3 DEF ToolOrderObservable, PassiveObservable
  <2> QED
    BY <1>4, <2>4 DEF Observable
<1>5. CASE study = "compound_handling"
  BY <1>1, <1>5, RecordsHealthy DEF Observable, Healthy, CompoundHealthy
<1>6. CASE study = "temporal_reasoning"
  BY <1>2, <1>3, <1>6 DEF Observable, TemporalObservable
<1>7. CASE study = "investigation_budget"
  <2>1. ArmOf(record) \in ToSet(Budgets)
    <3>1. PICK i \in DOMAIN Cohort, c \in DOMAIN Levels[study] : Located(Observation(record), i, c)
      BY <1>1, EntryAt
    <3>2. Observation(record).arm = ArmOf(record)
      BY <1>1, ObservationTells DEF Tells
    <3>3. Levels[study] = Budgets
      BY <1>1, <1>7, ArmsListed
    <3> QED
      BY <3>1, <3>2, <3>3 DEF Located, ToSet
  <2>2. BudgetObservable(record)
    <3> HIDE DEF record
    <3> QED
      BY <1>2, <1>3, <1>7, <2>1 DEF BudgetObservable
  <2> QED
    BY <1>7, <2>2 DEF Observable
<1>8. CASE study = "planning_difficulty"
  BY <1>2, <1>8 DEF Observable, PlanningObservable
<1> QED
  BY <1>1, <1>4, <1>5, <1>6, <1>7, <1>8, TheExperiments

\* The records that the report script counts arm by arm: as many in each as the cohort
\* has scenarios.
LEMMA ArmInPlace ==
  ASSUME Finished, study # "investigation_budget", NEW a \in Scripts
  PROVE  LET arm == RecordsOf(artifacts[InPlace[a]]) IN
         /\ Len(arm) = Len(Cohort) /\ DOMAIN arm = DOMAIN artifacts[a]
         /\ \A i \in DOMAIN arm : arm[i] = RecordOf(artifacts[a][i])
<1> DEFINE arm == RecordsOf(artifacts[InPlace[a]])
<1>1. Len(artifacts[a]) = Len(Cohort) /\ artifacts[InPlace[a]] = artifacts[a]
  BY ArmEach DEF InPlace
<1>2. artifacts[a] \in Seq(ToSet(artifacts[a]))
  BY DEF Finished, AllWritten, ArmsInv, Asserted
<1>3. DOMAIN arm = DOMAIN artifacts[a] /\ Len(arm) = Len(artifacts[a])
  BY <1>1, <1>2, RecordsLength
<1>4. \A i \in DOMAIN artifacts[a] : arm[i] = RecordOf(artifacts[a][i])
  BY <1>1, <1>2, RecordsLength
<1> QED
  BY <1>1, <1>3, <1>4

\* The planning report is handed the artifact of each arm in its place.
LEMMA PlanningArmsTold ==
  ASSUME Finished, study = "planning_difficulty", NEW a \in Scripts, NEW x \in ToSet(artifacts[a])
  PROVE  ArmOf(RecordOf(x)) = PlanningArms[a]
<1>1. StudyInv /\ ArmsInv /\ SettingsInv /\ AllWritten /\ study \in Experiments
  BY DEF Finished, StudyInv
<1> DEFINE o == Observation(RecordOf(x))
<1>2. \E i \in DOMAIN Cohort, c \in DOMAIN Levels[study] : c = a /\ Located(o, i, c)
  BY <1>1, EntryAt
<1>3. o.arm = ArmOf(RecordOf(x))
  BY <1>1, ObservationTells DEF Tells
<1>4. Levels[study] = PlanningArms
  BY <1>1, ArmsListed
<1> HIDE DEF o
<1> QED
  BY <1>2, <1>3, <1>4 DEF Located

\* The trials of the arms together are those of the observations.
LEMMA TrialsHandedIn ==
  ASSUME Finished, study # "investigation_budget"
  PROVE  LET arms == [a \in DOMAIN InPlace |-> RecordsOf(artifacts[InPlace[a]])] IN
         UNION {{arms[a][i].trial : i \in DOMAIN arms[a]} : a \in DOMAIN arms}
           = {o.trial : o \in FinalObservations}
<1> DEFINE arms == [a \in DOMAIN InPlace |-> RecordsOf(artifacts[InPlace[a]])]
<1> DEFINE O == FinalObservations
<1>1. /\ StudyInv /\ ArmsInv /\ AllWritten /\ study \in Experiments
      /\ InPlace \in Handed /\ ToSet(InPlace) = Scripts
  BY AllHanded DEF Finished, StudyInv
<1>2. DOMAIN arms = Scripts
  BY DEF InPlace
<1>3. \A a \in Scripts : /\ DOMAIN arms[a] = DOMAIN artifacts[a]
                         /\ \A i \in DOMAIN arms[a] : arms[a][i].trial = artifacts[a][i].trial
  <2> SUFFICES ASSUME NEW a \in Scripts
               PROVE  /\ DOMAIN arms[a] = DOMAIN artifacts[a]
                      /\ \A i \in DOMAIN arms[a] : arms[a][i].trial = artifacts[a][i].trial
    OBVIOUS
  <2> DEFINE arm == RecordsOf(artifacts[InPlace[a]])
  <2>1. arms[a] = arm
    BY <1>2
  <2>2. /\ Len(arm) = Len(Cohort) /\ DOMAIN arm = DOMAIN artifacts[a]
        /\ \A i \in DOMAIN arm : arm[i] = RecordOf(artifacts[a][i])
    BY ArmInPlace
  <2> HIDE DEF arms, arm
  <2>3. \A i \in DOMAIN arm : arm[i].trial = artifacts[a][i].trial
    BY <2>2, RecordTells
  <2> QED
    BY <2>1, <2>2, <2>3
<1>4. /\ \A o \in O : \E a \in Scripts : \E x \in ToSet(artifacts[a]) : o = Observation(RecordOf(x))
      /\ \A a \in Scripts : \A x \in ToSet(artifacts[a]) : Observation(RecordOf(x)) \in O
  <2> DEFINE Q == ObservationsOf(RecordsIn(InPlace))
  <2>1. /\ \A o \in Q : \E a \in Scripts : \E x \in ToSet(artifacts[a]) : o = Observation(RecordOf(x))
        /\ \A a \in Scripts : \A x \in ToSet(artifacts[a]) : Observation(RecordOf(x)) \in Q
    BY <1>1, ObservationsGathered
  <2>2. O = Q
    BY DEF FinalObservations, FinalRecords
  <2> HIDE DEF O, Q
  <2> QED
    BY <2>1, <2>2
<1>5. \A x : Observation(RecordOf(x)).trial = x.trial
  BY <1>1, ObservationTells, RecordTells DEF Tells
<1> HIDE DEF arms, O
<1>6. ASSUME NEW t \in UNION {{arms[a][i].trial : i \in DOMAIN arms[a]} : a \in DOMAIN arms}
      PROVE  t \in {o.trial : o \in O}
  <2>1. PICK a \in Scripts : \E i \in DOMAIN artifacts[a] : t = artifacts[a][i].trial
    BY <1>2, <1>3
  <2>2. PICK i \in DOMAIN artifacts[a] : t = artifacts[a][i].trial
    BY <2>1
  <2>3. artifacts[a][i] \in ToSet(artifacts[a])
    BY DEF ToSet
  <2>4. Observation(RecordOf(artifacts[a][i])) \in O
    BY <1>4, <2>3
  <2> QED
    BY <1>5, <2>2, <2>4
<1>7. ASSUME NEW t \in {o.trial : o \in O}
      PROVE  t \in UNION {{arms[a][i].trial : i \in DOMAIN arms[a]} : a \in DOMAIN arms}
  <2>1. PICK a \in Scripts : \E x \in ToSet(artifacts[a]) : t = Observation(RecordOf(x)).trial
    BY <1>4
  <2>2. PICK x \in ToSet(artifacts[a]) : t = Observation(RecordOf(x)).trial
    BY <2>1
  <2>3. PICK i \in DOMAIN artifacts[a] : x = artifacts[a][i]
    BY DEF ToSet
  <2>4. i \in DOMAIN arms[a] /\ t = arms[a][i].trial
    BY <1>3, <1>5, <2>2, <2>3
  <2> QED
    BY <1>2, <2>4
<1>8. UNION {{arms[a][i].trial : i \in DOMAIN arms[a]} : a \in DOMAIN arms} = {o.trial : o \in O}
  BY <1>6, <1>7
<1> QED
  BY <1>8 DEF arms, O

LEMMA FinishedArtifacts ==
  ASSUME Finished
  PROVE  RightArtifacts(InPlace)
<1> DEFINE arms == [a \in DOMAIN InPlace |-> RecordsOf(artifacts[InPlace[a]])]
<1>1. study \in Experiments /\ ToSet(InPlace) = Scripts /\ DOMAIN arms = Scripts
  BY AllHanded DEF Finished, StudyInv, InPlace
<1>2. ASSUME study # "investigation_budget", NEW a \in Scripts
      PROVE  /\ Len(arms[a]) = Len(Cohort) /\ DOMAIN arms[a] = DOMAIN artifacts[a]
             /\ \A i \in DOMAIN arms[a] : arms[a][i] = RecordOf(artifacts[a][i])
  <2> DEFINE arm == RecordsOf(artifacts[InPlace[a]])
  <2>1. arms[a] = arm
    BY <1>1
  <2>2. /\ Len(arm) = Len(Cohort) /\ DOMAIN arm = DOMAIN artifacts[a]
        /\ \A i \in DOMAIN arm : arm[i] = RecordOf(artifacts[a][i])
    BY <1>2, ArmInPlace
  <2> HIDE DEF arms, arm
  <2> QED
    BY <2>1, <2>2
<1>3. CASE study = "planning_difficulty"
  <2>1. \A a \in Scripts : \A i \in DOMAIN arms[a] : ArmOf(arms[a][i]) = PlanningArms[a]
    <3> SUFFICES ASSUME NEW a \in Scripts, NEW i \in DOMAIN arms[a]
                 PROVE  ArmOf(arms[a][i]) = PlanningArms[a]
      OBVIOUS
    <3>1. i \in DOMAIN artifacts[a] /\ arms[a][i] = RecordOf(artifacts[a][i])
      BY <1>2, <1>3
    <3>2. artifacts[a][i] \in ToSet(artifacts[a])
      BY <3>1 DEF ToSet
    <3>3. ArmOf(RecordOf(artifacts[a][i])) = PlanningArms[a]
      BY <1>3, <3>2, PlanningArmsTold
    <3> HIDE DEF arms
    <3> QED
      BY <3>1, <3>3
  <2>2. UNION {{arms[a][i].trial : i \in DOMAIN arms[a]} : a \in DOMAIN arms}
          = {o.trial : o \in FinalObservations}
    BY <1>3, TrialsHandedIn
  <2>3. Cardinality({o.trial : o \in FinalObservations}) = Len(Cohort) * Len(PlanningArms)
    <3>1. Levels[study] = PlanningArms /\ Len(Levels[study]) = Cardinality(ToSet(Levels[study]))
      BY <1>1, <1>3, ArmsListed
    <3> QED
      BY <3>1, RecordsCounted
  <2>4. Cardinality(UNION {{arms[a][i].trial : i \in DOMAIN arms[a]} : a \in DOMAIN arms})
          = Len(Cohort) * Len(PlanningArms)
    BY <2>2, <2>3, Zenon
  <2>5. \A a \in DOMAIN arms : Len(arms[a]) = Len(Cohort)
    BY <1>1, <1>2, <1>3
  <2>6. PlanningArtifacts(arms, Cohort)
    <3>1. \A a \in DOMAIN arms : \A i \in DOMAIN arms[a] : ArmOf(arms[a][i]) = PlanningArms[a]
      BY <1>1, <2>1
    <3> HIDE DEF arms
    <3> QED
      BY <2>4, <2>5, <3>1 DEF PlanningArtifacts
  <2> QED
    BY <1>3, <2>6 DEF RightArtifacts
<1>4. CASE study = "compound_handling"
  <2>1. CompoundArms(arms, Cohort)
    BY <1>1, <1>2, <1>4 DEF CompoundArms
  <2> QED
    BY <1>1, <1>4, <2>1 DEF RightArtifacts
<1>5. CASE study # "planning_difficulty" /\ study # "compound_handling"
  BY <1>1, <1>5 DEF RightArtifacts
<1> QED
  BY <1>3, <1>4, <1>5

\* The script raises nothing of a study that has all its artifacts and whose agents ran
\* as they were deployed.
LEMMA FinishedReportable ==
  ASSUME Finished, AsRun
  PROVE  Reportable([a \in Scripts |-> a])
<1>1. /\ StudyInv /\ ArmsInv /\ AllWritten /\ InPlace \in Handed /\ ToSet(InPlace) = Scripts
      /\ FinalRecords = RecordsIn(InPlace)
  BY AllHanded DEF Finished, FinalRecords
<1>2. \A i \in DOMAIN FinalRecords : Observable(FinalRecords[i])
  <2> SUFFICES ASSUME NEW i \in DOMAIN FinalRecords
               PROVE  Observable(FinalRecords[i])
    OBVIOUS
  <2>1. \A p \in DOMAIN RecordsIn(InPlace) : \E a \in Scripts : \E x \in ToSet(artifacts[a]) :
           RecordsIn(InPlace)[p] = RecordOf(x)
    BY <1>1, RecordsGathered
  <2>2. PICK a \in Scripts : \E x \in ToSet(artifacts[a]) : FinalRecords[i] = RecordOf(x)
    BY <1>1, <2>1
  <2>3. PICK x \in ToSet(artifacts[a]) : FinalRecords[i] = RecordOf(x)
    BY <2>2
  <2>4. Observable(RecordOf(x))
    BY FinishedObservable
  <2> QED
    BY <2>3, <2>4
<1>3. RightArtifacts(InPlace)
  BY FinishedArtifacts
<1>4. Accepts(FinalRecords, ObservationsOf(FinalRecords))
  BY FinishedAccepted DEF FinalObservations
<1>5. Reportable(InPlace)
  BY <1>1, <1>2, <1>3, <1>4 DEF Reportable
<1> QED
  BY <1>5 DEF InPlace

\* A study that has all its artifacts can report, if no backend was exchanged between a
\* check and a run, and where plans are compared every run has one that was not capped and,
\* among the probes, not made by a model: the report script raises nothing, for any cohorts,
\* any outcomes, any answers of a model, and any deaths and reruns on the way.
THEOREM FinishedReports == Spec => []FinishedStudiesReport
<1> DEFINE Inv == ArmsInv /\ SettingsInv /\ RunsInv /\ RepeatInv /\ StartedInv
<1>1. Init => Inv
  <2> SUFFICES ASSUME Init
               PROVE  Inv
    OBVIOUS
  <2>1. RunsInv
    BY DEF Init, RunsInv, Apart
  <2> QED
    BY <2>1 DEF Init, ArmsInv, SettingsInv, Plausible, RepeatInv, StartedInv, Running, Idle
<1>2. StudyInv /\ Inv /\ [Next]_vars => Inv'
  BY ArmsStayAsserted, SettingsStay, RunsStayApart, RepeatsStay, StartedStays
<1>3. StudyInv /\ Inv => FinishedStudiesReport
  <2> SUFFICES ASSUME StudyInv, Inv, AllWritten, AsRun
               PROVE  Reportable([a \in Scripts |-> a])
    BY DEF FinishedStudiesReport, AsRun, AsDeployed
  <2>1. Finished
    BY DEF Finished
  <2> QED
    BY <2>1, FinishedReportable
<1> QED
  BY <1>1, <1>2, <1>3, StudyInvariance, PTL DEF Spec

-----------------------------------------------------------------------------
(* What a report compares: a plan shows how the backend reads logs, and whether it probes. *)

Reads(steps, homes, limit, window) ==
  /\ \E t \in steps : t.tool = "search_logs"
  /\ \A t \in steps :
       t.tool = "search_logs" => t.service \in homes /\ t.limit = limit /\ t.window = window

Probing(steps) == \E t \in steps : IsProbe(t)

\* Logs of two services that no plan but the compound one asks for.
Compounded(steps) ==
  \A service \in {"inventory", "worker"} :
    \E t \in steps : t.tool = "search_logs" /\ t.service = service

\* The services whose logs a plan for the incident reads.
Homes(incident) ==
  IF incident.service = "payment" THEN {"payment", "gateway"} ELSE {incident.service}

LEMMA HomesApart ==
  ASSUME NEW incident
  PROVE  ~({"inventory", "worker"} \subseteq Homes(incident))
  BY DEF Homes

LEMMA PlainReads ==
  ASSUME NEW incident \in Incidents
  PROVE  LET steps == ToSet(BaselinePlan(incident)) IN
         Reads(steps, Homes(incident), DefaultLimit, FALSE) /\ ~Probing(steps)
<1> DEFINE service == incident.service
<1> DEFINE plan == BaselinePlan(incident)
<1> DEFINE steps == ToSet(plan)
<1>1. plan \in Seq(PlainSteps) /\ Core(service) \subseteq Questions(plan) /\ service \in Services
  BY BaselineSound DEF Incidents
<1>2. steps \subseteq PlainSteps
  <2> HIDE DEF plan
  <2> QED
    BY <1>1 DEF ToSet
<1>3. \A t \in steps : /\ ~IsProbe(t)
                       /\ t.tool = "search_logs" => t.limit = DefaultLimit /\ t.window = FALSE
  <2> HIDE DEF steps
  <2> QED
    BY <1>2 DEF PlainSteps, IsProbe, VerificationTools, Tools
<1>4. (\A t \in steps : t.tool = "search_logs" => t.service \in Homes(incident))
      /\ \E t \in steps : t.tool = "search_logs"
  <2>1. \A i \in {Logs("checkout-logs", "checkout", "/orders"),
                  Logs("inventory-errors", "inventory", "ERROR"),
                  Logs("worker-errors", "worker", "ERROR"),
                  Logs("payment-warnings", "payment", "WARNING"),
                  Logs("gateway-errors", "gateway", "ERROR"),
                  Logs("service-errors", service, "ERROR")} : i.tool = "search_logs"
    BY DEF Logs, Step
  <2>2. CASE service = "checkout"
    <3>1. PICK middle \in {<<>>, Context} :
            plan = <<Metric("latency", "checkout", "p95_latency")>> \o middle
                     \o <<Metric("db-query-count", "checkout", "db_query_count"),
                          Logs("checkout-logs", "checkout", "/orders")>>
      BY <2>2 DEF BaselinePlan
    <3> DEFINE first == <<Metric("latency", "checkout", "p95_latency")>>
    <3> DEFINE last == <<Metric("db-query-count", "checkout", "db_query_count"),
                         Logs("checkout-logs", "checkout", "/orders")>>
    <3>2. first \in Seq(PlainSteps) /\ middle \in Seq(PlainSteps) /\ last \in Seq(PlainSteps)
      <4>1. /\ Metric("latency", "checkout", "p95_latency") \in PlainSteps
            /\ Deployment("deployment", "checkout") \in PlainSteps /\ Diff("git-diff") \in PlainSteps
            /\ Metric("db-query-count", "checkout", "db_query_count") \in PlainSteps
            /\ Logs("checkout-logs", "checkout", "/orders") \in PlainSteps
        BY StepPlain DEF Ids, Services, Abouts
      <4>2. first \in Seq(PlainSteps) /\ last \in Seq(PlainSteps)
        BY <4>1, ShortSequences
      <4>3. Context \in Seq(PlainSteps) /\ <<>> \in Seq(PlainSteps)
        BY <4>1, ShortSequences, EmptySeq DEF Context
      <4> HIDE DEF first, last
      <4> QED
        BY <4>2, <4>3
    <3>3. /\ ToSet(first) = {Metric("latency", "checkout", "p95_latency")}
          /\ ToSet(middle) \subseteq {Deployment("deployment", "checkout"), Diff("git-diff")}
          /\ ToSet(last) = {Metric("db-query-count", "checkout", "db_query_count"),
                            Logs("checkout-logs", "checkout", "/orders")}
      BY DEF ToSet, Context
    <3>4. plan = (first \o middle) \o last
      BY <3>1
    <3> HIDE DEF first, last, plan
    <3>5. first \o middle \in Seq(PlainSteps)
      BY <3>2, ConcatProperties
    <3>6. steps = ToSet(first) \cup ToSet(middle) \cup ToSet(last)
      <4>1. ToSet((first \o middle) \o last) = ToSet(first \o middle) \cup ToSet(last)
        BY <3>2, <3>5, ConcatElements
      <4>2. ToSet(first \o middle) = ToSet(first) \cup ToSet(middle)
        BY <3>2, ConcatElements
      <4> QED
        BY <3>4, <4>1, <4>2
    <3> HIDE DEF steps
    <3>7. \A t \in steps : \/ t = Logs("checkout-logs", "checkout", "/orders")
                           \/ t.tool # "search_logs"
      BY <3>3, <3>6 DEF Metric, Deployment, Diff, Step
    <3>8. Logs("checkout-logs", "checkout", "/orders") \in steps
      BY <3>3, <3>6
    <3>9. Logs("checkout-logs", "checkout", "/orders").service = "checkout"
      BY DEF Logs, Step
    <3> QED
      BY <2>1, <2>2, <3>7, <3>8, <3>9 DEF Homes
  <2>3. CASE service = "inventory"
    <3>1. plan = <<Metric("db-connections", "inventory", "db_connections"),
                   Logs("inventory-errors", "inventory", "ERROR")>>
      BY <2>3 DEF BaselinePlan
    <3>2. steps = {Metric("db-connections", "inventory", "db_connections"),
                   Logs("inventory-errors", "inventory", "ERROR")}
      BY <3>1 DEF ToSet
    <3> QED
      BY <2>1, <2>3, <3>2 DEF Homes, Metric, Logs, Step
  <2>4. CASE service = "worker"
    <3>1. plan = <<Metric("disk", "worker", "disk_usage"),
                   Metric("memory", "worker", "memory_usage"),
                   Metric("restarts", "worker", "container_restarts"),
                   Logs("worker-errors", "worker", "ERROR")>>
      BY <2>4 DEF BaselinePlan
    <3>2. steps = {Metric("disk", "worker", "disk_usage"),
                   Metric("memory", "worker", "memory_usage"),
                   Metric("restarts", "worker", "container_restarts"),
                   Logs("worker-errors", "worker", "ERROR")}
      BY <3>1 DEF ToSet
    <3> QED
      BY <2>1, <2>4, <3>2 DEF Homes, Metric, Logs, Step
  <2>5. CASE service = "payment"
    <3>1. plan = <<Logs("payment-warnings", "payment", "WARNING"),
                   Logs("gateway-errors", "gateway", "ERROR")>>
      BY <2>5 DEF BaselinePlan
    <3>2. steps = {Logs("payment-warnings", "payment", "WARNING"),
                   Logs("gateway-errors", "gateway", "ERROR")}
      BY <3>1 DEF ToSet
    <3> QED
      BY <2>1, <2>5, <3>2 DEF Homes, Logs, Step
  <2>6. CASE service \notin {"checkout", "inventory", "worker", "payment"}
    <3>1. plan = <<Metric("error-rate", service, "error_rate"),
                   Logs("service-errors", service, "ERROR")>>
      BY <2>6 DEF BaselinePlan
    <3>2. steps = {Metric("error-rate", service, "error_rate"),
                   Logs("service-errors", service, "ERROR")}
      BY <3>1 DEF ToSet
    <3> QED
      BY <2>1, <2>6, <3>2 DEF Homes, Metric, Logs, Step
  <2> QED
    BY <2>2, <2>3, <2>4, <2>5, <2>6
<1> HIDE DEF steps
<1>5. Reads(steps, Homes(incident), DefaultLimit, FALSE) /\ ~Probing(steps)
  BY <1>3, <1>4 DEF Reads, Probing
<1> QED
  BY <1>5 DEF steps

\* A step of a plan that a decorator has changed is like the one it was.
LEMMA CappedReads ==
  ASSUME NEW plan, NEW max \in Nat, NEW homes, NEW limit \in Nat, NEW window,
         Reads(ToSet(plan), homes, limit, window)
  PROVE  /\ Reads(ToSet(Capped(plan, max)), homes, IF limit > max THEN max ELSE limit, window)
         /\ Probing(ToSet(Capped(plan, max))) <=> Probing(ToSet(plan))
<1> DEFINE other == Capped(plan, max)
<1> DEFINE least == IF limit > max THEN max ELSE limit
<1>1. DOMAIN other = DOMAIN plan
  BY DEF Capped
<1>2. ASSUME NEW i \in DOMAIN plan, plan[i].tool = "search_logs"
      PROVE  /\ other[i].tool = "search_logs" /\ other[i].service = plan[i].service
             /\ other[i].limit = least /\ other[i].window = plan[i].window
  <2>1. plan[i].limit = limit
    BY <1>2 DEF Reads, ToSet
  <2>2. other[i] = IF limit > max THEN [plan[i] EXCEPT !.limit = max] ELSE plan[i]
    BY <1>2, <2>1 DEF Capped
  <2> QED
    BY <1>2, <2>1, <2>2
<1>3. \A i \in DOMAIN plan : plan[i].tool # "search_logs" => other[i] = plan[i]
  BY DEF Capped
<1> HIDE DEF other, least
<1>4. \A i \in DOMAIN plan : plan[i].tool = "search_logs" =>
        plan[i].service \in homes /\ plan[i].window = window
  BY DEF Reads, ToSet
<1>5. \E i \in DOMAIN plan : plan[i].tool = "search_logs"
  BY DEF Reads, ToSet
<1>6. Reads(ToSet(other), homes, least, window)
  BY <1>1, <1>2, <1>3, <1>4, <1>5 DEF Reads, ToSet
<1>7. \A i \in DOMAIN plan : IsProbe(other[i]) <=> IsProbe(plan[i])
  BY <1>2, <1>3 DEF IsProbe, VerificationTools
<1>8. Probing(ToSet(other)) <=> Probing(ToSet(plan))
  BY <1>1, <1>7 DEF Probing, ToSet
<1> QED
  BY <1>6, <1>8 DEF other, least

LEMMA WindowedReads ==
  ASSUME NEW plan, NEW homes, NEW limit, NEW window, Reads(ToSet(plan), homes, limit, window),
         plan \in Seq(Steps)
  PROVE  /\ Reads(ToSet(Windowed(plan)), homes, limit, TRUE)
         /\ Probing(ToSet(Windowed(plan))) <=> Probing(ToSet(plan))
<1> DEFINE other == Windowed(plan)
<1>1. DOMAIN other = DOMAIN plan
  BY DEF Windowed
<1>2. ASSUME NEW i \in DOMAIN plan
      PROVE  /\ other[i].tool = plan[i].tool /\ other[i].service = plan[i].service
             /\ other[i].limit = plan[i].limit
             /\ plan[i].tool = "search_logs" => other[i].window = TRUE
  <2>1. other[i] = IF plan[i].tool \in {"query_metrics", "search_logs"}
                   THEN [plan[i] EXCEPT !.window = TRUE] ELSE plan[i]
    BY DEF Windowed
  <2>2. plan[i] \in Steps
    OBVIOUS
  <2>3. \A t \in Steps : LET u == [t EXCEPT !.window = TRUE] IN
          u.tool = t.tool /\ u.service = t.service /\ u.limit = t.limit /\ u.window = TRUE
    BY DEF Steps
  <2> HIDE DEF other
  <2> QED
    BY <2>1, <2>2, <2>3
<1> HIDE DEF other
<1>3. \A i \in DOMAIN plan : plan[i].tool = "search_logs" =>
        plan[i].service \in homes /\ plan[i].limit = limit
  BY DEF Reads, ToSet
<1>4. \E i \in DOMAIN plan : plan[i].tool = "search_logs"
  BY DEF Reads, ToSet
<1>5. Reads(ToSet(other), homes, limit, TRUE)
  <2>1. \E i \in DOMAIN other : other[i].tool = "search_logs"
    BY <1>1, <1>2, <1>4
  <2>2. \A i \in DOMAIN other : other[i].tool = "search_logs" =>
          other[i].service \in homes /\ other[i].limit = limit /\ other[i].window = TRUE
    BY <1>1, <1>2, <1>3
  <2> QED
    BY <2>1, <2>2 DEF Reads, ToSet
<1>6. Probing(ToSet(other)) <=> Probing(ToSet(plan))
  BY <1>1, <1>2 DEF Probing, IsProbe, ToSet
<1> QED
  BY <1>5, <1>6 DEF other

\* The orders of a plan's steps and the context that goes with them read the same.
LEMMA OrderedReads ==
  ASSUME NEW incident \in Incidents, NEW base, Ordered(base, incident), NEW mode
  PROVE  LET plan == ControlledOrder(base, mode, incident) IN
         /\ plan \in Seq(PlainSteps) /\ Distinct(plan)
         /\ Reads(ToSet(plan), Homes(incident), DefaultLimit, FALSE) /\ ~Probing(ToSet(plan))
<1> DEFINE service == incident.service
<1> DEFINE common == CommonStepSet(base, service)
<1> DEFINE plan == ControlledOrder(base, mode, incident)
<1>1. /\ base \in Seq(PlainSteps) /\ Distinct(base) /\ ToSet(base) = ToSet(BaselinePlan(incident))
      /\ service \in Services
  BY DEF Ordered, Incidents
<1>2. /\ common \in Seq(PlainSteps) /\ Distinct(common)
      /\ ToSet(common) = ToSet(base) \cup {c \in ToSet(ContextSteps(service)) :
                                             \A t \in ToSet(base) : ~SameInvocation(c, t)}
  BY <1>1, CommonSound
<1>3. plan = OrderedSteps(common, mode, incident)
  BY DEF ControlledOrder
<1> HIDE DEF common, plan
<1>4. plan \in Seq(PlainSteps) /\ Distinct(plan) /\ ToSet(plan) = ToSet(common)
  BY <1>2, <1>3, OrderedSound
<1>5. \A c \in ToSet(ContextSteps(service)) : c.tool \in {"inspect_deployment", "inspect_git_diff"}
  BY DEF ContextSteps, Deployment, Diff, Step, ToSet
<1>6. \A c \in ToSet(ContextSteps(service)) : ~IsProbe(c) /\ c.tool # "search_logs"
  BY <1>5 DEF IsProbe, VerificationTools
<1>7. /\ Reads(ToSet(base), Homes(incident), DefaultLimit, FALSE)
      /\ ~Probing(ToSet(base))
  BY <1>1, PlainReads
<1>8. \A t \in ToSet(plan) : t \in ToSet(base) \/ t \in ToSet(ContextSteps(service))
  BY <1>2, <1>4
<1>9. Reads(ToSet(plan), Homes(incident), DefaultLimit, FALSE)
  BY <1>2, <1>4, <1>6, <1>7, <1>8 DEF Reads
<1>10. ~Probing(ToSet(plan))
  BY <1>6, <1>7, <1>8 DEF Probing
<1> QED
  BY <1>4, <1>9, <1>10 DEF plan

LEMMA VerifiedReads ==
  ASSUME NEW incident \in Incidents, NEW plan \in Seq(PlainSteps), Distinct(plan),
         NEW homes, NEW limit, NEW window, Reads(ToSet(plan), homes, limit, window)
  PROVE  /\ Reads(ToSet(Verified(plan, incident)), homes, limit, window)
         /\ Probing(ToSet(Verified(plan, incident)))
<1> DEFINE probe == VerificationStep(incident)
<1> DEFINE other == Verified(plan, incident)
<1> DEFINE n == Len(plan)
<1>1. probe \in Steps /\ IsProbe(probe) /\ probe.tool # "search_logs"
  BY ProbeTyped DEF IsProbe, VerificationTools
<1>2. plan \in Seq(Steps) /\ n \in Nat /\ DOMAIN plan = 1 .. n
  BY PlainAreSteps
<1>3. PICK k \in 1 .. n + 1 : other = InsertAt(plan, k, probe)
  BY <1>2, EmptySeq DEF Verified
<1> HIDE DEF probe, other
<1>4. /\ DOMAIN other = 1 .. n + 1
      /\ \A i \in 1 .. n + 1 :
           other[i] = IF i <= k - 1 THEN plan[i] ELSE IF i = k THEN probe ELSE plan[i - 1]
  BY <1>1, <1>2, <1>3, InsertPlaces
<1> HIDE DEF n
<1>5. \A i \in DOMAIN other : other[i] = probe \/ \E j \in DOMAIN plan : other[i] = plan[j]
  <2> SUFFICES ASSUME NEW i \in 1 .. n + 1
               PROVE  other[i] = probe \/ \E j \in DOMAIN plan : other[i] = plan[j]
    BY <1>4
  <2>1. CASE i <= k - 1
    <3>1. i \in 1 .. n
      BY <1>2, <2>1
    <3> QED
      BY <1>2, <1>4, <2>1, <3>1
  <2>2. CASE i = k
    <3>1. ~(i <= k - 1)
      BY <2>2
    <3> QED
      BY <1>4, <2>2, <3>1
  <2>3. CASE ~(i <= k - 1) /\ i # k
    <3>1. i - 1 \in 1 .. n
      BY <1>2, <2>3
    <3> QED
      BY <1>2, <1>4, <2>3, <3>1
  <2> QED
    BY <2>1, <2>2, <2>3
<1>6. \A j \in DOMAIN plan : \E i \in DOMAIN other : other[i] = plan[j]
  <2> SUFFICES ASSUME NEW j \in 1 .. n
               PROVE  \E i \in 1 .. n + 1 : other[i] = plan[j]
    BY <1>2, <1>4
  <2>1. CASE j <= k - 1
    <3>1. j \in 1 .. n + 1
      BY <1>2
    <3> QED
      BY <1>4, <2>1, <3>1
  <2>2. CASE ~(j <= k - 1)
    <3>1. j + 1 \in 1 .. n + 1 /\ ~(j + 1 <= k - 1) /\ j + 1 # k /\ (j + 1) - 1 = j
      BY <1>2, <2>2
    <3> QED
      BY <1>4, <3>1
  <2> QED
    BY <2>1, <2>2
<1>7. \E i \in DOMAIN other : other[i] = probe
  <2>1. ~(k <= k - 1)
    OBVIOUS
  <2> QED
    BY <1>4, <2>1
<1>8. ToSet(other) = ToSet(plan) \cup {probe}
  BY <1>5, <1>6, <1>7 DEF ToSet
<1>9. Reads(ToSet(other), homes, limit, window) /\ Probing(ToSet(other))
  BY <1>1, <1>8 DEF Reads, Probing
<1> QED
  BY <1>9 DEF other

\* What a plan for an incident shows of the backend.
Shows(s, incident, steps) ==
  /\ s.compound => Compounded(steps) /\ ~Probing(steps)
  /\ ~s.compound =>
       /\ Reads(steps, Homes(incident), Depth(s), s.temporal = "explicit_cause_effect")
       /\ Probing(steps) <=> s.evidence = "verification_enabled"

LEMMA CompoundShown == Compounded(ToSet(CompoundPlan)) /\ ~Probing(ToSet(CompoundPlan))
<1> DEFINE one == Logs("inventory-errors", "inventory", "ERROR")
<1> DEFINE other == Logs("worker-errors", "worker", "ERROR")
<1>1. /\ one.tool = "search_logs" /\ one.service = "inventory"
      /\ other.tool = "search_logs" /\ other.service = "worker"
  BY DEF Logs, Step
<1>2. DOMAIN CompoundPlan = 1 .. 10 /\ CompoundPlan[4] = one /\ CompoundPlan[8] = other
  BY DEF CompoundPlan
<1>3. one \in ToSet(CompoundPlan) /\ other \in ToSet(CompoundPlan)
  <2> HIDE DEF one, other
  <2>1. 4 \in 1 .. 10 /\ 8 \in 1 .. 10
    OBVIOUS
  <2> QED
    BY <1>2, <2>1 DEF ToSet
<1>4. \A t \in ToSet(CompoundPlan) : t.tool \in {"query_metrics", "search_logs"}
  BY DEF CompoundPlan, ToSet, Metric, Logs, Step
<1>5. ~Probing(ToSet(CompoundPlan))
  BY <1>4 DEF Probing, IsProbe, VerificationTools
<1> HIDE DEF one, other
<1> QED
  BY <1>1, <1>3, <1>5 DEF Compounded

LEMMA WrappedShows ==
  ASSUME NEW s \in Settings, NEW incident \in Incidents, NEW base, Ordered(base, incident)
  PROVE  Shows(s, incident, ToSet(WrappedPlan(ChainOf(s, 0), incident, base)))
<1> DEFINE chain == ChainOf(s, 0)
<1> DEFINE homes == Homes(incident)
<1> DEFINE ordered == When(chain.order # "none", ControlledOrder(base, chain.order, incident), base)
<1> DEFINE verified == When(chain.verified, Verified(ordered, incident), ordered)
<1> DEFINE capped == When(chain.cap > 0, Capped(verified, chain.cap), verified)
<1> DEFINE windowed == When(chain.temporal, Windowed(capped), capped)
<1> DEFINE steps == ToSet(WrappedPlan(chain, incident, base))
<1>1. WrappedPlan(chain, incident, base) = When(chain.compound, CompoundPlan, windowed)
  BY DEF WrappedPlan
<1>2. /\ chain.verified = (s.evidence = "verification_enabled") /\ chain.compound = s.compound
      /\ chain.temporal = (s.temporal = "explicit_cause_effect")
      /\ chain.cap = (IF s.capped THEN s.depth ELSE 0)
  BY DEF ChainOf
<1>3. chain.cap \in Nat /\ s.depth \in 1 .. 1000 /\ s.capped \in BOOLEAN
  BY CapOfChain
<1> HIDE DEF chain, homes
<1>4. /\ ordered \in Seq(PlainSteps) /\ Distinct(ordered)
      /\ Reads(ToSet(ordered), homes, DefaultLimit, FALSE) /\ ~Probing(ToSet(ordered))
  <2>1. CASE chain.order # "none"
    BY <2>1, OrderedReads DEF When, homes
  <2>2. CASE chain.order = "none"
    <3>1. /\ base \in Seq(PlainSteps) /\ Distinct(base)
          /\ ToSet(base) = ToSet(BaselinePlan(incident))
      BY DEF Ordered
    <3>2. Reads(ToSet(base), homes, DefaultLimit, FALSE) /\ ~Probing(ToSet(base))
      BY <3>1, PlainReads DEF homes
    <3> QED
      BY <2>2, <3>1, <3>2 DEF When
  <2> QED
    BY <2>1, <2>2
<1> HIDE DEF ordered
<1>5. /\ verified \in Seq(Steps) /\ Distinct(verified)
      /\ Reads(ToSet(verified), homes, DefaultLimit, FALSE)
      /\ Probing(ToSet(verified)) <=> chain.verified
  <2>1. CASE chain.verified
    <3>1. Verified(ordered, incident) \in Seq(Steps) /\ Distinct(Verified(ordered, incident))
      BY <1>4, VerifiedSound
    <3>2. /\ Reads(ToSet(Verified(ordered, incident)), homes, DefaultLimit, FALSE)
          /\ Probing(ToSet(Verified(ordered, incident)))
      BY <1>4, VerifiedReads
    <3>3. verified = Verified(ordered, incident)
      BY <2>1 DEF When
    <3> HIDE DEF verified
    <3>4. Probing(ToSet(verified)) <=> chain.verified
      BY <2>1, <3>2, <3>3
    <3> QED
      BY <3>1, <3>2, <3>3, <3>4
  <2>2. CASE ~chain.verified
    <3>1. verified = ordered /\ ordered \in Seq(Steps)
      BY <1>4, <2>2, PlainAreSteps DEF When
    <3> HIDE DEF verified
    <3>2. Probing(ToSet(verified)) <=> chain.verified
      BY <1>4, <2>2, <3>1
    <3> QED
      BY <1>4, <3>1, <3>2
  <2> QED
    BY <2>1, <2>2
<1> HIDE DEF verified
<1>6. /\ capped \in Seq(Steps) /\ Distinct(capped)
      /\ Reads(ToSet(capped), homes, Depth(s), FALSE)
      /\ Probing(ToSet(capped)) <=> chain.verified
  <2>0. DefaultLimit \in Nat /\ DefaultLimit = 20
    BY DEF DefaultLimit
  <2>1. CASE s.capped
    <3>1. chain.cap > 0 /\ chain.cap = s.depth
      BY <1>2, <1>3, <2>1
    <3>2. Capped(verified, chain.cap) \in Seq(Steps) /\ Distinct(Capped(verified, chain.cap))
      BY <1>3, <1>5, CappedSound
    <3>3. /\ Reads(ToSet(Capped(verified, chain.cap)), homes,
                   IF DefaultLimit > chain.cap THEN chain.cap ELSE DefaultLimit, FALSE)
          /\ Probing(ToSet(Capped(verified, chain.cap))) <=> Probing(ToSet(verified))
      BY <1>3, <1>5, <2>0, CappedReads
    <3>4. Depth(s) = IF DefaultLimit > chain.cap THEN chain.cap ELSE DefaultLimit
      BY <1>3, <2>0, <2>1, <3>1 DEF Depth
    <3> QED
      BY <1>5, <3>1, <3>2, <3>3, <3>4 DEF When
  <2>2. CASE ~s.capped
    <3>1. ~(chain.cap > 0) /\ Depth(s) = DefaultLimit
      BY <1>2, <1>3, <2>2 DEF Depth
    <3> QED
      BY <1>5, <3>1 DEF When
  <2> QED
    BY <1>3, <2>1, <2>2
<1> HIDE DEF capped
<1>7. /\ Reads(ToSet(windowed), homes, Depth(s), s.temporal = "explicit_cause_effect")
      /\ Probing(ToSet(windowed)) <=> s.evidence = "verification_enabled"
  <2>1. CASE s.temporal = "explicit_cause_effect"
    <3>1. /\ Reads(ToSet(Windowed(capped)), homes, Depth(s), TRUE)
          /\ Probing(ToSet(Windowed(capped))) <=> Probing(ToSet(capped))
      BY <1>6, WindowedReads
    <3>2. (s.temporal = "explicit_cause_effect") = TRUE /\ windowed = Windowed(capped)
      BY <1>2, <2>1 DEF When
    <3> QED
      BY <1>2, <1>6, <3>1, <3>2
  <2>2. CASE s.temporal # "explicit_cause_effect"
    <3>1. (s.temporal = "explicit_cause_effect") = FALSE /\ windowed = capped
      BY <1>2, <2>2 DEF When
    <3> QED
      BY <1>2, <1>6, <3>1
  <2> QED
    BY <2>1, <2>2
<1> HIDE DEF windowed
<1>8. s.compound => Compounded(steps) /\ ~Probing(steps)
  BY <1>1, <1>2, CompoundShown DEF When
<1>9. ~s.compound => steps = ToSet(windowed)
  BY <1>1, <1>2 DEF When
<1> HIDE DEF steps
<1>10. Shows(s, incident, steps)
  BY <1>7, <1>8, <1>9 DEF Shows, homes
<1> QED
  BY <1>10 DEF steps, chain

\* Each way of reading logs in one plan is one of the other plan.
Mirrors(steps, others) ==
  \A t \in steps : t.tool = "search_logs" =>
    \E u \in others : /\ u.tool = "search_logs" /\ u.service = t.service
                      /\ u.limit = t.limit /\ u.window = t.window

LEMMA CompoundAlone ==
  ASSUME NEW t, NEW incident, NEW steps, NEW others, Compounded(steps),
         Shows(t, incident, others), Mirrors(steps, others)
  PROVE  t.compound
<1> SUFFICES ASSUME ~t.compound
             PROVE  FALSE
  OBVIOUS
<1>1. \A u \in others : u.tool = "search_logs" => u.service \in Homes(incident)
  BY DEF Shows, Reads
<1>2. \A service \in {"inventory", "worker"} :
        \E u \in others : u.tool = "search_logs" /\ u.service = service
  BY DEF Compounded, Mirrors
<1> QED
  BY <1>1, <1>2, HomesApart

LEMMA AlikeShown ==
  ASSUME NEW s \in Settings, NEW t \in Settings, NEW incident, NEW steps, NEW others,
         Shows(s, incident, steps), Shows(t, incident, others),
         Mirrors(steps, others), Mirrors(others, steps)
  PROVE  PlanAlike(s, t)
<1>1. \A x \in Settings : x.compound \in BOOLEAN /\ x.temporal \in TemporalModes
  BY DEF Settings
<1>2. s.compound => t.compound
  BY CompoundAlone DEF Shows
<1>3. t.compound => s.compound
  BY CompoundAlone DEF Shows
<1>4. ASSUME ~s.compound, ~t.compound
      PROVE  s.temporal = t.temporal /\ Depth(s) = Depth(t)
  <2>1. PICK x \in steps : /\ x.tool = "search_logs" /\ x.limit = Depth(s)
                           /\ x.window = (s.temporal = "explicit_cause_effect")
    BY <1>4 DEF Shows, Reads
  <2>2. PICK y \in others : y.tool = "search_logs" /\ y.limit = x.limit /\ y.window = x.window
    BY <2>1 DEF Mirrors
  <2>3. y.limit = Depth(t) /\ y.window = (t.temporal = "explicit_cause_effect")
    BY <1>4, <2>2 DEF Shows, Reads
  <2> QED
    BY <1>1, <2>1, <2>2, <2>3 DEF TemporalModes
<1>5. s.compound = t.compound
  BY <1>1, <1>2, <1>3
<1> QED
  BY <1>4, <1>5 DEF PlanAlike

LEMMA CallsMirror ==
  ASSUME NEW p \in Seq(Steps), NEW q \in Seq(Steps), Invocations(p) = Invocations(q)
  PROVE  Mirrors(ToSet(p), ToSet(q)) /\ (Probing(ToSet(p)) => Probing(ToSet(q)))
<1> DEFINE call(t) == [t EXCEPT !.id = "call"]
<1>1. \A t \in Steps : /\ call(t).tool = t.tool /\ call(t).service = t.service
                       /\ call(t).limit = t.limit /\ call(t).window = t.window
  BY DEF Steps
<1>2. ToSet(p) \subseteq Steps /\ ToSet(q) \subseteq Steps
  BY DEF ToSet
<1>3. {call(t) : t \in ToSet(p)} = {call(t) : t \in ToSet(q)}
  BY InvocationsOf
<1>4. \A t \in ToSet(p) : \E u \in ToSet(q) : call(t) = call(u)
  <2>1. \A t \in ToSet(p) : call(t) \in {call(u) : u \in ToSet(q)}
    BY <1>3
  <2> HIDE DEF call
  <2> QED
    BY <2>1
<1> HIDE DEF call
<1>5. \A t \in ToSet(p) : \E u \in ToSet(q) :
        u.tool = t.tool /\ u.service = t.service /\ u.limit = t.limit /\ u.window = t.window
  <2> SUFFICES ASSUME NEW t \in ToSet(p)
               PROVE  \E u \in ToSet(q) : u.tool = t.tool /\ u.service = t.service
                                          /\ u.limit = t.limit /\ u.window = t.window
    OBVIOUS
  <2>1. PICK u \in ToSet(q) : call(t) = call(u)
    BY <1>4
  <2>2. t \in Steps /\ u \in Steps
    BY <1>2
  <2> QED
    BY <1>1, <2>1, <2>2
<1> QED
  BY <1>5 DEF Mirrors, Probing, IsProbe

LEMMA StrippedMirrors ==
  ASSUME NEW p \in Seq(Steps), NEW q \in Seq(Steps), Stripped(p) = Stripped(q)
  PROVE  Mirrors(ToSet(p), ToSet(q))
<1> DEFINE call(t) == [t EXCEPT !.id = "call"]
<1> DEFINE NotProbes(plan) == {i \in DOMAIN plan : ~IsProbe(plan[i])}
<1> DEFINE Rest(plan) == Only(plan, NotProbes(plan))
<1>1. \A t \in Steps : /\ call(t).tool = t.tool /\ call(t).service = t.service
                       /\ call(t).limit = t.limit /\ call(t).window = t.window
  BY DEF Steps
<1>2. ASSUME NEW plan \in Seq(Steps)
      PROVE  /\ ToSet(Rest(plan)) = {plan[i] : i \in NotProbes(plan)}
             /\ DOMAIN Stripped(plan) = DOMAIN Rest(plan)
             /\ \A k \in DOMAIN Rest(plan) : Stripped(plan)[k] = call(Rest(plan)[k])
  <2>1. NotProbes(plan) \in SUBSET DOMAIN plan
    OBVIOUS
  <2>2. Stripped(plan) = [k \in DOMAIN Rest(plan) |-> call(Rest(plan)[k])]
    BY DEF Stripped
  <2> HIDE DEF NotProbes
  <2>3. ToSet(Rest(plan)) = {plan[i] : i \in NotProbes(plan)}
    BY <2>1, OnlyKeeps
  <2> HIDE DEF Rest, call
  <2> QED
    BY <2>2, <2>3
<1>3. \A t \in ToSet(p) : t.tool = "search_logs" => t \in ToSet(Rest(p))
  <2>1. \A i \in DOMAIN p : p[i].tool = "search_logs" => i \in NotProbes(p)
    BY DEF IsProbe, VerificationTools
  <2> HIDE DEF NotProbes, Rest
  <2>2. ToSet(p) = {p[i] : i \in DOMAIN p}
    BY DEF ToSet
  <2>3. ToSet(Rest(p)) = {p[i] : i \in NotProbes(p)}
    BY <1>2, Zenon
  <2> QED
    BY <2>1, <2>2, <2>3
<1>4. ToSet(Rest(q)) \subseteq ToSet(q)
  <2>1. NotProbes(q) \subseteq DOMAIN q
    OBVIOUS
  <2> HIDE DEF NotProbes, Rest
  <2>2. ToSet(q) = {q[i] : i \in DOMAIN q}
    BY DEF ToSet
  <2>3. ToSet(Rest(q)) = {q[i] : i \in NotProbes(q)}
    BY <1>2, Zenon
  <2> QED
    BY <2>1, <2>2, <2>3
<1> HIDE DEF NotProbes, Rest, call
<1>5. \A t \in ToSet(Rest(p)) : \E u \in ToSet(Rest(q)) : call(t) = call(u)
  <2> SUFFICES ASSUME NEW k \in DOMAIN Rest(p)
               PROVE  \E m \in DOMAIN Rest(q) : call(Rest(p)[k]) = call(Rest(q)[m])
    BY DEF ToSet
  <2>1. k \in DOMAIN Stripped(p) /\ Stripped(p)[k] = call(Rest(p)[k])
    BY <1>2
  <2>2. k \in DOMAIN Rest(q) /\ Stripped(q)[k] = call(Rest(q)[k])
    BY <1>2, <2>1
  <2> QED
    BY <2>1, <2>2
<1>6. ToSet(p) \subseteq Steps /\ ToSet(q) \subseteq Steps
  BY DEF ToSet
<1> SUFFICES ASSUME NEW t \in ToSet(p), t.tool = "search_logs"
             PROVE  \E u \in ToSet(q) : /\ u.tool = "search_logs" /\ u.service = t.service
                                        /\ u.limit = t.limit /\ u.window = t.window
  BY DEF Mirrors
<1>7. PICK u \in ToSet(Rest(q)) : call(t) = call(u)
  BY <1>3, <1>5
<1>8. t \in Steps /\ u \in Steps /\ u \in ToSet(q)
  BY <1>4, <1>6
<1> QED
  BY <1>1, <1>7, <1>8

\* The plan behind a run shows the backend that made it.
LEMMA EntryShows ==
  ASSUME StudyInv, ArmsInv, SettingsInv, AllWritten, NEW a \in Scripts,
         NEW x \in ToSet(artifacts[a]), RecordOf(x).plan # <<>>
  PROVE  /\ x.outcome.settings \in Settings /\ RecordOf(x).plan \in Seq(Steps)
         /\ Shows(x.outcome.settings, x.scenario.incident, ToSet(RecordOf(x).plan))
<1> DEFINE settings == x.outcome.settings
<1> DEFINE plan == RecordOf(x).plan
<1>1. /\ settings \in Backends /\ plan \in PlansOf[settings][x.scenario.incident]
      /\ plan \in Seq(Steps)
  BY EntryAt
<1>2. x.scenario \in AllScenarios
  <2>1. \E i \in DOMAIN Cohort : x.scenario = Cohort[i]
    BY EntryAt
  <2> QED
    BY <2>1 DEF AllScenarios, StudyInv, Cohort, ToSet
<1>3. settings \in Settings
  BY <1>1, BackendsAreSettings
<1> HIDE DEF settings, plan
<1>4. /\ x.scenario.incident \in Incidents
      /\ \/ plan = NoPlan
         \/ \E base \in BasesOf(settings, x.scenario.incident) :
              /\ Ordered(base, x.scenario.incident)
              /\ plan = WrappedPlan(ChainOf(settings, 0), x.scenario.incident, base)
  BY <1>1, <1>2, PlanBased
<1>5. plan # NoPlan
  BY DEF NoPlan, plan
<1>6. Shows(settings, x.scenario.incident, ToSet(plan))
  BY <1>3, <1>4, <1>5, WrappedShows
<1> QED
  BY <1>1, <1>3, <1>6 DEF settings, plan

\* Runs of one scenario id are runs of one scenario.
LEMMA SameScenario ==
  ASSUME StudyInv, ArmsInv, SettingsInv, AllWritten, NEW a \in Scripts, NEW b \in Scripts,
         NEW x \in ToSet(artifacts[a]), NEW y \in ToSet(artifacts[b]),
         x.trial.scenario = y.trial.scenario
  PROVE  x.scenario = y.scenario
<1>1. study \in Experiments
  BY DEF StudyInv
<1>2. ASSUME NEW c \in Scripts, NEW z \in ToSet(artifacts[c])
      PROVE  \E i \in DOMAIN Cohort : z.scenario = Cohort[i] /\ z.trial.scenario = Cohort[i].id
  <2>1. PICK i \in DOMAIN Cohort : \E d \in DOMAIN Levels[study] :
          z.scenario = Cohort[i] /\ Located(Observation(RecordOf(z)), i, d)
    BY EntryAt
  <2>2. Tells(Observation(RecordOf(z)), RecordOf(z)) /\ RecordOf(z).trial = z.trial
    BY <1>1, ObservationTells, RecordTells
  <2>3. z.trial.scenario = Cohort[i].id
    BY <2>1, <2>2 DEF Tells, Located
  <2> QED
    BY <2>1, <2>3
<1>3. PICK i \in DOMAIN Cohort : x.scenario = Cohort[i] /\ x.trial.scenario = Cohort[i].id
  BY <1>2
<1>4. PICK j \in DOMAIN Cohort : y.scenario = Cohort[j] /\ y.trial.scenario = Cohort[j].id
  BY <1>2
<1> QED
  BY <1>1, <1>3, <1>4, StudiesAssumption DEF Cohort

\* The report script has seen every record, and refused none.
LEMMA EntryObserved ==
  ASSUME StudyInv, ArmsInv, AllWritten, NEW given \in Handed, ToSet(given) = Scripts,
         Reportable(given), NEW a \in Scripts, NEW x \in ToSet(artifacts[a])
  PROVE  Observable(RecordOf(x))
<1> DEFINE records == RecordsIn(given)
<1>1. \E p \in DOMAIN records : records[p] = RecordOf(x)
  BY RecordsGathered
<1>2. \A p \in DOMAIN records : Observable(records[p])
  BY DEF Reportable
<1> HIDE DEF records
<1> QED
  BY <1>1, <1>2

\* Runs that a study of tool orders compares have planned the same calls.
LEMMA OrdersControlled ==
  ASSUME StudyInv, ArmsInv, AllWritten, study = "tool_order", NEW given \in Handed,
         Reportable(given), NEW a \in Scripts, NEW b \in Scripts,
         NEW x \in ToSet(artifacts[a]), NEW y \in ToSet(artifacts[b]),
         x.trial.scenario = y.trial.scenario
  PROVE  Invocations(RecordOf(x).plan) = Invocations(RecordOf(y).plan)
<1> DEFINE records == RecordsIn(given)
<1> DEFINE observations == ObservationsOf(records)
<1> DEFINE one == Observation(RecordOf(x))
<1> DEFINE other == Observation(RecordOf(y))
<1> DEFINE asked == {o \in observations : o.scenario = x.trial.scenario}
<1> DEFINE plans == {o.planned : o \in asked}
<1>1. study \in Paired /\ study \in Experiments
  BY DEF Paired, StudyInv
<1>2. ToSet(given) = Scripts /\ ToolOrderAccepts(records, observations, Cohort)
  BY DEF Reportable, RightArtifacts, Accepts
<1>3. /\ \E n \in Nat : DOMAIN records = 1 .. n
      /\ \E p \in DOMAIN records : records[p] = RecordOf(x)
      /\ \E p \in DOMAIN records : records[p] = RecordOf(y)
  BY <1>2, RecordsGathered
<1>4. observations = {Observation(records[p]) : p \in DOMAIN records}
  BY DEF ObservationsOf
<1>5. one.scenario = x.trial.scenario /\ other.scenario = x.trial.scenario
  BY <1>1, ObservationTells, RecordTells DEF Tells
<1> HIDE DEF records
<1>6. one \in asked /\ other \in asked
  BY <1>3, <1>4, <1>5
<1>7. Cardinality(plans) = 1
  <2>1. PICK i \in DOMAIN Cohort : x.trial.scenario = Cohort[i].id
    BY <1>1, EntryPlaced
  <2>2. Cohort[i] \in ToSet(Cohort)
    BY DEF ToSet
  <2> QED
    BY <1>2, <2>1, <2>2 DEF ToolOrderAccepts
<1>8. IsFiniteSet(plans)
  <2>1. PICK n \in Nat : DOMAIN records = 1 .. n
    BY <1>3
  <2> DEFINE places == {p \in 1 .. n : Observation(records[p]) \in asked}
  <2> DEFINE f == [p \in places |-> Observation(records[p]).planned]
  <2>2. IsFiniteSet(places)
    <3>1. places \in SUBSET (1 .. n) /\ IsFiniteSet(1 .. n)
      BY FS_Interval
    <3> HIDE DEF places
    <3> QED
      BY <3>1, FS_Subset
  <2>3. f \in Surjection(places, plans)
    <3>1. \A p \in places : Observation(records[p]).planned \in plans
      OBVIOUS
    <3>2. \A t \in plans : \E p \in places : Observation(records[p]).planned = t
      BY <1>4, <2>1
    <3> HIDE DEF places, plans
    <3> QED
      BY <3>1, <3>2 DEF Surjection
  <2> HIDE DEF places, plans, f
  <2> QED
    BY <2>2, <2>3, FS_Surjection
<1>9. one.planned \in plans /\ other.planned \in plans
  BY <1>6
<1> HIDE DEF plans, one, other
<1>10. one.planned = other.planned
  BY <1>7, <1>8, <1>9, FS_Singleton
<1>11. one = ToolOrderObservation(RecordOf(x)) /\ other = ToolOrderObservation(RecordOf(y))
  BY DEF one, other, Observation
<1> QED
  BY <1>10, <1>11, PlannedCalls

LEMMA ProbesTell ==
  ASSUME NEW plan \in Seq(Steps)
  PROVE  Probes(plan) = 0 <=> ~Probing(ToSet(plan))
<1> DEFINE places == {i \in DOMAIN plan : IsProbe(plan[i])}
<1>1. places = {} <=> ~Probing(ToSet(plan))
  BY DEF Probing, ToSet
<1>2. IsFiniteSet(places)
  <2>1. Len(plan) \in Nat /\ DOMAIN plan = 1 .. Len(plan)
    OBVIOUS
  <2>2. IsFiniteSet(1 .. Len(plan)) /\ places \in SUBSET (1 .. Len(plan))
    BY <2>1, FS_Interval
  <2> HIDE DEF places
  <2> QED
    BY <2>2, FS_Subset
<1>3. Probes(plan) = Cardinality(places)
  BY DEF Probes
<1> HIDE DEF places
<1> QED
  BY <1>1, <1>2, <1>3, FS_EmptySet

\* A run that a study of probes compares has a probe or none, as its arm wants it, and
\* apart from that it has planned what the run of its pair has.
LEMMA ProbesControlled ==
  ASSUME StudyInv, ArmsInv, AllWritten, study = "passive_vs_verification", NEW given \in Handed,
         Reportable(given), NEW a \in Scripts, NEW x \in ToSet(artifacts[a])
  PROVE  /\ Stripped(RecordOf(x).plan)
              = PairedWith(ObservationsOf(RecordsIn(given)), x.trial.scenario, "passive_only").passive
         /\ Probes(RecordOf(x).plan) = IF Levels[study][a] = "passive_only" THEN 0 ELSE 1
<1> DEFINE records == RecordsIn(given)
<1> DEFINE observations == ObservationsOf(records)
<1> DEFINE Pair(arm) == PairedWith(observations, x.trial.scenario, arm)
<1>1. study \in Paired /\ study \in Experiments /\ study # "investigation_budget"
  BY DEF Paired, StudyInv
<1>2. ToSet(given) = Scripts /\ PassiveAccepts(records, observations, Cohort)
  BY DEF Reportable, RightArtifacts, Accepts
<1>3. Levels[study][a] \in {"passive_only", "verification_enabled"}
  BY <1>1, ArmValues DEF Scripts, EvidenceModes
<1>4. /\ Pair("passive_only").passive = Pair("verification_enabled").passive
      /\ Pair("passive_only").probes = 0 /\ Pair("verification_enabled").probes = 1
  <2>1. PICK i \in DOMAIN Cohort : x.trial.scenario = Cohort[i].id
    BY <1>1, EntryPlaced
  <2>2. Cohort[i] \in ToSet(Cohort)
    BY DEF ToSet
  <2> HIDE DEF observations, records
  <2> QED
    BY <1>2, <2>1, <2>2 DEF PassiveAccepts
<1>5. /\ Stripped(RecordOf(x).plan) = Pair(Levels[study][a]).passive
      /\ Probes(RecordOf(x).plan) = Pair(Levels[study][a]).probes
  <2>1. Pair(Levels[study][a]) = Observation(RecordOf(x))
    BY <1>1, <1>2, PairFound
  <2>2. Observation(RecordOf(x)) = PassiveObservation(RecordOf(x))
    BY DEF Observation
  <2> HIDE DEF Pair
  <2> QED
    BY <2>1, <2>2, PassivePart
<1> HIDE DEF Pair
<1>6. /\ Stripped(RecordOf(x).plan) = Pair("passive_only").passive
      /\ Probes(RecordOf(x).plan) = IF Levels[study][a] = "passive_only" THEN 0 ELSE 1
  BY <1>3, <1>4, <1>5
<1> QED
  BY <1>6 DEF Pair, observations, records

\* The other run of its pair has a probe.
LEMMA ProbedPair ==
  ASSUME StudyInv, ArmsInv, AllWritten, study = "passive_vs_verification", NEW given \in Handed,
         Reportable(given), NEW a \in Scripts, NEW x \in ToSet(artifacts[a])
  PROVE  \E c \in Scripts : \E z \in ToSet(artifacts[c]) :
           /\ z.trial.scenario = x.trial.scenario /\ Probes(RecordOf(z).plan) = 1
           /\ Stripped(RecordOf(z).plan) = Stripped(RecordOf(x).plan)
<1> DEFINE records == RecordsIn(given)
<1> DEFINE observations == ObservationsOf(records)
<1>1. study \in Paired /\ study \in Experiments
  BY DEF Paired, StudyInv
<1>2. ToSet(given) = Scripts /\ PassiveAccepts(records, observations, Cohort)
  BY DEF Reportable, RightArtifacts, Accepts
<1>3. PICK o \in observations : o.scenario = x.trial.scenario /\ o.arm = "verification_enabled"
  <2>1. PICK i \in DOMAIN Cohort : x.trial.scenario = Cohort[i].id
    BY <1>1, EntryPlaced
  <2>2. Cohort[i] \in ToSet(Cohort) /\ "verification_enabled" \in ToSet(EvidenceArms)
    BY DEF ToSet, EvidenceArms
  <2> HIDE DEF observations, records
  <2> QED
    BY <1>2, <2>1, <2>2 DEF PassiveAccepts, Complete
<1>4. PICK c \in Scripts : \E z \in ToSet(artifacts[c]) : o = Observation(RecordOf(z))
  BY <1>2, <1>3, ObservationsGathered
<1>5. PICK z \in ToSet(artifacts[c]) : o = Observation(RecordOf(z))
  BY <1>4
<1>6. z.trial.scenario = x.trial.scenario /\ Levels[study][c] = "verification_enabled"
  <2>1. Tells(o, RecordOf(z)) /\ RecordOf(z).trial = z.trial
    BY <1>1, <1>5, ObservationTells, RecordTells
  <2>2. ArmOf(RecordOf(z)) = Levels[study][c]
    BY <1>1, EntryPlaced
  <2> QED
    BY <1>3, <2>1, <2>2 DEF Tells
<1> HIDE DEF records, observations
<1>7. Probes(RecordOf(z).plan) = 1
  BY <1>6, ProbesControlled
<1>8. Stripped(RecordOf(z).plan) = Stripped(RecordOf(x).plan)
  BY <1>6, ProbesControlled
<1> QED
  BY <1>6, <1>7, <1>8

\* What a report compares, seen from two of its runs.
Alike(e, one, other) ==
  LET s == one.outcome.settings
      t == other.outcome.settings
  IN CASE e = "tool_order" ->
            PlanAlike(s, t) /\ (~s.compound => s.evidence = t.evidence)
       [] e = "passive_vs_verification" ->
            PlanAlike(s, t) /\ ~s.compound /\ s.evidence = one.trial.configuration.evidence
       [] e = "compound_handling" -> s.compound
       [] OTHER -> TRUE

LEMMA OrdersCompared ==
  ASSUME StudyInv, ArmsInv, SettingsInv, AllWritten, study = "tool_order", NEW given \in Handed,
         Reportable(given), NEW a \in Scripts, NEW b \in Scripts,
         NEW x \in ToSet(artifacts[a]), NEW y \in ToSet(artifacts[b]),
         x.trial.scenario = y.trial.scenario
  PROVE  Alike(study, x, y)
<1> DEFINE s == x.outcome.settings
<1> DEFINE t == y.outcome.settings
<1> DEFINE p == RecordOf(x).plan
<1> DEFINE q == RecordOf(y).plan
<1>1. ToSet(given) = Scripts
  BY DEF Reportable, RightArtifacts
<1>2. p # <<>> /\ q # <<>>
  BY <1>1, EntryObserved DEF Observable, ToolOrderObservable, NothingTwice
<1>3. x.scenario = y.scenario
  BY SameScenario
<1>4. /\ s \in Settings /\ p \in Seq(Steps) /\ Shows(s, x.scenario.incident, ToSet(p))
      /\ t \in Settings /\ q \in Seq(Steps) /\ Shows(t, x.scenario.incident, ToSet(q))
  BY <1>2, <1>3, EntryShows
<1>5. Invocations(p) = Invocations(q)
  BY OrdersControlled
<1>6. \A u \in Settings : u.evidence \in {"passive_only", "verification_enabled"}
  BY DEF Settings, EvidenceModes
<1> HIDE DEF s, t, p, q
<1>7. Mirrors(ToSet(p), ToSet(q)) /\ Mirrors(ToSet(q), ToSet(p))
      /\ (Probing(ToSet(p)) <=> Probing(ToSet(q)))
  BY <1>4, <1>5, CallsMirror
<1>8. PlanAlike(s, t)
  BY <1>4, <1>7, AlikeShown
<1>9. ASSUME ~s.compound
      PROVE  s.evidence = t.evidence
  <2>1. ~t.compound
    BY <1>8, <1>9 DEF PlanAlike
  <2> QED
    BY <1>4, <1>6, <1>7, <1>9, <2>1 DEF Shows
<1> QED
  BY <1>8, <1>9 DEF Alike, s, t

LEMMA ProbesCompared ==
  ASSUME StudyInv, ArmsInv, SettingsInv, AllWritten, study = "passive_vs_verification",
         NEW given \in Handed, Reportable(given), NEW a \in Scripts, NEW b \in Scripts,
         NEW x \in ToSet(artifacts[a]), NEW y \in ToSet(artifacts[b]),
         x.trial.scenario = y.trial.scenario
  PROVE  Alike(study, x, y)
<1> DEFINE s == x.outcome.settings
<1> DEFINE t == y.outcome.settings
<1> DEFINE p == RecordOf(x).plan
<1> DEFINE q == RecordOf(y).plan
<1>1. ToSet(given) = Scripts
  BY DEF Reportable, RightArtifacts
<1>2. PICK c \in Scripts : \E z \in ToSet(artifacts[c]) :
        /\ z.trial.scenario = x.trial.scenario /\ Probes(RecordOf(z).plan) = 1
        /\ Stripped(RecordOf(z).plan) = Stripped(p)
  BY ProbedPair
<1>3. PICK z \in ToSet(artifacts[c]) :
        /\ z.trial.scenario = x.trial.scenario /\ Probes(RecordOf(z).plan) = 1
        /\ Stripped(RecordOf(z).plan) = Stripped(p)
  BY <1>2
<1> DEFINE u == z.outcome.settings
<1> DEFINE r == RecordOf(z).plan
<1>4. p # <<>> /\ q # <<>> /\ r # <<>>
  BY <1>1, EntryObserved DEF Observable, PassiveObservable, NothingTwice
<1>5. x.scenario = y.scenario /\ z.scenario = x.scenario
  BY <1>3, SameScenario
<1>6. /\ s \in Settings /\ p \in Seq(Steps) /\ Shows(s, x.scenario.incident, ToSet(p))
      /\ t \in Settings /\ q \in Seq(Steps) /\ Shows(t, x.scenario.incident, ToSet(q))
      /\ u \in Settings /\ r \in Seq(Steps) /\ Shows(u, x.scenario.incident, ToSet(r))
  BY <1>4, <1>5, EntryShows
<1>7. /\ Stripped(p) = Stripped(q) /\ Stripped(r) = Stripped(p)
      /\ Probes(p) = IF Levels[study][a] = "passive_only" THEN 0 ELSE 1
      /\ Probes(r) = 1
  BY <1>3, ProbesControlled
<1>8. Levels[study][a] = x.trial.configuration.evidence
      /\ Levels[study][a] \in {"passive_only", "verification_enabled"}
  <2>1. study \in Experiments /\ study # "investigation_budget"
    BY DEF StudyInv
  <2>2. Treated(study, a, x.trial)
    BY EntryAt
  <2>3. x.trial.configuration[Dimension[x.trial.experiment]] = Levels[study][a]
    BY <2>1, <2>2, ArmTold DEF Scripts
  <2>4. x.trial.experiment = study /\ Dimension["passive_vs_verification"] = "evidence"
    BY <2>2 DEF Treated, Dimension
  <2>5. Levels[study][a] \in {"passive_only", "verification_enabled"}
    BY <2>1, ArmValues DEF Scripts, EvidenceModes
  <2> QED
    BY <2>3, <2>4, <2>5
<1>9. \A v \in Settings : v.evidence \in {"passive_only", "verification_enabled"}
  BY DEF Settings, EvidenceModes
<1> HIDE DEF s, t, u, p, q, r
<1>10. /\ Mirrors(ToSet(p), ToSet(q)) /\ Mirrors(ToSet(q), ToSet(p))
       /\ Mirrors(ToSet(p), ToSet(r)) /\ Mirrors(ToSet(r), ToSet(p))
  BY <1>6, <1>7, StrippedMirrors
<1>11. PlanAlike(s, t) /\ PlanAlike(s, u)
  BY <1>6, <1>10, AlikeShown
<1>12. ~s.compound
  <2>1. Probing(ToSet(r))
    BY <1>6, <1>7, ProbesTell
  <2>2. ~u.compound
    BY <1>6, <2>1 DEF Shows
  <2> QED
    BY <1>11, <2>2 DEF PlanAlike
<1>13. s.evidence = x.trial.configuration.evidence
  <2>1. Probing(ToSet(p)) <=> Levels[study][a] # "passive_only"
    BY <1>6, <1>7, ProbesTell
  <2>2. Probing(ToSet(p)) <=> s.evidence = "verification_enabled"
    BY <1>6, <1>12 DEF Shows
  <2>3. s.evidence \in {"passive_only", "verification_enabled"}
    BY <1>6, <1>9
  <2> QED
    BY <1>8, <2>1, <2>2, <2>3
<1> QED
  BY <1>11, <1>12, <1>13 DEF Alike, s, t

LEMMA StopsCompared ==
  ASSUME StudyInv, ArmsInv, SettingsInv, AllWritten, study = "compound_handling",
         NEW a \in Scripts, NEW x \in ToSet(artifacts[a])
  PROVE  x.outcome.settings.compound
<1>1. RecordOf(x).plan = CompoundPlan
  BY StepsControlled
<1>2. CompoundPlan # <<>>
  BY DEF CompoundPlan
<1>3. Shows(x.outcome.settings, x.scenario.incident, ToSet(CompoundPlan))
  BY <1>1, <1>2, EntryShows
<1>4. Mirrors(ToSet(CompoundPlan), ToSet(CompoundPlan))
  BY DEF Mirrors
<1> QED
  BY <1>3, <1>4, CompoundShown, CompoundAlone

\* All that a report compares.
Compared ==
  \A one, other \in Recorded :
    one.trial.scenario = other.trial.scenario => Alike(study, one, other)

LEMMA ComparedIs == ComparedRunsPlanAlike <=> (Done => Compared)
  BY DEF ComparedRunsPlanAlike, Compared, Alike

LEMMA ReportCompares ==
  ASSUME StudyInv, ArmsInv, SettingsInv, AllWritten, NEW given \in Handed, Reportable(given)
  PROVE  Compared
<1> SUFFICES ASSUME NEW x \in Recorded, NEW y \in Recorded, x.trial.scenario = y.trial.scenario
             PROVE  Alike(study, x, y)
  BY DEF Compared
<1>1. PICK a \in Scripts : x \in ToSet(artifacts[a])
  BY DEF Recorded
<1>2. PICK b \in Scripts : y \in ToSet(artifacts[b])
  BY DEF Recorded
<1>3. CASE study = "tool_order"
  BY <1>1, <1>2, <1>3, OrdersCompared
<1>4. CASE study = "passive_vs_verification"
  BY <1>1, <1>2, <1>4, ProbesCompared
<1>5. CASE study = "compound_handling"
  BY <1>1, <1>5, StopsCompared DEF Alike
<1>6. CASE study \notin {"tool_order", "passive_vs_verification", "compound_handling"}
  BY <1>6 DEF Alike
<1> QED
  BY <1>3, <1>4, <1>5, <1>6

LEMMA ComparedStays ==
  StudyInv /\ ArmsInv /\ SettingsInv /\ ReportInv /\ (Done => Compared) /\ [Next]_vars
    => (Done => Compared)'
<1> SUFFICES ASSUME StudyInv, ArmsInv, SettingsInv, ReportInv, Done => Compared, [Next]_vars
             PROVE  Done' => Compared'
  OBVIOUS
<1>1. CASE UNCHANGED vars \/ BuildReport
  <2>1. study' = study /\ artifacts' = artifacts
    BY <1>1 DEF vars, BuildReport
  <2>2. Compared' <=> Compared
    BY <2>1 DEF Compared, Recorded, Scripts
  <2>3. Done' => Compared
    <3>1. CASE UNCHANGED vars
      BY <3>1 DEF vars, Done
    <3>2. CASE BuildReport
      BY <3>2, ReportCompares DEF BuildReport
    <3> QED
      BY <1>1, <3>1, <3>2
  <2> QED
    BY <2>2, <2>3
<1>2. CASE (\E a \in Scripts : Begin(a)) \/ Proceed \/ Deploy \/ Die
  <2>1. report' = report
    BY <1>2 DEF Begin, Proceed, Load, Check, RunAgent, Save, Finish, Deploy, Die
  <2>2. report = NoReport \/ Running
    BY <1>2 DEF Begin, Proceed, Load, Check, RunAgent, Save, Finish, Deploy, Die, Running
  <2> QED
    BY <2>1, <2>2 DEF ReportInv, Done
<1> QED
  BY <1>1, <1>2 DEF Next

\* Whatever was deployed between the check of a trial and its run: where a report compares
\* plans, the runs of a scenario that it compares are those of backends that plan alike,
\* that probe alike or as their arms say, and that plan for a compound incident where it is
\* about those.  What the report script sees of the plans is enough to tell.
THEOREM ComparisonInvariance == Spec => []ComparedRunsPlanAlike
<1> DEFINE Inv == ArmsInv /\ SettingsInv /\ ReportInv /\ (Done => Compared)
<1>1. Init => Inv
  BY DEF Init, ArmsInv, SettingsInv, Plausible, ReportInv, Done, Running, Idle
<1>2. StudyInv /\ Inv /\ [Next]_vars => Inv'
  BY ArmsStayAsserted, SettingsStay, ReportStays, ComparedStays
<1> QED
  BY <1>1, <1>2, ComparedIs, StudyInvariance, PTL DEF Spec

=============================================================================
