---------------------------- MODULE MCStudies ----------------------------
(***************************************************************************)
(* Values for the constants of Studies: two scenarios a study, the second  *)
(* of them a control where the study has one.                              *)
(***************************************************************************)
EXTENDS Studies

Scenario(id, split, difficulty, compound, service, change, faults) ==
  [id |-> id, split |-> split, difficulty |-> difficulty, compound |-> compound,
   incident |-> [service |-> service, change |-> change, negated |-> FALSE],
   faults |-> faults, distractor |-> difficulty = "adversarial"]

Misled == Scenario("033", "validation", "adversarial", FALSE, "checkout", TRUE, {"n_plus_one_query"})
Control == Scenario("040", "validation", "adversarial", FALSE, "payment", FALSE, {})
Simple == Scenario("001", "dev", "easy", FALSE, "inventory", FALSE, {"database_connection_leak"})
Twofold == Scenario("041", "hidden_test", "compound", TRUE, "gateway", FALSE,
                    {"disk_exhaustion", "broken_payment_configuration"})
Another == [Twofold EXCEPT !.id = "042", !.faults = {"memory_leak", "n_plus_one_query"}]

SmallCohorts ==
  [planning_difficulty |-> <<Simple, Twofold>>,
   investigation_budget |-> <<Misled, Control>>,
   tool_order |-> <<Misled, Control>>,
   passive_vs_verification |-> <<Misled, Control>>,
   temporal_reasoning |-> <<Misled, Control>>,
   compound_handling |-> <<Twofold, Another>>]

How(right, found, early) == [right |-> right, found |-> found, early |-> early]

\* An agent finds a fault soon or misses it, or is late.  A control it always misses: no
\* provider ever answers that there is no fault.
SomeOutcomes ==
  [id \in {"001", "033", "040", "041", "042"} |->
     CASE id \in {"001", "033", "042"} -> {How(TRUE, TRUE, TRUE), How(FALSE, TRUE, FALSE)}
       [] id = "041"                  -> {How(TRUE, TRUE, TRUE), How(TRUE, TRUE, FALSE)}
       [] id = "040"                  -> {How(FALSE, FALSE, FALSE)}]

\* A model turns the order of many steps round, and keeps that of two; or it forgets one.
SomeAnswers ==
  [i \in {s.incident : s \in {Misled, Control, Simple, Twofold, Another}} |->
     LET steps == BaselinePlan(i) IN {IF Len(steps) > 2 THEN Reverse(steps) ELSE steps, Tail(steps)}]

\* Backends with a model, with other limits or with capped searches, which pass the checks
\* of one arm each, and a treatment that none of the arms has.
SomeDeployments ==
  {[DefaultSettings EXCEPT !.llm = "ollama", !.evidence = "verification_enabled", !.limits = "other"],
   [DefaultSettings EXCEPT !.llm = "ollama", !.ordered = TRUE],
   [DefaultSettings EXCEPT !.temporal = "explicit_cause_effect", !.limits = "other"],
   [DefaultSettings EXCEPT !.order = "adaptive", !.ordered = TRUE, !.capped = TRUE, !.depth = 5],
   [DefaultSettings EXCEPT !.compound = TRUE]}
=============================================================================
