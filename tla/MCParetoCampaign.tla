-------------------------- MODULE MCParetoCampaign --------------------------
(***************************************************************************)
(* Values for the constants of ParetoCampaign: three configurations that   *)
(* differ in every dimension, a scenario with a fault and the control.     *)
(***************************************************************************)
EXTENDS ParetoCampaign

SomeConfigurations == {1, 2, 8}

Fault == "033"
NoFault == "040"
SmallCohort == <<Fault, NoFault>>

Fare(accuracy, named, money, tokens, calls) ==
  [accuracy |-> accuracy, named |-> named, money |-> money, tokens |-> tokens,
   calls |-> calls, evidence |-> calls]

\* An agent is right at once, right at the end of its budget, or wrong; a model is
\* paid for or not.
SomeFares ==
  [s \in {Fault, NoFault} |->
     IF s = Fault
     THEN {Fare(2, TRUE, 0, 0, 2), Fare(2, TRUE, 1, 500, 7), Fare(1, TRUE, 1, 500, 2)}
     ELSE {Fare(1, TRUE, 0, 0, 3)}]

\* The second version holds the same cohort, the third has lost the control.
SomeCatalogs == <<SmallCohort, SmallCohort, <<Fault>>>>

\* A backend whose searches are not capped although its depth is that of a configuration,
\* and that of configuration 1 with other limits, which passes its check.
SomeDeployments ==
  {[DefaultSettings EXCEPT !.evidence = "verification_enabled", !.depth = 5],
   [Deployed(1) EXCEPT !.limits = "other"]}
=============================================================================
