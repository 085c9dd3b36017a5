------------------------ MODULE MCAgentInvestigation ------------------------
(***************************************************************************)
(* Values for the constants of AgentInvestigation.                         *)
(***************************************************************************)
EXTENDS AgentInvestigation, TLC

CONSTANTS h1, h2, metrics, logs, none

OneHandler == {h1}
TwoHandlers == {h1, h2}

BothCalls == {metrics, logs}

\* One plan meets the repetition budget of 1, the other the budgets of two tool
\* calls and three steps.
BoundaryPlans == {<<metrics, metrics>>, <<metrics, logs, logs>>}

\* With two handlers one plan is enough: its last call repeats another and is one
\* more than the budget allows.
ConcurrentPlans == {<<metrics, logs, logs>>}

EveryPause == Nodes \ {"end"}
OnePause == {"update_hypothesis"}
SomePauses == {"execute_tool", "update_hypothesis", "report"}

Interchangeable == Permutations(TwoHandlers)

\* Handlers that live.  One that dies has merely stopped beside the others, as any
\* handler may here: what a death leaves to a later request is MCArchitectures'.
Together ==
  \/ \E h \in Handlers : Step(h) \/ Start(h) \/ Resume(h)
  \/ TimeLimitPasses

TogetherSpec == Init /\ [][Together]_vars
=============================================================================
