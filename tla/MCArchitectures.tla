--------------------------- MODULE MCArchitectures ---------------------------
(***************************************************************************)
(* Investigations of either architecture, one request at a time: the       *)
(* reactive one, and that of the explicit planner, which needs one step    *)
(* and one call less to meet its own budgets.  The planner may not repeat  *)
(* a call, so that ReactiveCallsOnce asks nothing of it.                   *)
(***************************************************************************)
EXTENDS MCAgentInvestigation

VARIABLE reactive

Planner ==
  INSTANCE AgentInvestigation
    WITH Reactive <- FALSE, MaxSteps <- 3, MaxToolCalls <- 2, MaxRepeated <- 1,
         PauseAfter <- EveryPause

EitherInit == Init /\ reactive \in BOOLEAN

EitherNext ==
  /\ \/ reactive /\ Next
     \/ ~reactive /\ Planner!Next
  /\ UNCHANGED reactive

EitherStep(h) ==
  \/ reactive /\ Step(h)
  \/ ~reactive /\ Planner!Step(h)

EitherSpec ==
  /\ EitherInit /\ [][EitherNext]_<<vars, reactive>>
  /\ \A h \in Handlers : WF_vars(EitherStep(h))
=============================================================================
