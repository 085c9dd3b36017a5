-------------------------- MODULE MCOperationalRun --------------------------
(***************************************************************************)
(* Values for the constants of OperationalRun.                             *)
(***************************************************************************)
EXTENDS OperationalRun, TLC

CONSTANTS h1, h2, rollback, loadtest, destroy, none

OneHandler == {h1}
TwoHandlers == {h1, h2}

\* A tool per risk: destroy is an R3 tool, were one registered.
SomeTools == {rollback, loadtest, destroy}

SomeRisks == rollback :> "R2" @@ loadtest :> "R1" @@ destroy :> "R3"

\* The deterministic provider's action, the same with its tool, an R1 action,
\* an R3 action, and two that state a lower risk than their tool has.
EveryAction == {[risk |-> "R2", tool |-> none], [risk |-> "R2", tool |-> rollback],
                [risk |-> "R1", tool |-> loadtest], [risk |-> "R3", tool |-> destroy],
                [risk |-> "R1", tool |-> rollback], [risk |-> "R2", tool |-> destroy]}

\* An action that needs an approval, one that does not, and one that pretends.
ThreeActions == {[risk |-> "R2", tool |-> none], [risk |-> "R1", tool |-> loadtest],
                 [risk |-> "R1", tool |-> rollback]}

\* One action that needs an approval and one that does not.
TwoActions == {[risk |-> "R2", tool |-> none], [risk |-> "R1", tool |-> loadtest]}
=============================================================================
