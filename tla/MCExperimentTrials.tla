------------------------- MODULE MCExperimentTrials -------------------------
(***************************************************************************)
(* Values for the constants of ExperimentTrials.                           *)
(***************************************************************************)
EXTENDS ExperimentTrials, TLC

CONSTANTS r1, r2, t1, t2, leak, disk

OneRunner == {r1}
TwoRunners == {r1, r2}

TwoTrials == {t1, t2}
BothTrials == <<t1, t2>>
OneTrial == {t1}
OnlyTrial == <<t1>>

\* The scenarios share a fault, one is compound.
BothFaults == {leak, disk}
SharedFault == (t1 :> <<leak>>) @@ (t2 :> <<disk, leak>>)
OneFault == (t1 :> <<leak>>)
=============================================================================
