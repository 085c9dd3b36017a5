------------------------------ MODULE MCCampaign ------------------------------
(***************************************************************************)
(* The campaign of two trials, worked through by one process at a time     *)
(* that is started up to four times, or by two at once.                    *)
(***************************************************************************)
EXTENDS MCExperimentTrials

\* Bounds: two processes at once are started three times, one dies, two calls fail.
Together ==
  INSTANCE ExperimentTrials
    WITH Runners <- TwoRunners, MaxStarts <- 3, MaxCrashes <- 1, MaxFailures <- 2

EitherInit == Init \/ Together!Init

EitherNext ==
  \/ Alone /\ Next
  \/ ~Alone /\ Together!Next

EitherSpec == EitherInit /\ [][EitherNext]_vars
=============================================================================
