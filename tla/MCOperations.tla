----------------------------- MODULE MCOperations -----------------------------
(***************************************************************************)
(* Operational runs, either with one request at a time, any action and a   *)
(* handler that dies, or with two requests at once, three actions, of      *)
(* which the one without a tool is given the rollback, and one death.      *)
(***************************************************************************)
EXTENDS MCOperationalRun

\* Bounds: with two handlers four requests, and one of them dies.
Together ==
  INSTANCE OperationalRun
    WITH Handlers <- TwoHandlers, Actions <- ThreeActions, ServiceKnown <- TRUE,
         MaxRequests <- 4, MaxAborts <- 1

EitherInit == Init \/ Together!Init

EitherNext ==
  \/ Alone /\ Next
  \/ ~Alone /\ Together!Next

EitherStep(h) ==
  \/ Alone /\ h \in Handlers /\ Step(h)
  \/ ~Alone /\ Together!Step(h)

EitherSpec ==
  /\ EitherInit /\ [][EitherNext]_vars
  /\ \A h \in TwoHandlers : WF_vars(EitherStep(h))
=============================================================================
