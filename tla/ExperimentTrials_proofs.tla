----------------------- MODULE ExperimentTrials_proofs -----------------------
(***************************************************************************)
(* What holds of ExperimentTrials for every set of processes, every campaign *)
(* and every bound.  Processes share the journal and the stores without any  *)
(* lock; Honest says what a process may rely on at its place, and rests only *)
(* on what no other process ever takes back: runs that were made, evaluation *)
(* runs that exist, and that a stored score is only replaced by another.     *)
(***************************************************************************)
EXTENDS ExperimentTrials, SequenceTheorems, TLAPS

Records == [status : {"pending", "running", "completed", "failed", "interrupted"}, run : Nat]
Workers ==
  [at : Places, index : Nat \ {0}, next : Nat \ {0}, run : Nat, failed : BOOLEAN]
Spending == [starts : Nat, crashes : Nat, failures : Nat]

\* Places behind the evaluation run, and places where a run is in hand.
Evaluating ==
  {"recover", "restore", "inject", "inspect", "agent", "undo", "finally", "score", "complete"}
Holding(w) == w.at \in {"score", "complete"} \/ (w.at = "finally" /\ ~w.failed)

Honest(w) ==
  /\ w.at \notin {"idle", "load"} => w.index \in DOMAIN Campaign
  /\ w.at \in Evaluating => Campaign[w.index] \in evaluated
  /\ w.at = "undo" => w.failed
  /\ Holding(w) => MadeFor(Campaign[w.index], w.run)
  /\ w.at = "complete" => result[Campaign[w.index]] # NoRun

\* A stored score is the score of a run made for its trial.
Backed == \A t \in Trials : result[t] # NoRun => MadeFor(t, result[t])

Journaled ==
  \A t \in Trials : journal[t].status = "completed" =>
    MadeFor(t, journal[t].run) /\ result[t] # NoRun /\ t \in evaluated

IInv ==
  /\ TypeOK
  /\ \A r \in Runners : Honest(worker[r])
  /\ Backed
  /\ Journaled

\* What no step takes back.
Grown ==
  /\ made' = made \/ \E t \in Trials : made' = Append(made, t)
  /\ evaluated \subseteq evaluated'
  /\ \A t \in Trials : result[t] # NoRun => result'[t] # NoRun

USE CampaignAssumption DEF NoRun

\* Nothing is claimed before the first process starts.
LEMMA InitIInv == Init => IInv
  BY DEF Init, IInv, TypeOK, Resting, Unstarted, Places, Honest, Evaluating, Holding,
         Backed, Journaled

\* A run that was made for a trial stays made for it.
LEMMA MadeForStays ==
  ASSUME made \in Seq(Trials), Grown
  PROVE  \A t \in Trials : \A run : MadeFor(t, run) => run \in DOMAIN made' /\ made'[run] = t
  <1> SUFFICES ASSUME NEW t \in Trials, NEW run, MadeFor(t, run)
               PROVE  run \in DOMAIN made' /\ made'[run] = t
    OBVIOUS
  <1>1. run \in 1 .. Len(made) /\ made[run] = t
    BY DEF MadeFor
  <1>2. CASE \E u \in Trials : made' = Append(made, u)
    BY <1>1, <1>2
  <1> QED
    BY <1>1, <1>2 DEF Grown

\* A process that a step leaves alone may still rely on its place.
LEMMA OthersStayHonest ==
  ASSUME IInv, Grown, NEW q \in Runners, worker'[q] = worker[q]
  PROVE  Honest(worker[q])'
  <1>1. Honest(worker[q]) /\ made \in Seq(Trials)
    BY DEF IInv, TypeOK
  <1>2. worker[q].at \notin {"idle", "load"} => Campaign[worker[q].index] \in Trials
    BY <1>1 DEF Honest
  <1>3. Holding(worker[q]) => /\ worker[q].run \in DOMAIN made'
                              /\ made'[worker[q].run] = Campaign[worker[q].index]
    BY <1>1, <1>2, MadeForStays DEF Honest, Holding
  <1>4. worker[q].at = "complete" => result'[Campaign[worker[q].index]] # NoRun
    BY <1>1, <1>2 DEF Honest, Grown
  <1>5. worker[q].at \in Evaluating => Campaign[worker[q].index] \in evaluated'
    BY <1>1 DEF Honest, Grown
  <1> QED
    BY <1>1, <1>3, <1>4, <1>5 DEF Honest, MadeFor, Holding

\* A step of one process, whose own place is justified, keeps the invariant.
LEMMA StepKeeps ==
  ASSUME IInv, Grown, NEW r \in Runners, TypeOK',
         \A q \in Runners \ {r} : worker'[q] = worker[q],
         Honest(worker[r])', Backed', Journaled'
  PROVE  IInv'
  BY OthersStayHonest DEF IInv

\* A step that leaves the journal, the stores and the agent alone.
LEMMA QuietKeeps ==
  ASSUME IInv, NEW r \in Runners, UNCHANGED <<journal, evaluated, result, made>>,
         active' \in SUBSET Faults, spent' \in Spending, worker' \in [Runners -> Workers],
         \A q \in Runners \ {r} : worker'[q] = worker[q], Honest(worker[r])'
  PROVE  IInv'
  <1>1. Grown /\ TypeOK' /\ Backed' /\ Journaled'
    BY DEF IInv, TypeOK, Spending, Workers, Grown, Backed, Journaled, MadeFor
  <1> QED
    BY <1>1, StepKeeps

-----------------------------------------------------------------------------
(* The ways a step moves its process. *)

\* What the invariant says of the process that moves.
LEMMA Mover ==
  ASSUME IInv, NEW r \in Runners
  PROVE  /\ worker[r] \in Workers /\ worker \in [Runners -> Workers] /\ Honest(worker[r])
         /\ spent \in Spending /\ active \in SUBSET Faults
  BY DEF IInv, TypeOK, Workers, Spending

\* An exception leads on from any place at work; to the cleanups only from the benchmark.
LEMMA FailKeeps ==
  ASSUME IInv, NEW r \in Runners, NEW place \in {"raise", "finally", "undo"}, Fail(r, place),
         UNCHANGED <<journal, evaluated, result, made>>, active' \in SUBSET Faults,
         worker[r].at \notin {"idle", "load"}, place = "raise" \/ worker[r].at \in Evaluating
  PROVE  IInv'
  <1>1. /\ worker[r] \in Workers /\ worker \in [Runners -> Workers] /\ Honest(worker[r])
        /\ spent \in Spending
    BY Mover
  <1>2. worker'[r] = [worker[r] EXCEPT !.at = place, !.failed = TRUE]
        /\ worker'[r].at = place /\ worker'[r].failed = TRUE
        /\ worker'[r].index = worker[r].index
    BY <1>1 DEF Fail, Workers
  <1>3. worker' \in [Runners -> Workers]
        /\ \A q \in Runners \ {r} : worker'[q] = worker[q]
    <2>1. worker'[r] \in Workers
      BY <1>1, <1>2 DEF Workers, Places
    <2> QED
      BY <1>1, <2>1 DEF Fail
  <1>5. spent' \in Spending
    BY <1>1 DEF Fail, Spend, Spending
  <1>4. Honest(worker[r])'
    BY <1>1, <1>2 DEF Honest, Holding, Evaluating
  <1> QED
    BY <1>3, <1>4, <1>5, QuietKeeps

\* A process goes on to a place that nothing more than its own place is asked for.
LEMMA GotoKeeps ==
  ASSUME IInv, NEW r \in Runners, NEW place \in Places, Goto(r, place),
         UNCHANGED <<journal, evaluated, result, made, spent>>, active' \in SUBSET Faults,
         worker[r].at \notin {"idle", "load"},
         place \in Evaluating => Campaign[worker[r].index] \in evaluated,
         place = "undo" => worker[r].failed,
         (place = "score" \/ (place = "finally" /\ ~worker[r].failed)) =>
            MadeFor(Campaign[worker[r].index], worker[r].run),
         place # "complete"
  PROVE  IInv'
  <1>1. /\ worker[r] \in Workers /\ worker \in [Runners -> Workers] /\ Honest(worker[r])
        /\ spent \in Spending
    BY Mover
  <1>2. worker'[r] = [worker[r] EXCEPT !.at = place]
        /\ worker'[r].at = place /\ worker'[r].failed = worker[r].failed
        /\ worker'[r].index = worker[r].index /\ worker'[r].run = worker[r].run
    BY <1>1 DEF Goto, Workers
  <1>3. worker' \in [Runners -> Workers] /\ spent' \in Spending
        /\ \A q \in Runners \ {r} : worker'[q] = worker[q]
    BY <1>1 DEF Goto, Workers
  <1>4. Honest(worker[r])'
    BY <1>1, <1>2 DEF Honest, Holding, MadeFor
  <1> QED
    BY <1>3, <1>4, QuietKeeps

\* A call of restore-all, whatever becomes of it.
LEMMA RestoreAllKeeps ==
  ASSUME IInv, NEW r \in Runners, NEW done \in Places, NEW failing \in {"raise", "finally"},
         RestoreAll(r, done, failing), UNCHANGED <<journal, evaluated, result, made>>,
         worker[r].at \in Evaluating,
         done \notin {"undo", "complete"},
         (done = "score" \/ (done = "finally" /\ ~worker[r].failed)) =>
            MadeFor(Campaign[worker[r].index], worker[r].run)
  PROVE  IInv'
  <1>1. Honest(worker[r]) /\ active \in SUBSET Faults
    BY Mover
  <1>2. worker[r].at \notin {"idle", "load"} /\ active' \in SUBSET Faults
        /\ Campaign[worker[r].index] \in evaluated
    BY <1>1 DEF Evaluating, RestoreAll, Honest
  <1>3. CASE Goto(r, done) /\ UNCHANGED spent
    BY <1>2, <1>3, GotoKeeps
  <1>4. CASE Fail(r, failing)
    BY <1>2, <1>4, FailKeeps
  <1> QED
    BY <1>3, <1>4 DEF RestoreAll

-----------------------------------------------------------------------------
(* The steps that write no store. *)

\* A process starts, or dies: it relies on nothing.
LEMMA BeginCrashKeep ==
  ASSUME IInv, NEW r \in Runners, Begin(r) \/ Crash(r)
  PROVE  IInv'
  <1>1. worker \in [Runners -> Workers] /\ spent \in Spending /\ active \in SUBSET Faults
    BY Mover
  <1>2. Resting \in Workers /\ [Resting EXCEPT !.at = "load"] \in Workers
    <2>1. Resting \in Workers
      BY DEF Resting, Workers, Places
    <2> QED
      BY <2>1 DEF Workers, Places
  <1>3. /\ worker' \in [Runners -> Workers] /\ \A q \in Runners \ {r} : worker'[q] = worker[q]
        /\ worker'[r].at \in {"idle", "load"}
    <2>1. CASE Begin(r)
      BY <1>1, <1>2, <2>1 DEF Begin, Resting
    <2>2. CASE Crash(r)
      BY <1>1, <1>2, <2>2 DEF Crash, Resting
    <2> QED
      BY <2>1, <2>2
  <1>5. spent' \in Spending
    <2>1. spent' = [spent EXCEPT !.starts = @ + 1] \/ spent' = [spent EXCEPT !.crashes = @ + 1]
      BY DEF Begin, Crash, Spend
    <2>2. spent.starts + 1 \in Nat /\ spent.crashes + 1 \in Nat
      BY <1>1 DEF Spending
    <2>3. CASE spent' = [spent EXCEPT !.starts = @ + 1]
      BY <1>1, <2>2, <2>3 DEF Spending
    <2>4. CASE spent' = [spent EXCEPT !.crashes = @ + 1]
      BY <1>1, <2>2, <2>4 DEF Spending
    <2> QED
      BY <2>1, <2>3, <2>4
  <1>6. Honest(worker[r])'
    BY <1>3 DEF Honest, Holding, Evaluating
  <1>7. UNCHANGED <<journal, evaluated, result, active, made>>
    BY DEF Begin, Crash
  <1> QED
    BY <1>1, <1>3, <1>5, <1>6, <1>7, QuietKeeps

\* Looking up the next trial keeps the index within the campaign.
LEMMA LoadKeeps ==
  ASSUME IInv, NEW r \in Runners, Load(r)
  PROVE  IInv'
  <1>1. /\ worker[r] \in Workers /\ worker \in [Runners -> Workers]
        /\ spent \in Spending /\ active \in SUBSET Faults
    BY Mover
  <1>2. UNCHANGED <<journal, evaluated, result, active, made, spent>>
    BY DEF Load
  <1>3. Resting \in Workers
    BY DEF Resting, Workers, Places
  <1>4. CASE worker' = [worker EXCEPT ![r] = Resting]
    <2>1. Honest(worker[r])'
      BY <1>1, <1>4 DEF Honest, Holding, Evaluating, Resting
    <2>2. worker' \in [Runners -> Workers] /\ \A q \in Runners \ {r} : worker'[q] = worker[q]
      BY <1>1, <1>3, <1>4
    <2> QED
      BY <1>1, <1>2, <2>1, <2>2, QuietKeeps
  <1>5. CASE worker' = [worker EXCEPT ![r].index = @ + 1] /\ At(r, "load")
    <2>1. worker'[r] = [worker[r] EXCEPT !.index = @ + 1] /\ worker'[r].at = "load"
      BY <1>1, <1>5 DEF At, Workers
    <2>2. worker[r].index + 1 \in Nat \ {0}
      BY <1>1 DEF Workers
    <2>5. worker'[r] \in Workers
      BY <1>1, <2>1, <2>2 DEF Workers
    <2>3. worker' \in [Runners -> Workers] /\ \A q \in Runners \ {r} : worker'[q] = worker[q]
      BY <1>1, <1>5, <2>5
    <2>4. Honest(worker[r])'
      BY <2>1 DEF Honest, Holding, Evaluating
    <2> QED
      BY <1>1, <1>2, <2>3, <2>4, QuietKeeps
  <1>6. CASE Goto(r, "claim") /\ worker[r].index <= Len(Campaign)
    <2>1. worker'[r] = [worker[r] EXCEPT !.at = "claim"] /\ worker'[r].at = "claim"
          /\ worker'[r].index = worker[r].index
      BY <1>1, <1>6 DEF Goto, Workers
    <2>2. worker' \in [Runners -> Workers] /\ \A q \in Runners \ {r} : worker'[q] = worker[q]
      BY <1>1, <1>6 DEF Goto, Workers, Places
    <2>3. worker[r].index \in 1 .. Len(Campaign)
      BY <1>1, <1>6 DEF Workers
    <2>4. Honest(worker[r])'
      BY <2>1, <2>3 DEF Honest, Holding, Evaluating
    <2> QED
      BY <1>1, <1>2, <2>2, <2>4, QuietKeeps
  <1>7. worker[r].index \in Nat /\ Len(Campaign) \in Nat
    BY <1>1 DEF Workers
  <1> QED
    BY <1>4, <1>5, <1>6, <1>7 DEF Load

\* The checks before the evaluation run.
LEMMA PrepareKeeps ==
  ASSUME IInv, NEW r \in Runners, Prepare(r)
  PROVE  IInv'
  <1>1. active \in SUBSET Faults /\ worker[r].at = "prepare" /\ UNCHANGED active
    BY Mover DEF Prepare, At
  <1>2. CASE Fail(r, "raise")
    BY <1>1, <1>2, FailKeeps DEF Prepare
  <1>3. CASE /\ Goto(r, IF Trial(r) \in evaluated THEN "recover" ELSE "create")
             /\ UNCHANGED spent
    <2>1. CASE Trial(r) \in evaluated
      <3>1. Goto(r, "recover") /\ Campaign[worker[r].index] \in evaluated
        BY <1>3, <2>1 DEF Trial
      <3> QED
        BY <1>1, <1>3, <3>1, GotoKeeps DEF Prepare, Places
    <2>2. CASE Trial(r) \notin evaluated
      <3>1. Goto(r, "create")
        BY <1>3, <2>2
      <3> QED
        BY <1>1, <1>3, <3>1, GotoKeeps DEF Prepare, Places, Evaluating
    <2> QED
      BY <2>1, <2>2
  <1> QED
    BY <1>2, <1>3 DEF Prepare

\* Restoring at the start of a launch.
LEMMA CleanSlateKeeps ==
  ASSUME IInv, NEW r \in Runners, CleanSlate(r)
  PROVE  IInv'
  BY RestoreAllKeeps DEF CleanSlate, At, Evaluating, Places

\* Injecting the scenario's faults.
LEMMA InjectKeeps ==
  ASSUME IInv, NEW r \in Runners, Inject(r)
  PROVE  IInv'
  <1>1. /\ worker[r] \in Workers /\ Honest(worker[r]) /\ active \in SUBSET Faults
        /\ worker[r].at = "inject" /\ UNCHANGED <<journal, evaluated, result, made>>
    BY Mover DEF Inject, At
  <1>2. Campaign[worker[r].index] \in evaluated /\ Campaign[worker[r].index] \in Trials
    BY <1>1 DEF Honest, Evaluating
  <1>3. Planned(r) \in Seq(Faults)
    BY <1>2 DEF Planned, Trial
  <1>4. worker[r].next \in Nat \ {0}
    BY <1>1 DEF Workers
  <1>5. \A i \in {worker[r].next} \cap DOMAIN Planned(r) : Planned(r)[i] \in Faults
    BY <1>3
  <1>6. CASE Fail(r, "undo") /\ active' \in {active} \cup {active \cup {Planned(r)[i]} :
                                        i \in {worker[r].next} \cap DOMAIN Planned(r)}
    <2>1. active' \in SUBSET Faults
      BY <1>1, <1>5, <1>6
    <2> QED
      BY <1>1, <1>6, <2>1, FailKeeps DEF Evaluating
  <1>7. CASE /\ worker[r].next <= Len(Planned(r)) /\ UNCHANGED spent
             /\ Goto(r, "inspect") /\ active' = active \cup {Planned(r)[worker[r].next]}
    <2>1. active' \in SUBSET Faults
      <3>1. worker[r].next \in 1 .. Len(Planned(r))
        BY <1>3, <1>4, <1>7
      <3> QED
        BY <1>1, <1>3, <1>7, <3>1
    <2> QED
      BY <1>1, <1>2, <1>7, <2>1, GotoKeeps DEF Places
  <1>8. CASE Goto(r, "agent") /\ UNCHANGED <<active, spent>>
    BY <1>1, <1>2, <1>8, GotoKeeps DEF Places
  <1> QED
    BY <1>6, <1>7, <1>8 DEF Inject

\* Looking for the injected fault.
LEMMA InspectKeeps ==
  ASSUME IInv, NEW r \in Runners, Inspect(r)
  PROVE  IInv'
  <1>1. /\ worker[r] \in Workers /\ worker \in [Runners -> Workers] /\ Honest(worker[r])
        /\ spent \in Spending /\ active \in SUBSET Faults
        /\ worker[r].at = "inspect" /\ UNCHANGED <<journal, evaluated, result, made, active, spent>>
    BY Mover DEF Inspect, At
  <1>2. worker[r].next + 1 \in Nat \ {0}
    BY <1>1 DEF Workers
  <1>3. CASE worker' = [worker EXCEPT ![r].at = "inject", ![r].next = @ + 1]
    <2>1. worker'[r] = [worker[r] EXCEPT !.at = "inject", !.next = worker[r].next + 1]
          /\ worker'[r].at = "inject" /\ worker'[r].index = worker[r].index
      BY <1>1, <1>3 DEF Workers
    <2>2. worker'[r] \in Workers
      BY <1>1, <1>2, <2>1 DEF Workers, Places
    <2>3. worker' \in [Runners -> Workers] /\ \A q \in Runners \ {r} : worker'[q] = worker[q]
      BY <1>1, <1>3, <2>2
    <2>4. Honest(worker[r])'
      BY <1>1, <2>1 DEF Honest, Holding, Evaluating
    <2> QED
      BY <1>1, <2>3, <2>4, QuietKeeps
  <1>4. CASE worker' = [worker EXCEPT ![r].at = "undo", ![r].failed = TRUE]
    <2>1. worker'[r] = [worker[r] EXCEPT !.at = "undo", !.failed = TRUE]
          /\ worker'[r].at = "undo" /\ worker'[r].failed /\ worker'[r].index = worker[r].index
      BY <1>1, <1>4 DEF Workers
    <2>2. worker'[r] \in Workers
      BY <1>1, <2>1 DEF Workers, Places
    <2>3. worker' \in [Runners -> Workers] /\ \A q \in Runners \ {r} : worker'[q] = worker[q]
      BY <1>1, <1>4, <2>2
    <2>4. Honest(worker[r])'
      BY <1>1, <2>1 DEF Honest, Holding, Evaluating
    <2> QED
      BY <1>1, <2>3, <2>4, QuietKeeps
  <1> QED
    BY <1>3, <1>4 DEF Inspect

\* The cleanups behind a launch that failed, and behind every run.
LEMMA UndoKeeps ==
  ASSUME IInv, NEW r \in Runners, Undo(r)
  PROVE  IInv'
  <1>1. worker[r].at = "undo" /\ worker[r].failed
    BY Mover DEF Undo, At, Honest
  <1> QED
    BY <1>1, RestoreAllKeeps DEF Undo, Evaluating, Places

\* Only a run that did not fail goes on to its score.
LEMMA FinallyKeeps ==
  ASSUME IInv, NEW r \in Runners, Finally(r)
  PROVE  IInv'
  <1>1. worker[r].at = "finally" /\ Honest(worker[r])
    BY Mover DEF Finally, At
  <1>2. CASE worker[r].failed
    BY <1>1, <1>2, RestoreAllKeeps DEF Finally, Evaluating, Places
  <1>3. CASE ~worker[r].failed
    BY <1>1, <1>3, RestoreAllKeeps DEF Finally, Evaluating, Places, Honest, Holding
  <1> QED
    BY <1>2, <1>3

-----------------------------------------------------------------------------
(* The steps that write the journal or a store. *)

\* A place behind which nothing is asked of the stores.
LEMMA PlainlyHonest ==
  ASSUME IInv, NEW r \in Runners, worker'[r].at \in {"idle", "load", "prepare", "raise"},
         worker'[r].at \in {"idle", "load"} \/ worker'[r].index \in DOMAIN Campaign
  PROVE  Honest(worker[r])'
  BY DEF Honest, Holding, Evaluating

\* A journal entry that is not completed asks for nothing.
LEMMA JournalOpened ==
  ASSUME IInv, NEW t \in Trials, NEW status \in {"running", "failed", "interrupted"},
         journal' = [journal EXCEPT ![t] = [status |-> status, run |-> NoRun]],
         UNCHANGED <<evaluated, result, made>>
  PROVE  Grown /\ Backed' /\ Journaled' /\ journal' \in [Trials -> Records]
  <1>1. journal \in [Trials -> Records] /\ Backed /\ Journaled
    BY DEF IInv, TypeOK, Records
  <1>2. journal' \in [Trials -> Records]
    BY <1>1 DEF Records
  <1>3. Grown /\ Backed'
    BY <1>1 DEF Grown, Backed, MadeFor
  <1>4. Journaled'
    <2> SUFFICES ASSUME NEW u \in Trials, journal'[u].status = "completed"
                 PROVE  (MadeFor(u, journal[u].run) /\ result[u] # NoRun /\ u \in evaluated)'
      BY DEF Journaled
    <2>1. u # t /\ journal'[u] = journal[u]
      BY <1>1
    <2> QED
      BY <1>1, <2>1 DEF Journaled, MadeFor
  <1> QED
    BY <1>2, <1>3, <1>4

\* Claiming a trial reopens its journal entry.
LEMMA ClaimKeeps ==
  ASSUME IInv, NEW r \in Runners, Claim(r)
  PROVE  IInv'
  <1>1. /\ worker[r] \in Workers /\ worker \in [Runners -> Workers] /\ Honest(worker[r])
        /\ worker[r].at = "claim" /\ UNCHANGED <<evaluated, result, active, made, spent>>
    BY Mover DEF Claim, At
  <1>2. Trial(r) \in Trials /\ worker[r].index \in DOMAIN Campaign
    BY <1>1 DEF Honest, Trial
  <1>3. worker'[r] = [worker[r] EXCEPT !.at = "prepare"] /\ worker'[r].at = "prepare"
        /\ worker'[r].index = worker[r].index
    BY <1>1 DEF Claim, Goto, Workers
  <1>4. worker' \in [Runners -> Workers] /\ \A q \in Runners \ {r} : worker'[q] = worker[q]
    BY <1>1 DEF Claim, Goto, Workers, Places
  <1>5. Grown /\ Backed' /\ Journaled' /\ journal' \in [Trials -> Records]
    BY <1>1, <1>2, JournalOpened DEF Claim
  <1>6. TypeOK'
    BY <1>1, <1>4, <1>5 DEF IInv, TypeOK, Workers, Records
  <1>7. Honest(worker[r])'
    BY <1>2, <1>3, PlainlyHonest
  <1> QED
    BY <1>4, <1>5, <1>6, <1>7, StepKeeps

\* So does journaling an exception.
LEMMA RaiseKeeps ==
  ASSUME IInv, NEW r \in Runners, Raise(r)
  PROVE  IInv'
  <1>1. /\ worker \in [Runners -> Workers] /\ Honest(worker[r])
        /\ worker[r].at = "raise" /\ UNCHANGED <<evaluated, result, active, made, spent>>
    BY Mover DEF Raise, At
  <1>2. Trial(r) \in Trials
    BY <1>1 DEF Honest, Trial
  <1>3. Resting \in Workers
    BY DEF Resting, Workers, Places
  <1>4. worker'[r].at = "idle" /\ worker' \in [Runners -> Workers]
        /\ \A q \in Runners \ {r} : worker'[q] = worker[q]
    BY <1>1, <1>3 DEF Raise, Resting
  <1>5. Grown /\ Backed' /\ Journaled' /\ journal' \in [Trials -> Records]
    BY <1>1, <1>2, JournalOpened DEF Raise
  <1>6. TypeOK'
    BY <1>1, <1>4, <1>5 DEF IInv, TypeOK, Workers, Records
  <1>7. Honest(worker[r])'
    BY <1>4, PlainlyHonest
  <1> QED
    BY <1>4, <1>5, <1>6, <1>7, StepKeeps

\* The evaluation run exists before anything relies on it.
LEMMA CreateKeeps ==
  ASSUME IInv, NEW r \in Runners, Create(r)
  PROVE  IInv'
  <1>1. /\ worker[r] \in Workers /\ worker \in [Runners -> Workers] /\ Honest(worker[r])
        /\ worker[r].at = "create" /\ UNCHANGED <<journal, result, active, made, spent>>
        /\ evaluated' = evaluated \cup {Trial(r)}
    BY Mover DEF Create, At
  <1>2. Trial(r) \in Trials /\ worker[r].index \in DOMAIN Campaign
        /\ Trial(r) = Campaign[worker[r].index]
    BY <1>1 DEF Honest, Trial
  <1>3. PICK place \in {"raise", "recover"} : Goto(r, place)
    BY DEF Create
  <1>4. worker'[r] = [worker[r] EXCEPT !.at = place] /\ worker'[r].at = place
        /\ worker'[r].index = worker[r].index
    BY <1>1, <1>3 DEF Goto, Workers
  <1>5. worker' \in [Runners -> Workers] /\ \A q \in Runners \ {r} : worker'[q] = worker[q]
    BY <1>1, <1>3 DEF Goto, Workers, Places
  <1>6. Grown /\ Backed' /\ Journaled'
    BY <1>1 DEF IInv, Grown, Backed, Journaled, MadeFor
  <1>7. TypeOK'
    BY <1>1, <1>2, <1>5 DEF IInv, TypeOK, Workers
  <1>8. Honest(worker[r])'
    <2>1. Campaign[worker'[r].index] \in evaluated'
      BY <1>1, <1>2, <1>4
    <2> QED
      BY <1>2, <1>4, <2>1 DEF Honest, Holding, Evaluating
  <1> QED
    BY <1>5, <1>6, <1>7, <1>8, StepKeeps

\* A stored score is one of a run made for the trial.
LEMMA RecoverKeeps ==
  ASSUME IInv, NEW r \in Runners, Recover(r)
  PROVE  IInv'
  <1>1. /\ worker[r] \in Workers /\ worker \in [Runners -> Workers] /\ Honest(worker[r])
        /\ spent \in Spending /\ active \in SUBSET Faults
        /\ worker[r].at = "recover" /\ UNCHANGED <<journal, evaluated, result, active, made, spent>>
    BY Mover DEF Recover, At
  <1>2. Campaign[worker[r].index] \in evaluated /\ Campaign[worker[r].index] \in Trials
        /\ worker[r].index \in DOMAIN Campaign
    BY <1>1 DEF Honest, Evaluating
  <1>3. CASE Goto(r, "restore")
    BY <1>1, <1>2, <1>3, GotoKeeps DEF Places
  <1>4. CASE /\ result[Trial(r)] # NoRun
             /\ worker' = [worker EXCEPT ![r].at = "complete", ![r].run = result[Trial(r)]]
    <2>1. result[Trial(r)] \in Nat /\ MadeFor(Trial(r), result[Trial(r)])
      BY <1>2, <1>4 DEF IInv, TypeOK, Backed, Trial
    <2>2. worker'[r] = [worker[r] EXCEPT !.at = "complete", !.run = result[Trial(r)]]
          /\ worker'[r].at = "complete" /\ worker'[r].index = worker[r].index
          /\ worker'[r].run = result[Trial(r)]
      BY <1>1, <1>4 DEF Workers
    <2>3. worker'[r] \in Workers
      BY <1>1, <2>1, <2>2 DEF Workers, Places
    <2>4. worker' \in [Runners -> Workers] /\ \A q \in Runners \ {r} : worker'[q] = worker[q]
      BY <1>1, <1>4, <2>3
    <2>5. Honest(worker[r])'
      BY <1>1, <1>2, <1>4, <2>1, <2>2 DEF Honest, Holding, MadeFor, Trial
    <2> QED
      BY <1>1, <2>4, <2>5, QuietKeeps
  <1> QED
    BY <1>3, <1>4 DEF Recover

\* A run of the agent, answered or not, is one more run made for the trial.
LEMMA RunAgentKeeps ==
  ASSUME IInv, NEW r \in Runners, RunAgent(r)
  PROVE  IInv'
  <1>1. /\ worker[r] \in Workers /\ worker \in [Runners -> Workers] /\ Honest(worker[r])
        /\ spent \in Spending /\ active \in SUBSET Faults /\ made \in Seq(Trials)
        /\ worker[r].at = "agent" /\ UNCHANGED <<journal, evaluated, result, active>>
    BY Mover DEF RunAgent, At, IInv, TypeOK
  <1>2. Campaign[worker[r].index] \in evaluated /\ Trial(r) \in Trials
        /\ worker[r].index \in DOMAIN Campaign /\ Trial(r) = Campaign[worker[r].index]
    BY <1>1 DEF Honest, Evaluating, Trial
  <1>3. Grown /\ made' \in Seq(Trials)
    <2>1. made' = made \/ made' = Append(made, Trial(r))
      BY DEF RunAgent
    <2>2. Append(made, Trial(r)) \in Seq(Trials)
      BY <1>1, <1>2
    <2>3. evaluated' = evaluated /\ result' = result
      BY <1>1
    <2> QED
      BY <1>1, <1>2, <2>1, <2>2, <2>3 DEF Grown
  <1>4. Backed' /\ Journaled'
    <2>1. Backed /\ Journaled
      BY DEF IInv
    <2> QED
      BY <1>1, <1>3, <2>1, MadeForStays DEF Backed, Journaled, MadeFor
  <1>5. CASE /\ made' = Append(made, Trial(r)) /\ UNCHANGED spent
             /\ worker' = [worker EXCEPT ![r].at = "finally", ![r].run = Len(made')]
    <2>1. Len(made') \in Nat /\ Len(made') \in DOMAIN made' /\ made'[Len(made')] = Trial(r)
      BY <1>1, <1>2, <1>5
    <2>2. worker'[r] = [worker[r] EXCEPT !.at = "finally", !.run = Len(made')]
          /\ worker'[r].at = "finally" /\ worker'[r].index = worker[r].index
          /\ worker'[r].run = Len(made')
      BY <1>1, <1>5 DEF Workers
    <2>3. worker'[r] \in Workers
      BY <1>1, <2>1, <2>2 DEF Workers, Places
    <2>4. worker' \in [Runners -> Workers] /\ \A q \in Runners \ {r} : worker'[q] = worker[q]
      BY <1>1, <1>5, <2>3
    <2>5. Honest(worker[r])'
      BY <1>1, <1>2, <2>1, <2>2 DEF Honest, Holding, MadeFor, Evaluating
    <2>6. TypeOK'
      BY <1>1, <1>3, <1>5, <2>4 DEF IInv, TypeOK, Workers
    <2> QED
      BY <1>3, <1>4, <2>4, <2>5, <2>6, StepKeeps
  <1>6. CASE Fail(r, "finally")
    <2>1. worker'[r] = [worker[r] EXCEPT !.at = "finally", !.failed = TRUE]
          /\ worker'[r].at = "finally" /\ worker'[r].failed = TRUE
          /\ worker'[r].index = worker[r].index
      BY <1>1, <1>6 DEF Fail, Workers
    <2>2. worker'[r] \in Workers
      BY <1>1, <2>1 DEF Workers, Places
    <2>3. worker' \in [Runners -> Workers] /\ \A q \in Runners \ {r} : worker'[q] = worker[q]
      BY <1>1, <1>6, <2>2 DEF Fail
    <2>4. spent' \in Spending
      <3>1. spent \in Spending /\ Spend("failures")
        BY <1>1, <1>6 DEF Fail
      <3> QED
        BY <3>1 DEF Spend, Spending
    <2>5. Honest(worker[r])'
      BY <1>1, <1>2, <2>1 DEF Honest, Holding, Evaluating
    <2>6. TypeOK'
      BY <1>1, <1>3, <2>3, <2>4 DEF IInv, TypeOK, Workers, Spending
    <2> QED
      BY <1>3, <1>4, <2>3, <2>5, <2>6, StepKeeps
  <1> QED
    BY <1>5, <1>6 DEF RunAgent

\* The stored score is the score of the run in hand.
LEMMA ScoreKeeps ==
  ASSUME IInv, NEW r \in Runners, Score(r)
  PROVE  IInv'
  <1>1. /\ worker[r] \in Workers /\ worker \in [Runners -> Workers] /\ Honest(worker[r])
        /\ spent \in Spending /\ active \in SUBSET Faults /\ made \in Seq(Trials)
        /\ result \in [Trials -> Nat]
        /\ worker[r].at = "score" /\ UNCHANGED <<journal, evaluated, active, made>>
    BY Mover DEF Score, At, IInv, TypeOK
  <1>2. Campaign[worker[r].index] \in evaluated /\ Trial(r) \in Trials
        /\ worker[r].index \in DOMAIN Campaign /\ Trial(r) = Campaign[worker[r].index]
        /\ MadeFor(Trial(r), worker[r].run)
    BY <1>1 DEF Honest, Evaluating, Holding, Trial
  <1>3. CASE Fail(r, "raise") /\ UNCHANGED result
    BY <1>1, <1>3, FailKeeps
  <1>4. CASE /\ result' = [result EXCEPT ![Trial(r)] = worker[r].run]
             /\ Goto(r, "complete") /\ UNCHANGED spent
    <2>1. worker[r].run \in Nat /\ worker[r].run # NoRun
      BY SMTT(60), <1>1, <1>2 DEF MadeFor
    <2>2. /\ result' \in [Trials -> Nat] /\ result'[Trial(r)] = worker[r].run
          /\ \A t \in Trials : result'[t] = IF t = Trial(r) THEN worker[r].run ELSE result[t]
      BY <1>1, <1>2, <1>4, <2>1
    <2>3. Grown
      BY <1>1, <2>1, <2>2 DEF Grown
    <2>4. Backed' /\ Journaled'
      BY <1>1, <1>2, <2>1, <2>2 DEF IInv, Backed, Journaled, MadeFor
    <2>5. worker'[r] = [worker[r] EXCEPT !.at = "complete"] /\ worker'[r].at = "complete"
          /\ worker'[r].index = worker[r].index /\ worker'[r].run = worker[r].run
      BY <1>1, <1>4 DEF Goto, Workers
    <2>6. worker' \in [Runners -> Workers] /\ \A q \in Runners \ {r} : worker'[q] = worker[q]
      BY <1>1, <1>4 DEF Goto, Workers, Places
    <2>7. Honest(worker[r])'
      BY <1>1, <1>2, <2>1, <2>2, <2>5 DEF Honest, Holding, MadeFor, Evaluating
    <2>8. TypeOK'
      BY <1>1, <1>4, <2>2, <2>6 DEF IInv, TypeOK, Workers
    <2> QED
      BY <2>3, <2>4, <2>6, <2>7, <2>8, StepKeeps
  <1> QED
    BY <1>3, <1>4 DEF Score

\* What is journaled as completed is a score that was stored.
LEMMA CompleteKeeps ==
  ASSUME IInv, NEW r \in Runners, Complete(r)
  PROVE  IInv'
  <1>1. /\ worker[r] \in Workers /\ worker \in [Runners -> Workers] /\ Honest(worker[r])
        /\ worker[r].at = "complete" /\ UNCHANGED <<evaluated, result, active, made, spent>>
    BY Mover DEF Complete, At
  <1>2. journal \in [Trials -> Records] /\ Journaled /\ Backed
    BY DEF IInv, TypeOK, Records
  <1>3. Trial(r) \in evaluated /\ Trial(r) \in Trials
        /\ MadeFor(Trial(r), worker[r].run) /\ result[Trial(r)] # NoRun
    BY <1>1 DEF Honest, Evaluating, Holding, Trial
  <1>4. worker[r].run \in Nat /\ worker[r].index \in Nat \ {0}
    BY <1>1 DEF Workers
  <1>5. journal' \in [Trials -> Records]
    <2>1. [status |-> "completed", run |-> worker[r].run] \in Records
      BY <1>4 DEF Records
    <2> QED
      BY <1>2, <2>1 DEF Complete
  <1>6. Journaled'
    <2> SUFFICES ASSUME NEW t \in Trials, journal'[t].status = "completed"
                 PROVE  MadeFor(t, journal'[t].run) /\ result[t] # NoRun /\ t \in evaluated
      BY <1>1 DEF Journaled, MadeFor
    <2>1. CASE t = Trial(r)
      BY <1>2, <1>3, <2>1 DEF Complete
    <2>2. CASE t # Trial(r)
      BY <1>2, <2>2 DEF Complete, Journaled
    <2> QED
      BY <2>1, <2>2
  <1>7. Grown /\ Backed'
    BY <1>1, <1>2 DEF Grown, Backed, MadeFor
  <1>8. [Resting EXCEPT !.at = "load", !.index = worker[r].index + 1] \in Workers
    <2>1. worker[r].index + 1 \in Nat \ {0}
      BY <1>4
    <2>2. Resting \in Workers /\ "load" \in Places
      BY DEF Resting, Workers, Places
    <2> QED
      BY <2>1, <2>2 DEF Workers
  <1>9. worker'[r].at = "load" /\ worker' \in [Runners -> Workers]
        /\ \A q \in Runners \ {r} : worker'[q] = worker[q]
    BY <1>1, <1>8 DEF Complete, Resting
  <1>10. TypeOK'
    BY <1>1, <1>5, <1>9 DEF IInv, TypeOK, Workers, Records
  <1>11. Honest(worker[r])'
    BY <1>9, PlainlyHonest
  <1> QED
    BY <1>6, <1>7, <1>9, <1>10, <1>11, StepKeeps

-----------------------------------------------------------------------------
(* The theorems. *)

LEMMA NextKeeps ==
  ASSUME IInv, [Next]_vars
  PROVE  IInv'
  <1>1. CASE UNCHANGED vars
    BY <1>1 DEF vars, IInv, TypeOK, Honest, Holding, MadeFor, Backed, Journaled
  <1>2. ASSUME NEW r \in Runners, Begin(r) \/ Crash(r)
        PROVE  IInv'
    BY <1>2, BeginCrashKeep
  <1>3. ASSUME NEW r \in Runners, Step(r)
        PROVE  IInv'
    BY <1>3, LoadKeeps, ClaimKeeps, PrepareKeeps, CreateKeeps, RecoverKeeps,
       CleanSlateKeeps, InjectKeeps, InspectKeeps, UndoKeeps, RunAgentKeeps,
       FinallyKeeps, ScoreKeeps, CompleteKeeps, RaiseKeeps DEF Step
  <1> QED
    BY <1>1, <1>2, <1>3 DEF Next

\* The invariant the other theorems rest on.
THEOREM Invariance == Spec => []IInv
  BY InitIInv, NextKeeps, PTL DEF Spec

\* Every variable has its type, for any number of processes and any campaign.
THEOREM TypeCorrect == Spec => []TypeOK
  <1>1. IInv => TypeOK
    BY DEF IInv
  <1> QED
    BY <1>1, Invariance, PTL

\* Whatever processes overwrite in each other's journal and wherever they die, a
\* trial journaled as completed names a run made for it and has a score of such a
\* run in EvaluationLab (runner.py 145-154, live_executor.py 387-408, 476).
THEOREM CompletedBacked == Spec => []CompletedHasResult
  <1>1. IInv => CompletedHasResult
    BY DEF IInv, Backed, Journaled, CompletedHasResult
  <1> QED
    BY <1>1, Invariance, PTL

-----------------------------------------------------------------------------
(***************************************************************************)
(* With one process at a time nobody else changes ChaosLab.  Tended says   *)
(* what the launch has injected so far, and that a trial on its way to an  *)
(* agent run has no score.                                                 *)
(***************************************************************************)
Scenario(w) == FaultsOf[Campaign[w.index]]
Sown(w, n) == {Scenario(w)[i] : i \in 1 .. n}

Tended(w) ==
  /\ w.at \in {"load", "claim", "prepare", "create", "recover", "restore"} => w.next = 1
  /\ w.at = "inject" => w.next <= Len(Scenario(w)) + 1 /\ active = Sown(w, w.next - 1)
  /\ w.at = "inspect" => w.next <= Len(Scenario(w)) /\ active = Sown(w, w.next)
  /\ w.at = "agent" => active = ToSet(Scenario(w))
  /\ w.at = "score" => active = {}
  /\ w.at \in {"restore", "inject", "inspect", "agent"} => result[Campaign[w.index]] = NoRun

TendedInv == Alone => \A r \in Runners : Tended(worker[r])

\* The one process there is is the one that moves.
LEMMA MoverTends ==
  ASSUME IInv, IInv', NEW r \in Runners, Alone => Tended(worker[r])'
  PROVE  TendedInv'
  <1>1. DOMAIN worker = Runners /\ DOMAIN worker' = Runners
    BY DEF IInv, TypeOK
  <1>2. Alone' => Alone /\ \A q \in Runners : q = r
    BY <1>1 DEF Alone
  <1> QED
    BY <1>2 DEF TendedInv

\* Places at which nothing is asked of ChaosLab.
LEMMA UntendedPlaces ==
  ASSUME NEW r \in Runners,
         worker'[r].at \in {"idle", "undo", "finally", "raise", "complete"}
  PROVE  Tended(worker[r])'
  BY DEF Tended

\* An exception leads to such a place.
LEMMA FailTends ==
  ASSUME IInv, NEW r \in Runners, NEW place \in {"raise", "finally", "undo"}, Fail(r, place)
  PROVE  Tended(worker[r])'
  <1>1. worker'[r].at = place
    BY Mover DEF Fail, Workers
  <1> QED
    BY <1>1, UntendedPlaces

\* What a change of place leaves of a process.
LEMMA GotoMoves ==
  ASSUME IInv, NEW r \in Runners, NEW place, Goto(r, place)
  PROVE  /\ worker'[r].at = place /\ worker'[r].index = worker[r].index
         /\ worker'[r].next = worker[r].next
  BY Mover DEF Goto, Workers

\* The way to the launch, on which nothing is injected yet.
LEMMA ApproachTends ==
  ASSUME IInv, NEW r \in Runners, Tended(worker[r]),
         Begin(r) \/ Crash(r) \/ Load(r) \/ Claim(r) \/ Prepare(r) \/ Create(r) \/ Recover(r)
  PROVE  Tended(worker[r])'
  <1> DEFINE w == worker[r]
             Early == {"load", "claim", "prepare", "create", "recover"}
  <1>1. w \in Workers /\ worker \in [Runners -> Workers]
    BY Mover
  <1>2. ASSUME worker'[r].at \in Early, worker'[r].next = 1
        PROVE  Tended(worker[r])'
    BY <1>2 DEF Tended
  <1>3. w.at \in Early => w.next = 1
    BY DEF Tended
  <1>4. ASSUME NEW place \in Early, Goto(r, place), w.at \in Early
        PROVE  Tended(worker[r])'
    BY <1>2, <1>3, <1>4, GotoMoves
  <1>5. ASSUME worker' = [worker EXCEPT ![r] = Resting]
        PROVE  Tended(worker[r])'
    BY <1>1, <1>5, UntendedPlaces DEF Resting
  <1>6. CASE Begin(r)
    BY <1>1, <1>2, <1>6 DEF Begin, Resting
  <1>7. CASE Crash(r)
    BY <1>5, <1>7 DEF Crash
  <1>8. CASE Load(r)
    <2>1. w.at = "load"
      BY <1>8 DEF Load, At
    <2>2. CASE worker' = [worker EXCEPT ![r].index = @ + 1]
      <3>1. worker'[r].at = "load" /\ worker'[r].next = 1
        BY <1>1, <1>3, <2>1, <2>2 DEF Workers
      <3> QED
        BY <1>2, <3>1
    <2> QED
      BY <1>4, <1>5, <1>8, <2>1, <2>2 DEF Load
  <1>9. CASE Claim(r)
    BY <1>4, <1>9 DEF Claim, At
  <1>10. CASE Prepare(r)
    BY <1>4, <1>10, FailTends DEF Prepare, At
  <1>11. CASE Create(r)
    <2>1. CASE Goto(r, "raise")
      BY <2>1, GotoMoves, UntendedPlaces
    <2> QED
      BY <1>4, <1>11, <2>1 DEF Create, At
  <1>12. CASE Recover(r)
    <2>1. w.at = "recover" /\ w.next = 1 /\ result' = result
      BY <1>3, <1>12 DEF Recover, At
    <2>2. CASE worker' = [worker EXCEPT ![r].at = "complete", ![r].run = result[Trial(r)]]
      <3>1. worker'[r].at = "complete"
        BY <1>1, <2>2 DEF Workers
      <3> QED
        BY <3>1, UntendedPlaces
    <2>3. CASE Goto(r, "restore") /\ result[Trial(r)] = NoRun
      <3>1. worker'[r].at = "restore" /\ worker'[r].next = 1 /\ worker'[r].index = w.index
        BY <2>1, <2>3, GotoMoves
      <3> QED
        BY <2>1, <2>3, <3>1 DEF Tended, Trial
    <2> QED
      BY <1>12, <2>2, <2>3 DEF Recover
  <1> QED
    BY <1>6, <1>7, <1>8, <1>9, <1>10, <1>11, <1>12

\* launch begins from a ChaosLab without faults.
LEMMA CleanSlateTends ==
  ASSUME IInv, NEW r \in Runners, Tended(worker[r]), CleanSlate(r)
  PROVE  Tended(worker[r])'
  <1>1. worker[r].next = 1 /\ result[Campaign[worker[r].index]] = NoRun /\ result' = result
    BY DEF CleanSlate, At, Tended
  <1>2. CASE active' = {} /\ Goto(r, "inject")
    <2>1. /\ worker'[r].at = "inject" /\ worker'[r].next = 1
          /\ worker'[r].index = worker[r].index
      BY <1>1, <1>2, GotoMoves
    <2>2. Honest(worker[r]) /\ worker[r].index \in DOMAIN Campaign
      BY Mover DEF Honest, CleanSlate, At
    <2>3. Scenario(worker'[r]) \in Seq(Faults)
      BY <2>1, <2>2 DEF Scenario
    <2>4. Len(Scenario(worker'[r])) \in Nat
      BY <2>3
    <2>5. Sown(worker'[r], 0) = {}
      BY DEF Sown
    <2> QED
      BY <1>1, <1>2, <2>1, <2>4, <2>5 DEF Tended
  <1>3. CASE Fail(r, "finally")
    BY <1>3, FailTends
  <1> QED
    BY <1>2, <1>3 DEF CleanSlate, RestoreAll

\* Fault by fault, and no other.
LEMMA LaunchTends ==
  ASSUME IInv, NEW r \in Runners, Tended(worker[r]), Inject(r) \/ Inspect(r)
  PROVE  Tended(worker[r])'
  <1> DEFINE w == worker[r]
             p == Scenario(w)
             n == w.next
  <1>1. /\ w \in Workers /\ worker \in [Runners -> Workers] /\ Honest(w)
        /\ w.at \in {"inject", "inspect"}
    BY Mover DEF Inject, Inspect, At
  <1>2. /\ p \in Seq(Faults) /\ Len(p) \in Nat /\ n \in Nat \ {0} /\ DOMAIN p = 1 .. Len(p)
        /\ Planned(r) = p
    BY <1>1 DEF Honest, Scenario, Workers, Planned, Trial
  <1>3. result[Campaign[w.index]] = NoRun /\ result' = result
    BY <1>1 DEF Tended, Inject, Inspect
  <1>4. \A v : v.index = w.index => Scenario(v) = p /\ \A k : Sown(v, k) = {p[i] : i \in 1 .. k}
    BY DEF Scenario, Sown
  <1>5. CASE Inject(r)
    <2>1. w.at = "inject" /\ n <= Len(p) + 1 /\ active = {p[i] : i \in 1 .. n - 1}
      BY <1>4, <1>5 DEF Inject, At, Tended
    <2>2. CASE Fail(r, "undo")
      BY <2>2, FailTends
    <2>3. CASE n <= Len(p) /\ Goto(r, "inspect") /\ active' = active \cup {p[n]}
      <3>1. worker'[r].at = "inspect" /\ worker'[r].next = n /\ worker'[r].index = w.index
        BY <2>3, GotoMoves
      <3>2. 1 .. n = (1 .. n - 1) \cup {n}
        BY <1>2
      <3>3. active' = {p[i] : i \in 1 .. n}
        BY <2>1, <2>3, <3>2
      <3> QED
        BY <1>3, <1>4, <2>3, <3>1, <3>3 DEF Tended
    <2>4. CASE n > Len(p) /\ Goto(r, "agent") /\ UNCHANGED active
      <3>1. worker'[r].at = "agent" /\ worker'[r].index = w.index
        BY <2>4, GotoMoves
      <3>2. n - 1 = Len(p)
        <4>1. n \in Nat /\ Len(p) \in Nat /\ n <= Len(p) + 1 /\ n > Len(p)
          BY <1>2, <2>1, <2>4
        <4> HIDE DEF n, p
        <4> QED
          BY <4>1
      <3>3. active' = ToSet(p)
        BY <1>2, <2>1, <2>4, <3>2 DEF ToSet
      <3> QED
        BY <1>3, <1>4, <3>1, <3>3 DEF Tended
    <2>5. n <= Len(p) \/ n > Len(p)
      BY <1>2
    <2> QED
      BY <1>2, <1>5, <2>2, <2>3, <2>4, <2>5 DEF Inject
  <1>6. CASE Inspect(r)
    <2>1. w.at = "inspect" /\ n <= Len(p) /\ active = {p[i] : i \in 1 .. n} /\ active' = active
      BY <1>4, <1>6 DEF Inspect, At, Tended
    <2>2. CASE worker' = [worker EXCEPT ![r].at = "inject", ![r].next = @ + 1]
      <3>1. worker'[r].at = "inject" /\ worker'[r].next = n + 1 /\ worker'[r].index = w.index
        BY <1>1, <2>2 DEF Workers
      <3>2. (n + 1) - 1 = n /\ n + 1 <= Len(p) + 1
        <4>1. n \in Nat /\ Len(p) \in Nat /\ n <= Len(p)
          BY <1>2, <2>1
        <4> HIDE DEF n, p
        <4> QED
          BY <4>1
      <3>3. /\ Scenario(worker'[r]) = p
            /\ Sown(worker'[r], worker'[r].next - 1) = {p[i] : i \in 1 .. n}
        <4>1. worker'[r].next - 1 = n
          BY <3>1, <3>2
        <4> HIDE DEF n, p
        <4> QED
          BY <1>4, <3>1, <4>1
      <3>4. worker'[r].next <= Len(Scenario(worker'[r])) + 1
        BY <3>1, <3>2, <3>3
      <3>5. active' = Sown(worker'[r], worker'[r].next - 1)
        BY <2>1, <3>3
      <3>6. result'[Campaign[worker'[r].index]] = NoRun
        BY <1>3, <3>1
      <3> HIDE DEF w, n, p
      <3> QED
        BY <3>1, <3>4, <3>5, <3>6 DEF Tended, Scenario, Sown
    <2>3. CASE worker' = [worker EXCEPT ![r].at = "undo", ![r].failed = TRUE]
      <3>1. worker'[r].at = "undo"
        BY <1>1, <2>3 DEF Workers
      <3> QED
        BY <3>1, UntendedPlaces
    <2> QED
      BY <1>6, <2>2, <2>3 DEF Inspect
  <1> QED
    BY <1>5, <1>6

\* Behind the agent: whatever goes on to the score was restored.
LEMMA AftermathTends ==
  ASSUME IInv, NEW r \in Runners, Tended(worker[r]),
         Undo(r) \/ RunAgent(r) \/ Finally(r) \/ Score(r) \/ Complete(r) \/ Raise(r)
  PROVE  Tended(worker[r])'
  <1>1. worker[r] \in Workers /\ worker \in [Runners -> Workers]
    BY Mover
  <1>2. CASE Undo(r)
    BY <1>2, FailTends, GotoMoves, UntendedPlaces DEF Undo, RestoreAll
  <1>3. CASE RunAgent(r)
    <2>1. CASE worker' = [worker EXCEPT ![r].at = "finally", ![r].run = Len(made')]
      <3>1. worker'[r].at = "finally"
        BY <1>1, <2>1 DEF Workers
      <3> QED
        BY <3>1, UntendedPlaces
    <2> QED
      BY <1>3, <2>1, FailTends DEF RunAgent
  <1>4. CASE Finally(r)
    <2>1. CASE active' = {} /\ Goto(r, IF worker[r].failed THEN "raise" ELSE "score")
      <3>1. worker'[r].at \in {"raise", "score"}
        BY <2>1, GotoMoves
      <3> QED
        BY <2>1, <3>1 DEF Tended
    <2> QED
      BY <1>4, <2>1, FailTends DEF Finally, RestoreAll
  <1>5. CASE Score(r)
    BY <1>5, FailTends, GotoMoves, UntendedPlaces DEF Score
  <1>6. CASE Complete(r)
    <2>1. worker'[r].at = "load" /\ worker'[r].next = 1
      BY <1>1, <1>6 DEF Complete, Resting
    <2> QED
      BY <2>1 DEF Tended
  <1>7. CASE Raise(r)
    BY <1>1, <1>7, UntendedPlaces DEF Raise, Resting
  <1> QED
    BY <1>2, <1>3, <1>4, <1>5, <1>6, <1>7

\* The invariant of a process that works alone.
LEMMA TendedKept ==
  ASSUME IInv, IInv', TendedInv, [Next]_vars
  PROVE  TendedInv'
  <1>1. CASE UNCHANGED vars
    BY <1>1 DEF vars, TendedInv, Tended, Alone
  <1>2. ASSUME NEW r \in Runners, Begin(r) \/ Step(r) \/ Crash(r)
        PROVE  TendedInv'
    <2>1. Alone => Tended(worker[r])
      BY DEF TendedInv
    <2>2. Alone => Tended(worker[r])'
      BY <1>2, <2>1, ApproachTends, CleanSlateTends, LaunchTends, AftermathTends DEF Step
    <2> QED
      BY <2>2, MoverTends
  <1> QED
    BY <1>1, <1>2 DEF Next

THEOREM Tending == Spec => []TendedInv
  <1>1. Init => TendedInv
    BY DEF Init, TendedInv, Tended, Resting
  <1> QED
    BY <1>1, TendedKept, Invariance, PTL DEF Spec

\* The agent of a process that works alone investigates exactly the faults of its
\* scenario, whatever a dead process left behind (benchmarklab/runner.py 144, 176, 243).
THEOREM FaultsAreSeen == Spec => []AgentSeesItsFaults
  <1>1. IInv /\ TendedInv => AgentSeesItsFaults
    BY DEF IInv, TypeOK, TendedInv, Tended, Scenario, AgentSeesItsFaults, OnlyItsFaults, At,
       Planned, Trial
  <1> QED
    BY <1>1, Invariance, Tending, PTL

\* Only a run behind which everything was restored is scored, and it is the run of
\* the process that scores it.
THEOREM ScoresAreClean == Spec => []ScoredAfterCleanup
  <1>1. IInv /\ TendedInv => ScoredAfterCleanup
    BY DEF IInv, TypeOK, Honest, Holding, TendedInv, Tended, ScoredAfterCleanup, CleanedUp,
       At, Trial
  <1> QED
    BY <1>1, Invariance, Tending, PTL

\* No agent run is made for a trial that has a score (live_executor.py 430-432).
THEOREM ScoresAreNotRepeated == Spec => ScoredNotRepeated
  <1>1. IInv /\ TendedInv /\ [Next]_vars => [Alone => RunsUnscored]_vars
    <2> SUFFICES ASSUME IInv, TendedInv, Next, Alone, NEW t \in Trials, made' = Append(made, t)
                 PROVE  result[t] = NoRun
      BY DEF RunsUnscored
    <2>1. made \in Seq(Trials) /\ made' # made
      BY DEF IInv, TypeOK
    <2>2. PICK r \in Runners : RunAgent(r)
      BY <2>1 DEF Next, Step, Begin, Crash, Load, Claim, Prepare, Create, Recover, CleanSlate,
         Inject, Inspect, Undo, Finally, Score, Complete, Raise
    <2>3. made' = Append(made, Trial(r)) /\ result[Trial(r)] = NoRun
      <3>1. Tended(worker[r]) /\ worker[r].at = "agent"
        BY <2>2 DEF TendedInv, RunAgent, At
      <3>2. made' = Append(made, Trial(r))
        BY <2>1, <2>2 DEF RunAgent
      <3> QED
        BY <3>1, <3>2 DEF Tended, Trial
    <2>4. Trial(r) \in Trials
      BY <2>2, Mover DEF RunAgent, At, Honest, Trial
    <2>5. Trial(r) = t
      <3>1. ASSUME NEW a \in Trials, NEW b \in Trials, Append(made, a) = Append(made, b)
            PROVE  a = b
        <4>1. Append(made, a)[Len(made) + 1] = a /\ Append(made, b)[Len(made) + 1] = b
          BY <2>1, AppendProperties
        <4> QED
          BY <3>1, <4>1
      <3> QED
        BY <2>3, <2>4, <3>1, Zenon
    <2> QED
      BY <2>3, <2>5
  <1> QED
    BY <1>1, Invariance, Tending, PTL DEF Spec, ScoredNotRepeated
=============================================================================
