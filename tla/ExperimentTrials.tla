--------------------------- MODULE ExperimentTrials ---------------------------
(***************************************************************************)
(* ResearchLab's campaign: processes that work through the same trials, the *)
(* journal of trials, EvaluationLab's store, and for each trial BenchmarkLab *)
(* with its faults in ChaosLab and its run of the agent.                    *)
(***************************************************************************)
EXTENDS Integers, Sequences, FiniteSets, SequencesExt

CONSTANTS
  Runners,      \* processes that run the campaign
  Trials,       \* trial identities; a rerun derives the same ones
  Campaign,     \* the order of enumerate_trials
  Faults,       \* entries of ChaosLab's fault store
  FaultsOf,     \* the faults of each trial's scenario, in their order
  MaxStarts,    \* bound: processes started in a behaviour
  MaxCrashes,   \* bound: processes that die
  MaxFailures   \* bound: calls and checks that fail

ASSUME CampaignAssumption == Campaign \in Seq(Trials) /\ FaultsOf \in [Trials -> Seq(Faults)]
ASSUME BoundAssumption == {MaxStarts, MaxCrashes, MaxFailures} \subseteq Nat

NoRun == 0    \* the identifier of no agent run

VARIABLES
  journal,    \* TrialRecord of each trial: its status and its agent run
  evaluated,  \* trials that have an evaluation run
  result,     \* the agent run whose score is stored for each trial
  active,     \* the faults in ChaosLab
  worker,     \* what each process is doing
  made,       \* history: the trials agent runs were made for; a run is its index
  spent       \* what was used of each bound

vars == <<journal, evaluated, result, active, worker, made, spent>>

Places ==
  {"idle", "load", "claim", "prepare", "create", "recover", "restore", "inject",
   "inspect", "agent", "undo", "finally", "score", "complete", "raise"}

Unstarted == [status |-> "pending", run |-> NoRun]
Resting == [at |-> "idle", index |-> 1, next |-> 1, run |-> NoRun, failed |-> FALSE]

\* ChaosLab's faults live in Redis: earlier uses may have left some.
Init ==
  /\ journal = [t \in Trials |-> Unstarted]
  /\ evaluated = {}
  /\ result = [t \in Trials |-> NoRun]
  /\ active \in SUBSET Faults
  /\ worker = [r \in Runners |-> Resting]
  /\ made = <<>>
  /\ spent = [starts |-> 0, crashes |-> 0, failures |-> 0]

Trial(r) == Campaign[worker[r].index]
At(r, place) == worker[r].at = place
Spend(bound) == spent' = [spent EXCEPT ![bound] = @ + 1]
Goto(r, place) == worker' = [worker EXCEPT ![r].at = place]

\* Something went wrong on the way: an exception leads to `place`.
Fail(r, place) ==
  /\ spent.failures < MaxFailures
  /\ Spend("failures")
  /\ worker' = [worker EXCEPT ![r].at = place, ![r].failed = TRUE]

-----------------------------------------------------------------------------
(* ExperimentRunner.run. *)

Begin(r) ==
  /\ At(r, "idle") /\ spent.starts < MaxStarts
  /\ worker' = [worker EXCEPT ![r] = [Resting EXCEPT !.at = "load"]]
  /\ Spend("starts")
  /\ UNCHANGED <<journal, evaluated, result, active, made>>

\* The next trial is looked up: a completed one is skipped.
Load(r) ==
  /\ At(r, "load")
  /\ IF worker[r].index > Len(Campaign)
     THEN worker' = [worker EXCEPT ![r] = Resting]
     ELSE IF journal[Trial(r)].status = "completed"
          THEN worker' = [worker EXCEPT ![r].index = @ + 1]
          ELSE Goto(r, "claim")
  /\ UNCHANGED <<journal, evaluated, result, active, made, spent>>

Claim(r) ==
  /\ At(r, "claim")
  /\ journal' = [journal EXCEPT ![Trial(r)] = [status |-> "running", run |-> NoRun]]
  /\ Goto(r, "prepare")
  /\ UNCHANGED <<evaluated, result, active, made, spent>>

Complete(r) ==
  /\ At(r, "complete")
  /\ journal' = [journal EXCEPT ![Trial(r)] = [status |-> "completed", run |-> worker[r].run]]
  /\ worker' = [worker EXCEPT ![r] = [Resting EXCEPT !.at = "load", !.index = worker[r].index + 1]]
  /\ UNCHANGED <<evaluated, result, active, made, spent>>

\* An exception from the executor is journaled and ends the process.
Raise(r) ==
  /\ At(r, "raise")
  /\ \E status \in {"failed", "interrupted"} :
       journal' = [journal EXCEPT ![Trial(r)] = [status |-> status, run |-> NoRun]]
  /\ worker' = [worker EXCEPT ![r] = Resting]
  /\ UNCHANGED <<evaluated, result, active, made, spent>>

-----------------------------------------------------------------------------
(* LiveTrialExecutor.execute around the benchmark. *)

\* Configuration and health are checked, the evaluation run is looked up.
Prepare(r) ==
  /\ At(r, "prepare")
  /\ \/ /\ Goto(r, IF Trial(r) \in evaluated THEN "recover" ELSE "create")
        /\ UNCHANGED spent
     \/ Fail(r, "raise")
  /\ UNCHANGED <<journal, evaluated, result, active, made>>

\* create_run refuses a run that another process created in between.
Create(r) ==
  /\ At(r, "create")
  /\ Goto(r, IF Trial(r) \in evaluated THEN "raise" ELSE "recover")
  /\ evaluated' = evaluated \cup {Trial(r)}
  /\ UNCHANGED <<journal, result, active, made, spent>>

\* Mutant: a stored result is not taken up.
RecoverNever(r) ==
  /\ At(r, "recover")
  /\ Goto(r, "restore")
  /\ UNCHANGED <<journal, evaluated, result, active, made, spent>>

\* A stored result is the outcome, without another run.
Recover(r) ==
  /\ At(r, "recover")
  /\ IF result[Trial(r)] # NoRun
     THEN worker' = [worker EXCEPT ![r].at = "complete", ![r].run = result[Trial(r)]]
     ELSE Goto(r, "restore")
  /\ UNCHANGED <<journal, evaluated, result, active, made, spent>>

\* The artifact is checked and scored, the score replaces an earlier one.
Score(r) ==
  /\ At(r, "score")
  /\ \/ /\ result' = [result EXCEPT ![Trial(r)] = worker[r].run]
        /\ Goto(r, "complete")
        /\ UNCHANGED spent
     \/ /\ Fail(r, "raise")
        /\ UNCHANGED result
  /\ UNCHANGED <<journal, evaluated, active, made>>

-----------------------------------------------------------------------------
(* BenchmarkRunner.run: launch in its try, the agent, and restore at the end. *)

\* A call to restore-all whose answer may be lost after it was carried out.
RestoreAll(r, done, failing) ==
  \/ /\ active' = {}
     /\ Goto(r, done)
     /\ UNCHANGED spent
  \/ /\ active' \in {active, {}}
     /\ Fail(r, failing)

\* Mutant: launch trusts what the last trial left.
CleanSlateTrusted(r) ==
  /\ At(r, "restore")
  /\ Goto(r, "inject")
  /\ UNCHANGED <<journal, evaluated, result, active, made, spent>>

CleanSlate(r) ==
  /\ At(r, "restore")
  /\ RestoreAll(r, "inject", "finally")
  /\ UNCHANGED <<journal, evaluated, result, made>>

Planned(r) == FaultsOf[Trial(r)]

\* The next fault is injected, or, after the last, the stimuli are sent. Stimuli
\* leave the faults alone; one that fails may stand anywhere between them.
Inject(r) ==
  /\ At(r, "inject")
  /\ \/ /\ IF worker[r].next <= Len(Planned(r))
           THEN Goto(r, "inspect") /\ active' = active \cup {Planned(r)[worker[r].next]}
           ELSE Goto(r, "agent") /\ UNCHANGED active
        /\ UNCHANGED spent
     \/ /\ active' \in {active} \cup {active \cup {Planned(r)[i]} :
                                        i \in {worker[r].next} \cap DOMAIN Planned(r)}
        /\ Fail(r, "undo")
  /\ UNCHANGED <<journal, evaluated, result, made>>

\* The injected fault must be listed.
Inspect(r) ==
  /\ At(r, "inspect")
  /\ IF Planned(r)[worker[r].next] \in active
     THEN worker' = [worker EXCEPT ![r].at = "inject", ![r].next = @ + 1]
     ELSE worker' = [worker EXCEPT ![r].at = "undo", ![r].failed = TRUE]
  /\ UNCHANGED <<journal, evaluated, result, active, made, spent>>

\* launch restores before it raises again; run restores once more.
Undo(r) ==
  /\ At(r, "undo")
  /\ RestoreAll(r, "finally", "finally")
  /\ UNCHANGED <<journal, evaluated, result, made>>

\* The agent investigates while the runner waits. Its answer may be lost.
RunAgent(r) ==
  /\ At(r, "agent")
  /\ \/ /\ made' = Append(made, Trial(r))
        /\ worker' = [worker EXCEPT ![r].at = "finally", ![r].run = Len(made')]
        /\ UNCHANGED spent
     \/ /\ made' \in {made, Append(made, Trial(r))}
        /\ Fail(r, "finally")
  /\ UNCHANGED <<journal, evaluated, result, active>>

\* Mutant: nothing is restored behind a run that went well.
FinallyIfFailed(r) ==
  /\ At(r, "finally")
  /\ IF worker[r].failed THEN RestoreAll(r, "raise", "raise")
     ELSE Goto(r, "score") /\ UNCHANGED <<active, spent>>
  /\ UNCHANGED <<journal, evaluated, result, made>>

\* Mutant: the result of the run is not scored.
FinallyUnscored(r) ==
  /\ At(r, "finally")
  /\ RestoreAll(r, IF worker[r].failed THEN "raise" ELSE "complete", "raise")
  /\ UNCHANGED <<journal, evaluated, result, made>>

Finally(r) ==
  /\ At(r, "finally")
  /\ RestoreAll(r, IF worker[r].failed THEN "raise" ELSE "score", "raise")
  /\ UNCHANGED <<journal, evaluated, result, made>>

-----------------------------------------------------------------------------

\* A process dies, or a save of the journal is refused. Nothing is restored.
Crash(r) ==
  /\ ~At(r, "idle") /\ spent.crashes < MaxCrashes
  /\ worker' = [worker EXCEPT ![r] = Resting]
  /\ Spend("crashes")
  /\ UNCHANGED <<journal, evaluated, result, active, made>>

Step(r) ==
  \/ Load(r) \/ Claim(r) \/ Prepare(r) \/ Create(r) \/ Recover(r) \/ CleanSlate(r)
  \/ Inject(r) \/ Inspect(r) \/ Undo(r) \/ RunAgent(r) \/ Finally(r) \/ Score(r)
  \/ Complete(r) \/ Raise(r)

Next == \E r \in Runners : Begin(r) \/ Step(r) \/ Crash(r)

Spec == Init /\ [][Next]_vars

-----------------------------------------------------------------------------
(* Properties. *)

\* Every variable has its type.
TypeOK ==
  /\ journal \in [Trials -> [status : {"pending", "running", "completed", "failed",
                                       "interrupted"}, run : Nat]]
  /\ evaluated \in SUBSET Trials
  /\ result \in [Trials -> Nat]
  /\ active \in SUBSET Faults
  /\ worker \in [Runners -> [at : Places, index : Nat \ {0}, next : Nat \ {0},
                             run : Nat, failed : BOOLEAN]]
  /\ made \in Seq(Trials)
  /\ spent \in [starts : Nat, crashes : Nat, failures : Nat]

\* A trial journaled as completed names an agent run that was made for it, and
\* EvaluationLab holds a score of such a run, whatever other processes overwrote
\* and wherever processes died (runner.py 145-154, live_executor.py 387-408, 476).
MadeFor(t, run) == run \in DOMAIN made /\ made[run] = t
CompletedHasResult ==
  \A t \in Trials : journal[t].status = "completed" =>
    /\ MadeFor(t, journal[t].run) /\ MadeFor(t, result[t])
    /\ t \in evaluated

\* One process at a time.
Alone == \A q, r \in DOMAIN worker : q = r

\* With one process at a time, the agent investigates exactly the faults of its own
\* scenario: whatever a dead process or a failed launch left behind was restored
\* (benchmarklab/runner.py 144, 176, 243).
OnlyItsFaults(r) == At(r, "agent") => active = ToSet(Planned(r))
AgentSeesItsFaults == Alone => \A r \in DOMAIN worker : OnlyItsFaults(r)

\* With one process at a time, only a run whose faults were restored is scored, and
\* it is the run of this process.
CleanedUp(r) == At(r, "score") => active = {} /\ MadeFor(Trial(r), worker[r].run)
ScoredAfterCleanup == Alone => \A r \in DOMAIN worker : CleanedUp(r)

\* With one process at a time, no agent run is made for a trial that has a score: a
\* process that died between the score and the journal is recovered (live_executor.py
\* 430-432).
RunsUnscored == \A t \in Trials : made' = Append(made, t) => result[t] = NoRun
ScoredNotRepeated == [][Alone => RunsUnscored]_vars

(* What the documentation says of the program, and the program does not do. *)

\* docs/phase-8-handoff.md:18, "restart-safe resume without duplicate completed
\* agent runs".
NoDuplicateRuns ==
  \A t \in Trials : Cardinality({i \in DOMAIN made : made[i] = t}) <= 1
=============================================================================
