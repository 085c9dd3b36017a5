# OpsSentinel in TLA+

OpsSentinel investigates incidents with an agent (LangGraph, FastAPI, PostgreSQL), may carry out one
approved action on a sandbox, and is measured by laboratories that inject faults (ChaosLab), run
scenarios (BenchmarkLab), score runs (EvaluationLab) and compare configurations (ResearchLab).
This directory holds models of the parts whose correctness depends on order, failure and
concurrency, the TLC runs that check them on small instances, and proofs for every instance.

## 1. The system

| Component | State it keeps | Operations | Interacts with |
|---|---|---|---|
| Investigation graph, `AgentRuntime` | `AgentState`: next node, status, plan, budget, pending tool, evidence, diagnosis, report | `start`, `resume`, ten graph nodes, interrupt | store (a save after every node), reasoning provider, tool registry |
| Reactive architecture | the same, the plan renewed after every observation | `_select_tool` with a replan | as above |
| Operational runtime, `Phase5Runtime` | `operation_stage`, approval, action response, verification | `start`, `resume`, `decide_approval` | `AgentRuntime`, retrying registry, store |
| Tool registry, `RiskPolicy`, `RetryingToolRegistry` | registered tools and their risk; retry events per request | `invoke`, `begin_capture`, `drain_failures` | tools, ChaosLab's controller |
| Checkpoint store | one JSON checkpoint per run, a revision nobody compares | `create`, `save`, `load` | PostgreSQL |
| Reasoning providers and their decorators | the decorators keep nothing but what they find in the run; each leaves its mark in the provider's name | `plan`, `update_hypotheses`, `enough_evidence`, `diagnose`, `recommend` | the graph, `/agent/health` |
| MCP tools and services | none | one handler per tool | ChaosLab, Git, SQL |
| ChaosLab | fault definitions in Redis; per service connections, memory, files, counters | `inject`, `restore`, `restart`, `rollback`, requests to the services | BenchmarkLab, the R2 tools |
| BenchmarkLab | none between scenarios | `launch`, `run`, `run_catalog` | ChaosLab, the agent API |
| EvaluationLab | evaluation runs, trajectories and scores in SQL | `create_run`, `save_result`, metrics, counterfactuals | ResearchLab |
| ResearchLab campaign | a journal of experiment trials | `run`, `execute`, enumeration and identity of trials | BenchmarkLab, EvaluationLab, the agent API |
| Scripts of the studies (phase 8) and of the optimization (phase 9) | one artifact per arm, one report | run an arm, assert its records, write its artifact; check all artifacts, build the report | the journal, the backend a workflow deployed |
| Observability | metered usage, traces, dashboards | recording and queries | the graph, the labs |
| Frontend, scripts, workflows, migrations | none of their own | pages, smoke tests, CI | the API |

### What is hard in it

- **Copies and checkpoints.** A request handler works on its own copy of a run and saves it after
  every node. Nothing compares revisions, so two requests on one run overwrite each other, and a
  handler that dies leaves the checkpoint behind what it did.
- **Await points.** Handlers share one event loop. What is decided between two awaits is atomic,
  what is decided before an await and used behind it is not.
- **Calls that may have happened.** A tool that timed out, or whose caller died, may have acted.
- **Budgets and loops.** Termination rests on budgets that are charged in some places, looked at in
  others.
- **A human in the loop.** An approval is decided between two requests, possibly twice at once.
- **Evidence that argues.** Tools fail, answer with nothing or too late; decorators reorder, cap,
  extend and delay what the provider decides; a later call may take the ground from a hypothesis.
- **Experiments that must stay controlled.** The treatment of a trial is the configuration of a
  server somebody else deploys. Scripts die, resume, and are given each other's artifacts, and what
  keeps a comparison honest are checks spread over the executor, the scripts and the reports.

`PROJECT.json` lists the hazards at their lines.

## 2. The modules

| Module | What it is |
|---|---|
| `AgentInvestigation` | the investigation graph for one run, several handlers, the reactive variant |
| `AgentInvestigation_proofs` | its inductive invariant and the theorems |
| `ApprovalBoundary` | what the approval flow promises, without handlers, copies, retries or crashes |
| `OperationalRun` | `Phase5Runtime` with the registry and its retries, for one run |
| `OperationalRun_proofs` | its inductive invariant, the theorems, and the refinement of `ApprovalBoundary` |
| `SandboxService` | ChaosLab around one simulated service: controller, fault store, event loop, resets in threads |
| `ExperimentTrials` | a ResearchLab campaign: its processes, the journal of trials, EvaluationLab's store, BenchmarkLab |
| `ExperimentTrials_proofs` | its inductive invariant and the theorems |
| `SandboxService_proofs` | its inductive invariant and the theorems |
| `Plans` | operators: the plans of the reasoning providers and what each decorator makes of them |
| `Plans_proofs` | lemmas: sums over finite sets; a plan stays a plan without repetitions through every decorator, and keeps what it asks |
| `Reasoning` | one investigation as the chain of reasoning providers sees it |
| `Reasoning_proofs` | its inductive invariant and the theorems |
| `Treatments` | operators: the backend's settings, its health, the plans of the experiments, the identity of a trial, the executor's checks |
| `StudyReports` | operators: cohort, checks, observations and report of each of the six studies |
| `Studies` | a study from its first trial to its report: scripts, journal, store, artifacts, deployments |
| `Studies_proofs` | its inductive invariant, the theorems, and the refinement of `PublishedStudy` |
| `ParetoFront` | operators: dominance, the frontier and the best configuration |
| `PublishedStudy` | what a study promises its reader, without scripts, restarts or deployments |
| `ParetoCampaign` | the optimization of phase 9 over its grid of configurations |
| `ParetoCampaign_proofs` | theorems about `ParetoFront` for every set of points; the inductive invariant of `ParetoCampaign`, its theorems, and the refinement of `PublishedStudy` |
| `MC...` | values for the constants, one `.cfg` per run |

`Studies` extends `StudyReports`, which extends `Treatments`, which extends `Plans`; `Reasoning`
extends `Plans`; `ParetoCampaign` extends `Treatments` and `ParetoFront`. What is an agent run there
is `AgentInvestigation`'s subject in its control and `Reasoning`'s in its content; what a trial does
to ChaosLab, BenchmarkLab and the journal is `ExperimentTrials`'. Two MC modules put two instances of
one module side by side: `MCArchitectures` (variable `reactive`) the two architectures, `MCOperations`
and `MCCampaign` (variable `alone`) one handler or process at a time and two at once.

Three helpers are written out instead of taken from a library, because the provers can look into
them: `Only(s, places)` (`Plans`) is what a filter over a sequence keeps, `Extended(record, more)`
(`StudyReports`) a record with the fields of another, and `With(entries, trial, entry)` (`Studies`) a
journal or a store after one save.

Properties stand at the end of their module, and so do the formulas their violations are shown with.
Operators under a comment that begins with *Mutant* are wrong variants of the definition that
follows them; they are used nowhere in the specifications and show that the properties notice them.

### AgentInvestigation

`store` is the checkpoint, `worker[h]` what handler `h` holds: the node it is about to run (`at`),
the node its request named in `pause_after`, and its copy of the run. One action is one graph node:
it works on the copy and ends in `Leave`, which is `_checkpoint` (save) together with LangGraph's
routing. Five edges of the graph are fixed, the others follow `next_node`; `Successor` keeps the two
apart, because a fixed edge may disagree with the checkpoint. A node with an interrupt leaves the
handler `interrupted`, and `Pause` is the rest of `_invoke`.

Abstractions: a plan is a sequence of invocations (tool and arguments) with the set of completed
steps; evidence is its number; tokens and cost are `overspent` or not; the clock is `late` or not,
and may pass the limit at any moment; a diagnosis cites evidence or does not. Providers answer with
any plan of a finite set, may overspend, may fail (`ReasoningProviderError`); tools return data or
an error. `Abort` is a handler that stops anywhere: the process dies or a save is refused. If it was
waiting for a tool, the tool may have run.

### OperationalRun and ApprovalBoundary

One handler's request is a walk through `idle, investigating, investigated, operating, acting,
verifying`. In `operating` the code does not await between saves, so no other handler runs
(`LoopFree`); this is what makes a decision of an approval atomic. Inside `investigating` the
module keeps of the investigation only what the operation sees: it charges calls, checkpoints, and
ends with a status, claims and an action that agree as `_report` makes them agree (`Outcomes`).
`Act` is one attempt of `RetryingToolRegistry.invoke` on `ToolRegistry.invoke`; attempts that fail
with a retryable error may or may not have acted; after the last one the rest of `_execute_action`
belongs to the same step. `Close` is `_refresh_report`, the save and the return.

`approvals, granted, declined, effects` are history: what was asked, what humans decided and what
acted. They are exactly the variables of `ApprovalBoundary`, whose behaviours are those with
approvals decided at most once and effects of R2 tools only under a granted one. The refinement
mapping is the identity on them.

### SandboxService

The controller's operations are walks of an operator through `op`; each sends a reset to the service
(`reset[o]`), which may be lost on the way, and returns whether it was answered or not, because
`reset_service` swallows errors. The service has one event loop: a request reads the faults from
Redis one key after the other (`ReadFault`) and applies them without another await, so `loop` holds
the request from `Begin` on. The reset endpoint is a plain function that FastAPI runs in a thread:
it arrives when the loop is free (`ResetArrives`), and then takes its five steps beside whatever the
loop does (`ResetStep`). A slow request under N+1 writes its query count behind its sleep.

Abstractions: severity and configuration of a fault are two limits, what it may use and where it
fails (`Specs`); memory is counted in chunks; the counters of requests, errors and simulated
restarts, the logs, and the gateway's calls to other services are left out; the controller itself
does not die (its death before a reset is a lost reset). `lost` is history: a reset was lost and
none has arrived since.

### ExperimentTrials

`worker[r]` is a process that runs the campaign: the place it has reached, its index in the list of
trials, the fault it injects next, the agent run it holds, and whether an exception is on its way.
The places follow `ExperimentRunner.run`, `LiveTrialExecutor.execute` and `BenchmarkRunner.run` down
to each call that another process or a crash can come between. `Fail` is an exception; where it
leads is the code's `try`, `except` and `finally`. A call to ChaosLab or to the agent may have been
carried out although its answer is lost.

Abstractions: enumerating trials and deriving their identities is `Campaign`, a fixed sequence that
every process derives again; the stimuli of a scenario leave the faults alone; an agent run is its
number, and `made` is the history of the trials they were made for; scores are those of a run. A
save that the database refuses ends a process like a crash. ChaosLab holds any faults at the start.

### Plans and Reasoning

A step of a plan keeps its id, tool, service, what is asked, the limit on records and whether it is
bounded to a time window. `BaselinePlan` is the deterministic provider's plan for an incident,
`OllamaPlan` what is accepted of a model's answer, and `WrappedPlan` the decorators in the order in
which `AgentService` nests them. `Reasoning` takes one incident, one chain of providers and a
`world`: the faults that are active, each at a service it can be injected into, those of earlier
incidents that were restored, and of these the ones whose reset never arrived. `MakePlan`, `Ask`,
`Weigh` and `Conclude` are `plan`, a tool call with its evidence, `update_hypotheses` with
`enough_evidence`, and `diagnose` with `recommend` and the report. A call shows the symptoms of the
active faults (`Symptoms`, read off the sandbox's effects; a gateway answers 502 for what checkout and
payment refuse), unless it fails or they do not show yet (`misses`). It may also show what earlier
faults have left (`Remains`): no restore takes log records and counted restarts back, and the tools
ask for them without a time bound; the gauges of connections, memory and queries stay where the reset
did not arrive, and the disk reads full under an active fault alone. What is left may be pushed out by
newer records, so that it shows or does not. The conjunctions in
`Candidates` are the provider's rules in the order it appends them; `Merged` is the runtime's merge
of new hypotheses into held ones, with the confidences the code gives (in hundredths). The count of
calls without progress is bounded by its limit unless the agent waits for unresolved evidence: such an
agent goes on beyond it.

Abstractions: the text of incidents, logs and hypotheses; times are before, at or behind the onset;
prompts, tokens and confidence a model invents (a model's ordering of the legal steps is kept, every
other answer fails). What a symptom is worth is the code's rule, what the sandbox shows is read from
ChaosLab's effects.

### Treatments, StudyReports and Studies

`Settings` are the variables of the backend's environment that decide which agent it runs, `ChainOf`
and `Health` what the service makes and says of them. `Trial` is the identity derived from plan,
cell and scenario. `HealthMatches` is the executor's comparison before a run; it does not compare the
cap on records, and nothing compares the health again behind it. Nor is the language model behind
the provider compared, and the limits on calls without progress, retries and timeouts (`limits`, as
they are shipped or otherwise) are not even in the health: `RecordsUnderTreatment` says so, and leaves
cap, depth, model and limits open.

`Studies` runs one of the six studies. `script` is the process that runs: `Load` is the loop of
`ExperimentRunner.run` over the enumerated trials, `Check` and `RunAgent` are the executor's health
check with its recovery and the agent run with its score, `Save` the journal entry, `Finish` the
asserts of the arm's script and its artifact, `BuildReport` the report script with the artifacts it
was handed. `Deploy` is somebody who deploys another backend while the script needs it, `Die` a death
or a failed trial. The outcome of an agent run keeps whether it was right, found anything and stopped
early, its plan, and the settings that really ran; `RecordOf` derives calls and marks from those. The
plan is one of `PlansOf`: a deterministic provider has one, a model puts the legal steps in any of the
orders of the constant `Answers`, or there is no plan, because the model changed the steps or was not
reached: such a run fails, and is scored like any other. A provider for compound incidents does not
ask the model. Agents with other limits than the shipped ones may stop at their first call.

Abstractions: the enumeration of a plan is its work list; of a report are kept the observations, the
totals of accuracy and calls per arm, the paired differences, the false positives and what the study
adds (probes, exhausted budgets, first tools, dated hypotheses). Means are totals beside their count.
The database of scores and the journal do not fail here, and one script runs at a time. A control is
never diagnosed rightly, because no provider answers that there is no fault
(`docs/phase-8-handoff.md:182`). The planning script asserts that its database holds as many trials of
each tier as were selected. In the workflow every arm has a database of its own; here the journal is
one, and `Persisted` counts the trials of the arm in it.

### ParetoFront, PublishedStudy and ParetoCampaign

`ParetoFront` is `build_pareto_report` over points with natural costs. `ParetoCampaign` is the script
of one configuration (no journal: a script that dies leaves nothing), the health it reads once, its
trials, its artifact, the catalog it was made with, and the report script's checks. The history
that `PublishedStudy` speaks of is computed: the evidence of an arm is the runs of its artifact, what
is published the runs of the report's pairs; the refinement mapping is that computation. `Studies`
implements the same promise (`ArmsPublished`) with the runs of an artifact's entries and those of the
report's observations; there a script that is run again resumes, and its artifact stays the same.

Abstractions: every configuration has as many trials as every other, so that totals stand for means;
costs are in thousandths and ratios are compared exactly, where the code divides floats; the SVG is left
out. The health tells everything of the settings but the limits. In the workflow each configuration has
a machine of its own; here they share one and take turns, so that a script may also meet what another
has deployed.

## 3. The runs

| Run | Instance | Shows |
|---|---|---|
| investigation_single | either architecture, 1 handler, 3 requests, 2 lost handlers; planner: every pause point, 3 steps, 2 calls; reactive: 3 pause points, 4 steps, 3 calls | every call is charged or lost with its handler; the reactive agent never calls twice; checkpoints never lose evidence, calls or completed steps; every request returns |
| investigation_concurrent | 2 handlers, 3 requests, none lost, 2 steps, 2 calls | budgets, grounded reports and the routing, in the checkpoint and every copy |
| investigation_exhausted | violation | an exhausted run that is resumed is reported completed |
| operations | 1 handler: 5 requests, 2 lost handlers, 6 kinds of action; or 2 handlers: 4 requests, 1 lost, 3 kinds of action | in both: `BoundaryKept` (refinement), verdicts are earned, bounded overdraft, current reports; alone: decisions survive crashes, an approval leads to an end |
| operation_repeated | violation, 2 handlers | an approved action is carried out twice |
| sandbox_concurrent | 2 operators, 2 injections, 2 requests to checkout, 1 lost reset | what is restored is clean, although resets run beside requests |
| sandbox_single | 1 operator, payment, 2 injections with two kinds of limits, 3 requests, 1 lost reset, 1 restart of the container | the footprint of a fault is bounded; the service gets clean unless its last reset was lost |
| campaign | 2 trials; 1 process: 4 starts, 2 crashes, 3 failures; or 2 processes: 3 starts, 1 crash, 2 failures | in both: what is journaled as completed has a run and a score; alone: the agent sees its scenario's faults, only cleaned up runs are scored, a scored trial is not run again |
| experiment_duplicate | violation | a process that dies before it stores the score makes the run again |
| reasoning | 16 chains of providers, every service, 13 worlds of active and earlier faults, up to 2 missed symptoms or failed calls; 185,153 states | a sure diagnosis names a fault that has left the evidence for it, and is current; full evidence finds an active cause under every treatment unless other evidence stands in its way; early stops are earned; nothing is asked twice; investigations end |
| studies | each of the 6 studies with 2 scenarios, 1 of 5 foreign deployments, 1 death, 1 rerun; 528,016 states | `ArmsPublished` (refinement), artifacts stand and come from their treatment as far as it is checked; compared plans come from backends that plan alike; reports add up; what the arms produced can be reported; arms conclude |
| pareto | 3 of the 8 configurations, 2 scenarios, 1 of 2 foreign deployments, 1 new catalog, 1 death, 1 rerun; 995,889 states | `StudyPublished` (refinement), one benchmark version, trials under their treatment, the frontier and the best are what they claim; the grid concludes |

Bounds. `MaxRequests` and `MaxAborts` bound the environment only. Two handlers suffice for every
overwrite, because a handler interferes with another only through the checkpoint. The plans of
`MCAgentInvestigation` include one that repeats a call and one longer than the budget, so that each
of the four budgets is the one that stops a run; three requests let a run be paused, resumed and
resumed again. With two handlers one plan is enough, whose last call repeats another and is one too
many, and no handler dies: a handler may stop anywhere without dying, which leaves the others the
same checkpoint. The actions of `MCOperationalRun` include every risk, an action without a tool, and
actions that state another risk than their tool is registered with. Five requests allow start,
resume, approval and two more beside them. Deadlock is not checked: the environment may stop sending
requests, and a run or a study that has ended stays as it is.

`SandboxService` looks at one service at a time, because services share nothing but the controller;
checkout and payment between them know every kind of fault. `MaxInjects` bounds generations,
`MaxRequests` the files and connections. Two operators suffice for a reset to run beside another and
beside an injection. `ExperimentTrials` has two trials, one with a fault of the other, so that faults
left behind are seen; the starts are enough to resume what was resumed, the crashes and failures to
leave each `except` and `finally` in both ways.

`Reasoning`: every tool order, each treatment alone and the combinations that meet in one decision;
no fault, every single one where the calls look for it, two pairs, and five worlds in which a fault
stands beside one that is over, one whose reset was lost, or one of another service that makes the
gateway fail. Two misses hide both halves of a cross-check, and are as many as the run's
`MaxNonProgress`. `Studies`: two scenarios per arm are one with a fault and one
control where the study demands a control, and two tiers of difficulty where it compares tiers;
`Adversarials`, `Validations`, `Misleading` and `PerTier` are the sizes the code insists on, scaled to
that. Arms begin in order, which loses nothing: they share only the backend, deployed anew for each.
`Deploy` happens only where the script looks at the backend next. What is deployed is a backend with a
model (one passes the check of the active arm, one that of an order), with other limits, with capped
searches, or with the plan for compound incidents; the model turns the order of the steps round or
forgets one. `ParetoCampaign`: three
configurations that differ in every dimension, so that one can dominate, tie or be dominated.

Fairness. `FairSpec` is weak fairness of each handler's own steps: the event loop keeps running what
can run, and tools and providers return, because they are called under timeouts. Requests, decisions
of humans, crashes and the clock are not fair. `SandboxService`: the loop finishes what it began,
threads and operations go on (weak fairness), and a reset that is not lost arrives although the loop
is taken again and again (strong fairness: the loop's queue is first in, first out). `Reasoning`:
one process without waiting, weak fairness of `Next`. `Studies`, `ParetoCampaign`: a script that
runs goes on (every call in it has a timeout), and the script of an arm without an artifact is run
again by whoever wants the report: without all artifacts there is none. `campaign` needs no
fairness.

## 4. The proofs

`AgentInvestigation_proofs` proves, for every set of handlers and invocations, every set of plans and
all budgets and bounds, `Spec => []IInv` and from it `TypeOK`, `BudgetsHold`,
`EvidenceBacksReports`, `EndMatchesReport`, `PendingDiscipline` and `RoutingMatchesCheckpoint`.
The properties are not inductive alone: what a handler saves depends on its copy *and* on its place
in the graph. `IInv` therefore states per copy what each node may rely on, and asks the same of the
checkpoint, which any copy may become and any request may load.

With one handler more holds, and `SoleInv` says what: a copy in flight *is* the checkpoint, and the
calls made are no more than those charged to it and those of handlers that died. From it follow
`CallsAccounted` and `CheckpointsOnlyGrow`. `NewInv` says of any number of handlers that each copy of a
reactive run has new calls only, and gives `ReactiveCallsOnce`.

`OperationalRun_proofs` proves `Spec => []IInv` and from it `TypeOK`, `VerificationFollowsEffect`,
`CallsBounded` and `ReportIsCurrent`, and `BoundaryIsKept`: `Spec => BoundaryKept`. `IInv` is
`Lawful` of the checkpoint and of every copy: the run agrees with the decisions taken and with what
acted. Its key is that a pending approval is found in the checkpoint only, never in a copy in
flight, so that no handler can bring a decided approval back to pending. `Grown` and `LawfulGrows`
carry the other copies over a step of one handler. Assumptions are those of the modules
(`ToolAssumption`, `NumberAssumption`, `BudgetAssumption`, ...): the budgets are positive, the tools
have a risk, the bounds are numbers. `DecisionsAreKept` adds that with one handler the checkpoint
has every decision a human took: no copy older than a decision is ever saved over it.

`ExperimentTrials_proofs` proves, for every set of processes, every campaign, all faults and bounds,
`Spec => []IInv` and from it `TypeOK` and `CompletedHasResult`. Processes share the journal and the
stores without a lock, so a process may rely only on what nobody takes back: runs that were made,
evaluation runs that exist, and that a stored score is only replaced by another. `Honest` says what
each place relies on, `Grown` what no step takes back; `OthersStayHonest` combines the two. `TendedInv` is the invariant of one
process: what ChaosLab holds at each place is the part of the scenario's faults that this trial has
injected, whatever earlier processes left behind, and a trial on its way to an agent run has no score.
It gives `AgentSeesItsFaults`, `ScoredAfterCleanup` and `ScoredNotRepeated`.

`SandboxService_proofs` proves, for every service, any callers, limits and bounds, `TypeOK`,
`RestoredIsClean` and `FootprintBounded`. `RestoredIsClean` speaks of the end only; `Remembered` says
what holds on the way: whatever a request has read of a fault, and whatever the service keeps of one,
a reset is still to come that has not got beyond the step that clears it, unless a fault is defined or
a reset was lost. For what a request has read it must be a reset not yet taken up, and it is, because
the loop takes up none while it works for a request. `Footprint` adds that the file about to be listed
was still allowed when it was written, which a reset in its thread only makes truer.

`ParetoCampaign_proofs` first proves of any set of points with numbers up to a bound that the frontier
covers what is off it (`FrontierCovers`: take the cheapest, most accurate of those that beat a point),
that it climbs, that a best configuration is unbeaten by all points, and that there are no two best
ones. Of the campaign it proves, for every grid, cohort, catalog and bounds: `TypeOK`,
`TrialsUnderTreatment` (from `HealthTellsTheTreatment`: a backend that passes the health check is the
deployed one in all but its limits, which no health reports), `ComparedOnOneBenchmark`, and `CampaignPublishes`: `Spec => StudyPublished`. The
invariant keeps runs of different artifacts apart, because every run is newer than all written ones.
`FrontierHolds` and `BestHolds` bring the two together: the points of a report are sums over the
trials of an artifact, each sum is a natural number below a bound, and so every report covers its
configurations and names exactly one best.

`Plans_proofs` proves what the decorators keep of a plan, for every incident and every plan of the
provider: its steps are steps, and no two of them ask the same question. A sequence made of the
elements at some places of another, or of several sequences one behind the other, is handled by
`OnlyKeeps` and `FlattenKeeps`; the induction they need is over a set of numbers (`NumberByNumber`),
because a set is a parameter the provers can instantiate and an operator is not. The sums over finite
sets, which the two report modules need, are there too: what a sum is (`SumTakes`), that it grows with
its set (`SumGrows`, for the bounds in `ParetoCampaign_proofs`), and how sums are subtracted, renamed
and grouped (`SumDifference`, `SumRenamed`, `SumGrouped`, for `Studies_proofs`). `Reasoning_proofs`
proves from it, for every incident, any active, restored and uncleared faults of all services, every
chain and any calls that fail or miss their symptoms: `TypeOK`, `NothingAskedTwice`, `SureIsRight` and
`EarlyStopIsEarned`. `Calling` says that no two calls are the same, that those of the planner are
completed steps of its plan, and that evidence shows only what is there or is left; `Holding` that
every hypothesis of confidence 90 or more cites two pieces of evidence and names a cause in
`Established(world)`, which survives the merge of held and new hypotheses. `VisibleMeans` says which
faults a symptom can come from: of the two calls that establish a cause, one asks for something that
only this fault moves at this service (the counter of queries, the pool, the disk, the restarts, a
401), and it decides whether a restore takes the evidence back. `Stopping` relates the count of calls without progress to the last entries of the
history.

`FullEvidenceFindsTheCause` speaks of an active fault at the service asked about. Evidence that
establishes another cause stands in its way when the same calls ask for it, with one exception: a full
disk is looked at before the restarts that a memory leak rests on, unless a model orders the steps
(`StandsBack`, `BackedAtHome`, `DiskIsSeen`). Both properties, this one and `DiagnosisIsCurrent`, need to
know what the plans ask. `WrappedAsks`
says that no decorator drops a question a root cause of the service is established by (`Core`), nor
brings the worker's restarts before its disk; `FullPlansAsk` says so of every plan of a chain. `CandidatesTell`
reads off the provider's rules which causes the evidence derives. From there `Deriving` says that what
is derived is held once it is weighed, `Finding` that all that was asked is answered in full when
nothing was missed, and `Settling` why a memory leak that is held is still derived: with one plan the
disk has been looked at before it (`DiskFirst`), and a chain with several plans that waits for nothing
stops at once. Only a model that orders the steps for an agent that waits escapes both, which is the
exception `DiagnosisIsCurrent` makes. `ReasoningAssumption` says that the provider is one of the two
`build_reasoning_provider` makes.

`Studies_proofs` proves, for any cohorts, outcomes, deployments, deaths and reruns, `TypeOK`,
`ArtifactsStand` and `RecordsUnderTreatment`. `StudyInv` has a part for the store (`Scored`: there
are as many runs as scored trials, and the health read for each trial matched it), the journal
(`Journaled`), the script at its place (`Working`: all trials before the next one are completed) and
the artifacts (`Written`). A record is of its arm because of `TreatmentTold`: what the executor
compares determines all settings of the backend but cap, depth, model and limits. `WorkListed` shows of each
of the six work lists, tiers and budgets included, that its trials have the configuration of their arm.

Two further invariants carry what is said of reports: `ArmsInv`, that the script of each arm has found
its entries to be of its work list, none twice and all healthy, and `ReportInv`, that a study with a
report is over. The reports look up the observation of a scenario in an arm with a choice; `PairFound`
shows that there is one only, because an arm has one entry for each trial and the ids of a cohort are
unique (`StudiesAssumption`, which the catalog validates in `benchmarklab/models.py`).

`ComparisonInvariance` is `Spec => []ComparedRunsPlanAlike`. It does not rest on the health that was
checked, because the run may be another backend's, but on the plans that the records hold. A plan gives
its backend away (`PlainReads` through `EntryShows`): the logs it reads have the limit of the cap and
the window of the temporal treatment; a probe is in it just when verification is enabled; and the plan
for compound incidents reads the logs of two services that no other plan reads together
(`HomesApart`), and has no probe. Two plans that the report of tool orders found to be the same calls in
another order (`OrdersCompared`), or that of probes to be the same but for the probes (`ProbesCompared`),
mirror each other's log steps (`StrippedMirrors`), and so their backends read alike (`AlikeShown`). The
report of compound handling asks for the registered plan, which is the compound one (`StopsCompared`).
What a plan does not show the property does not claim: the architecture, the order, the limits, the
strategy of stopping, the model. The reports on temporal reasoning, budgets and planning compare no
plans, and a backend that was deployed behind the check goes unnoticed there (hazard at
`live_executor.py:440`).

`StudyPublishes` is `Spec => ArmsPublished`, the refinement of `PublishedStudy` by all six studies. Two
more invariants carry it: `RunsInv`, that no run has scored two trials, and `RepeatInv`, that what an
arm has written down is what its script would write again, since no step takes back a completed trial
(`JournalStands`). Arms share no run because they share no trial (`ArmsApart`). That all arms have
equally many runs is what the reports insist on: one trial for each scenario (`ArmCovers`), as many
as the cohort has (`PlanningHanded`), or one script for all the budgets.

`ReportsAddUp` is `Spec => []ReportAddsUp`. The observations of a report are a grid: every scenario has
exactly one in every arm, whatever the report accepted (`Located`, `Grid`, `GridGathered`). `SettingsInv`
adds to the other invariants that every stored outcome is of a backend there is. From the grid, a sum
over the pairs of an arm with the reference is the difference of two sums, and the tiers share the
scenarios out, so that what the report groups by difficulty adds up to what it says of the arm.
`StudiesAssumption` says for this that each scenario has an incident and one of the five difficulties,
and of the planning study that its scripts have selected `PerTier` scenarios of every tier they found,
in the split of that tier.

`FinishedReports` is `Spec => []FinishedStudiesReport`: of a study that has all its artifacts, and
whose agents all ran with the settings checked for them, the report script turns nothing away, where
the reports of orders and of probes ask in addition that no searches were capped and no run failed for
want of a plan, and that of probes that no model made the plans. `StartedInv` says that a script which has begun has found its plan and cohort as registered, so
that its work list holds every scenario (`ScenarioHeard`), and `RecordsCounted` that there are as many
records as scenarios in all arms. The rest is about plans: what the decorators make of one incident's
plan is the same in every arm but for what the arm is about. Two orders of it hold the same calls
(`OrdersAlike`), verification adds its probe in the one arm and nothing in the other (`ProbedAlike`),
and no plan asks twice. From this follow the acceptance of each of the six scripts (`OrdersAccepted`,
`ProbesAccepted`, `StoppingAccepted`, and `FinishedComplete` for the others), that no single record is
refused (`FinishedObservable`), and that the artifacts are the ones asked for (`FinishedArtifacts`).
The conditions are needed, and `Check` lets each of them be broken, because it compares neither cap nor
model: capped searches differ in their limits, a failed run has made none of the planned calls, and a
model may order the same steps differently in the two arms of the study of probes, which
`passive_verification.py:395` refuses. The study of tool orders accepts a model's plans: it
compares which calls were planned, not their order.

`TypeOK` of `AgentInvestigation`, `OperationalRun`, `ExperimentTrials`, `SandboxService`, `Studies`
and `ParetoCampaign`, and `EndMatchesReport` and `PendingDiscipline`, are proved and for that reason in no
run.

Only model-checked:

- the liveness properties `RequestsReturn`, `ApprovalLeadsToEnd`, `EventuallyClean`,
  `InvestigationEnds`, `ArmsConclude` and `GridConcludes`: the prover has no rules for fairness and
  ENABLED.

## 5. What the code does not keep

Formulas at the end of the modules state what a document, comment or test of the repository says and
the program does not do. Three are kept as runs, because they say most about the program's promises:
`ExhaustedNotCompleted`, `OneEffectPerApproval` and `NoDuplicateRuns`. The others were found in the
same way, and any run of the module with the formula as its only invariant shows them:

| Formula | Instance | What happens |
|---|---|---|
| `CallsWithinBudget` (`OperationalRun`) | operations | `_execute_action` looks at the budget before its first attempt only, `_verify` never: an action begun with the last call completes above the budget. `backend/tests/test_phase5_runtime_retry.py:233` expects it within |
| `NothingRaised` (`OperationalRun`) | operations | a failed operational investigation has ended at stage NONE; `resume` assesses an action, and the refreshed report is refused without claims: this and every later resume raises. `docs/phase-5-implementation-plan.md:53` promises graceful termination |
| `PoolBounded` (`SandboxService`) | sandbox_concurrent with 4 requests | the leak counts a connection for every request, also for those it refuses (`effects.py:23`). `docs/chaoslab.md:28` calls the counter bounded |
| `RestoreZeroesConnections` | sandbox_concurrent | `reset_service` swallows HTTP errors: a restore whose reset was lost reports success. `docs/chaoslab.md:101` says restore returns connections to zero |
| `RestoreZeroesQueries` | sandbox_concurrent | a request that sleeps under N+1 writes its query count after the reset (`service.py:178`). `docs/phase-2-handoff.md:45` says restore returns it to the baseline |
| `RestoreDeletesFiles` | sandbox_concurrent | a file that is listed between the reset's unlinking and its clearing of the list is forgotten on disk (`runtime.py:28`). `docs/chaoslab.md:110` says restore deletes the files |

What else the code lets happen, and the properties therefore exclude:

- An agent can be sure of a memory leak or of a broken payment configuration that is over: nothing
  takes counted restarts (`docs/chaoslab.md:129` wants them to stay visible) or log records back, and
  the tools ask for both without a time bound. `SureIsRight` says of which faults this is so.
- A service whose last reset was lost keeps what its faults have left until another reset or a restart
  of its process; the controller reports success. `RestoredIsClean` and `EventuallyClean` exclude it.
- `operational_mode` is saved only behind the investigation: a process that dies before loses the
  operation, although no decision of a human (`DecisionsKept`).
- Two campaigns on one ChaosLab wipe each other's faults, and may run a trial again that the other
  has just scored: `AgentSeesItsFaults`, `ScoredAfterCleanup` and `ScoredNotRepeated` are stated for
  one process.
- A backend that is deployed between a check and the runs behind it is measured under the name of the
  one that was checked, unless its plans give it away to a report (`ComparedRunsPlanAlike`); limits and,
  in phase 8, the model escape the check itself.

## 6. The plan

1. *Done:* `AgentInvestigation`, `OperationalRun` with `ApprovalBoundary`, `SandboxService`,
   `ExperimentTrials`, and the proofs about each of them.
2. *Done:* `Plans` and `Reasoning`; `Treatments`, `StudyReports` and `Studies`; `ParetoFront`,
   `PublishedStudy` and `ParetoCampaign` with their proofs.
3. *Done:* proofs about `Plans`, `Reasoning` and `Studies`, the properties of a single handler or
   process, the action properties, and the sums under the frontier.
4. *Done:* an implementation of `PublishedStudy` by `Studies`, whose arms resume instead of starting
   over; the sums of its reports, and that a study with all its artifacts can report.
5. `ToolInvocation`: several calls through `RetryingToolRegistry` and `ToolRegistry` at once, with
   timeouts, cancelled handlers and the retry events of each request (`ContextVar`), and an abstract
   call that acts at most once per attempt and never without authorization.
6. The metrics of EvaluationLab over rational scores, and the percentiles of observability's store,
   each against a reference definition over bounded inputs.

## 7. What is not modelled, and why

- The relational copies of evidence, tool calls and hypotheses that `SqlAgentStore.save` rewrites
  with each checkpoint: they are written in the same transaction and never read back by the runtime.
- The tools themselves, their validation of SQL, paths and revisions, and the service clients: each
  is one call out whose answer is success or failure, with the symptoms it shows, for everything that
  is modelled.
- What a language model writes: its plan is an order of the legal steps or refused, its usage over
  the budget or not.
- Observability and the frontend: they read what is modelled and steer nothing.
- The scores themselves, latencies and hallucination rates of the studies, and the
  drawing of the frontier: arithmetic and layout over records that are modelled.
- Scenario data and their validation, release manifests, migrations, smoke scripts and the other
  workflows: sequential code or data without a state of the running program.
