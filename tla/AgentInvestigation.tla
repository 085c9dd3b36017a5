------------------------- MODULE AgentInvestigation -------------------------
(***************************************************************************)
(* The investigation graph of AgentRuntime (backend/app/agent/runtime.py)  *)
(* for one run: ten nodes, each of which copies the state it is given,     *)
(* works on the copy and ends in a checkpoint.  `store' is the checkpoint  *)
(* the database holds; a request handler carries its own copy of the run   *)
(* between nodes, so that two handlers on the same run, or a handler that  *)
(* dies, leave the checkpoint behind the copies.  ReactiveAgentRuntime     *)
(* (architectures.py) is the same graph with Reactive = TRUE.              *)
(***************************************************************************)
EXTENDS Integers, Sequences

CONSTANTS
  Handlers,      \* request handlers of the API process that may be in flight
  Invocations,   \* distinct tool invocations (a tool name with its arguments)
  NoTool,        \* pending_tool = None
  Plans,         \* the investigation plans the reasoning provider may return
  Reactive,      \* agent_architecture = "reactive_react"
  MaxSteps,      \* AgentBudget.max_steps
  MaxToolCalls,  \* AgentBudget.max_tool_calls
  MaxRepeated,   \* AgentBudget.max_repeated_identical_calls
  PauseAfter,    \* nodes a start request may name in pause_after
  MaxRequests,   \* bound: start and resume requests in a behaviour
  MaxAborts      \* bound: handlers that die before they return

ASSUME BudgetAssumption ==
  /\ MaxSteps \in Nat \ {0}
  /\ MaxToolCalls \in Nat \ {0}
  /\ MaxRepeated \in Nat \ {0}

ASSUME PlanAssumption ==
  /\ NoTool \notin Invocations
  /\ Plans \subseteq Seq(Invocations) \ {<< >>}
  /\ Reactive \in BOOLEAN

ASSUME BoundAssumption == MaxRequests \in Nat /\ MaxAborts \in Nat

Nodes == {"triage", "plan", "select_tool", "execute_tool", "store_evidence",
          "update_hypothesis", "enough_evidence", "diagnose", "recommend",
          "report", "end"}

ASSUME PauseAssumption == PauseAfter \subseteq Nodes \ {"end"}

Statuses == {"created", "running", "paused", "completed", "failed",
             "budget_exhausted"}

(***************************************************************************)
(* AgentState.  Of a plan only the calls and the set of completed steps    *)
(* are kept, of the evidence its number, of the diagnosis whether it cites *)
(* evidence.  tool_history has one entry per tool call and needs no field. *)
(***************************************************************************)
Runs ==
  [node: Nodes, status: Statuses,
   plan: Seq(Invocations), done: SUBSET Nat,
   steps: Nat, calls: Nat, repeated: [Invocations -> Nat],
   pending: Invocations \cup {NoTool},
   response: {"none", "data", "error"}, evidence: Nat,
   diagnosis: {"none", "grounded", "ungrounded"},
   overspent: BOOLEAN, exhausted: BOOLEAN,
   report: Statuses \cup {"none"}]

NoPlan == << >>

Fresh ==
  [node |-> "triage", status |-> "created", plan |-> NoPlan, done |-> {},
   steps |-> 0, calls |-> 0, repeated |-> [c \in Invocations |-> 0],
   pending |-> NoTool, response |-> "none", evidence |-> 0,
   diagnosis |-> "none", overspent |-> FALSE, exhausted |-> FALSE,
   report |-> "none"]

VARIABLES
  store,     \* the run's durable checkpoint
  worker,    \* per handler: its place in the graph and its copy of the run
  late,      \* started_at lies more than time_limit_seconds in the past
  invoked,   \* tool invocations that really reached the registry
  requests,  \* start and resume requests accepted so far
  aborts     \* handlers that died so far

vars == <<store, worker, late, invoked, requests, aborts>>

Carrying(place, p, r) == [at |-> place, pause |-> p, run |-> r]

Idle == Carrying("idle", "none", Fresh)

Workers ==
  [at: Nodes \cup {"idle", "interrupted"}, pause: Nodes \cup {"none"}, run: Runs]

Init ==
  /\ store = Fresh
  /\ worker = [h \in Handlers |-> Idle]
  /\ late = FALSE
  /\ invoked = 0
  /\ requests = 0
  /\ aborts = 0

-----------------------------------------------------------------------------
(***************************************************************************)
(* Budgets.                                                                *)
(***************************************************************************)
\* Mutant: the budget may be overdrawn by one.
OutOfBudgetLate(r) ==
  late \/ r.steps > MaxSteps \/ r.calls > MaxToolCalls \/ r.overspent

OutOfBudget(r) ==
  \/ late
  \/ r.steps >= MaxSteps
  \/ r.calls >= MaxToolCalls
  \/ r.overspent

Goto(r, next) == [r EXCEPT !.node = next]

Exhausted(r) ==
  [r EXCEPT !.exhausted = TRUE, !.status = "budget_exhausted", !.node = "report"]

Failed(r) == [r EXCEPT !.status = "failed", !.node = "report"]

\* The provider's usage is charged, and the budget looked at, before the run
\* moves on; tokens and cost count only as "over the budget or not".
Charged(r, over) == [r EXCEPT !.overspent = @ \/ over]

AfterUsage(r, next) == IF OutOfBudget(r) THEN Exhausted(r) ELSE Goto(r, next)

-----------------------------------------------------------------------------
(***************************************************************************)
(* The graph.  Five nodes have one fixed successor; after the others       *)
(* _next_router follows the next_node of the checkpoint.  A handler whose  *)
(* request named the node in pause_after stops behind it.                  *)
(***************************************************************************)
Successor(from, next) ==
  CASE from = "triage"         -> "plan"
    [] from = "execute_tool"   -> "store_evidence"
    [] from = "store_evidence" -> "update_hypothesis"
    [] from = "recommend"      -> "report"
    [] from = "report"         -> "end"
    [] OTHER                   -> next

\* Handler h leaves node `from' with the copy r: _checkpoint saves r.
Leave(h, from, r) ==
  LET next == Successor(from, r.node) IN
  /\ worker[h].at = from
  /\ store' = r
  /\ worker' = [worker EXCEPT ![h] =
       IF @.pause = from THEN Carrying("interrupted", @.pause, r)
       ELSE IF next = "end" THEN Idle
       ELSE Carrying(next, @.pause, r)]
  /\ UNCHANGED <<requests, aborts>>

Triage(h) ==
  /\ Leave(h, "triage", Goto([worker[h].run EXCEPT !.status = "running"], "plan"))
  /\ UNCHANGED <<late, invoked>>

\* Mutant: the reactive adapter forgets the calls it has observed.
FirstUnseenForgetful(r, p) == {1}

\* The first call of plan p that the run has not made yet (reactive only).
FirstUnseen(r, p) ==
  {i \in DOMAIN p : /\ r.repeated[p[i]] = 0
                    /\ \A j \in 1 .. i - 1 : r.repeated[p[j]] > 0}

\* What the provider makes of plan p.  A planner may hand over steps already
\* marked completed; the reactive adapter reduces the plan to one step.
PlannedWith(r, p) ==
  IF ~Reactive
    THEN {[r EXCEPT !.plan = p, !.done = d] : d \in SUBSET DOMAIN p}
    ELSE IF FirstUnseen(r, p) = {}
      THEN {[r EXCEPT !.plan = <<p[Len(p)]>>, !.done = {1}]}
      ELSE {[r EXCEPT !.plan = <<p[i]>>, !.done = {}] : i \in FirstUnseen(r, p)}

Plan(h) ==
  LET r == worker[h].run IN
  /\ \/ Leave(h, "plan", Failed(r))
     \/ \E p \in Plans, over \in BOOLEAN : \E q \in PlannedWith(r, p) :
          Leave(h, "plan", AfterUsage(Charged(q, over), "select_tool"))
  /\ UNCHANGED <<late, invoked>>

AllDone(r) == r.plan # NoPlan /\ \A i \in DOMAIN r.plan : i \in r.done

FirstOpen(r) ==
  {i \in DOMAIN r.plan : i \notin r.done /\ \A j \in 1 .. i - 1 : j \in r.done}

\* Mutant: a plan with nothing left to do is planned anew, at no charge.
SelectReplans(h, r) ==
  IF OutOfBudget(r) THEN Leave(h, "select_tool", Exhausted(r))
  ELSE IF AllDone(r) THEN Leave(h, "select_tool", Goto(r, "plan"))
  ELSE \E i \in FirstOpen(r) :
         Leave(h, "select_tool",
               Goto([r EXCEPT !.steps = @ + 1, !.pending = r.plan[i]], "execute_tool"))

\* _select_tool once the budget has been looked at: r is charged one step.
SelectFrom(h, r) ==
  \/ /\ OutOfBudget(r)
     /\ Leave(h, "select_tool", Exhausted(r))
  \/ LET s == [r EXCEPT !.steps = @ + 1] IN
     /\ ~OutOfBudget(r)
     /\ \/ /\ s.plan = NoPlan
           /\ Leave(h, "select_tool", Failed(s))
        \/ /\ AllDone(s)
           /\ Leave(h, "select_tool", Goto([s EXCEPT !.pending = NoTool], "diagnose"))
        \/ \E i \in FirstOpen(s) :
             LET call == s.plan[i] IN
             Leave(h, "select_tool",
                   IF s.repeated[call] >= MaxRepeated THEN Exhausted(s)
                   ELSE Goto([s EXCEPT !.pending = call], "execute_tool"))

\* The reactive runtime first asks for a new plan when its step is completed.
SelectTool(h) ==
  LET r == worker[h].run IN
  /\ \/ /\ ~(Reactive /\ AllDone(r))
        /\ SelectFrom(h, r)
     \/ /\ Reactive /\ AllDone(r)
        /\ \/ Leave(h, "select_tool", Failed(r))
           \/ \E p \in Plans, over \in BOOLEAN : \E q \in PlannedWith(r, p) :
                SelectFrom(h, Charged(q, over))
  /\ UNCHANGED <<late, invoked>>

\* The first open step of the plan that asks for the pending call.
FirstMatch(r) ==
  {i \in DOMAIN r.plan : /\ i \notin r.done /\ r.plan[i] = r.pending
                         /\ \A j \in 1 .. i - 1 : j \in r.done \/ r.plan[j] # r.pending}

\* Mutant: only answered calls are charged.
AnsweredIfData(r, response) ==
  [r EXCEPT !.repeated[r.pending] = @ + 1,
            !.calls = IF response = "data" THEN @ + 1 ELSE @, !.response = response,
            !.done = @ \cup FirstMatch(r), !.node = "store_evidence"]

\* Mutant: next_node is left to the fixed edge of the graph.
AnsweredInPlace(r, response) ==
  [r EXCEPT !.repeated[r.pending] = @ + 1, !.calls = @ + 1, !.response = response,
            !.done = @ \cup FirstMatch(r)]

\* The copy of the run once the registry has answered the pending call.
Answered(r, response) ==
  [r EXCEPT !.repeated[r.pending] = @ + 1, !.calls = @ + 1, !.response = response,
            !.done = @ \cup FirstMatch(r), !.node = "store_evidence"]

ExecuteTool(h) ==
  LET r == worker[h].run IN
  /\ \E response \in {"data", "error"} :
       Leave(h, "execute_tool", IF r.pending = NoTool THEN Failed(r) ELSE Answered(r, response))
  /\ invoked' = IF r.pending = NoTool THEN invoked ELSE invoked + 1
  /\ UNCHANGED late

StoreEvidence(h) ==
  LET r == worker[h].run
      new == IF r.response = "data" /\ r.pending # NoTool THEN 1 ELSE 0
  IN
  /\ Leave(h, "store_evidence",
           Goto([r EXCEPT !.evidence = @ + new, !.response = "none", !.pending = NoTool],
                "update_hypothesis"))
  /\ UNCHANGED <<late, invoked>>

UpdateHypothesis(h) ==
  LET r == worker[h].run IN
  /\ \/ Leave(h, "update_hypothesis", Failed(r))
     \/ \E over \in BOOLEAN :
          Leave(h, "update_hypothesis", AfterUsage(Charged(r, over), "enough_evidence"))
  /\ UNCHANGED <<late, invoked>>

\* The budget is looked at a second time before another tool is selected.  Only
\* the clock can have moved since the first time, and a clock that moves during
\* the node leaves what one that moved just before it leaves.
EnoughEvidence(h) ==
  LET r == worker[h].run IN
  /\ \/ Leave(h, "enough_evidence", Failed(r))
     \/ \E over, enough \in BOOLEAN :
          Leave(h, "enough_evidence",
                AfterUsage(Charged(r, over),
                           IF enough \/ (~Reactive /\ AllDone(r)) THEN "diagnose"
                           ELSE "select_tool"))
  /\ UNCHANGED <<late, invoked>>

\* Mutant: a diagnosis cites evidence without looking whether there is any.
CitedBlindly(r) == "grounded"

\* DeterministicReasoningProvider.diagnose cites evidence whenever there is some.
Cited(r) == IF r.evidence > 0 THEN "grounded" ELSE "ungrounded"

Diagnose(h) ==
  LET r == worker[h].run
      d == [r EXCEPT !.diagnosis = Cited(r)]
  IN
  /\ \/ Leave(h, "diagnose", Failed(r))
     \/ \E over \in BOOLEAN : Leave(h, "diagnose", AfterUsage(Charged(d, over), "recommend"))
  /\ UNCHANGED <<late, invoked>>

Recommend(h) ==
  LET r == worker[h].run IN
  /\ \/ Leave(h, "recommend", Failed(r))
     \/ \E over \in BOOLEAN : Leave(h, "recommend", AfterUsage(Charged(r, over), "report"))
  /\ UNCHANGED <<late, invoked>>

\* A run that ends without a diagnosis gets one that cites all its evidence.
Diagnosed(r) == [r EXCEPT !.diagnosis = IF @ = "none" THEN Cited(r) ELSE @]

FinalStatus(r) ==
  IF r.status # "running" THEN r.status
  ELSE IF r.diagnosis = "grounded" THEN "completed" ELSE "failed"

Report(h) ==
  LET r == Diagnosed(worker[h].run) IN
  /\ Leave(h, "report",
           [r EXCEPT !.status = FinalStatus(r), !.report = FinalStatus(r), !.node = "end"])
  /\ UNCHANGED <<late, invoked>>

-----------------------------------------------------------------------------
(***************************************************************************)
(* Requests, interrupts, the clock and handlers that die.                  *)
(***************************************************************************)
\* AgentRuntime.start: the run is created and the graph entered at triage.
Start(h) ==
  /\ requests = 0 /\ MaxRequests > 0
  /\ store' = Fresh
  /\ \E p \in PauseAfter \cup {"none"} :
       worker' = [worker EXCEPT ![h] = Carrying("triage", p, Fresh)]
  /\ requests' = 1
  /\ UNCHANGED <<late, invoked, aborts>>

\* Mutant: a run that has ended is resumed like any other.
ResumeEnded(h) ==
  LET r == [store EXCEPT !.status = "running"] IN
  /\ requests \in 1 .. MaxRequests - 1
  /\ worker[h].at = "idle"
  /\ store' = r
  /\ worker' = [worker EXCEPT ![h] = Carrying("report", "none", r)]
  /\ requests' = requests + 1
  /\ UNCHANGED <<late, invoked, aborts>>

\* AgentRuntime.resume: a run at END is returned as it is, any other is marked
\* running, saved, and the graph entered at next_node without an interrupt.
Resume(h) ==
  LET r == [store EXCEPT !.status = "running"] IN
  /\ requests \in 1 .. MaxRequests - 1
  /\ worker[h].at = "idle"
  /\ store.node # "end"
  /\ store' = r
  /\ worker' = [worker EXCEPT ![h] = Carrying(r.node, "none", r)]
  /\ requests' = requests + 1
  /\ UNCHANGED <<late, invoked, aborts>>

\* The end of _invoke for a request with an interrupt: a run that has not
\* reached END is saved as paused.
Pause(h) ==
  LET r == [worker[h].run EXCEPT !.status = "paused"] IN
  /\ worker[h].at = "interrupted"
  /\ store' = IF r.node # "end" THEN r ELSE store
  /\ worker' = [worker EXCEPT ![h] = Idle]
  /\ UNCHANGED <<late, invoked, requests, aborts>>

\* The process stops, or the database refuses a save: the copy is lost.  The
\* handler may have been waiting for a tool that has already run.
Abort(h) ==
  /\ worker[h].at # "idle"
  /\ aborts < MaxAborts
  /\ aborts' = aborts + 1
  /\ worker' = [worker EXCEPT ![h] = Idle]
  /\ \/ UNCHANGED invoked
     \/ worker[h].at = "execute_tool" /\ invoked' = invoked + 1
  /\ UNCHANGED <<store, late, requests>>

\* The wall clock passes the time limit of the run.
TimeLimitPasses ==
  /\ ~late
  /\ late' = TRUE
  /\ UNCHANGED <<store, worker, invoked, requests, aborts>>

Step(h) ==
  \/ Triage(h) \/ Plan(h) \/ SelectTool(h) \/ ExecuteTool(h) \/ StoreEvidence(h)
  \/ UpdateHypothesis(h) \/ EnoughEvidence(h) \/ Diagnose(h) \/ Recommend(h)
  \/ Report(h) \/ Pause(h)

Next ==
  \/ \E h \in Handlers : Step(h) \/ Start(h) \/ Resume(h) \/ Abort(h)
  \/ TimeLimitPasses

\* The event loop keeps running every handler it has not lost; nobody owes the
\* service a request, a crash or a slow clock.
Spec == Init /\ [][Next]_vars

FairSpec == Spec /\ \A h \in Handlers : WF_vars(Step(h))

-----------------------------------------------------------------------------
(***************************************************************************)
(* Properties.                                                             *)
(***************************************************************************)
\* The checkpoint and every copy in flight are well-formed states of a run.
TypeOK ==
  /\ store \in Runs
  /\ worker \in [Handlers -> Workers]
  /\ late \in BOOLEAN
  /\ invoked \in Nat
  /\ requests \in Nat
  /\ aborts \in Nat

Active(h) == worker[h].at # "idle"

\* A property of runs, of the checkpoint and of every copy that may become it.
Everywhere(P(_)) == P(store) /\ \A h \in Handlers : Active(h) => P(worker[h].run)

\* No interleaving of concurrent resumes, lost handlers and stale checkpoints
\* yields a run that has used more steps, tool calls or identical calls than
\* its budget allows: the guard is in select_tool, the charge in execute_tool.
WithinBudget(r) ==
  /\ r.steps <= MaxSteps
  /\ r.calls <= MaxToolCalls
  /\ r.node = "execute_tool" => r.calls < MaxToolCalls
  /\ \A c \in Invocations :
       /\ r.repeated[c] <= MaxRepeated
       /\ r.node = "execute_tool" /\ r.pending = c => r.repeated[c] < MaxRepeated

BudgetsHold == Everywhere(WithinBudget)

\* Evidence is never counted twice: a run has at most one piece of evidence per
\* tool call it is charged for, the unread answer included, although the answer
\* is stored one checkpoint later than the call and both may be repeated.
EvidencePaidFor(r) == r.evidence + (IF r.response = "data" THEN 1 ELSE 0) <= r.calls

\* A diagnosis that cites evidence has some, and what is reported as completed
\* is grounded: the validator of AgentReport can never fire in _report.
ReportGrounded(r) ==
  /\ EvidencePaidFor(r)
  /\ r.diagnosis = "grounded" => r.evidence > 0
  /\ r.report = "completed" => r.diagnosis = "grounded"

EvidenceBacksReports == Everywhere(ReportGrounded)

\* A run is at END exactly when its report is written, in the status the report
\* states; no interrupt, resume or late checkpoint changes that status alone.
ReportedWhenEnded(r) ==
  /\ r.node = "end" <=> r.report # "none"
  /\ r.node = "end" => r.status = r.report /\ r.status \in {"completed", "failed", "budget_exhausted"}

EndMatchesReport == Everywhere(ReportedWhenEnded)

\* A tool is pending exactly between select_tool and store_evidence, and an
\* answer exactly between execute_tool and store_evidence, so that a handler
\* resumed at either node finds what the node needs.
PendingWhileUsed(r) ==
  /\ r.pending # NoTool <=> r.node \in {"execute_tool", "store_evidence"}
  /\ r.response # "none" <=> r.node = "store_evidence"

PendingDiscipline == Everywhere(PendingWhileUsed)

\* The fixed edges of the graph and the next_node of the checkpoint, written in
\* two places of the code, agree: a resumed run goes on at the very node the
\* handler that checkpointed it went on at.
RoutingMatchesCheckpoint ==
  \A h \in Handlers : worker[h].at \in Nodes => worker[h].at = worker[h].run.node

\* The reactive runtime never repeats a call the run has an answer to, however many
\* identical calls the budget would allow and from whatever checkpoint it was resumed.
CalledOnce(r) == \A c \in Invocations : r.repeated[c] <= 1

ReactiveCallsOnce == Reactive => Everywhere(CalledOnce)

\* One request at a time.
Alone == \A h, k \in Handlers : h = k

\* With one handler at a time, the checkpoint accounts for every tool call but
\* those in flight when a handler died.
CallsAccounted == Alone => invoked <= store.calls + aborts

\* With one handler at a time, a finished investigation stays as it is, and a
\* checkpoint never forgets steps, tool calls or evidence an earlier one had.
Growing ==
  /\ store.node = "end" => UNCHANGED store
  /\ store'.steps >= store.steps
  /\ store'.calls >= store.calls
  /\ store'.evidence >= store.evidence

CheckpointsOnlyGrow == [][Alone => Growing]_vars

\* Every request returns: whatever the provider answers and whenever the budget
\* runs out, the graph cannot be driven round for ever.
RequestsReturn == \A h \in Handlers : Active(h) ~> ~Active(h)

\* Phase 4 promises that exhausted budgets "fail gracefully": a run whose budget
\* was found exhausted does not end as completed.  A resume of a run that was
\* paused, or whose handler died, after the exhaustion breaks it.
ExhaustedNotCompleted == store.exhausted => store.status # "completed"
=============================================================================
