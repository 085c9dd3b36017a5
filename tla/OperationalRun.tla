---------------------------- MODULE OperationalRun ----------------------------
(***************************************************************************)
(* Phase5Runtime (backend/app/agent/phase5_runtime.py) for one run: the    *)
(* operational stages around an investigation, the approval of a human,    *)
(* the action on the sandbox through RetryingToolRegistry and ToolRegistry *)
(* (backend/app/mcp), and the verification.  The investigation itself is   *)
(* AgentInvestigation; here it charges tool calls, checkpoints its copy    *)
(* and ends with an outcome.                                               *)
(*                                                                         *)
(* Requests are served by coroutines of one event loop.  A handler keeps   *)
(* its own copy of the run; another handler runs only while it awaits the  *)
(* graph or a tool.  In the place "operating" it does not await.           *)
(***************************************************************************)
EXTENDS Integers, Sequences

CONSTANTS
  Handlers,      \* request handlers of the API process that may be in flight
  Tools,         \* tools an action may name
  NoTool,        \* an action without a tool
  ToolRisk,      \* the risk each tool is registered with, "unregistered" if none
  Rollback,      \* rollback_sandbox_deployment
  Actions,       \* the actions the provider may recommend
  ServiceKnown,  \* the incident's service is one of the five sandbox services
  MaxToolCalls,  \* AgentBudget.max_tool_calls
  MaxRetries,    \* Settings.max_tool_retries
  MaxRequests,   \* bound: start, resume and approval requests in a behaviour
  MaxAborts      \* bound: handlers that die before they return

Risks == {"R0", "R1", "R2", "R3"}

ASSUME ToolAssumption ==
  /\ NoTool \notin Tools
  /\ Rollback \in Tools
  /\ ToolRisk \in [Tools -> Risks \cup {"unregistered"}]
  /\ Actions \subseteq [risk: Risks, tool: Tools \cup {NoTool}]
  /\ ServiceKnown \in BOOLEAN

ASSUME NumberAssumption ==
  /\ MaxToolCalls \in Nat \ {0}
  /\ MaxRetries \in Nat
  /\ MaxRequests \in Nat
  /\ MaxAborts \in Nat

Statuses == {"created", "running", "paused", "completed", "failed",
             "budget_exhausted"}

Stages == {"none", "assess_action", "wait_approval", "execute_action", "verify",
           "complete"}

NoAction == [risk |-> "none", tool |-> NoTool]

NoApproval == [id |-> 0, decision |-> "none"]

Approvals == {NoApproval} \cup
             [id: Nat \ {0}, decision: {"pending", "approved", "declined"}]

(***************************************************************************)
(* AgentState: `ended' is next_node = END, `claims' whether the report has *)
(* grounded claims, `report' the status the report states.  The decisions  *)
(* rejected and abandoned are handled alike and both called declined.      *)
(***************************************************************************)
Runs ==
  [op: BOOLEAN, ended: BOOLEAN, status: Statuses, stage: Stages,
   action: {NoAction} \cup [risk: Risks, tool: Tools \cup {NoTool}],
   approval: Approvals, calls: Nat, claims: BOOLEAN,
   report: Statuses \cup {"none"},
   verified: {"not_run", "passed", "failed", "inconclusive"}]

Fresh ==
  [op |-> FALSE, ended |-> FALSE, status |-> "created", stage |-> "none",
   action |-> NoAction, approval |-> NoApproval, calls |-> 0, claims |-> FALSE,
   report |-> "none", verified |-> "not_run"]

VARIABLES
  store,      \* the run's durable checkpoint
  worker,     \* per handler: its place, what its request asks for, its copy
  approvals,  \* approval requests created so far; each has the next number
  granted,    \* approval requests a human approved
  declined,   \* approval requests a human rejected or abandoned
  effects,    \* what acted on the sandbox, in order: a tool and its approval
  raised,     \* a request ended in an exception of the runtime's own
  requests,   \* requests accepted so far
  aborts      \* handlers that died so far

history == <<approvals, granted, declined, effects, raised>>
vars == <<store, worker, history, requests, aborts>>

Places == {"idle", "investigating", "investigated", "operating", "acting", "verifying"}

Workers ==
  [at: Places, op: BOOLEAN, pausing: BOOLEAN, attempt: Nat, run: Runs]

At(place, op, pausing, attempt, r) ==
  [at |-> place, op |-> op, pausing |-> pausing, attempt |-> attempt, run |-> r]

Idle == At("idle", FALSE, FALSE, 0, Fresh)

Operating(r) == At("operating", r.op, FALSE, 0, r)

Calling(place, attempt, r) == At(place, r.op, FALSE, attempt, r)

Init ==
  /\ store = Fresh
  /\ worker = [h \in Handlers |-> Idle]
  /\ approvals = 0
  /\ granted = {}
  /\ declined = {}
  /\ effects = << >>
  /\ raised = FALSE
  /\ requests = 0
  /\ aborts = 0

\* No other handler is between two awaits.
LoopFree(h) == \A k \in Handlers \ {h} : worker[k].at # "operating"

Move(h, w) == worker' = [worker EXCEPT ![h] = w]

\* h saves r and goes on as w.
Save(h, r, w) == store' = r /\ Move(h, w)

-----------------------------------------------------------------------------
(***************************************************************************)
(* The investigation, seen from outside.                                   *)
(***************************************************************************)
Outcomes ==
  {o \in [status: {"completed", "failed", "budget_exhausted"}, claims: BOOLEAN,
          action: Actions \cup {NoAction}] :
     /\ o.status = "completed" => o.claims
     /\ o.status = "failed" => o.action = NoAction
     /\ o.action # NoAction => o.claims}

\* A node charges a tool call and checkpoints.
Investigate(h) ==
  LET r == [worker[h].run EXCEPT !.status = "running", !.calls = @ + 1] IN
  /\ worker[h].at = "investigating" /\ LoopFree(h)
  /\ worker[h].run.calls < MaxToolCalls
  /\ Save(h, r, At("investigating", worker[h].op, worker[h].pausing, 0, r))
  /\ UNCHANGED <<history, requests, aborts>>

\* The report node's checkpoint; claims need evidence and evidence tool calls.
Conclude(h) ==
  /\ worker[h].at = "investigating" /\ LoopFree(h)
  /\ \E o \in Outcomes :
       LET r == [worker[h].run EXCEPT !.ended = TRUE, !.status = o.status,
                   !.claims = o.claims, !.action = o.action, !.report = o.status,
                   !.verified = "not_run"]
       IN
       /\ o.claims => r.calls > 0
       /\ Save(h, r, At("investigated", worker[h].op, worker[h].pausing, 0, r))
  /\ UNCHANGED <<history, requests, aborts>>

\* The graph stops behind the node named in pause_after.
Interrupt(h) ==
  LET r == [worker[h].run EXCEPT !.status = "paused"] IN
  /\ worker[h].at = "investigating" /\ LoopFree(h)
  /\ worker[h].pausing
  /\ Move(h, At("investigated", worker[h].op, TRUE, 0, r))
  /\ UNCHANGED <<store, history, requests, aborts>>

\* The graph has returned: a start request writes its operational mode, and an
\* operational run whose investigation completed goes on to the operation.
Returned(h) ==
  LET r == [worker[h].run EXCEPT !.op = worker[h].op]
      s == [r EXCEPT !.stage = "assess_action"]
  IN
  /\ worker[h].at = "investigated" /\ LoopFree(h)
  /\ IF r.op /\ r.status = "completed" THEN Save(h, s, Operating(s)) ELSE Save(h, r, Idle)
  /\ UNCHANGED <<history, requests, aborts>>

-----------------------------------------------------------------------------
(***************************************************************************)
(* The operation.                                                          *)
(***************************************************************************)
\* _enrich_action: an action without a tool gets the rollback of the service.
Enriched(a) ==
  IF a # NoAction /\ a.tool = NoTool /\ ServiceKnown THEN [a EXCEPT !.tool = Rollback] ELSE a

\* _refresh_report, save and return.  AgentReport refuses to be completed without
\* claims: then the request ends in the exception and nothing is saved.
Close(h, r, status) ==
  IF status = "completed" /\ ~r.claims
    THEN /\ raised' = TRUE
         /\ Move(h, Idle)
         /\ UNCHANGED store
    ELSE /\ Save(h, [r EXCEPT !.stage = "complete", !.status = status, !.report = status], Idle)
         /\ UNCHANGED raised

\* Mutant: the report is not refreshed before the run waits for a human.
WaitingUnreported(r, approval) ==
  [r EXCEPT !.approval = approval, !.stage = "wait_approval", !.status = "paused"]

Waiting(r, approval) ==
  [r EXCEPT !.approval = approval, !.stage = "wait_approval", !.status = "paused",
            !.report = "paused"]

AssessAction(h) ==
  LET a == Enriched(worker[h].run.action)
      r == [worker[h].run EXCEPT !.action = a]
      s == [r EXCEPT !.stage = "execute_action", !.status = "running"]
  IN
  /\ worker[h].at = "operating" /\ r.stage = "assess_action"
  /\ IF a = NoAction \/ a.tool = NoTool \/ a.risk = "R3"
       THEN Close(h, r, "completed") /\ UNCHANGED approvals
     ELSE IF a.risk # "R2"
       THEN Save(h, s, Operating(s)) /\ UNCHANGED <<approvals, raised>>
     ELSE IF r.approval = NoApproval
       THEN /\ approvals' = approvals + 1
            /\ Save(h, Waiting(r, [id |-> approvals + 1, decision |-> "pending"]), Idle)
            /\ UNCHANGED raised
       ELSE Save(h, Waiting(r, r.approval), Idle) /\ UNCHANGED <<approvals, raised>>
  /\ UNCHANGED <<granted, declined, effects, requests, aborts>>

\* Mutant: the tool-call budget is not looked at before the action.
BeginActionUnchecked(h) ==
  /\ worker[h].at = "operating" /\ worker[h].run.stage = "execute_action"
  /\ Move(h, Calling("acting", 1, worker[h].run))
  /\ UNCHANGED <<store, history, requests, aborts>>

\* _execute_action up to the call of the registry.
BeginAction(h) ==
  LET r == worker[h].run IN
  /\ worker[h].at = "operating" /\ r.stage = "execute_action"
  /\ IF r.action = NoAction \/ r.action.tool = NoTool
       THEN /\ Save(h, [r EXCEPT !.stage = "complete", !.status = "failed"], Idle)
            /\ UNCHANGED raised
     ELSE IF r.calls >= MaxToolCalls
       THEN Close(h, r, "budget_exhausted")
     ELSE IF r.action.risk = "R2" /\ r.approval.decision # "approved"
       THEN /\ Save(h, [r EXCEPT !.stage = "wait_approval", !.status = "paused"], Idle)
            /\ UNCHANGED raised
       ELSE Move(h, Calling("acting", 1, r)) /\ UNCHANGED <<store, raised>>
  /\ UNCHANGED <<approvals, granted, declined, effects, requests, aborts>>

\* The approval id the runtime hands to the registry, 0 for none.
TrustedId(r) == IF r.action.risk = "R2" THEN r.approval.id ELSE 0

\* Mutant: the registry leaves the approval of R2 tools to the runtime.
AuthorizedTrusting(tool, id) == ToolRisk[tool] \in {"R0", "R1", "R2"}

\* ToolRegistry.invoke and RiskPolicy.authorize.
Authorized(tool, id) ==
  \/ ToolRisk[tool] \in {"R0", "R1"}
  \/ ToolRisk[tool] = "R2" /\ id # 0

Effect(r) == [tool |-> r.action.tool, approval |-> TrustedId(r)]

\* A tool that answers or times out may or may not have acted; one that
\* succeeds has.  Blocked calls never reach the tool.
Answers(r) ==
  IF Authorized(r.action.tool, TrustedId(r))
    THEN {[acted |-> TRUE, says |-> "succeeded"]} \cup
         [acted: BOOLEAN, says: {"retryable", "failed"}]
    ELSE {[acted |-> FALSE, says |-> "blocked"]}

\* One attempt of RetryingToolRegistry.invoke, and after the last one the rest of
\* _execute_action.  The failed attempts are the retry events that are drained.
Act(h) ==
  LET r == worker[h].run
      n == worker[h].attempt
      s == [r EXCEPT !.calls = @ + n]
      t == [s EXCEPT !.stage = "verify", !.status = "running"]
  IN
  /\ worker[h].at = "acting" /\ LoopFree(h)
  /\ \E answer \in Answers(r) :
       /\ effects' = IF answer.acted THEN Append(effects, Effect(r)) ELSE effects
       /\ IF answer.says = "retryable" /\ n <= MaxRetries
            THEN Move(h, Calling("acting", n + 1, r)) /\ UNCHANGED <<store, raised>>
          ELSE IF answer.says = "succeeded"
            THEN Save(h, t, Operating(t)) /\ UNCHANGED raised
            ELSE Close(h, [s EXCEPT !.verified = "inconclusive"], "failed")
  /\ UNCHANGED <<approvals, granted, declined, requests, aborts>>

\* Mutant: the verification starts before the action.
BeginVerificationEarly(h) ==
  /\ worker[h].at = "operating" /\ worker[h].run.stage \in {"execute_action", "verify"}
  /\ Move(h, Calling("verifying", 1, worker[h].run))
  /\ UNCHANGED <<store, history, requests, aborts>>

BeginVerification(h) ==
  /\ worker[h].at = "operating" /\ worker[h].run.stage = "verify"
  /\ Move(h, Calling("verifying", 1, worker[h].run))
  /\ UNCHANGED <<store, history, requests, aborts>>

\* One attempt of the verification tool, and after the last the rest of _verify.
Verify(h) ==
  LET r == worker[h].run
      n == worker[h].attempt
      s == [r EXCEPT !.calls = @ + n]
  IN
  /\ worker[h].at = "verifying" /\ LoopFree(h)
  /\ \/ /\ n <= MaxRetries
        /\ Move(h, Calling("verifying", n + 1, r))
        /\ UNCHANGED <<store, raised>>
     \/ \E verdict \in {"passed", "failed", "inconclusive"} :
          Close(h, [s EXCEPT !.verified = verdict], "completed")
  /\ UNCHANGED <<approvals, granted, declined, effects, requests, aborts>>

-----------------------------------------------------------------------------
(***************************************************************************)
(* Requests and handlers that die.                                         *)
(***************************************************************************)
Accept(h) ==
  /\ worker[h].at = "idle" /\ LoopFree(h)
  /\ requests < MaxRequests
  /\ requests' = requests + 1
  /\ UNCHANGED aborts

\* The run is created without its operational mode.
Start(h) ==
  /\ requests = 0
  /\ Accept(h)
  /\ \E op, pausing \in BOOLEAN : Save(h, Fresh, At("investigating", op, pausing, 0, Fresh))
  /\ UNCHANGED history

\* A resume that finds nothing to do returns the run and is left out.
Resume(h) ==
  LET investigate == [store EXCEPT !.status = "running"]
      assess == [store EXCEPT !.stage = "assess_action"]
  IN
  /\ requests > 0
  /\ Accept(h)
  /\ \/ /\ store.op /\ store.stage \in {"assess_action", "execute_action", "verify"}
        /\ Save(h, store, Operating(store))
     \/ /\ ~store.ended
        /\ Save(h, investigate, At("investigating", store.op, FALSE, 0, investigate))
     \/ /\ store.ended /\ store.op /\ store.stage = "none"
        /\ Save(h, assess, Operating(assess))
  /\ UNCHANGED history

Decidable == store.op /\ store.stage = "wait_approval" /\ store.approval.decision = "pending"

\* Mutant: the decision is kept in the handler's copy only.
ApproveUnsaved(h) ==
  /\ Accept(h) /\ Decidable
  /\ granted' = granted \cup {store.approval.id}
  /\ Move(h, Operating([store EXCEPT !.approval.decision = "approved",
                                     !.status = "running", !.stage = "execute_action"]))
  /\ UNCHANGED <<store, approvals, declined, effects, raised>>

\* Mutant: the approval is recorded, but nobody goes on with the operation.
ApproveOnly(h) ==
  /\ Accept(h) /\ Decidable
  /\ granted' = granted \cup {store.approval.id}
  /\ Save(h, [store EXCEPT !.approval.decision = "approved", !.status = "running",
                           !.stage = "execute_action"], Idle)
  /\ UNCHANGED <<approvals, declined, effects, raised>>

Approve(h) ==
  LET r == [store EXCEPT !.approval.decision = "approved", !.status = "running",
                         !.stage = "execute_action"]
  IN
  /\ Accept(h) /\ Decidable
  /\ granted' = granted \cup {store.approval.id}
  /\ Save(h, r, Operating(r))
  /\ UNCHANGED <<approvals, declined, effects, raised>>

Decline(h) ==
  /\ Accept(h) /\ Decidable
  /\ declined' = declined \cup {store.approval.id}
  /\ Close(h, [store EXCEPT !.approval.decision = "declined", !.verified = "not_run"], "completed")
  /\ UNCHANGED <<approvals, granted, effects>>

\* The process stops, or the database refuses a save: the copy is lost, and a tool
\* that was called may have acted.
Abort(h) ==
  /\ worker[h].at # "idle"
  /\ aborts < MaxAborts
  /\ aborts' = aborts + 1
  /\ Move(h, Idle)
  /\ \/ UNCHANGED effects
     \/ /\ worker[h].at = "acting"
        /\ Authorized(worker[h].run.action.tool, TrustedId(worker[h].run))
        /\ effects' = Append(effects, Effect(worker[h].run))
  /\ UNCHANGED <<store, approvals, granted, declined, raised, requests>>

Step(h) ==
  \/ Investigate(h) \/ Conclude(h) \/ Interrupt(h) \/ Returned(h)
  \/ AssessAction(h) \/ BeginAction(h) \/ Act(h) \/ BeginVerification(h) \/ Verify(h)

Next ==
  \E h \in Handlers :
    Step(h) \/ Start(h) \/ Resume(h) \/ Approve(h) \/ Decline(h) \/ Abort(h)

Spec == Init /\ [][Next]_vars

\* The event loop keeps running every handler it has not lost; no human owes a
\* decision and nobody owes a resume.
FairSpec == Spec /\ \A h \in Handlers : WF_vars(Step(h))

-----------------------------------------------------------------------------
(***************************************************************************)
(* Properties.                                                             *)
(***************************************************************************)
\* The checkpoint and every copy in flight are well-formed states of a run.
TypeOK ==
  /\ store \in Runs
  /\ worker \in [Handlers -> Workers]
  /\ approvals \in Nat
  /\ granted \subseteq 1 .. approvals
  /\ declined \subseteq 1 .. approvals
  /\ effects \in Seq([tool: Tools, approval: Nat])
  /\ raised \in BOOLEAN
  /\ requests \in Nat
  /\ aborts \in Nat

Active(h) == worker[h].at # "idle"

\* A property of runs, of the checkpoint and of every copy that may become it.
Everywhere(P(_)) == P(store) /\ \A h \in DOMAIN worker : Active(h) => P(worker[h].run)

\* The flow keeps what it promises: whatever copies concurrent or dying handlers
\* save over each other, an approval is decided at most once, and nothing with
\* an R2 tool acts but under an approval granted before.
Promise ==
  INSTANCE ApprovalBoundary
    WITH Tools <- Tools, ToolRisk <- ToolRisk, approvals <- approvals,
         granted <- granted, declined <- declined, effects <- effects

BoundaryKept == Promise!Spec

\* A verdict of the verification is about something that happened: the tool of
\* the run's action has acted, under the run's approval.
VerdictEarned(r) ==
  r.stage = "verify" \/ r.verified \in {"passed", "failed"} =>
    \E i \in DOMAIN effects : effects[i] = Effect(r)

VerificationFollowsEffect == Everywhere(VerdictEarned)

\* The tool calls a run is charged with exceed its budget by no more than the
\* attempts of one action and one verification.
CallsCovered(r) ==
  r.calls <= CASE r.stage \in {"none", "assess_action", "wait_approval", "execute_action"} -> MaxToolCalls
               [] r.stage = "verify" -> MaxToolCalls + MaxRetries
               [] OTHER -> MaxToolCalls + 2 * MaxRetries + 1

CallsBounded == Everywhere(CallsCovered)

\* A run that waits for a human or has finished shows a report in the status it
\* really has, and none is reported completed without a grounded claim.
ReportShown(r) ==
  /\ r.stage \in {"wait_approval", "complete"} => r.report = r.status
  /\ r.report = "completed" => r.claims

ReportIsCurrent == Everywhere(ReportShown)

\* One request at a time.
Alone == \A h, k \in DOMAIN worker : h = k

\* With one handler at a time, no crash loses a decision or asks for it again: the
\* checkpoint has every decision a human took.
DecisionsKept ==
  Alone => /\ \A id \in granted : store.approval = [id |-> id, decision |-> "approved"]
           /\ \A id \in declined : store.approval = [id |-> id, decision |-> "declined"]

\* With one handler at a time, an approved action is carried through to the end
\* unless its handler dies.
ApprovalLeadsToEnd == Alone /\ granted # {} ~> store.stage = "complete" \/ aborts > 0

\* backend/tests/test_phase5_runtime.py:163 expects one call of the action under
\* an approval.  Two handlers resumed at EXECUTE_ACTION both make it.
OneEffectPerApproval ==
  \A i, j \in DOMAIN effects :
    effects[i].approval = effects[j].approval /\ effects[i].approval # 0 => i = j

\* backend/tests/test_phase5_runtime_retry.py:233 expects the tool calls of a
\* completed operation within the budget.  Nothing checks before verifying.
CallsWithinBudget == store.status = "completed" => store.calls <= MaxToolCalls

\* docs/phase-5-implementation-plan.md:53 promises "graceful termination instead
\* of crashes".  The report of a failed investigation refuses to be completed.
NothingRaised == ~raised
=============================================================================
