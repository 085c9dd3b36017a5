----------------------- MODULE AgentInvestigation_proofs -----------------------
(***************************************************************************)
(* What holds of AgentInvestigation for every set of handlers, every plan  *)
(* and every budget.  The inductive invariant has two layers.  Sound(r) is *)
(* a property of one run record; every node keeps it, whatever copy it     *)
(* started from, so neither concurrent handlers nor stale checkpoints can  *)
(* break it.  RoutingMatchesCheckpoint ties a handler's place in the graph *)
(* to its copy, so that the node that runs is the one Sound speaks of.     *)
(***************************************************************************)
EXTENDS AgentInvestigation, TLAPS

Sound(r) ==
  /\ WithinBudget(r)
  /\ ReportGrounded(r)
  /\ ReportedWhenEnded(r)
  /\ PendingWhileUsed(r)

\* Once triage is left a handler's copy is running or has been stopped for good.
InFlight(r) ==
  r.node \notin {"triage", "end"} => r.status \in {"running", "failed", "budget_exhausted"}

\* What a node must guarantee of the copy it checkpoints.
Good(r) == r \in Runs /\ Sound(r) /\ InFlight(r)

IInv ==
  /\ TypeOK
  /\ Sound(store)
  /\ \A h \in Handlers : Active(h) => Sound(worker[h].run) /\ InFlight(worker[h].run)
  /\ RoutingMatchesCheckpoint
  /\ \A h \in Handlers : worker[h].at # "end"

USE BudgetAssumption, PlanAssumption

\* A run that has just been created is good.
LEMMA FreshGood == Good(Fresh) /\ Fresh.node = "triage"
  BY DEF Good, Fresh, Runs, Nodes, Statuses, NoPlan, Sound, WithinBudget, ReportGrounded,
         EvidencePaidFor, ReportedWhenEnded, PendingWhileUsed, InFlight

\* The invariant holds before the first request.
LEMMA InitIInv == Init => IInv
  <1> SUFFICES ASSUME Init PROVE IInv
    OBVIOUS
  <1>1. Idle \in Workers
    BY FreshGood DEF Idle, Carrying, Workers, Good
  <1>2. TypeOK
    BY FreshGood, <1>1 DEF Init, TypeOK, Good
  <1> QED
    BY FreshGood, <1>2 DEF Init, IInv, Active, Idle, Carrying, RoutingMatchesCheckpoint, Good, Nodes

-----------------------------------------------------------------------------
(***************************************************************************)
(* Checkpointing a good copy, at the place the graph goes on at, keeps     *)
(* the invariant; the rest of a node touches neither store nor worker.     *)
(***************************************************************************)
\* Leaving a node with a good copy, for the node the copy names.
LEMMA LeaveKeeps ==
  ASSUME IInv, NEW h \in Handlers, NEW from \in Nodes, NEW r,
         Leave(h, from, r), Good(r), Successor(from, r.node) = r.node,
         late' \in BOOLEAN, invoked' \in Nat
  PROVE  IInv'
  <1> DEFINE w == worker[h]
  <1>1. w \in Workers /\ w.at = from
    BY DEF IInv, TypeOK, Leave
  <1>2. PICK n :
          /\ worker' = [worker EXCEPT ![h] = n]
          /\ \/ n = Idle
             \/ n = Carrying("interrupted", w.pause, r)
             \/ n = Carrying(r.node, w.pause, r) /\ r.node # "end"
    <2>1. CASE w.pause = from
      BY <2>1 DEF Leave
    <2>2. CASE w.pause # from /\ r.node = "end"
      BY <2>2 DEF Leave
    <2>3. CASE w.pause # from /\ r.node # "end"
      BY <2>3 DEF Leave
    <2> QED
      BY <2>1, <2>2, <2>3
  <1>3. r \in Runs /\ Sound(r) /\ InFlight(r) /\ r.node \in Nodes
    BY DEF Good, Runs
  <1>4. /\ n \in Workers
        /\ n.at # "idle" => n.run = r
        /\ n.at \in Nodes => n.at = r.node /\ n.at # "end"
    <2>1. CASE n = Idle
      BY <2>1, FreshGood DEF Idle, Carrying, Workers, Good, Nodes
    <2>2. CASE n = Carrying("interrupted", w.pause, r)
      BY <1>1, <1>3, <2>2 DEF Workers, Nodes, Carrying
    <2>3. CASE n = Carrying(r.node, w.pause, r) /\ r.node # "end"
      BY <1>1, <1>2, <1>3, <2>3 DEF Workers, Nodes, Carrying
    <2> QED
      BY <1>2, <2>1, <2>2, <2>3
  <1>5. worker' \in [Handlers -> Workers] /\ worker'[h] = n
        /\ \A k \in Handlers : k # h => worker'[k] = worker[k]
    BY <1>2, <1>4 DEF IInv, TypeOK
  <1>6. TypeOK' /\ Sound(store)'
    BY <1>3, <1>5 DEF IInv, TypeOK, Leave
  <1>7. ASSUME NEW k \in Handlers
        PROVE  /\ Active(k)' => Sound(worker'[k].run) /\ InFlight(worker'[k].run)
               /\ worker'[k].at \in Nodes => worker'[k].at = worker'[k].run.node
               /\ worker'[k].at # "end"
    <2>1. CASE k = h
      BY <1>3, <1>4, <1>5, <2>1 DEF Active, Nodes
    <2>2. CASE k # h
      BY <1>5, <2>2 DEF Active, IInv, RoutingMatchesCheckpoint
    <2> QED
      BY <2>1, <2>2
  <1> QED
    BY <1>6, <1>7 DEF IInv, RoutingMatchesCheckpoint, Sound, InFlight, WithinBudget,
       ReportGrounded, EvidencePaidFor, ReportedWhenEnded, PendingWhileUsed

\* The node that runs is the next_node of a good copy.
LEMMA AtNode ==
  ASSUME IInv, NEW h \in Handlers, NEW from \in Nodes, worker[h].at = from
  PROVE  Good(worker[h].run) /\ worker[h].run.node = from /\ from # "end"
  <1>1. worker[h] \in Workers
    BY DEF IInv, TypeOK
  <1>2. Active(h)
    BY DEF Active, Nodes
  <1> QED
    BY <1>1, <1>2 DEF IInv, Good, Workers, RoutingMatchesCheckpoint

-----------------------------------------------------------------------------
(***************************************************************************)
(* How the nodes that only think (no tool is pending) change a copy.       *)
(***************************************************************************)
Thinking == {"plan", "select_tool", "update_hypothesis", "enough_evidence",
             "diagnose", "recommend"}

\* Exhaustion and provider failure send a good copy to the report.
LEMMA StopGood ==
  ASSUME NEW r, Good(r), r.node \in Thinking
  PROVE  /\ Good(Exhausted(r)) /\ Exhausted(r).node = "report"
         /\ Good(Failed(r)) /\ Failed(r).node = "report"
  BY ZenonT(60) DEF Good, Exhausted, Failed, Thinking, Runs, Nodes, Statuses, Sound, InFlight,
     WithinBudget, ReportGrounded, EvidencePaidFor, ReportedWhenEnded, PendingWhileUsed

\* No tool is pending at a thinking node, nor where it goes next.
LEMMA GotoGood ==
  ASSUME NEW r, Good(r), r.node \in Thinking, NEW next \in Thinking \cup {"report"}
  PROVE  Good(Goto(r, next)) /\ Goto(r, next).node = next
  BY ZenonT(60) DEF Good, Goto, Thinking, Runs, Nodes, Statuses, Sound, InFlight,
     WithinBudget, ReportGrounded, EvidencePaidFor, ReportedWhenEnded, PendingWhileUsed

\* Charging tokens and cost leaves a good copy good.
LEMMA ChargedGood ==
  ASSUME NEW r, Good(r), NEW over \in BOOLEAN
  PROVE  Good(Charged(r, over)) /\ Charged(r, over).node = r.node
  BY ZenonT(60) DEF Good, Charged, Runs, Sound, InFlight,
     WithinBudget, ReportGrounded, EvidencePaidFor, ReportedWhenEnded, PendingWhileUsed

\* _apply_usage, then the fixed next node or the report.
LEMMA UsageGood ==
  ASSUME NEW r, Good(r), r.node \in Thinking, NEW over \in BOOLEAN,
         NEW next \in Thinking \cup {"report"}
  PROVE  /\ Good(AfterUsage(Charged(r, over), next))
         /\ AfterUsage(Charged(r, over), next).node \in {next, "report"}
  BY ChargedGood, StopGood, GotoGood DEF AfterUsage

\* A new plan touches nothing the other parts of a run depend on.
LEMMA PlannedGood ==
  ASSUME NEW r, Good(r), NEW p \in Plans, NEW q \in PlannedWith(r, p)
  PROVE  Good(q) /\ q.node = r.node
  <1>1. p \in Seq(Invocations) /\ p # << >> /\ Len(p) \in DOMAIN p /\ DOMAIN p \subseteq Nat
    OBVIOUS
  <1>2. PICK plan \in Seq(Invocations), done \in SUBSET Nat :
          q = [r EXCEPT !.plan = plan, !.done = done]
    <2>1. CASE ~Reactive
      BY <1>1, <2>1 DEF PlannedWith
    <2>2. CASE Reactive /\ FirstUnseen(r, p) = {}
      <3>1. <<p[Len(p)]>> \in Seq(Invocations) /\ {1} \in SUBSET Nat
        BY <1>1
      <3> QED
        BY <2>2, <3>1 DEF PlannedWith
    <2>3. CASE Reactive /\ FirstUnseen(r, p) # {}
      <3>1. PICK i \in FirstUnseen(r, p) : q = [r EXCEPT !.plan = <<p[i]>>, !.done = {}]
        BY <2>3 DEF PlannedWith
      <3>2. i \in DOMAIN p
        BY DEF FirstUnseen
      <3>3. <<p[i]>> \in Seq(Invocations) /\ {} \in SUBSET Nat
        BY <1>1, <3>2
      <3> QED
        BY <3>1, <3>3
    <2> QED
      BY <2>1, <2>2, <2>3
  <1> QED
    BY <1>2 DEF Good, Runs, Sound, InFlight,
       WithinBudget, ReportGrounded, EvidencePaidFor, ReportedWhenEnded, PendingWhileUsed

-----------------------------------------------------------------------------
(***************************************************************************)
(* One step per node.                                                      *)
(***************************************************************************)
\* A node whose checkpoint is good and whose successor the checkpoint names.
LEMMA ThinkingKeeps ==
  ASSUME IInv, NEW h \in Handlers, NEW from \in Thinking, NEW r,
         Leave(h, from, r), Good(r), from = "recommend" => r.node = "report",
         UNCHANGED <<late, invoked>>
  PROVE  IInv'
  <1>1. from \in Nodes /\ Successor(from, r.node) = r.node
    BY DEF Thinking, Nodes, Successor
  <1>2. late' \in BOOLEAN /\ invoked' \in Nat
    BY DEF IInv, TypeOK
  <1> QED
    BY <1>1, <1>2, LeaveKeeps

\* triage marks the run as running.
LEMMA TriageKeeps ==
  ASSUME IInv, NEW h \in Handlers, Triage(h)
  PROVE  IInv'
  <1> DEFINE r == worker[h].run
             s == Goto([r EXCEPT !.status = "running"], "plan")
  <1>1. Good(r) /\ r.node = "triage" /\ Leave(h, "triage", s)
    BY AtNode DEF Triage, Leave, Nodes
  <1>2. Good(s) /\ s.node = "plan"
    BY <1>1 DEF Good, Goto, Runs, Nodes, Statuses, Sound, InFlight,
       WithinBudget, ReportGrounded, EvidencePaidFor, ReportedWhenEnded, PendingWhileUsed
  <1>3. Successor("triage", s.node) = s.node
    BY <1>2 DEF Successor
  <1> QED
    BY <1>1, <1>2, <1>3, LeaveKeeps DEF Triage, IInv, TypeOK, Nodes

\* plan stores what the provider returned, or fails the run.
LEMMA PlanKeeps ==
  ASSUME IInv, NEW h \in Handlers, Plan(h)
  PROVE  IInv'
  <1> DEFINE r == worker[h].run
  <1>1. Good(r) /\ r.node = "plan" /\ "plan" \in Thinking /\ "select_tool" \in Thinking
    BY AtNode DEF Plan, Leave, Nodes, Thinking
  <1>2. CASE Leave(h, "plan", Failed(r))
    BY <1>1, <1>2, StopGood, ThinkingKeeps DEF Plan
  <1>3. CASE \E p \in Plans, over \in BOOLEAN : \E q \in PlannedWith(r, p) :
               Leave(h, "plan", AfterUsage(Charged(q, over), "select_tool"))
    <2>1. PICK p \in Plans, over \in BOOLEAN : \E q \in PlannedWith(r, p) :
               Leave(h, "plan", AfterUsage(Charged(q, over), "select_tool"))
      BY <1>3
    <2>2. PICK q \in PlannedWith(r, p) :
               Leave(h, "plan", AfterUsage(Charged(q, over), "select_tool"))
      BY <2>1
    <2>3. Good(AfterUsage(Charged(q, over), "select_tool"))
      BY <1>1, PlannedGood, UsageGood
    <2> QED
      BY <1>1, <2>2, <2>3, ThinkingKeeps DEF Plan
  <1> QED
    BY <1>2, <1>3 DEF Plan

\* Charging the step and then choosing the next call, the diagnosis or the end.
LEMMA SelectKeeps ==
  ASSUME IInv, NEW h \in Handlers, NEW r, Good(r), r.node = "select_tool",
         SelectFrom(h, r), UNCHANGED <<late, invoked>>
  PROVE  IInv'
  <1> DEFINE s == [r EXCEPT !.steps = @ + 1]
  <1>a. "select_tool" \in Thinking /\ r.node \in Thinking
    BY DEF Thinking
  <1>1. CASE OutOfBudget(r)
    BY <1>a, <1>1, StopGood, ThinkingKeeps DEF SelectFrom
  <1>2. CASE ~OutOfBudget(r)
    <2>1. Good(s) /\ s.node = "select_tool" /\ s.calls < MaxToolCalls
      <3>1. r \in Runs /\ r.steps < MaxSteps /\ r.calls < MaxToolCalls
        <4>1. ~(r.steps >= MaxSteps) /\ ~(r.calls >= MaxToolCalls)
          BY <1>2, Zenon DEF OutOfBudget
        <4>2. r \in Runs /\ r.steps \in Nat /\ r.calls \in Nat
          BY DEF Good, Runs
        <4> QED
          BY <4>1, <4>2
      <3>2. s \in Runs
        <4>1. r \in Runs
          BY <3>1
        <4>2. r.steps + 1 \in Nat
          BY <4>1 DEF Runs
        <4> QED
          BY <4>1, <4>2 DEF Runs
      <3>3. WithinBudget(s)
        BY <3>1 DEF Good, Sound, WithinBudget, Runs
      <3>4. ReportGrounded(s) /\ ReportedWhenEnded(s) /\ PendingWhileUsed(s) /\ InFlight(s)
        BY <3>1 DEF Good, Runs, Sound, InFlight,
           ReportGrounded, EvidencePaidFor, ReportedWhenEnded, PendingWhileUsed
      <3> QED
        BY <3>1, <3>2, <3>3, <3>4 DEF Good, Sound, Runs
    <2>2. CASE Leave(h, "select_tool", Failed(s))
      BY <1>a, <2>1, <2>2, StopGood, ThinkingKeeps
    <2>3. CASE Leave(h, "select_tool", Goto([s EXCEPT !.pending = NoTool], "diagnose"))
      <3>1. [s EXCEPT !.pending = NoTool] = s
        BY <2>1 DEF Good, Runs, Sound, PendingWhileUsed
      <3>2. Good(Goto(s, "diagnose"))
        BY <1>a, <2>1, GotoGood DEF Thinking
      <3> QED
        BY <1>a, <2>3, <3>1, <3>2, ThinkingKeeps
    <2>4. ASSUME NEW i \in FirstOpen(s),
                 Leave(h, "select_tool",
                       IF s.repeated[s.plan[i]] >= MaxRepeated THEN Exhausted(s)
                       ELSE Goto([s EXCEPT !.pending = s.plan[i]], "execute_tool"))
          PROVE  IInv'
      <3> DEFINE call == s.plan[i]
                 t == Goto([s EXCEPT !.pending = call], "execute_tool")
      <3>1. call \in Invocations
        BY <2>1 DEF FirstOpen, Good, Runs
      <3>2. CASE s.repeated[call] >= MaxRepeated
        BY <1>a, <2>1, <2>4, <3>2, StopGood, ThinkingKeeps
      <3>3. CASE ~(s.repeated[call] >= MaxRepeated)
        <4>1. s.repeated[call] < MaxRepeated
          BY <2>1, <3>1, <3>3 DEF Good, Runs
        <4>2. t \in Runs
          BY <2>1, <3>1 DEF Good, Runs, Nodes, Goto
        <4>3. Sound(t) /\ InFlight(t)
          BY <2>1, <3>1, <4>1 DEF Good, Goto, Runs, Nodes, Sound, InFlight,
             WithinBudget, ReportGrounded, EvidencePaidFor, ReportedWhenEnded, PendingWhileUsed
        <4> QED
          BY <1>a, <2>4, <3>3, <4>2, <4>3, ThinkingKeeps DEF Good
      <3> QED
        BY <3>2, <3>3
    <2> QED
      BY <1>2, <2>2, <2>3, <2>4 DEF SelectFrom
  <1> QED
    BY <1>1, <1>2

\* The reactive runtime renews its plan before the selection.
LEMMA SelectToolKeeps ==
  ASSUME IInv, NEW h \in Handlers, SelectTool(h)
  PROVE  IInv'
  <1> DEFINE r == worker[h].run
  <1>1. UNCHANGED <<late, invoked>> /\ worker[h].at = "select_tool"
    <2>1. ASSUME NEW q, SelectFrom(h, q) PROVE worker[h].at = "select_tool"
      BY <2>1 DEF SelectFrom, Leave
    <2>2. ASSUME NEW q, Leave(h, "select_tool", q) PROVE worker[h].at = "select_tool"
      BY <2>2 DEF Leave
    <2> QED
      BY <2>1, <2>2 DEF SelectTool
  <1>2. Good(r) /\ r.node = "select_tool" /\ "select_tool" \in Thinking
    BY <1>1, AtNode DEF Nodes, Thinking
  <1>3. CASE SelectFrom(h, r)
    BY <1>1, <1>2, <1>3, SelectKeeps
  <1>4. CASE Leave(h, "select_tool", Failed(r))
    BY <1>1, <1>2, <1>4, StopGood, ThinkingKeeps
  <1>5. CASE \E p \in Plans, over \in BOOLEAN : \E q \in PlannedWith(r, p) :
               SelectFrom(h, Charged(q, over))
    <2>1. PICK p \in Plans, over \in BOOLEAN : \E q \in PlannedWith(r, p) :
               SelectFrom(h, Charged(q, over))
      BY <1>5
    <2>2. PICK q \in PlannedWith(r, p) : SelectFrom(h, Charged(q, over))
      BY <2>1
    <2>3. Good(Charged(q, over)) /\ Charged(q, over).node = "select_tool"
      BY <1>2, PlannedGood, ChargedGood
    <2> QED
      BY <1>1, <2>2, <2>3, SelectKeeps
  <1> QED
    BY <1>3, <1>4, <1>5 DEF SelectTool

\* A pending call is charged and answered, within the budget.
LEMMA ExecuteToolKeeps ==
  ASSUME IInv, NEW h \in Handlers, ExecuteTool(h)
  PROVE  IInv'
  <1> DEFINE r == worker[h].run
  <1>1. Good(r) /\ r.node = "execute_tool"
    BY AtNode DEF ExecuteTool, Leave, Nodes
  <1>2. r.pending \in Invocations /\ r.pending # NoTool
    BY <1>1 DEF Good, Runs, Sound, PendingWhileUsed
  <1>3. PICK response \in {"data", "error"} : Leave(h, "execute_tool", Answered(r, response))
    BY SMTT(30), <1>2 DEF ExecuteTool
  <1> DEFINE s == Answered(r, response)
  <1>4. s \in Runs /\ s.node = "store_evidence"
    <2>1. r \in Runs /\ FirstMatch(r) \in SUBSET Nat
      BY <1>1 DEF Good, Runs, FirstMatch
    <2>2. r.calls \in Nat /\ r.repeated \in [Invocations -> Nat] /\ r.done \in SUBSET Nat
      BY <2>1 DEF Runs
    <2>3. r.repeated[r.pending] \in Nat
      BY <1>2, <2>2
    <2>4. r.calls + 1 \in Nat /\ r.repeated[r.pending] + 1 \in Nat
      BY SMTT(60), <2>2, <2>3
    <2>5. r.done \cup FirstMatch(r) \in SUBSET Nat
      BY <2>1, <2>2
    <2>6. [r.repeated EXCEPT ![r.pending] = @ + 1] \in [Invocations -> Nat]
      BY <1>2, <2>2, <2>4
    <2> QED
      BY <1>3, <2>1, <2>4, <2>5, <2>6 DEF Answered, Runs, Nodes
  <1>5. WithinBudget(s)
    <2>1. r.calls < MaxToolCalls /\ r.repeated[r.pending] < MaxRepeated /\ r.steps <= MaxSteps
      BY <1>1, <1>2 DEF Good, Sound, WithinBudget
    <2>2. /\ s.calls = r.calls + 1 /\ s.steps = r.steps /\ s.node = "store_evidence"
          /\ s.repeated = [r.repeated EXCEPT ![r.pending] = @ + 1]
      BY <1>1 DEF Good, Runs, Answered
    <2>3. ASSUME NEW c \in Invocations PROVE s.repeated[c] <= MaxRepeated
      BY SMTT(60), <1>1, <1>2, <2>1, <2>2 DEF Good, Runs, Sound, WithinBudget
    <2> QED
      BY SMTT(60), <1>1, <2>1, <2>2, <2>3 DEF WithinBudget, Good, Runs
  <1>6. ReportGrounded(s) /\ ReportedWhenEnded(s) /\ PendingWhileUsed(s) /\ InFlight(s)
    BY <1>1, <1>2, <1>3 DEF Answered, Good, Runs, Nodes, Sound, InFlight,
       ReportGrounded, EvidencePaidFor, ReportedWhenEnded, PendingWhileUsed
  <1>7. Successor("execute_tool", s.node) = s.node
    BY <1>4 DEF Successor
  <1>8. late' \in BOOLEAN /\ invoked' \in Nat
    BY DEF ExecuteTool, IInv, TypeOK
  <1> QED
    BY <1>3, <1>4, <1>5, <1>6, <1>7, <1>8, LeaveKeeps DEF Good, Sound, Nodes

\* An answer becomes at most one piece of evidence, once.
LEMMA StoreEvidenceKeeps ==
  ASSUME IInv, NEW h \in Handlers, StoreEvidence(h)
  PROVE  IInv'
  <1> DEFINE r == worker[h].run
             new == IF r.response = "data" /\ r.pending # NoTool THEN 1 ELSE 0
             s == Goto([r EXCEPT !.evidence = @ + new, !.response = "none", !.pending = NoTool],
                       "update_hypothesis")
  <1>1. Good(r) /\ r.node = "store_evidence" /\ Leave(h, "store_evidence", s)
    BY AtNode DEF StoreEvidence, Leave, Nodes
  <1>2. r \in Runs /\ r.evidence + new \in Nat /\ new \in {0, 1}
    BY SMTT(60), <1>1 DEF Good, Runs
  <1>3. s \in Runs /\ s.node = "update_hypothesis" /\ s.evidence = r.evidence + new
    BY ZenonT(60), <1>2 DEF Runs, Goto, Nodes
  <1>4. Sound(s) /\ InFlight(s)
    <2>1. /\ s.response = "none" /\ s.pending = NoTool /\ s.calls = r.calls
          /\ s.steps = r.steps /\ s.repeated = r.repeated /\ s.status = r.status
          /\ s.diagnosis = r.diagnosis /\ s.report = r.report
      BY <1>2 DEF Runs, Goto
    <2>2. EvidencePaidFor(s)
      <3>1. EvidencePaidFor(r) /\ r.evidence \in Nat /\ r.calls \in Nat
        BY SMTT(30), <1>1 DEF Good, Sound, ReportGrounded, Runs
      <3>2. r.evidence + new <= r.calls
        BY <3>1 DEF EvidencePaidFor
      <3> HIDE DEF new, s
      <3> QED
        BY <1>2, <1>3, <2>1, <3>1, <3>2 DEF EvidencePaidFor
    <2>3. WithinBudget(s)
      BY <1>1, <1>3, <2>1 DEF Good, Sound, WithinBudget
    <2>4. s.diagnosis = "grounded" => s.evidence > 0
      <3>1. r.evidence \in Nat /\ (r.diagnosis = "grounded" => r.evidence > 0)
        BY <1>1 DEF Good, Sound, ReportGrounded, Runs
      <3>2. new \in Nat
        BY <1>2
      <3> HIDE DEF new, s
      <3> QED
        BY <1>3, <2>1, <3>1, <3>2
    <2> QED
      BY <1>1, <1>3, <2>1, <2>2, <2>3, <2>4 DEF Good, Sound, InFlight,
         ReportGrounded, ReportedWhenEnded, PendingWhileUsed
  <1>5. Successor("store_evidence", s.node) = s.node
    BY <1>3 DEF Successor
  <1> QED
    BY <1>1, <1>3, <1>4, <1>5, LeaveKeeps DEF StoreEvidence, Good, IInv, TypeOK, Nodes

\* Nodes that ask the provider, charge its usage and move on: each is left with
\* a failed copy or with one that AfterUsage has looked at.
LEMMA UpdateHypothesisKeeps ==
  ASSUME IInv, NEW h \in Handlers, UpdateHypothesis(h)
  PROVE  IInv'
  <1> DEFINE r == worker[h].run
  <1>1. Good(r) /\ r.node = "update_hypothesis"
        /\ "update_hypothesis" \in Thinking /\ "enough_evidence" \in Thinking
    BY AtNode DEF UpdateHypothesis, Leave, Nodes, Thinking
  <1>2. CASE Leave(h, "update_hypothesis", Failed(r))
    BY <1>1, <1>2, StopGood, ThinkingKeeps DEF UpdateHypothesis
  <1>3. CASE \E over \in BOOLEAN :
               Leave(h, "update_hypothesis", AfterUsage(Charged(r, over), "enough_evidence"))
    BY <1>1, <1>3, UsageGood, ThinkingKeeps DEF UpdateHypothesis
  <1> QED
    BY <1>2, <1>3 DEF UpdateHypothesis

\* enough_evidence goes back to select_tool or on to the diagnosis.
LEMMA EnoughEvidenceKeeps ==
  ASSUME IInv, NEW h \in Handlers, EnoughEvidence(h)
  PROVE  IInv'
  <1> DEFINE r == worker[h].run
             onward(enough) == IF enough \/ (~Reactive /\ AllDone(r)) THEN "diagnose"
                               ELSE "select_tool"
  <1>1. Good(r) /\ r.node = "enough_evidence" /\ "enough_evidence" \in Thinking
        /\ \A enough \in BOOLEAN : onward(enough) \in Thinking
    BY AtNode DEF EnoughEvidence, Leave, Nodes, Thinking
  <1>2. CASE Leave(h, "enough_evidence", Failed(r))
    BY <1>1, <1>2, StopGood, ThinkingKeeps DEF EnoughEvidence
  <1>3. CASE \E over, enough \in BOOLEAN :
               Leave(h, "enough_evidence", AfterUsage(Charged(r, over), onward(enough)))
    <2>1. PICK over \in BOOLEAN, enough \in BOOLEAN :
               Leave(h, "enough_evidence", AfterUsage(Charged(r, over), onward(enough)))
      BY <1>3
    <2>2. onward(enough) \in Thinking
      BY <1>1
    <2>3. Good(AfterUsage(Charged(r, over), onward(enough)))
      BY <1>1, <2>2, UsageGood
    <2> QED
      BY <1>1, <2>1, <2>3, ThinkingKeeps DEF EnoughEvidence
  <1> QED
    BY <1>2, <1>3 DEF EnoughEvidence

\* A diagnosis cites evidence only when there is some.
LEMMA CitedGood ==
  ASSUME NEW r, Good(r), r.report # "completed"
  PROVE  Good([r EXCEPT !.diagnosis = Cited(r)])
  BY ZenonT(60) DEF Good, Cited, Runs, Sound, InFlight,
     WithinBudget, ReportGrounded, EvidencePaidFor, ReportedWhenEnded, PendingWhileUsed

\* diagnose writes the diagnosis before its usage is charged.
LEMMA DiagnoseKeeps ==
  ASSUME IInv, NEW h \in Handlers, Diagnose(h)
  PROVE  IInv'
  <1> DEFINE r == worker[h].run
             d == [r EXCEPT !.diagnosis = Cited(r)]
  <1>1. Good(r) /\ r.node = "diagnose" /\ "diagnose" \in Thinking /\ "recommend" \in Thinking
    BY AtNode DEF Diagnose, Leave, Nodes, Thinking
  <1>2. Good(d) /\ d.node = "diagnose"
    BY <1>1, CitedGood DEF Good, Sound, ReportedWhenEnded
  <1>3. CASE Leave(h, "diagnose", Failed(r))
    BY <1>1, <1>3, StopGood, ThinkingKeeps DEF Diagnose
  <1>4. CASE \E over \in BOOLEAN : Leave(h, "diagnose", AfterUsage(Charged(d, over), "recommend"))
    BY <1>1, <1>2, <1>4, UsageGood, ThinkingKeeps DEF Diagnose
  <1> QED
    BY <1>3, <1>4 DEF Diagnose

\* recommend always checkpoints report, where its fixed edge leads.
LEMMA RecommendKeeps ==
  ASSUME IInv, NEW h \in Handlers, Recommend(h)
  PROVE  IInv'
  <1> DEFINE r == worker[h].run
  <1>1. Good(r) /\ r.node = "recommend" /\ "recommend" \in Thinking
    BY AtNode DEF Recommend, Leave, Nodes, Thinking
  <1>2. CASE Leave(h, "recommend", Failed(r))
    BY <1>1, <1>2, StopGood, ThinkingKeeps DEF Recommend
  <1>3. CASE \E over \in BOOLEAN :
               Leave(h, "recommend", AfterUsage(Charged(r, over), "report"))
    BY <1>1, <1>3, UsageGood, ThinkingKeeps DEF Recommend
  <1> QED
    BY <1>2, <1>3 DEF Recommend

\* report writes the report in the status it gives the run.
LEMMA ReportKeeps ==
  ASSUME IInv, NEW h \in Handlers, Report(h)
  PROVE  IInv'
  <1> DEFINE r == worker[h].run
             d == Diagnosed(r)
             s == [d EXCEPT !.status = FinalStatus(d), !.report = FinalStatus(d), !.node = "end"]
  <1>1. Good(r) /\ r.node = "report" /\ Leave(h, "report", s)
    BY AtNode DEF Report, Leave, Nodes
  <1>2. Good(d) /\ d.node = "report"
    <2>1. CASE r.diagnosis = "none"
      <3>1. d = [r EXCEPT !.diagnosis = Cited(r)]
        BY <2>1 DEF Diagnosed
      <3> QED
        BY <1>1, <3>1, CitedGood DEF Good, Sound, ReportedWhenEnded
    <2>2. CASE r.diagnosis # "none"
      <3>1. d = r
        BY <1>1, <2>2 DEF Diagnosed, Good, Runs
      <3> QED
        BY <1>1, <3>1
    <2> QED
      BY <2>1, <2>2
  <1>3. FinalStatus(d) \in {"completed", "failed", "budget_exhausted"}
        /\ (FinalStatus(d) = "completed" => d.diagnosis = "grounded")
    BY <1>2 DEF FinalStatus, Good, InFlight
  <1>4. /\ s \in Runs /\ s.node = "end" /\ s.status = FinalStatus(d) /\ s.report = FinalStatus(d)
        /\ s.steps = d.steps /\ s.calls = d.calls /\ s.repeated = d.repeated
        /\ s.evidence = d.evidence /\ s.response = d.response /\ s.pending = d.pending
        /\ s.diagnosis = d.diagnosis
    <2>1. d \in Runs /\ FinalStatus(d) \in Statuses /\ "end" \in Nodes
      BY <1>2, <1>3 DEF Good, Statuses, Nodes
    <2> QED
      BY <2>1 DEF Runs
  <1>5. Sound(s) /\ InFlight(s)
    <2>1. WithinBudget(s) /\ ReportGrounded(s)
      BY <1>2, <1>3, <1>4 DEF Good, Sound, WithinBudget, ReportGrounded, EvidencePaidFor
    <2>2. ReportedWhenEnded(s) /\ PendingWhileUsed(s) /\ InFlight(s)
      BY <1>2, <1>3, <1>4 DEF Good, Sound, ReportedWhenEnded, PendingWhileUsed, InFlight
    <2> QED
      BY <2>1, <2>2 DEF Sound
  <1>6. Successor("report", s.node) = s.node
    BY <1>4 DEF Successor
  <1> QED
    BY <1>1, <1>4, <1>5, <1>6, LeaveKeeps DEF Report, Good, IInv, TypeOK, Nodes

-----------------------------------------------------------------------------
(***************************************************************************)
(* Requests, interrupts, lost handlers and the clock.                      *)
(***************************************************************************)
\* A request, an interrupt or a crash replaces one handler's place and copy, and
\* perhaps the checkpoint; if both are sound the invariant is kept.
LEMMA HandlerKeeps ==
  ASSUME IInv, NEW h \in Handlers, NEW n \in Workers,
         worker' = [worker EXCEPT ![h] = n],
         store' \in Runs, Sound(store'),
         n.at # "idle" => Good(n.run),
         n.at \in Nodes => n.at = n.run.node /\ n.at # "end",
         late' \in BOOLEAN, invoked' \in Nat, requests' \in Nat, aborts' \in Nat
  PROVE  IInv'
  <1>1. worker' \in [Handlers -> Workers] /\ worker'[h] = n
        /\ \A k \in Handlers : k # h => worker'[k] = worker[k]
    BY DEF IInv, TypeOK
  <1>2. TypeOK'
    BY <1>1 DEF TypeOK
  <1>3. Sound(store)'
    BY DEF Sound, WithinBudget, ReportGrounded, EvidencePaidFor, ReportedWhenEnded,
       PendingWhileUsed
  <1>4. ASSUME NEW k \in Handlers
        PROVE  /\ Active(k)' => Sound(worker'[k].run) /\ InFlight(worker'[k].run)
               /\ worker'[k].at \in Nodes => worker'[k].at = worker'[k].run.node
               /\ worker'[k].at # "end"
    <2>1. CASE k = h
      BY <1>1, <2>1 DEF Active, Nodes, Good
    <2>2. CASE k # h
      BY <1>1, <2>2 DEF Active, IInv, RoutingMatchesCheckpoint
    <2> QED
      BY <2>1, <2>2
  <1> QED
    BY SMTT(60), <1>2, <1>3, <1>4 DEF IInv, RoutingMatchesCheckpoint, Sound, InFlight, WithinBudget,
       ReportGrounded, EvidencePaidFor, ReportedWhenEnded, PendingWhileUsed

\* Idle, where a handler returns to, is a well-formed place.
LEMMA IdleWorker == Idle \in Workers /\ Idle.at = "idle"
  BY FreshGood DEF Idle, Carrying, Workers, Good, Nodes

\* start creates the run and enters the graph at triage.
LEMMA StartKeeps ==
  ASSUME IInv, NEW h \in Handlers, Start(h)
  PROVE  IInv'
  <1>1. PICK p \in PauseAfter \cup {"none"} :
               worker' = [worker EXCEPT ![h] = Carrying("triage", p, Fresh)]
    BY DEF Start
  <1> DEFINE n == Carrying("triage", p, Fresh)
  <1>2. n \in Workers /\ n.at = "triage" /\ n.run = Fresh
    BY FreshGood, PauseAssumption DEF Carrying, Workers, Nodes, Good
  <1>3. store' \in Runs /\ Sound(store')
    BY FreshGood DEF Start, Good
  <1> QED
    BY <1>1, <1>2, <1>3, FreshGood, HandlerKeeps DEF Start, IInv, TypeOK

\* resume marks a run that has not ended as running and enters at next_node.
LEMMA ResumeKeeps ==
  ASSUME IInv, NEW h \in Handlers, Resume(h)
  PROVE  IInv'
  <1> DEFINE r == [store EXCEPT !.status = "running"]
             n == Carrying(r.node, "none", r)
  <1>1. store \in Runs /\ Sound(store) /\ store.node # "end"
    BY DEF IInv, TypeOK, Resume
  <1>2. Good(r) /\ r.node = store.node /\ r.node \in Nodes
    BY <1>1 DEF Good, Runs, Statuses, Sound, InFlight,
       WithinBudget, ReportGrounded, EvidencePaidFor, ReportedWhenEnded, PendingWhileUsed
  <1>3. n \in Workers /\ n.at = r.node /\ n.run = r
    BY <1>2 DEF Carrying, Workers, Good
  <1>4. worker' = [worker EXCEPT ![h] = n] /\ store' = r
        /\ requests' \in Nat /\ UNCHANGED <<late, invoked, aborts>>
    BY DEF Resume, IInv, TypeOK
  <1> QED
    BY <1>1, <1>2, <1>3, <1>4, HandlerKeeps DEF Good, IInv, TypeOK

\* An interrupted run that has not ended is saved as paused.
LEMMA PauseKeeps ==
  ASSUME IInv, NEW h \in Handlers, Pause(h)
  PROVE  IInv'
  <1> DEFINE w == worker[h].run
             r == [w EXCEPT !.status = "paused"]
  <1>1. w \in Runs /\ Sound(w)
    BY DEF Pause, IInv, TypeOK, Workers, Active
  <1>2. store' \in Runs /\ Sound(store')
    <2>1. CASE w.node = "end"
      BY <1>1, <2>1 DEF Pause, IInv, TypeOK, Runs
    <2>2. CASE w.node # "end"
      <3>1. store' = r /\ r \in Runs
        BY <1>1, <2>2 DEF Pause, Runs, Statuses
      <3>2. Sound(r)
        BY <1>1, <2>2 DEF Runs, Sound, WithinBudget, ReportGrounded, EvidencePaidFor,
           ReportedWhenEnded, PendingWhileUsed
      <3> QED
        BY <3>1, <3>2
    <2> QED
      BY <2>1, <2>2
  <1> QED
    BY <1>2, IdleWorker, HandlerKeeps DEF Pause, IInv, TypeOK, Nodes

\* A handler that dies leaves the checkpoint as it is.
LEMMA AbortKeeps ==
  ASSUME IInv, NEW h \in Handlers, Abort(h)
  PROVE  IInv'
  <1>1. invoked' \in Nat /\ aborts' \in Nat
    BY DEF Abort, IInv, TypeOK
  <1> QED
    BY <1>1, IdleWorker, HandlerKeeps DEF Abort, IInv, TypeOK, Nodes

\* The clock changes no run.
LEMMA TimeKeeps ==
  ASSUME IInv, UNCHANGED <<store, worker, requests, aborts>>,
         late' \in BOOLEAN, invoked' = invoked
  PROVE  IInv'
  BY DEF IInv, TypeOK, Sound, InFlight, WithinBudget, ReportGrounded, EvidencePaidFor,
     ReportedWhenEnded, PendingWhileUsed, Active, RoutingMatchesCheckpoint

-----------------------------------------------------------------------------
(***************************************************************************)
(* The theorems.                                                           *)
(***************************************************************************)
\* The invariant is inductive.
LEMMA NextIInv == IInv /\ [Next]_vars => IInv'
  <1> SUFFICES ASSUME IInv, [Next]_vars PROVE IInv'
    OBVIOUS
  <1>1. ASSUME NEW h \in Handlers, Step(h) PROVE IInv'
    BY <1>1, TriageKeeps, PlanKeeps, SelectToolKeeps, ExecuteToolKeeps, StoreEvidenceKeeps,
       UpdateHypothesisKeeps, EnoughEvidenceKeeps, DiagnoseKeeps, RecommendKeeps,
       ReportKeeps, PauseKeeps DEF Step
  <1>2. ASSUME NEW h \in Handlers, Start(h) \/ Resume(h) \/ Abort(h) PROVE IInv'
    BY <1>2, StartKeeps, ResumeKeeps, AbortKeeps
  <1>3. CASE TimeLimitPasses
    BY <1>3, TimeKeeps DEF TimeLimitPasses
  <1>4. CASE UNCHANGED vars
    BY <1>4, TimeKeeps DEF vars, IInv, TypeOK
  <1> QED
    BY <1>1, <1>2, <1>3, <1>4 DEF Next

\* Every reachable state satisfies the inductive invariant.
THEOREM Invariance == Spec => []IInv
  BY InitIInv, NextIInv, PTL DEF Spec

\* The checkpoint and every copy in flight stay well-formed.
THEOREM TypeCorrect == Spec => []TypeOK
  <1>1. IInv => TypeOK
    BY DEF IInv
  <1> QED
    BY <1>1, Invariance, PTL

\* Steps, tool calls and repeated calls of the investigation stay within budget,
\* for every number of concurrent handlers and every budget.
THEOREM BudgetsAreKept == Spec => []BudgetsHold
  <1>1. IInv => BudgetsHold
    BY DEF IInv, BudgetsHold, Everywhere, Sound
  <1> QED
    BY <1>1, Invariance, PTL

\* Whatever is reported as completed is grounded in evidence that was paid for.
THEOREM ReportsAreGrounded == Spec => []EvidenceBacksReports
  <1>1. IInv => EvidenceBacksReports
    BY DEF IInv, EvidenceBacksReports, Everywhere, Sound
  <1> QED
    BY <1>1, Invariance, PTL

\* A run is at END exactly when it has a report, and in the report's status.
THEOREM EndIsReported == Spec => []EndMatchesReport
  <1>1. IInv => EndMatchesReport
    BY DEF IInv, EndMatchesReport, Everywhere, Sound
  <1> QED
    BY <1>1, Invariance, PTL

\* A tool and its answer are pending exactly where the nodes look for them.
THEOREM PendingIsUsed == Spec => []PendingDiscipline
  <1>1. IInv => PendingDiscipline
    BY DEF IInv, PendingDiscipline, Everywhere, Sound
  <1> QED
    BY <1>1, Invariance, PTL

\* A resumed run goes on where the handler that checkpointed it went on.
THEOREM RoutingIsConsistent == Spec => []RoutingMatchesCheckpoint
  <1>1. IInv => RoutingMatchesCheckpoint
    BY DEF IInv
  <1> QED
    BY <1>1, Invariance, PTL

-----------------------------------------------------------------------------
(***************************************************************************)
(* What a node makes of the work its copy records: a second look at every  *)
(* node, for what relates a checkpoint to the one before and to the calls  *)
(* that were made, and for the reactive runtime.                           *)
(***************************************************************************)
Work(r) ==
  [steps |-> r.steps, calls |-> r.calls, evidence |-> r.evidence,
   repeated |-> r.repeated, plan |-> r.plan, done |-> r.done]

\* The reactive plan has one step, which is open only while its call is new; a
\* call about to be executed is the open step.
NewCallsOnly(r) ==
  /\ CalledOnce(r)
  /\ Len(r.plan) <= 1
  /\ \A i \in DOMAIN r.plan : i \notin r.done => r.repeated[r.plan[i]] = 0
  /\ r.node = "execute_tool" => r.plan = <<r.pending>> /\ 1 \notin r.done

\* s records all work that q does, and every call that was made since.
Advances(q, s) ==
  /\ q.steps <= s.steps
  /\ q.calls <= s.calls
  /\ q.evidence <= s.evidence
  /\ invoked' + q.calls <= invoked + s.calls
  /\ Reactive /\ NewCallsOnly(q) => NewCallsOnly(s)

Advanced(h) ==
  \E from \in Nodes : \E s : Leave(h, from, s) /\ Advances(worker[h].run, s)

\* The bookkeeping of budgets and routing records no work.
LEMMA WorkKept ==
  ASSUME NEW r \in Runs
  PROVE  /\ Work(Exhausted(r)) = Work(r) /\ Exhausted(r).node = "report"
         /\ Work(Failed(r)) = Work(r) /\ Failed(r).node = "report"
         /\ \A next : Work(Goto(r, next)) = Work(r) /\ Goto(r, next).node = next
         /\ \A over : Work(Charged(r, over)) = Work(r) /\ Charged(r, over).node = r.node
  BY DEF Work, Exhausted, Failed, Goto, Charged, Runs

\* Nor does charging a provider's usage and moving on.
LEMMA UsageWork ==
  ASSUME NEW r \in Runs, NEW over \in BOOLEAN, NEW next
  PROVE  /\ Work(AfterUsage(Charged(r, over), next)) = Work(r)
         /\ AfterUsage(Charged(r, over), next).node \in {next, "report"}
  <1>1. Charged(r, over) \in Runs
    BY DEF Charged, Runs
  <1> QED
    BY <1>1, WorkKept DEF AfterUsage

\* A node other than select_tool's way to a tool that records no work.
LEMMA SameWork ==
  ASSUME IInv, NEW q \in Runs, NEW s, Work(s) = Work(q), s.node # "execute_tool",
         invoked' = invoked
  PROVE  Advances(q, s)
  <1>1. /\ s.steps = q.steps /\ s.calls = q.calls /\ s.evidence = q.evidence
        /\ s.repeated = q.repeated /\ s.plan = q.plan /\ s.done = q.done
    BY DEF Work
  <1>2. q.steps \in Nat /\ q.calls \in Nat /\ q.evidence \in Nat /\ invoked \in Nat
    BY DEF Runs, IInv, TypeOK
  <1>3. NewCallsOnly(q) => NewCallsOnly(s)
    BY <1>1 DEF NewCallsOnly, CalledOnce
  <1> QED
    BY <1>1, <1>2, <1>3 DEF Advances

\* A new plan of the reactive adapter asks for a new call, or for none.
LEMMA PlannedNew ==
  ASSUME NEW r \in Runs, NEW p \in Plans, NEW q \in PlannedWith(r, p)
  PROVE  /\ q \in Runs /\ q.node = r.node /\ q.pending = r.pending
         /\ q.steps = r.steps /\ q.calls = r.calls /\ q.evidence = r.evidence
         /\ q.repeated = r.repeated
         /\ Reactive => /\ Len(q.plan) <= 1
                        /\ \A i \in DOMAIN q.plan : i \notin q.done => q.repeated[q.plan[i]] = 0
  <1>1. p \in Seq(Invocations) /\ p # << >> /\ Len(p) \in DOMAIN p /\ DOMAIN p \subseteq Nat
    OBVIOUS
  <1>2. PICK plan \in Seq(Invocations), done \in SUBSET Nat :
          /\ q = [r EXCEPT !.plan = plan, !.done = done]
          /\ Reactive => /\ Len(plan) <= 1
                         /\ \A i \in DOMAIN plan : i \notin done => r.repeated[plan[i]] = 0
    <2>1. CASE ~Reactive
      BY <1>1, <2>1 DEF PlannedWith
    <2>2. CASE Reactive /\ FirstUnseen(r, p) = {}
      <3> DEFINE plan == <<p[Len(p)]>>
      <3>1. plan \in Seq(Invocations) /\ {1} \in SUBSET Nat /\ Len(plan) = 1 /\ DOMAIN plan = {1}
        BY <1>1
      <3>2. q = [r EXCEPT !.plan = plan, !.done = {1}]
        BY <2>2 DEF PlannedWith
      <3>3. \A i \in DOMAIN plan : i \in {1}
        BY <3>1
      <3> HIDE DEF plan
      <3>4. Len(plan) <= 1
        BY <3>1
      <3>5. plan \in Seq(Invocations) /\ {1} \in SUBSET Nat
        BY <3>1
      <3> USE <3>5
      <3> WITNESS plan \in Seq(Invocations), {1} \in SUBSET Nat
      <3> QED
        BY <3>2, <3>3, <3>4
    <2>3. CASE Reactive /\ FirstUnseen(r, p) # {}
      <3>1. PICK i \in FirstUnseen(r, p) : q = [r EXCEPT !.plan = <<p[i]>>, !.done = {}]
        BY <2>3 DEF PlannedWith
      <3>2. i \in DOMAIN p /\ r.repeated[p[i]] = 0
        BY DEF FirstUnseen
      <3> DEFINE plan == <<p[i]>>
      <3>3. plan \in Seq(Invocations) /\ {} \in SUBSET Nat /\ Len(plan) = 1
            /\ DOMAIN plan = {1} /\ plan[1] = p[i]
        BY <1>1, <3>2
      <3>4. q = [r EXCEPT !.plan = plan, !.done = {}]
        BY <3>1
      <3>5. Len(plan) <= 1 /\ \A j \in DOMAIN plan : r.repeated[plan[j]] = 0
        BY <3>2, <3>3
      <3> HIDE DEF plan
      <3>6. plan \in Seq(Invocations) /\ {} \in SUBSET Nat
        BY <3>3
      <3> USE <3>6
      <3> WITNESS plan \in Seq(Invocations), {} \in SUBSET Nat
      <3> QED
        BY <3>4, <3>5
    <2> QED
      BY <2>1, <2>2, <2>3
  <1> QED
    BY <1>2 DEF Runs

\* Selecting from a copy whose open steps, if it is reactive, are new.
LEMMA SelectAdvances ==
  ASSUME IInv, NEW h \in Handlers, NEW q \in Runs, NEW r \in Runs, SelectFrom(h, r),
         r.node = "select_tool", invoked' = invoked,
         /\ r.steps = q.steps /\ r.calls = q.calls /\ r.evidence = q.evidence
         /\ r.repeated = q.repeated,
         Reactive /\ NewCallsOnly(q) => NewCallsOnly(r)
  PROVE  \E s : Leave(h, "select_tool", s) /\ Advances(q, s)
  <1> DEFINE t == [r EXCEPT !.steps = @ + 1]
  <1>1. q.steps \in Nat /\ q.calls \in Nat /\ q.evidence \in Nat /\ invoked \in Nat
    BY DEF Runs, IInv, TypeOK
  <1>2. ASSUME NEW s, Leave(h, "select_tool", s), s.steps \in {q.steps, q.steps + 1},
               s.calls = q.calls, s.evidence = q.evidence,
               Reactive /\ NewCallsOnly(q) => NewCallsOnly(s)
        PROVE  \E u : Leave(h, "select_tool", u) /\ Advances(q, u)
    BY <1>1, <1>2 DEF Advances
  <1>3. /\ t \in Runs /\ t.steps = q.steps + 1 /\ t.calls = q.calls /\ t.evidence = q.evidence
        /\ t.repeated = r.repeated /\ t.plan = r.plan /\ t.done = r.done
        /\ t.node = "select_tool"
    <2>1. r \in Runs /\ r.steps + 1 \in Nat
      BY DEF Runs
    <2>2. /\ t \in Runs /\ t.steps = r.steps + 1 /\ t.calls = r.calls
          /\ t.evidence = r.evidence /\ t.repeated = r.repeated /\ t.plan = r.plan
          /\ t.done = r.done /\ t.node = r.node
      BY <2>1 DEF Runs
    <2> HIDE DEF t
    <2> QED
      BY <2>2
  <1> HIDE DEF t
  <1>4. ASSUME NEW s, Leave(h, "select_tool", s), s.node # "execute_tool",
               Work(s) \in {Work(r), Work(t)}
        PROVE  \E u : Leave(h, "select_tool", u) /\ Advances(q, u)
    <2>1. /\ s.steps \in {q.steps, q.steps + 1} /\ s.calls = q.calls /\ s.evidence = q.evidence
          /\ s.repeated = r.repeated /\ s.plan = r.plan /\ s.done = r.done
      BY <1>3, <1>4 DEF Work
    <2>2. NewCallsOnly(r) => NewCallsOnly(s)
      BY <1>4, <2>1 DEF NewCallsOnly, CalledOnce
    <2> QED
      BY <1>2, <1>4, <2>1, <2>2
  <1>5. CASE Leave(h, "select_tool", Exhausted(r)) \/ Leave(h, "select_tool", Failed(t))
    BY <1>3, <1>4, <1>5, WorkKept
  <1>6. CASE Leave(h, "select_tool", Goto([t EXCEPT !.pending = NoTool], "diagnose"))
    <2>1. [t EXCEPT !.pending = NoTool] \in Runs /\ Work([t EXCEPT !.pending = NoTool]) = Work(t)
      BY <1>3 DEF Runs, Work
    <2> QED
      BY <1>4, <1>6, <2>1, WorkKept
  <1>7. ASSUME NEW i \in FirstOpen(t),
               Leave(h, "select_tool",
                     IF t.repeated[t.plan[i]] >= MaxRepeated THEN Exhausted(t)
                     ELSE Goto([t EXCEPT !.pending = t.plan[i]], "execute_tool"))
        PROVE  \E u : Leave(h, "select_tool", u) /\ Advances(q, u)
    <2>1. CASE t.repeated[t.plan[i]] >= MaxRepeated
      BY <1>3, <1>4, <1>7, <2>1, WorkKept
    <2>2. CASE ~(t.repeated[t.plan[i]] >= MaxRepeated)
      <3> DEFINE s == Goto([t EXCEPT !.pending = t.plan[i]], "execute_tool")
      <3>1. i \in DOMAIN t.plan /\ i \notin t.done
        BY DEF FirstOpen
      <3>2. /\ s.steps = t.steps /\ s.calls = t.calls /\ s.evidence = t.evidence
            /\ s.repeated = t.repeated /\ s.plan = t.plan /\ s.done = t.done
            /\ s.node = "execute_tool" /\ s.pending = t.plan[i]
        BY <1>3 DEF Goto, Runs
      <3>3. Leave(h, "select_tool", s)
        BY <1>7, <2>2
      <3> HIDE DEF s
      <3>4. ASSUME NewCallsOnly(r)
            PROVE  NewCallsOnly(s)
        <4>1. t.plan \in Seq(Invocations) /\ Len(t.plan) <= 1 /\ t.plan = r.plan
          BY <1>3, <3>4 DEF NewCallsOnly, Runs
        <4>2. i = 1 /\ t.plan = <<t.plan[1]>>
          BY <3>1, <4>1
        <4>3. s.plan = <<s.pending>> /\ 1 \notin s.done
          BY <3>1, <3>2, <4>2
        <4> QED
          BY <1>3, <3>2, <3>4, <4>3 DEF NewCallsOnly, CalledOnce
      <3> QED
        BY <1>2, <1>3, <3>2, <3>3, <3>4
    <2> QED
      BY <2>1, <2>2
  <1> QED
    BY <1>5, <1>6, <1>7 DEF SelectFrom, t

\* The nodes that record no work, or a new plan only.
LEMMA ThinkingAdvances ==
  ASSUME IInv, NEW h \in Handlers,
         \/ Triage(h) \/ Plan(h) \/ UpdateHypothesis(h) \/ EnoughEvidence(h)
         \/ Diagnose(h) \/ Recommend(h) \/ Report(h)
  PROVE  Advanced(h)
  <1> DEFINE r == worker[h].run
  <1>1. r \in Runs /\ invoked' = invoked
    <2>1. /\ worker[h].at \in Nodes
          /\ invoked' = invoked
      BY DEF Triage, Plan, UpdateHypothesis, EnoughEvidence, Diagnose, Recommend, Report,
         Leave, Nodes
    <2> QED
      BY <2>1, AtNode DEF Good
  <1>2. ASSUME NEW from \in Nodes, NEW s, Leave(h, from, s), Work(s) = Work(r),
               s.node # "execute_tool"
        PROVE  Advanced(h)
    BY <1>1, <1>2, SameWork DEF Advanced
  <1>3. CASE Triage(h)
    <2> DEFINE m == [r EXCEPT !.status = "running"]
    <2>1. m \in Runs /\ Work(m) = Work(r)
      BY <1>1 DEF Runs, Statuses, Work
    <2>2. Leave(h, "triage", Goto(m, "plan")) /\ "triage" \in Nodes
      BY <1>3 DEF Triage, Nodes
    <2> QED
      BY <1>2, <2>1, <2>2, WorkKept
  <1>4. ASSUME NEW from \in Nodes, Leave(h, from, Failed(r))
        PROVE  Advanced(h)
    BY <1>1, <1>2, <1>4, WorkKept
  <1>5. ASSUME NEW from \in Nodes, NEW m \in Runs, Work(m) = Work(r), NEW over \in BOOLEAN,
               NEW next, next # "execute_tool",
               Leave(h, from, AfterUsage(Charged(m, over), next))
        PROVE  Advanced(h)
    BY <1>2, <1>5, UsageWork
  <1>6. CASE Plan(h)
    <2>1. CASE Leave(h, "plan", Failed(r))
      BY <1>4, <2>1 DEF Nodes
    <2>2. CASE \E p \in Plans, over \in BOOLEAN : \E q \in PlannedWith(r, p) :
                 Leave(h, "plan", AfterUsage(Charged(q, over), "select_tool"))
      <3>1. PICK p \in Plans, over \in BOOLEAN : \E q \in PlannedWith(r, p) :
                 Leave(h, "plan", AfterUsage(Charged(q, over), "select_tool"))
        BY <2>2
      <3>2. PICK q \in PlannedWith(r, p) :
                 Leave(h, "plan", AfterUsage(Charged(q, over), "select_tool"))
        BY <3>1
      <3> DEFINE s == AfterUsage(Charged(q, over), "select_tool")
      <3>3. q \in Runs
        BY <1>1, PlannedNew
      <3>4. Work(s) = Work(q) /\ s.node # "execute_tool"
        BY <3>3, UsageWork
      <3>5. Advances(r, s)
        <4> HIDE DEF s
        <4>1. /\ s.steps = r.steps /\ s.calls = r.calls /\ s.evidence = r.evidence
              /\ s.repeated = r.repeated /\ s.plan = q.plan /\ s.done = q.done
          BY <1>1, <3>4, PlannedNew DEF Work
        <4>2. Reactive /\ NewCallsOnly(r) => NewCallsOnly(s)
          BY <1>1, <3>4, <4>1, PlannedNew DEF NewCallsOnly, CalledOnce
        <4>3. r.steps \in Nat /\ r.calls \in Nat /\ r.evidence \in Nat /\ invoked \in Nat
          BY <1>1 DEF Runs, IInv, TypeOK
        <4> QED
          BY <1>1, <4>1, <4>2, <4>3 DEF Advances
      <3> QED
        BY <3>2, <3>5 DEF Advanced, Nodes
    <2> QED
      BY <1>6, <2>1, <2>2 DEF Plan
  <1>7. CASE UpdateHypothesis(h)
    BY <1>1, <1>4, <1>5, <1>7 DEF UpdateHypothesis, Nodes
  <1>8. CASE EnoughEvidence(h)
    <2>1. ASSUME NEW over \in BOOLEAN, NEW next \in {"diagnose", "select_tool"},
                 Leave(h, "enough_evidence", AfterUsage(Charged(r, over), next))
          PROVE  Advanced(h)
      BY <1>1, <1>5, <2>1 DEF Nodes
    <2>2. \/ Leave(h, "enough_evidence", Failed(r))
          \/ \E over \in BOOLEAN, next \in {"diagnose", "select_tool"} :
               Leave(h, "enough_evidence", AfterUsage(Charged(r, over), next))
      BY <1>8 DEF EnoughEvidence
    <2> QED
      BY <1>4, <2>1, <2>2 DEF Nodes
  <1>9. CASE Diagnose(h)
    <2> DEFINE d == [r EXCEPT !.diagnosis = Cited(r)]
    <2>1. d \in Runs /\ Work(d) = Work(r)
      BY <1>1 DEF Runs, Work, Cited
    <2> QED
      BY <1>4, <1>5, <1>9, <2>1 DEF Diagnose, Nodes
  <1>10. CASE Recommend(h)
    BY <1>1, <1>4, <1>5, <1>10 DEF Recommend, Nodes
  <1>11. CASE Report(h)
    <2> DEFINE d == Diagnosed(r)
               s == [d EXCEPT !.status = FinalStatus(d), !.report = FinalStatus(d),
                              !.node = "end"]
    <2>1. d \in Runs /\ Work(d) = Work(r)
      BY <1>1 DEF Diagnosed, Cited, Runs, Work
    <2>2. Work(s) = Work(d) /\ s.node = "end"
      BY <2>1 DEF Runs, Work
    <2> HIDE DEF d, s
    <2>3. Leave(h, "report", s)
      BY <1>11 DEF Report, d, s
    <2> QED
      BY <1>2, <2>1, <2>2, <2>3 DEF Nodes
  <1> QED
    BY <1>3, <1>6, <1>7, <1>8, <1>9, <1>10, <1>11

\* The selection charges a step.
LEMMA SelectToolAdvances ==
  ASSUME IInv, NEW h \in Handlers, SelectTool(h)
  PROVE  Advanced(h)
  <1> DEFINE r == worker[h].run
  <1>1. invoked' = invoked /\ worker[h].at = "select_tool"
    <2>1. ASSUME NEW q, SelectFrom(h, q) PROVE worker[h].at = "select_tool"
      BY <2>1 DEF SelectFrom, Leave
    <2>2. ASSUME NEW q, Leave(h, "select_tool", q) PROVE worker[h].at = "select_tool"
      BY <2>2 DEF Leave
    <2> QED
      BY <2>1, <2>2 DEF SelectTool
  <1>2. r \in Runs /\ r.node = "select_tool" /\ "select_tool" \in Nodes
    BY <1>1, AtNode DEF Nodes, Good
  <1>3. CASE SelectFrom(h, r)
    BY <1>1, <1>2, <1>3, SelectAdvances DEF Advanced
  <1>4. CASE Leave(h, "select_tool", Failed(r))
    BY <1>1, <1>2, <1>4, WorkKept, SameWork DEF Advanced
  <1>5. CASE Reactive /\ \E p \in Plans, over \in BOOLEAN : \E q \in PlannedWith(r, p) :
               SelectFrom(h, Charged(q, over))
    <2>1. PICK p \in Plans, over \in BOOLEAN : \E q \in PlannedWith(r, p) :
               SelectFrom(h, Charged(q, over))
      BY <1>5
    <2>2. PICK q \in PlannedWith(r, p) : SelectFrom(h, Charged(q, over))
      BY <2>1
    <2> DEFINE c == Charged(q, over)
    <2>3. q \in Runs /\ q.node = "select_tool"
      BY <1>2, PlannedNew
    <2>4. c \in Runs /\ c.node = "select_tool" /\ Work(c) = Work(q)
      BY <2>3, WorkKept DEF Charged, Runs
    <2> HIDE DEF c
    <2>5. /\ c.steps = r.steps /\ c.calls = r.calls /\ c.evidence = r.evidence
          /\ c.repeated = r.repeated /\ c.plan = q.plan /\ c.done = q.done
      BY <1>2, <2>4, PlannedNew DEF Work
    <2>6. Reactive /\ NewCallsOnly(r) => NewCallsOnly(c)
      BY <1>2, <2>4, <2>5, PlannedNew DEF NewCallsOnly, CalledOnce
    <2>7. SelectFrom(h, c)
      BY <2>2 DEF c
    <2> QED
      BY <1>1, <1>2, <2>4, <2>5, <2>6, <2>7, SelectAdvances DEF Advanced
  <1> QED
    BY <1>3, <1>4, <1>5 DEF SelectTool

\* A call that reaches the registry is charged; the reactive one was new.
LEMMA ExecuteToolAdvances ==
  ASSUME IInv, NEW h \in Handlers, ExecuteTool(h)
  PROVE  Advanced(h)
  <1> DEFINE r == worker[h].run
  <1>1. r \in Runs /\ r.node = "execute_tool" /\ r.pending \in Invocations /\ r.pending # NoTool
    BY AtNode DEF ExecuteTool, Leave, Nodes, Good, Runs, Sound, PendingWhileUsed
  <1>2. PICK response \in {"data", "error"} : Leave(h, "execute_tool", Answered(r, response))
    BY <1>1 DEF ExecuteTool
  <1> DEFINE s == Answered(r, response)
  <1>3. /\ s.steps = r.steps /\ s.calls = r.calls + 1 /\ s.evidence = r.evidence
        /\ s.repeated = [r.repeated EXCEPT ![r.pending] = @ + 1]
        /\ s.plan = r.plan /\ s.done = r.done \cup FirstMatch(r) /\ s.node = "store_evidence"
    BY <1>1 DEF Answered, Runs
  <1>4. invoked' = invoked + 1
    BY <1>1 DEF ExecuteTool
  <1>5. /\ r.steps \in Nat /\ r.calls \in Nat /\ r.evidence \in Nat /\ invoked \in Nat
        /\ r.repeated \in [Invocations -> Nat] /\ r.plan \in Seq(Invocations)
    BY <1>1 DEF Runs, IInv, TypeOK
  <1> HIDE DEF s
  <1>6. ASSUME NewCallsOnly(r)
        PROVE  NewCallsOnly(s)
    <2>1. r.plan = <<r.pending>> /\ 1 \notin r.done /\ CalledOnce(r)
      BY <1>1, <1>6 DEF NewCallsOnly
    <2>2. DOMAIN r.plan = {1} /\ r.plan[1] = r.pending /\ Len(r.plan) = 1
      BY <2>1
    <2>3. 1 \in s.done
      BY <1>3, <2>1, <2>2 DEF FirstMatch
    <2>4. r.repeated[r.pending] = 0
      BY <1>6, <2>1, <2>2 DEF NewCallsOnly
    <2>5. CalledOnce(s)
      BY <1>1, <1>3, <1>5, <2>1, <2>4 DEF CalledOnce
    <2>6. s.plan = r.plan /\ DOMAIN s.plan = {1} /\ Len(s.plan) <= 1
      BY <1>3, <2>2
    <2>7. s.node # "execute_tool"
      BY <1>3
    <2>8. \A i \in DOMAIN s.plan : i \in s.done
      BY <2>3, <2>6
    <2> QED
      BY <2>5, <2>6, <2>7, <2>8 DEF NewCallsOnly
  <1>7. Advances(r, s)
    <2>1. r.steps <= s.steps /\ r.calls <= s.calls /\ r.evidence <= s.evidence
      <3>1. s.steps = r.steps /\ s.calls = r.calls + 1 /\ s.evidence = r.evidence
        BY <1>3
      <3>2. r.steps \in Nat /\ r.calls \in Nat /\ r.evidence \in Nat
        BY <1>5
      <3> HIDE DEF r
      <3> QED
        BY <3>1, <3>2
    <2>2. invoked' + r.calls <= invoked + s.calls
      <3>1. s.calls = r.calls + 1 /\ r.calls \in Nat /\ invoked \in Nat
        BY <1>3, <1>5
      <3> HIDE DEF r
      <3> QED
        BY <1>4, <3>1
    <2> HIDE DEF r
    <2> QED
      BY <1>6, <2>1, <2>2 DEF Advances
  <1> QED
    BY <1>2, <1>7 DEF Advanced, Nodes, s

\* Storing an answer adds evidence at most.
LEMMA StoreEvidenceAdvances ==
  ASSUME IInv, NEW h \in Handlers, StoreEvidence(h)
  PROVE  Advanced(h)
  <1> DEFINE r == worker[h].run
             new == IF r.response = "data" /\ r.pending # NoTool THEN 1 ELSE 0
             s == Goto([r EXCEPT !.evidence = @ + new, !.response = "none", !.pending = NoTool],
                       "update_hypothesis")
  <1>1. r \in Runs /\ Leave(h, "store_evidence", s) /\ invoked' = invoked
    BY AtNode DEF StoreEvidence, Leave, Nodes, Good
  <1>2. /\ s.steps = r.steps /\ s.calls = r.calls /\ s.evidence = r.evidence + new
        /\ s.repeated = r.repeated /\ s.plan = r.plan /\ s.done = r.done
        /\ s.node = "update_hypothesis"
    BY <1>1 DEF Goto, Runs
  <1>3. /\ r.steps \in Nat /\ r.calls \in Nat /\ r.evidence \in Nat /\ invoked \in Nat
        /\ new \in {0, 1}
    BY <1>1 DEF Runs, IInv, TypeOK
  <1> HIDE DEF s, new
  <1>4. NewCallsOnly(r) => NewCallsOnly(s)
    BY <1>2 DEF NewCallsOnly, CalledOnce
  <1>5. r.evidence <= s.evidence
    BY <1>2, <1>3
  <1>6. Advances(r, s)
    BY <1>1, <1>2, <1>3, <1>4, <1>5 DEF Advances
  <1> QED
    BY <1>1, <1>6 DEF Advanced, Nodes

-----------------------------------------------------------------------------
(***************************************************************************)
(* With one request at a time the copy in flight is the checkpoint.        *)
(***************************************************************************)
NewInv == Reactive => Everywhere(NewCallsOnly)

SoleInv ==
  Alone => /\ requests = 0 => store = Fresh /\ invoked = 0 /\ \A h \in Handlers : ~Active(h)
           /\ \A h \in Handlers : Active(h) => worker[h].run = store
           /\ invoked <= store.calls + aborts

\* A node leaves the copy it checkpoints in flight, or rests.
LEMMA LeaveMoves ==
  ASSUME IInv, NEW h \in Handlers, NEW from \in Nodes, NEW s, Leave(h, from, s)
  PROVE  /\ store' = s /\ worker[h].at = from /\ Active(h)
         /\ UNCHANGED <<requests, aborts>>
         /\ \E w : worker' = [worker EXCEPT ![h] = w] /\ (w.at # "idle" => w.run = s)
  <1>1. Idle.at = "idle" /\ \A place, p : Carrying(place, p, s).run = s
    BY DEF Idle, Carrying
  <1>2. \E w : worker' = [worker EXCEPT ![h] = w] /\ (w.at # "idle" => w.run = s)
    BY <1>1 DEF Leave
  <1> QED
    BY <1>2 DEF Leave, Active, Nodes

\* A handler that moves on with the checkpoint, and what it makes of NewInv.
LEMMA MoveNew ==
  ASSUME IInv, NewInv, NEW h \in Handlers, NEW w, worker' = [worker EXCEPT ![h] = w],
         Reactive => NewCallsOnly(store') /\ (w.at # "idle" => NewCallsOnly(w.run))
  PROVE  NewInv'
  <1>1. worker'[h] = w /\ \A k \in Handlers : k # h => worker'[k] = worker[k]
    BY DEF IInv, TypeOK
  <1> SUFFICES ASSUME Reactive
               PROVE  /\ NewCallsOnly(store)'
                      /\ \A k \in Handlers : Active(k)' => NewCallsOnly(worker[k].run)'
    BY DEF NewInv, Everywhere
  <1>2. NewCallsOnly(store)'
    BY DEF NewCallsOnly, CalledOnce
  <1>3. ASSUME NEW k \in Handlers, worker'[k].at # "idle"
        PROVE  NewCallsOnly(worker'[k].run)
    BY <1>1, <1>3 DEF NewInv, Everywhere, Active
  <1> QED
    BY <1>2, <1>3 DEF Active, NewCallsOnly, CalledOnce

\* The same for SoleInv.
LEMMA MoveSole ==
  ASSUME IInv, SoleInv, NEW h \in Handlers, NEW w, worker' = [worker EXCEPT ![h] = w],
         Alone => /\ w.at # "idle" => w.run = store'
                  /\ requests' # 0
                  /\ invoked' <= store'.calls + aborts'
  PROVE  SoleInv'
  <1>1. worker'[h] = w
    BY DEF IInv, TypeOK
  <1> QED
    BY <1>1 DEF SoleInv, Alone, Active

\* A handler in flight has been asked for.
LEMMA Requested ==
  ASSUME IInv, SoleInv, NEW h \in Handlers, Active(h)
  PROVE  Alone => /\ requests # 0 /\ worker[h].run = store /\ store \in Runs
                  /\ invoked <= store.calls + aborts /\ invoked \in Nat /\ aborts \in Nat
  BY DEF SoleInv, IInv, TypeOK

\* The nodes keep both invariants, and checkpoints grow.
LEMMA NodeSole ==
  ASSUME IInv, IInv', SoleInv, NewInv, NEW h \in Handlers, Advanced(h)
  PROVE  SoleInv' /\ NewInv' /\ (Alone => Growing)
  <1>1. PICK from \in Nodes : \E s : Leave(h, from, s) /\ Advances(worker[h].run, s)
    BY DEF Advanced
  <1>2. PICK s : Leave(h, from, s) /\ Advances(worker[h].run, s)
    BY <1>1
  <1>3. /\ store' = s /\ worker[h].at = from /\ Active(h) /\ UNCHANGED <<requests, aborts>>
    BY <1>2, LeaveMoves
  <1>4. PICK w : worker' = [worker EXCEPT ![h] = w] /\ (w.at # "idle" => w.run = s)
    BY <1>2, LeaveMoves
  <1>5. SoleInv'
    <2>1. ASSUME Alone PROVE invoked' <= store'.calls + aborts'
      <3>1. /\ invoked' + store.calls <= invoked + s.calls /\ invoked <= store.calls + aborts
            /\ invoked \in Nat /\ invoked' \in Nat /\ aborts \in Nat
            /\ store.calls \in Nat /\ s.calls \in Nat
        BY <1>2, <1>3, <2>1, Requested DEF Advances, IInv, TypeOK, Runs
      <3> QED
        BY <1>3, <3>1
    <2> QED
      BY <1>3, <1>4, <2>1, MoveSole, Requested
  <1>6. NewInv'
    <2>1. Reactive => NewCallsOnly(s)
      BY <1>2, <1>3 DEF NewInv, Everywhere, Advances
    <2> QED
      BY <1>3, <1>4, <2>1, MoveNew
  <1>7. ASSUME Alone PROVE Growing
    <2>1. worker[h].run = store /\ store.node # "end"
      BY <1>3, <1>7, AtNode, Requested
    <2> QED
      BY <1>2, <1>3, <2>1 DEF Advances, Growing, IInv, TypeOK, Runs
  <1> QED
    BY <1>5, <1>6, <1>7

\* So do requests, interrupts and lost handlers.
LEMMA RequestSole ==
  ASSUME IInv, IInv', SoleInv, NewInv, NEW h \in Handlers,
         Start(h) \/ Resume(h) \/ Pause(h) \/ Abort(h)
  PROVE  SoleInv' /\ NewInv' /\ (Alone => Growing)
  <1>1. /\ Idle.at = "idle" /\ \A place, p, r : Carrying(place, p, r).run = r
        /\ store \in Runs /\ Fresh \in Runs /\ invoked \in Nat /\ aborts \in Nat
        /\ requests \in Nat
    BY FreshGood DEF Idle, Carrying, IInv, TypeOK, Good
  <1>2. /\ store.steps \in Nat /\ store.calls \in Nat /\ store.evidence \in Nat
    BY <1>1 DEF Runs
  <1>3. CASE Start(h)
    <2>1. PICK p \in PauseAfter \cup {"none"} :
            worker' = [worker EXCEPT ![h] = Carrying("triage", p, Fresh)]
      BY <1>3 DEF Start
    <2>2. store' = Fresh /\ requests = 0 /\ requests' = 1 /\ UNCHANGED <<invoked, aborts>>
      BY <1>3 DEF Start
    <2>3. Fresh.calls = 0 /\ Fresh.plan = << >> /\ Fresh.node = "triage"
          /\ \A c \in Invocations : Fresh.repeated[c] = 0
      BY DEF Fresh, NoPlan
    <2>4. NewCallsOnly(Fresh)
      BY <2>3 DEF NewCallsOnly, CalledOnce
    <2>5. Alone => store = Fresh /\ invoked = 0
      BY <2>2 DEF SoleInv
    <2> DEFINE w == Carrying("triage", p, Fresh)
    <2>6. /\ worker' = [worker EXCEPT ![h] = w] /\ w.run = Fresh
          /\ Alone => requests' # 0 /\ invoked' <= store'.calls + aborts'
      BY <1>1, <2>1, <2>2, <2>3, <2>5
    <2> HIDE DEF w
    <2>7. SoleInv' /\ NewInv'
      BY <2>2, <2>4, <2>6, MoveSole, MoveNew
    <2>8. Alone => Growing
      BY <1>2, <2>2, <2>5 DEF Growing
    <2> QED
      BY <2>7, <2>8
  <1>4. CASE Resume(h)
    <2> DEFINE r == [store EXCEPT !.status = "running"]
               w == Carrying(r.node, "none", r)
    <2>1. /\ store' = r /\ worker' = [worker EXCEPT ![h] = w] /\ w.run = r
          /\ requests' # 0 /\ UNCHANGED <<invoked, aborts>> /\ store.node # "end"
      BY <1>1, <1>4 DEF Resume
    <2>2. Work(r) = Work(store) /\ r.node = store.node /\ r.pending = store.pending
      BY <1>1 DEF Work, Runs
    <2> HIDE DEF r, w
    <2>3. /\ r.steps = store.steps /\ r.calls = store.calls /\ r.evidence = store.evidence
          /\ r.repeated = store.repeated /\ r.plan = store.plan /\ r.done = store.done
      BY <2>2 DEF Work
    <2>4. SoleInv'
      BY <2>1, <2>3, MoveSole DEF SoleInv
    <2>5. Reactive => NewCallsOnly(r)
      BY <2>2, <2>3 DEF NewInv, Everywhere, NewCallsOnly, CalledOnce
    <2>6. NewInv'
      BY <2>1, <2>5, MoveNew
    <2>7. Growing
      BY <1>2, <2>1, <2>3 DEF Growing
    <2> QED
      BY <2>4, <2>6, <2>7
  <1>5. CASE Pause(h)
    <2> DEFINE q == worker[h].run
               r == [q EXCEPT !.status = "paused"]
    <2>1. /\ store' = (IF q.node # "end" THEN r ELSE store) /\ Active(h)
          /\ worker' = [worker EXCEPT ![h] = Idle] /\ UNCHANGED <<invoked, requests, aborts>>
      BY <1>5 DEF Pause, Active
    <2>2. q \in Runs
      BY <2>1 DEF IInv, TypeOK, Workers
    <2>3. Work(r) = Work(q) /\ r.node = q.node /\ r.pending = q.pending
      BY <2>2 DEF Work, Runs
    <2> HIDE DEF r
    <2>4. /\ r.steps = q.steps /\ r.calls = q.calls /\ r.evidence = q.evidence
          /\ r.repeated = q.repeated /\ r.plan = q.plan /\ r.done = q.done
      BY <2>3 DEF Work
    <2>5. SoleInv'
      BY <1>1, <2>1, <2>4, Requested, MoveSole
    <2>6. Reactive => NewCallsOnly(store')
      BY <2>1, <2>3, <2>4 DEF NewInv, Everywhere, NewCallsOnly, CalledOnce
    <2>7. NewInv'
      BY <1>1, <2>1, <2>6, MoveNew
    <2>8. Alone => Growing
      BY <1>2, <2>1, <2>4, Requested DEF Growing
    <2> QED
      BY <2>5, <2>7, <2>8
  <1>6. CASE Abort(h)
    <2>1. /\ store' = store /\ Active(h) /\ worker' = [worker EXCEPT ![h] = Idle]
          /\ aborts' = aborts + 1 /\ requests' = requests
          /\ invoked' = invoked \/ invoked' = invoked + 1
      BY <1>6 DEF Abort, Active
    <2>2. SoleInv'
      <3>1. Alone => invoked' <= store'.calls + aborts'
        BY <1>1, <1>2, <2>1, Requested
      <3> QED
        BY <1>1, <2>1, <3>1, Requested, MoveSole
    <2>3. NewInv'
      BY <1>1, <2>1, MoveNew DEF NewInv, Everywhere
    <2>4. Growing
      BY <1>2, <2>1 DEF Growing
    <2> QED
      BY <2>2, <2>3, <2>4
  <1> QED
    BY <1>3, <1>4, <1>5, <1>6

\* Every step keeps both invariants, and no checkpoint forgets.
LEMMA NextSole ==
  ASSUME IInv, IInv', SoleInv, NewInv, [Next]_vars
  PROVE  SoleInv' /\ NewInv' /\ (Alone => Growing)
  <1>1. store.steps \in Nat /\ store.calls \in Nat /\ store.evidence \in Nat
    BY DEF IInv, TypeOK, Runs
  <1>2. CASE UNCHANGED <<store, worker, invoked, requests, aborts>>
    BY <1>1, <1>2 DEF SoleInv, NewInv, Everywhere, NewCallsOnly, CalledOnce, Active, Alone,
       Growing
  <1>3. ASSUME NEW h \in Handlers, Step(h) \/ Start(h) \/ Resume(h) \/ Abort(h)
        PROVE  SoleInv' /\ NewInv' /\ (Alone => Growing)
    BY <1>3, ThinkingAdvances, SelectToolAdvances, ExecuteToolAdvances, StoreEvidenceAdvances,
       NodeSole, RequestSole DEF Step
  <1> QED
    BY <1>2, <1>3 DEF Next, vars, TimeLimitPasses

\* Both invariants hold in every reachable state.
THEOREM SoleInvariance == Spec => [](SoleInv /\ NewInv)
  <1>1. Init => SoleInv /\ NewInv
    <2>1. Fresh.calls = 0 /\ Fresh.plan = << >> /\ Fresh.node = "triage"
          /\ (\A c \in Invocations : Fresh.repeated[c] = 0) /\ Idle.at = "idle"
      BY DEF Fresh, NoPlan, Idle, Carrying
    <2>2. NewCallsOnly(Fresh)
      BY <2>1 DEF NewCallsOnly, CalledOnce
    <2> QED
      BY <2>1, <2>2 DEF Init, SoleInv, NewInv, Everywhere, Active
  <1>2. IInv /\ IInv' /\ (SoleInv /\ NewInv) /\ [Next]_vars => (SoleInv /\ NewInv)'
    BY NextSole
  <1> QED
    BY <1>1, <1>2, Invariance, PTL DEF Spec

\* With one request at a time the checkpoint accounts for every call that reached
\* the registry but those of handlers that died, for every plan, budget and crash.
THEOREM CallsAreAccounted == Spec => []CallsAccounted
  <1>1. SoleInv => CallsAccounted
    BY DEF SoleInv, CallsAccounted
  <1> QED
    BY <1>1, SoleInvariance, PTL

\* The reactive runtime makes no call it has an answer to a second time, however many
\* handlers are resumed from whatever checkpoint (ReactiveProvider, architectures.py).
THEOREM ReactiveCallsAreNew == Spec => []ReactiveCallsOnce
  <1>1. NewInv => ReactiveCallsOnce
    BY DEF NewInv, ReactiveCallsOnce, Everywhere, NewCallsOnly
  <1> QED
    BY <1>1, SoleInvariance, PTL

\* With one request at a time no checkpoint forgets steps, calls or evidence, and a
\* finished investigation stays as it is.
THEOREM CheckpointsAreKept == Spec => CheckpointsOnlyGrow
  <1>1. IInv /\ IInv' /\ (SoleInv /\ NewInv) /\ [Next]_vars => [Alone => Growing]_vars
    BY NextSole
  <1> QED
    BY <1>1, Invariance, SoleInvariance, PTL DEF Spec, CheckpointsOnlyGrow
=============================================================================
