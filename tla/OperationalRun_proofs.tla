------------------------- MODULE OperationalRun_proofs -------------------------
(***************************************************************************)
(* What holds of OperationalRun for every set of handlers, tools, risks    *)
(* and actions and every bound.  The checkpoint may be overwritten by any  *)
(* copy in flight, so the invariant asks the same of both: Lawful relates  *)
(* a run to the decisions humans took and to what acted on the sandbox.    *)
(* The key is that a copy in flight never carries a pending approval: only *)
(* the checkpoint does, so that a decision on it is the only one.          *)
(***************************************************************************)
EXTENDS OperationalRun, TLAPS

USE ToolAssumption, NumberAssumption

Unfinished == {"none", "assess_action", "wait_approval", "execute_action"}

Earned(r, e) ==
  r.stage = "verify" \/ r.verified \in {"passed", "failed"} =>
    \E i \in DOMAIN e : e[i] = Effect(r)

\* Run r, after n approval requests of which g were granted and d declined, and
\* after the effects e.
Lawful(r, n, g, d, e) ==
  /\ ~r.ended => r.stage = "none" /\ r.approval = NoApproval
  /\ r.stage \in {"none", "assess_action"} => r.approval = NoApproval
  /\ r.stage \in Unfinished => r.verified = "not_run"
  /\ r.action # NoAction => r.claims
  /\ r.stage \in {"wait_approval", "execute_action", "verify"} =>
       r.action # NoAction /\ r.action.tool # NoTool
  /\ r.stage = "execute_action" /\ r.action.risk = "R2" => r.approval.decision = "approved"
  /\ r.approval.id <= n
  /\ r.approval.decision = "pending" =>
       r.stage = "wait_approval" /\ r.approval.id \notin g \cup d
  /\ r.approval.decision = "approved" => r.approval.id \in g
  /\ r.approval.id # 0 => r.stage \in {"wait_approval", "execute_action", "verify", "complete"}
  /\ Earned(r, e)
  /\ CallsCovered(r)
  /\ ReportShown(r)

\* What a handler's place says of its copy.
Placed(w) ==
  /\ w.at = "investigating" => ~w.run.ended
  /\ w.at = "investigated" =>
       w.run.stage = "none" /\ (w.run.status = "completed" => w.run.ended)
  /\ w.at = "operating" => w.run.stage \in {"assess_action", "execute_action", "verify"}
  /\ w.at = "acting" => /\ w.run.stage = "execute_action" /\ w.run.calls < MaxToolCalls
                        /\ w.attempt \in 1 .. MaxRetries + 1
  /\ w.at = "verifying" => w.run.stage = "verify" /\ w.attempt \in 1 .. MaxRetries + 1

IInv ==
  /\ TypeOK
  /\ Lawful(store, approvals, granted, declined, effects)
  /\ \A h \in Handlers : Active(h) =>
       Lawful(worker[h].run, approvals, granted, declined, effects) /\ Placed(worker[h])

\* Decisions and effects are only added to.
Grown(n, g, d, e, n1, g1, d1, e1) ==
  /\ n1 \in Nat /\ n <= n1
  /\ g \subseteq g1 /\ g1 \subseteq 1 .. n1
  /\ d \subseteq d1 /\ d1 \subseteq 1 .. n1
  /\ e1 \in Seq([tool: Tools, approval: Nat])
  /\ \A i \in DOMAIN e : i \in DOMAIN e1 /\ e1[i] = e[i]

HistoryGrown ==
  Grown(approvals, granted, declined, effects, approvals', granted', declined', effects')

-----------------------------------------------------------------------------
\* A run that has just been created is lawful, before and after any history.
LEMMA FreshLawful ==
  ASSUME NEW n \in Nat, NEW g, NEW d, NEW e
  PROVE  Fresh \in Runs /\ Lawful(Fresh, n, g, d, e)
  BY DEF Fresh, Runs, Statuses, Stages, NoAction, NoApproval, Approvals, Lawful, Unfinished,
     Earned, CallsCovered, ReportShown

\* An idle handler is a well-formed worker.
LEMMA IdleWorker == Idle \in Workers /\ Idle.at = "idle" /\ Idle.run = Fresh
  BY FreshLawful DEF Idle, At, Workers, Places

\* The invariant holds before the first request.
LEMMA InitIInv == Init => IInv
  <1> SUFFICES ASSUME Init PROVE IInv
    OBVIOUS
  <1>1. TypeOK
    <2>1. store \in Runs /\ worker \in [Handlers -> Workers]
      BY IdleWorker, FreshLawful DEF Init
    <2>2. effects \in Seq([tool: Tools, approval: Nat])
      BY DEF Init
    <2> QED
      BY <2>1, <2>2 DEF Init, TypeOK
  <1>2. Lawful(store, approvals, granted, declined, effects)
    BY FreshLawful DEF Init
  <1> QED
    BY <1>1, <1>2, IdleWorker DEF Init, IInv, Active

\* A run without a pending approval stays lawful when the history grows.
LEMMA LawfulGrows ==
  ASSUME NEW r \in Runs, NEW n \in Nat, NEW g, NEW d, NEW e,
         NEW n1, NEW g1, NEW d1, NEW e1, Grown(n, g, d, e, n1, g1, d1, e1),
         Lawful(r, n, g, d, e), r.approval.decision # "pending"
  PROVE  Lawful(r, n1, g1, d1, e1)
  <1>1. r.approval.id \in Nat
    BY DEF Runs, Approvals, NoApproval
  <1>2. r.approval.id <= n1
    <2>1. n1 \in Nat /\ n <= n1
      BY DEF Grown
    <2>2. r.approval.id <= n
      BY DEF Lawful
    <2> QED
      BY <1>1, <2>1, <2>2
  <1>3. Earned(r, e1)
    BY DEF Grown, Lawful, Earned
  <1>4. r.approval.decision = "approved" => r.approval.id \in g1
    BY DEF Grown, Lawful
  <1> QED
    BY <1>2, <1>3, <1>4 DEF Lawful

\* A handler moves and perhaps saves; both runs are lawful afterwards.
LEMMA HandlerKeeps ==
  ASSUME IInv, NEW h \in Handlers, NEW w \in Workers, Move(h, w),
         store' \in Runs, Lawful(store', approvals', granted', declined', effects'),
         w.at # "idle" => Lawful(w.run, approvals', granted', declined', effects') /\ Placed(w),
         HistoryGrown, raised' \in BOOLEAN, requests' \in Nat, aborts' \in Nat
  PROVE  IInv'
  <1>1. worker' \in [Handlers -> Workers] /\ worker'[h] = w
        /\ \A k \in Handlers : k # h => worker'[k] = worker[k]
    BY DEF IInv, TypeOK, Move
  <1>2. TypeOK'
    BY <1>1 DEF TypeOK, HistoryGrown, Grown
  <1>3. ASSUME NEW k \in Handlers, worker'[k].at # "idle"
        PROVE  Lawful(worker'[k].run, approvals', granted', declined', effects')
               /\ Placed(worker'[k])
    <2>1. CASE k = h
      BY <1>1, <1>3, <2>1
    <2>2. CASE k # h
      <3>1. worker'[k] = worker[k] /\ worker[k] \in Workers /\ worker[k].run \in Runs
        BY <1>1, <2>2 DEF IInv, TypeOK, Workers
      <3>2. Lawful(worker[k].run, approvals, granted, declined, effects) /\ Placed(worker[k])
        BY <1>3, <3>1 DEF IInv, Active
      <3>3. worker[k].run.approval.decision # "pending"
        BY <1>3, <3>1, <3>2 DEF Lawful, Placed, Workers, Places, NoApproval
      <3>4. approvals \in Nat
        BY DEF IInv, TypeOK
      <3> QED
        BY <3>1, <3>2, <3>3, <3>4, LawfulGrows DEF HistoryGrown
    <2> QED
      BY <2>1, <2>2
  <1> QED
    BY <1>2, <1>3 DEF IInv, Active

-----------------------------------------------------------------------------
(***************************************************************************)
(* The investigation.                                                      *)
(***************************************************************************)
\* A step that changes no history grows it.
LEMMA HistoryStays ==
  ASSUME IInv, UNCHANGED <<approvals, granted, declined, effects>>
  PROVE  HistoryGrown
  BY DEF IInv, TypeOK, HistoryGrown, Grown

\* What is known of the handler that takes a step.
LEMMA Carried ==
  ASSUME IInv, NEW h \in Handlers, worker[h].at # "idle"
  PROVE  /\ worker[h] \in Workers /\ worker[h].run \in Runs
         /\ Lawful(worker[h].run, approvals, granted, declined, effects)
         /\ Placed(worker[h])
  BY DEF IInv, TypeOK, Workers, Active

\* A charged tool call stays within the budget.
LEMMA InvestigateKeeps ==
  ASSUME IInv, NEW h \in Handlers, Investigate(h)
  PROVE  IInv'
  <1> DEFINE q == worker[h].run
             r == [q EXCEPT !.status = "running", !.calls = @ + 1]
             w == At("investigating", worker[h].op, worker[h].pausing, 0, r)
  <1>1. /\ worker[h] \in Workers /\ q \in Runs /\ ~q.ended /\ q.calls < MaxToolCalls
        /\ Lawful(q, approvals, granted, declined, effects)
    BY Carried DEF Investigate, Placed
  <1>2. q.calls + 1 \in Nat
    BY <1>1 DEF Runs
  <1>3. r \in Runs /\ r.calls <= MaxToolCalls
    <2>1. q \in Runs /\ "running" \in Statuses
      BY <1>1 DEF Statuses
    <2>2. r \in Runs /\ r.calls = q.calls + 1
      BY <1>2, <2>1 DEF Runs
    <2>3. q.calls < MaxToolCalls /\ q.calls \in Nat
      BY <1>1 DEF Runs
    <2> QED
      BY <2>2, <2>3
  <1>4. /\ r.stage = q.stage /\ r.ended = q.ended /\ r.approval = q.approval
        /\ r.action = q.action /\ r.verified = q.verified /\ r.claims = q.claims
        /\ r.report = q.report
    BY <1>1 DEF Runs
  <1>5. Lawful(r, approvals, granted, declined, effects)
    <2>1. q.stage = "none" /\ q.verified = "not_run"
      BY <1>1 DEF Lawful, Unfinished
    <2>2. CallsCovered(r) /\ Earned(r, effects)
      BY <1>3, <1>4, <2>1 DEF CallsCovered, Earned
    <2>3. ReportShown(r)
      BY <1>1, <1>4, <2>1 DEF Lawful, ReportShown
    <2> QED
      BY <1>1, <1>4, <2>1, <2>2, <2>3 DEF Lawful
  <1>6. w \in Workers /\ Placed(w) /\ w.run = r
    BY <1>1, <1>3, <1>4 DEF At, Workers, Places, Placed
  <1> QED
    BY <1>3, <1>5, <1>6, HistoryStays, HandlerKeeps
       DEF Investigate, Save, history, IInv, TypeOK

\* The outcome of the investigation is reported.
LEMMA ConcludeKeeps ==
  ASSUME IInv, NEW h \in Handlers, Conclude(h)
  PROVE  IInv'
  <1> DEFINE q == worker[h].run
             R(o) == [q EXCEPT !.ended = TRUE, !.status = o.status,
                        !.claims = o.claims, !.action = o.action, !.report = o.status,
                        !.verified = "not_run"]
             W(o) == At("investigated", worker[h].op, worker[h].pausing, 0, R(o))
  <1>1. /\ worker[h] \in Workers /\ q \in Runs /\ ~q.ended
        /\ Lawful(q, approvals, granted, declined, effects)
    BY Carried DEF Conclude, Placed
  <1>2. PICK o \in Outcomes : Save(h, R(o), W(o))
    BY DEF Conclude
  <1>3. /\ o.status \in {"completed", "failed", "budget_exhausted"} /\ o.claims \in BOOLEAN
        /\ o.action \in {NoAction} \cup [risk: Risks, tool: Tools \cup {NoTool}]
        /\ (o.action # NoAction => o.claims) /\ (o.status = "completed" => o.claims)
    BY DEF Outcomes
  <1> DEFINE r == R(o)
  <1>4. r \in Runs
    BY <1>1, <1>3 DEF Runs, Statuses
  <1>5. /\ r.stage = q.stage /\ r.ended = TRUE /\ r.approval = q.approval
        /\ r.action = o.action /\ r.verified = "not_run" /\ r.claims = o.claims
        /\ r.report = o.status /\ r.status = o.status /\ r.calls = q.calls
    BY <1>1 DEF Runs
  <1>6. q.stage = "none" /\ q.approval = NoApproval
    BY <1>1 DEF Lawful
  <1>7. Lawful(r, approvals, granted, declined, effects)
    <2>1. CallsCovered(r) /\ Earned(r, effects) /\ ReportShown(r)
      BY <1>1, <1>3, <1>5, <1>6 DEF Lawful, CallsCovered, Earned, ReportShown
    <2> QED
      BY <1>1, <1>3, <1>5, <1>6, <2>1 DEF Lawful, NoApproval
  <1>8. W(o) \in Workers /\ Placed(W(o)) /\ W(o).run = r
    BY <1>1, <1>4, <1>5, <1>6 DEF At, Workers, Places, Placed
  <1> QED
    BY <1>2, <1>4, <1>7, <1>8, HistoryStays, HandlerKeeps
       DEF Conclude, Save, history, IInv, TypeOK

\* A change of status, operational mode, and from none to the first stage.
LEMMA RestagedLawful ==
  ASSUME NEW q \in Runs, NEW r \in Runs, NEW n, NEW g, NEW d, NEW e,
         Lawful(q, n, g, d, e), q.stage = "none",
         r.stage \in {"none", "assess_action"}, r.stage # "none" => q.ended,
         /\ r.ended = q.ended /\ r.approval = q.approval /\ r.action = q.action
         /\ r.verified = q.verified /\ r.claims = q.claims /\ r.report = q.report
         /\ r.calls = q.calls
  PROVE  Lawful(r, n, g, d, e)
  <1>1. CallsCovered(r) /\ Earned(r, e) /\ ReportShown(r)
    BY DEF Lawful, CallsCovered, Earned, ReportShown, Unfinished
  <1> QED
    BY <1>1 DEF Lawful, NoApproval, Unfinished

\* An interrupted run keeps what it has.
LEMMA InterruptKeeps ==
  ASSUME IInv, NEW h \in Handlers, Interrupt(h)
  PROVE  IInv'
  <1> DEFINE q == worker[h].run
             r == [q EXCEPT !.status = "paused"]
             w == At("investigated", worker[h].op, TRUE, 0, r)
  <1>1. /\ worker[h] \in Workers /\ q \in Runs /\ ~q.ended
        /\ Lawful(q, approvals, granted, declined, effects)
    BY Carried DEF Interrupt, Placed
  <1>2. q.stage = "none"
    BY <1>1 DEF Lawful
  <1>3. r \in Runs /\ r.stage = "none" /\ r.status = "paused"
        /\ r.ended = q.ended /\ r.approval = q.approval /\ r.action = q.action
        /\ r.verified = q.verified /\ r.claims = q.claims /\ r.report = q.report
        /\ r.calls = q.calls
    BY <1>1, <1>2 DEF Runs, Statuses
  <1>4. Lawful(r, approvals, granted, declined, effects)
    BY <1>1, <1>2, <1>3, RestagedLawful
  <1>5. w \in Workers /\ Placed(w) /\ w.run = r
    BY <1>1, <1>3 DEF At, Workers, Places, Placed
  <1> QED
    BY <1>4, <1>5, HistoryStays, HandlerKeeps DEF Interrupt, history, IInv, TypeOK

\* A handler that does not await, on a run it has just saved.
LEMMA OperatingPlaced ==
  ASSUME NEW r \in Runs, r.stage \in {"assess_action", "execute_action", "verify"}
  PROVE  Operating(r) \in Workers /\ Placed(Operating(r)) /\ Operating(r).run = r
         /\ Operating(r).at = "operating"
  <1>1. r.op \in BOOLEAN
    BY DEF Runs
  <1> QED
    BY <1>1 DEF Operating, At, Workers, Places, Placed

\* The operation starts on runs that have ended, and only on those.
LEMMA ReturnedKeeps ==
  ASSUME IInv, NEW h \in Handlers, Returned(h)
  PROVE  IInv'
  <1> DEFINE q == worker[h].run
             r == [q EXCEPT !.op = worker[h].op]
             s == [r EXCEPT !.stage = "assess_action"]
  <1>1. /\ worker[h] \in Workers /\ q \in Runs /\ q.stage = "none"
        /\ (q.status = "completed" => q.ended)
        /\ Lawful(q, approvals, granted, declined, effects)
    BY Carried DEF Returned, Placed
  <1>2. r \in Runs /\ r.stage = "none" /\ r.ended = q.ended /\ r.approval = q.approval
        /\ r.action = q.action /\ r.verified = q.verified /\ r.claims = q.claims
        /\ r.report = q.report /\ r.calls = q.calls /\ r.status = q.status
    <2>1. q \in Runs /\ worker[h].op \in BOOLEAN
      BY <1>1 DEF Workers
    <2> QED
      BY <1>1, <2>1 DEF Runs
  <1>3. Lawful(r, approvals, granted, declined, effects)
    BY <1>1, <1>2, RestagedLawful
  <1>4. s \in Runs /\ s.stage = "assess_action" /\ s.ended = q.ended /\ s.approval = q.approval
        /\ s.action = q.action /\ s.verified = q.verified /\ s.claims = q.claims
        /\ s.report = q.report /\ s.calls = q.calls
    BY <1>2 DEF Runs, Stages
  <1>5. CASE r.op /\ r.status = "completed"
    <2>1. Save(h, s, Operating(s)) /\ UNCHANGED <<history, requests, aborts>>
      BY <1>5 DEF Returned
    <2>2. Lawful(s, approvals, granted, declined, effects)
      BY ZenonT(60), <1>1, <1>2, <1>4, <1>5, RestagedLawful
    <2>3. Operating(s) \in Workers /\ Placed(Operating(s)) /\ Operating(s).run = s
      BY <1>4, OperatingPlaced
    <2> QED
      BY <1>4, <2>1, <2>2, <2>3, HistoryStays, HandlerKeeps DEF Save, history, IInv, TypeOK
  <1>6. CASE ~(r.op /\ r.status = "completed")
    <2>1. Save(h, r, Idle) /\ UNCHANGED <<history, requests, aborts>>
      BY <1>6 DEF Returned
    <2> QED
      BY <1>2, <1>3, <2>1, IdleWorker, HistoryStays, HandlerKeeps
         DEF Save, history, IInv, TypeOK
  <1> QED
    BY <1>5, <1>6

-----------------------------------------------------------------------------
(***************************************************************************)
(* The operation.                                                          *)
(***************************************************************************)
\* What Close needs of the run it closes, in the history it leaves.
Closing(r, n, g, e) ==
  /\ r.ended
  /\ r.approval.id <= n
  /\ r.approval.decision # "pending"
  /\ r.approval.decision = "approved" => r.approval.id \in g
  /\ r.action # NoAction => r.claims
  /\ r.verified \in {"passed", "failed"} => \E i \in DOMAIN e : e[i] = Effect(r)
  /\ r.calls <= MaxToolCalls + 2 * MaxRetries + 1

\* An operation is closed with a report in its final status, or not at all.
LEMMA CloseKeeps ==
  ASSUME IInv, NEW h \in Handlers, NEW r \in Runs,
         NEW status \in {"completed", "failed", "budget_exhausted"},
         Close(h, r, status), HistoryGrown,
         Closing(r, approvals', granted', effects'),
         status = "completed" /\ ~r.claims =>
           Lawful(store, approvals', granted', declined', effects'),
         requests' \in Nat, aborts' \in Nat
  PROVE  IInv'
  <1> DEFINE s == [r EXCEPT !.stage = "complete", !.status = status, !.report = status]
  <1>1. CASE status = "completed" /\ ~r.claims
    <2>1. raised' = TRUE /\ Move(h, Idle) /\ store' = store
      BY <1>1 DEF Close
    <2> QED
      BY <1>1, <2>1, IdleWorker, HandlerKeeps DEF IInv, TypeOK
  <1>2. CASE ~(status = "completed" /\ ~r.claims)
    <2>1. store' = s /\ Move(h, Idle) /\ raised' = raised
      BY <1>2 DEF Close, Save
    <2>2. status \in Statuses /\ "complete" \in Stages
      BY DEF Statuses, Stages
    <2>3. s \in Runs /\ s.stage = "complete" /\ s.status = status /\ s.report = status
          /\ s.ended = r.ended /\ s.approval = r.approval /\ s.action = r.action
          /\ s.verified = r.verified /\ s.claims = r.claims /\ s.calls = r.calls
      BY <2>2 DEF Runs
    <2>4. Effect(s) = Effect(r)
      BY <2>3 DEF Effect, TrustedId
    <2>5. Earned(s, effects') /\ CallsCovered(s) /\ ReportShown(s)
      BY <1>2, <2>3, <2>4 DEF Closing, Earned, CallsCovered, ReportShown
    <2>6. Lawful(s, approvals', granted', declined', effects')
      BY <2>3, <2>5 DEF Closing, Lawful, Unfinished
    <2> QED
      BY <2>1, <2>3, <2>6, IdleWorker, HandlerKeeps DEF IInv, TypeOK
  <1> QED
    BY <1>1, <1>2

\* Enriching an action neither invents one nor changes its risk.
LEMMA EnrichedAction ==
  ASSUME NEW a \in {NoAction} \cup [risk: Risks, tool: Tools \cup {NoTool}]
  PROVE  /\ Enriched(a) \in {NoAction} \cup [risk: Risks, tool: Tools \cup {NoTool}]
         /\ Enriched(a) # NoAction => a # NoAction
         /\ Enriched(a) # NoAction => Enriched(a).risk \in Risks
  BY DEF Enriched, NoAction, Risks

\* A new approval request is pending, under a number no decision has.
LEMMA WaitingLawful ==
  ASSUME IInv, NEW r \in Runs, r.stage = "assess_action",
         Closing(r, approvals, granted, effects), r.verified = "not_run",
         r.action # NoAction, r.action.tool # NoTool, r.calls <= MaxToolCalls
  PROVE  /\ Waiting(r, [id |-> approvals + 1, decision |-> "pending"]) \in Runs
         /\ Lawful(Waiting(r, [id |-> approvals + 1, decision |-> "pending"]),
                   approvals + 1, granted, declined, effects)
  <1> DEFINE p == [id |-> approvals + 1, decision |-> "pending"]
             s == Waiting(r, p)
  <1>1. approvals \in Nat /\ granted \subseteq 1 .. approvals /\ declined \subseteq 1 .. approvals
    BY DEF IInv, TypeOK
  <1>2. p \in Approvals /\ p.id = approvals + 1 /\ p.decision = "pending"
    BY <1>1 DEF Approvals
  <1>3. s \in Runs /\ s.stage = "wait_approval" /\ s.status = "paused" /\ s.report = "paused"
        /\ s.approval = p /\ s.ended = r.ended /\ s.action = r.action
        /\ s.verified = r.verified /\ s.claims = r.claims /\ s.calls = r.calls
    BY <1>2 DEF Waiting, Runs, Statuses, Stages
  <1>4. approvals + 1 \notin granted \cup declined
    BY <1>1
  <1>5. Earned(s, effects) /\ CallsCovered(s) /\ ReportShown(s)
    BY <1>3 DEF Earned, CallsCovered, ReportShown
  <1>6. r.ended /\ r.claims
    BY DEF Closing
  <1>7. s.approval.id = approvals + 1 /\ s.approval.decision = "pending" /\ s.ended
        /\ s.claims /\ s.action # NoAction /\ s.action.tool # NoTool
        /\ s.verified = "not_run"
    BY <1>2, <1>3, <1>6
  <1>8. s.approval.id <= approvals + 1
    BY <1>1, <1>7
  <1> HIDE DEF s
  <1>9. Lawful(s, approvals + 1, granted, declined, effects)
    BY <1>3, <1>4, <1>5, <1>7, <1>8 DEF Lawful, Unfinished
  <1> QED
    BY <1>3, <1>9 DEF s

\* _assess_action: closed, parked for a human, or sent to execution.
LEMMA AssessActionKeeps ==
  ASSUME IInv, NEW h \in Handlers, AssessAction(h)
  PROVE  IInv'
  <1> DEFINE q == worker[h].run
             a == Enriched(q.action)
             r == [q EXCEPT !.action = a]
             s == [r EXCEPT !.stage = "execute_action", !.status = "running"]
  <1>1. /\ worker[h] \in Workers /\ q \in Runs
        /\ Lawful(q, approvals, granted, declined, effects)
    BY Carried DEF AssessAction
  <1>2. a \in {NoAction} \cup [risk: Risks, tool: Tools \cup {NoTool}]
        /\ (a # NoAction => q.action # NoAction /\ a.risk \in Risks)
    BY <1>1, EnrichedAction DEF Runs
  <1>3. r \in Runs /\ r.action = a /\ r.ended = q.ended /\ r.approval = q.approval
        /\ r.verified = q.verified /\ r.claims = q.claims /\ r.report = q.report
        /\ r.calls = q.calls /\ r.stage = q.stage
    BY <1>1, <1>2 DEF Runs
  <1>4. q.stage = "assess_action"
    BY <1>3 DEF AssessAction
  <1>5. /\ q.approval = NoApproval /\ q.verified = "not_run" /\ q.ended
        /\ (a # NoAction => q.claims) /\ (q.report = "completed" => q.claims)
    BY <1>1, <1>2, <1>4 DEF Lawful, Unfinished, ReportShown
  <1>6. q.calls \in Nat /\ q.calls <= MaxToolCalls
    BY <1>1, <1>4 DEF Lawful, CallsCovered, Runs
  <1>7. Closing(r, approvals, granted, effects)
    BY SMTT(60), <1>3, <1>5, <1>6 DEF Closing, NoApproval, IInv, TypeOK
  <1>8. UNCHANGED <<granted, declined, effects, requests, aborts>>
    BY DEF AssessAction
  <1>9. CASE Close(h, r, "completed") /\ UNCHANGED approvals
    <2>1. HistoryGrown
      BY <1>8, <1>9, HistoryStays
    <2> QED
      BY <1>3, <1>7, <1>8, <1>9, <2>1, CloseKeeps DEF IInv, TypeOK
  <1>10. CASE ~(a = NoAction \/ a.tool = NoTool \/ a.risk = "R3") /\ a.risk # "R2"
    <2>1. Save(h, s, Operating(s)) /\ UNCHANGED <<approvals, raised>>
      BY <1>10 DEF AssessAction
    <2>2. s \in Runs /\ s.stage = "execute_action" /\ s.action = a /\ s.ended = q.ended
          /\ s.approval = q.approval /\ s.verified = q.verified /\ s.claims = q.claims
          /\ s.report = q.report /\ s.calls = q.calls
      BY ZenonT(60), <1>3 DEF Runs, Statuses, Stages
    <2>3. Earned(s, effects) /\ CallsCovered(s) /\ ReportShown(s)
      BY <1>5, <1>6, <2>2 DEF Earned, CallsCovered, ReportShown
    <2>4. Lawful(s, approvals, granted, declined, effects)
      BY SMTT(60), <1>5, <1>10, <2>2, <2>3 DEF Lawful, Unfinished, NoApproval, IInv, TypeOK
    <2>5. Operating(s) \in Workers /\ Placed(Operating(s)) /\ Operating(s).run = s
      BY <2>2, OperatingPlaced
    <2> QED
      BY <1>8, <2>1, <2>2, <2>4, <2>5, HistoryStays, HandlerKeeps DEF Save, IInv, TypeOK
  <1>11. CASE ~(a = NoAction \/ a.tool = NoTool \/ a.risk = "R3") /\ a.risk = "R2"
    <2> DEFINE v == Waiting(r, [id |-> approvals + 1, decision |-> "pending"])
    <2>1. approvals' = approvals + 1 /\ Save(h, v, Idle) /\ UNCHANGED raised
      BY <1>3, <1>5, <1>11 DEF AssessAction
    <2>2. v \in Runs /\ Lawful(v, approvals + 1, granted, declined, effects)
      BY <1>3, <1>4, <1>5, <1>6, <1>7, <1>11, WaitingLawful
    <2>3. HistoryGrown
      <3>1. approvals + 1 \in Nat /\ granted \subseteq 1 .. approvals + 1
            /\ declined \subseteq 1 .. approvals + 1 /\ approvals <= approvals + 1
        BY DEF IInv, TypeOK
      <3> QED
        BY <1>8, <2>1, <3>1 DEF HistoryGrown, Grown, IInv, TypeOK
    <2> QED
      BY <1>8, <2>1, <2>2, <2>3, IdleWorker, HandlerKeeps DEF Save, IInv, TypeOK
  <1> QED
    BY <1>9, <1>10, <1>11 DEF AssessAction

\* A lawful run in the midst of its operation may be closed.
LEMMA ClosingLawful ==
  ASSUME NEW q \in Runs, NEW n, NEW g, NEW d, NEW e, Lawful(q, n, g, d, e),
         q.stage \in {"execute_action", "verify"}
  PROVE  /\ Closing(q, n, g, e) /\ q.claims /\ q.action # NoAction
         /\ q.action.risk \in Risks /\ q.action.tool \in Tools
         /\ q.calls \in Nat
         /\ q.stage = "execute_action" => q.calls <= MaxToolCalls /\ q.verified = "not_run"
         /\ q.stage = "verify" => q.calls <= MaxToolCalls + MaxRetries
  <1>1. q.calls \in Nat /\ q.ended /\ q.claims /\ q.action # NoAction /\ q.action.tool # NoTool
    BY DEF Lawful, Runs
  <1>2. q.action.risk \in Risks /\ q.action.tool \in Tools
    BY <1>1 DEF Runs
  <1>3. /\ q.stage = "execute_action" => q.calls <= MaxToolCalls /\ q.verified = "not_run"
        /\ q.stage = "verify" => q.calls <= MaxToolCalls + MaxRetries
    BY DEF Lawful, CallsCovered, Unfinished
  <1>4. q.calls <= MaxToolCalls + 2 * MaxRetries + 1
    BY <1>1, <1>3
  <1>5. q.approval.id <= n /\ q.approval.decision # "pending"
        /\ (q.approval.decision = "approved" => q.approval.id \in g)
    BY DEF Lawful
  <1>6. q.verified \in {"passed", "failed"} => \E i \in DOMAIN e : e[i] = Effect(q)
    BY DEF Lawful, Earned
  <1> QED
    BY <1>1, <1>2, <1>3, <1>4, <1>5, <1>6 DEF Closing

\* _execute_action calls the registry below the tool-call budget only.
LEMMA BeginActionKeeps ==
  ASSUME IInv, NEW h \in Handlers, BeginAction(h)
  PROVE  IInv'
  <1> DEFINE q == worker[h].run
             w == Calling("acting", 1, q)
  <1>1. /\ worker[h] \in Workers /\ q \in Runs /\ q.stage = "execute_action"
        /\ Lawful(q, approvals, granted, declined, effects)
        /\ UNCHANGED <<approvals, granted, declined, effects, requests, aborts>>
    BY Carried DEF BeginAction
  <1>2. /\ Closing(q, approvals, granted, effects) /\ q.action # NoAction
        /\ q.action.tool # NoTool /\ q.calls \in Nat
        /\ (q.action.risk = "R2" => q.approval.decision = "approved")
    BY <1>1, ClosingLawful DEF Lawful
  <1>3. CASE q.calls >= MaxToolCalls
    <2>1. Close(h, q, "budget_exhausted")
      BY <1>2, <1>3 DEF BeginAction
    <2> QED
      BY <1>1, <1>2, <2>1, HistoryStays, CloseKeeps DEF IInv, TypeOK
  <1>4. CASE ~(q.calls >= MaxToolCalls)
    <2>1. Move(h, w) /\ UNCHANGED <<store, raised>>
      BY <1>2, <1>4 DEF BeginAction
    <2>2. q.calls < MaxToolCalls /\ 1 \in 1 .. MaxRetries + 1
      BY <1>2, <1>4
    <2>3. q.op \in BOOLEAN
      BY <1>1 DEF Runs
    <2>4. w \in Workers /\ Placed(w) /\ w.run = q
      BY <1>1, <2>2, <2>3 DEF Calling, At, Workers, Places, Placed
    <2> QED
      BY <1>1, <2>1, <2>4, HistoryStays, HandlerKeeps DEF IInv, TypeOK
  <1> QED
    BY <1>3, <1>4

\* Appending keeps every element in its place.
LEMMA AppendExtends ==
  ASSUME NEW S, NEW t \in Seq(S), NEW x \in S
  PROVE  /\ Append(t, x) \in Seq(S)
         /\ \A i \in DOMAIN t : i \in DOMAIN Append(t, x) /\ Append(t, x)[i] = t[i]
         /\ \E i \in DOMAIN Append(t, x) : Append(t, x)[i] = x
  <1>1. Len(t) \in Nat /\ DOMAIN t = 1 .. Len(t)
    OBVIOUS
  <1>2. Append(t, x) \in Seq(S) /\ Len(Append(t, x)) = Len(t) + 1
        /\ DOMAIN Append(t, x) = 1 .. Len(t) + 1
    OBVIOUS
  <1>3. \A i \in 1 .. Len(t) : Append(t, x)[i] = t[i]
    OBVIOUS
  <1>4. Append(t, x)[Len(t) + 1] = x
    OBVIOUS
  <1> QED
    BY <1>1, <1>2, <1>3, <1>4

\* An effect takes nothing away from any run.
LEMMA EffectGrows ==
  ASSUME IInv, NEW r \in Runs, r.action # NoAction, r.action.tool \in Tools,
         UNCHANGED <<approvals, granted, declined>>,
         effects' = effects \/ effects' = Append(effects, Effect(r))
  PROVE  /\ HistoryGrown
         /\ Lawful(store, approvals', granted', declined', effects')
         /\ effects' = Append(effects, Effect(r)) =>
              \E i \in DOMAIN effects' : effects'[i] = Effect(r)
  <1>1. effects \in Seq([tool: Tools, approval: Nat]) /\ Effect(r) \in [tool: Tools, approval: Nat]
    <2>1. r.approval.id \in Nat
      BY DEF Runs, Approvals, NoApproval
    <2> QED
      BY <2>1 DEF IInv, TypeOK, Effect, TrustedId
  <1>2. /\ effects' \in Seq([tool: Tools, approval: Nat])
        /\ \A i \in DOMAIN effects : i \in DOMAIN effects' /\ effects'[i] = effects[i]
    <2>1. CASE effects' = effects
      BY <1>1, <2>1
    <2>2. CASE effects' = Append(effects, Effect(r))
      BY <1>1, <2>2, AppendExtends
    <2> QED
      BY <2>1, <2>2
  <1>3. HistoryGrown
    BY <1>2 DEF HistoryGrown, Grown, IInv, TypeOK
  <1>4. Lawful(store, approvals', granted', declined', effects')
    <2>1. Lawful(store, approvals, granted, declined, effects)
      BY DEF IInv
    <2>2. Earned(store, effects')
      BY <1>2, <2>1 DEF Lawful, Earned
    <2> QED
      BY <2>1, <2>2 DEF Lawful
  <1>5. ASSUME effects' = Append(effects, Effect(r))
        PROVE  \E i \in DOMAIN effects' : effects'[i] = Effect(r)
    BY <1>1, <1>5, AppendExtends
  <1> QED
    BY <1>3, <1>4, <1>5

\* One attempt of the action, and what follows the last one.
LEMMA ActKeeps ==
  ASSUME IInv, NEW h \in Handlers, Act(h)
  PROVE  IInv'
  <1> DEFINE q == worker[h].run
             n == worker[h].attempt
             s == [q EXCEPT !.calls = @ + n]
             t == [s EXCEPT !.stage = "verify", !.status = "running"]
             u == [s EXCEPT !.verified = "inconclusive"]
             w == Calling("acting", n + 1, q)
  <1>1. /\ worker[h] \in Workers /\ q \in Runs /\ q.stage = "execute_action"
        /\ q.calls < MaxToolCalls /\ n \in 1 .. MaxRetries + 1
        /\ Lawful(q, approvals, granted, declined, effects)
        /\ UNCHANGED <<approvals, granted, declined, requests, aborts>>
    BY Carried DEF Act, Placed
  <1>2. /\ Closing(q, approvals, granted, effects) /\ q.action # NoAction /\ q.claims
        /\ q.action.tool \in Tools /\ q.calls \in Nat /\ q.verified = "not_run"
    BY <1>1, ClosingLawful
  <1>3. PICK answer \in Answers(q) :
          /\ effects' = IF answer.acted THEN Append(effects, Effect(q)) ELSE effects
          /\ IF answer.says = "retryable" /\ n <= MaxRetries
               THEN Move(h, w) /\ UNCHANGED <<store, raised>>
             ELSE IF answer.says = "succeeded"
               THEN Save(h, t, Operating(t)) /\ UNCHANGED raised
               ELSE Close(h, u, "failed")
    BY DEF Act
  <1>4. /\ HistoryGrown /\ Lawful(store, approvals', granted', declined', effects')
        /\ (answer.acted => \E i \in DOMAIN effects' : effects'[i] = Effect(q))
    <2>1. effects' = effects \/ effects' = Append(effects, Effect(q))
      BY <1>3
    <2>2. answer.acted => effects' = Append(effects, Effect(q))
      BY <1>3
    <2> QED
      BY <1>1, <1>2, <2>1, <2>2, EffectGrows
  <1>5. s \in Runs /\ s.calls = q.calls + n /\ s.calls <= MaxToolCalls + MaxRetries
    <2>1. q.calls + n \in Nat /\ q.calls + n <= MaxToolCalls + MaxRetries
      BY <1>1, <1>2
    <2> QED
      BY <1>1, <2>1 DEF Runs
  <1>6. /\ s.stage = q.stage /\ s.ended = q.ended /\ s.approval = q.approval
        /\ s.action = q.action /\ s.verified = q.verified /\ s.claims = q.claims
        /\ s.report = q.report /\ s.status = q.status
    BY <1>1 DEF Runs
  <1>7. CASE answer.says = "retryable" /\ n <= MaxRetries
    <2>1. Lawful(q, approvals', granted', declined', effects')
      <3>1. q.approval.decision # "pending" /\ approvals \in Nat
        BY <1>1 DEF Lawful, IInv, TypeOK
      <3> QED
        BY <1>1, <1>4, <3>1, LawfulGrows DEF HistoryGrown
    <2>2. w \in Workers /\ Placed(w) /\ w.run = q
      <3>1. n + 1 \in 1 .. MaxRetries + 1 /\ n + 1 \in Nat /\ q.op \in BOOLEAN
        BY <1>1, <1>7 DEF Runs
      <3> QED
        BY <1>1, <3>1 DEF Calling, At, Workers, Places, Placed
    <2> QED
      BY <1>1, <1>3, <1>4, <1>7, <2>1, <2>2, HandlerKeeps DEF IInv, TypeOK
  <1>8. CASE answer.says = "succeeded"
    <2>1. Save(h, t, Operating(t)) /\ UNCHANGED raised /\ answer.acted
      BY <1>3, <1>8 DEF Answers
    <2>2. t \in Runs /\ t.stage = "verify" /\ t.calls = s.calls /\ t.ended = q.ended
          /\ t.approval = q.approval /\ t.action = q.action /\ t.claims = q.claims
          /\ t.report = q.report
      BY ZenonT(60), <1>5, <1>6 DEF Runs, Stages, Statuses
    <2>3. Earned(t, effects') /\ CallsCovered(t) /\ ReportShown(t)
      <3>1. Effect(t) = Effect(q)
        BY <2>2 DEF Effect, TrustedId
      <3> QED
        BY <1>2, <1>4, <1>5, <2>1, <2>2, <3>1 DEF Earned, CallsCovered, ReportShown
    <2>4. Lawful(t, approvals', granted', declined', effects')
      BY <1>1, <1>2, <2>2, <2>3 DEF Lawful, Unfinished
    <2>5. Operating(t) \in Workers /\ Placed(Operating(t)) /\ Operating(t).run = t
      BY <2>2, OperatingPlaced
    <2> QED
      BY <1>1, <1>4, <2>1, <2>2, <2>4, <2>5, HandlerKeeps DEF Save, IInv, TypeOK
  <1>9. CASE Close(h, u, "failed")
    <2>1. u \in Runs /\ u.verified = "inconclusive" /\ u.calls = s.calls /\ u.ended = q.ended
          /\ u.approval = q.approval /\ u.action = q.action /\ u.claims = q.claims
      BY <1>5, <1>6 DEF Runs
    <2>2. u.calls \in Nat /\ u.calls <= MaxToolCalls + 2 * MaxRetries + 1
      BY <1>5, <2>1 DEF Runs
    <2>3. Closing(u, approvals', granted', effects')
      BY <1>1, <1>2, <2>1, <2>2 DEF Closing
    <2> QED
      BY <1>1, <1>4, <1>9, <2>1, <2>3, CloseKeeps DEF IInv, TypeOK
  <1> QED
    BY <1>3, <1>7, <1>8, <1>9

\* The verification is called for an action that has acted.
LEMMA BeginVerificationKeeps ==
  ASSUME IInv, NEW h \in Handlers, BeginVerification(h)
  PROVE  IInv'
  <1> DEFINE q == worker[h].run
             w == Calling("verifying", 1, q)
  <1>1. /\ worker[h] \in Workers /\ q \in Runs /\ q.stage = "verify"
        /\ Lawful(q, approvals, granted, declined, effects)
        /\ UNCHANGED <<store, approvals, granted, declined, effects, raised, requests, aborts>>
        /\ Move(h, w)
    BY Carried DEF BeginVerification, history
  <1>2. w \in Workers /\ Placed(w) /\ w.run = q
    <2>1. 1 \in 1 .. MaxRetries + 1 /\ q.op \in BOOLEAN
      BY <1>1 DEF Runs
    <2> QED
      BY <1>1, <2>1 DEF Calling, At, Workers, Places, Placed
  <1> QED
    BY <1>1, <1>2, HistoryStays, HandlerKeeps DEF IInv, TypeOK

\* One attempt of the verification, and what follows the last one.
LEMMA VerifyKeeps ==
  ASSUME IInv, NEW h \in Handlers, Verify(h)
  PROVE  IInv'
  <1> DEFINE q == worker[h].run
             n == worker[h].attempt
             s == [q EXCEPT !.calls = @ + n]
             w == Calling("verifying", n + 1, q)
  <1>1. /\ worker[h] \in Workers /\ q \in Runs /\ q.stage = "verify"
        /\ n \in 1 .. MaxRetries + 1
        /\ Lawful(q, approvals, granted, declined, effects)
        /\ UNCHANGED <<approvals, granted, declined, effects, requests, aborts>>
    BY Carried DEF Verify, Placed
  <1>2. /\ Closing(q, approvals, granted, effects) /\ q.action # NoAction /\ q.claims
        /\ q.calls \in Nat /\ q.calls <= MaxToolCalls + MaxRetries
    BY <1>1, ClosingLawful
  <1>3. CASE n <= MaxRetries /\ Move(h, w) /\ UNCHANGED <<store, raised>>
    <2>1. w \in Workers /\ Placed(w) /\ w.run = q
      <3>1. n + 1 \in 1 .. MaxRetries + 1 /\ n + 1 \in Nat /\ q.op \in BOOLEAN
        BY <1>1, <1>3 DEF Runs
      <3> QED
        BY <1>1, <3>1 DEF Calling, At, Workers, Places, Placed
    <2> QED
      BY <1>1, <1>3, <2>1, HistoryStays, HandlerKeeps DEF IInv, TypeOK
  <1>4. ASSUME NEW verdict \in {"passed", "failed", "inconclusive"},
               Close(h, [s EXCEPT !.verified = verdict], "completed")
        PROVE  IInv'
    <2> DEFINE u == [s EXCEPT !.verified = verdict]
    <2>1. q.calls + n \in Nat /\ q.calls + n <= MaxToolCalls + 2 * MaxRetries + 1
      BY <1>1, <1>2
    <2>2. s \in Runs /\ s.calls = q.calls + n /\ s.ended = q.ended
          /\ s.approval = q.approval /\ s.action = q.action /\ s.claims = q.claims
      BY <1>1, <2>1 DEF Runs
    <2>3. u \in Runs /\ u.calls = q.calls + n /\ u.ended = q.ended
          /\ u.approval = q.approval /\ u.action = q.action /\ u.claims = q.claims
      BY <2>2 DEF Runs
    <2>4. \E i \in DOMAIN effects : effects[i] = Effect(u)
      <3>1. Effect(u) = Effect(q)
        BY <2>3 DEF Effect, TrustedId
      <3> QED
        BY <1>1, <3>1 DEF Lawful, Earned
    <2>5. Closing(u, approvals', granted', effects')
      BY <1>1, <1>2, <2>1, <2>3, <2>4 DEF Closing
    <2> QED
      BY <1>1, <1>2, <1>4, <2>3, <2>5, HistoryStays, CloseKeeps DEF IInv, TypeOK
  <1> QED
    BY <1>3, <1>4 DEF Verify

-----------------------------------------------------------------------------
(***************************************************************************)
(* Requests and handlers that die.                                         *)
(***************************************************************************)
\* A new run enters the investigation.
LEMMA StartKeeps ==
  ASSUME IInv, NEW h \in Handlers, Start(h)
  PROVE  IInv'
  <1>1. PICK op \in BOOLEAN, pausing \in BOOLEAN :
          Save(h, Fresh, At("investigating", op, pausing, 0, Fresh))
    BY DEF Start
  <1> DEFINE w == At("investigating", op, pausing, 0, Fresh)
  <1>2. UNCHANGED <<approvals, granted, declined, effects, raised, aborts>>
        /\ requests' \in Nat
    BY DEF Start, Accept, history, IInv, TypeOK
  <1>3. Fresh \in Runs /\ Lawful(Fresh, approvals, granted, declined, effects)
    BY FreshLawful DEF IInv, TypeOK
  <1>4. w \in Workers /\ Placed(w) /\ w.run = Fresh
    BY <1>3 DEF At, Workers, Places, Placed, Fresh
  <1> QED
    BY <1>1, <1>2, <1>3, <1>4, HistoryStays, HandlerKeeps DEF Save, IInv, TypeOK

\* A resumed run goes on with its operation, its investigation, or starts the
\* operation its last handler did not.
LEMMA ResumeKeeps ==
  ASSUME IInv, NEW h \in Handlers, Resume(h)
  PROVE  IInv'
  <1> DEFINE i == [store EXCEPT !.status = "running"]
             a == [store EXCEPT !.stage = "assess_action"]
             w == At("investigating", store.op, FALSE, 0, i)
  <1>1. /\ store \in Runs /\ Lawful(store, approvals, granted, declined, effects)
        /\ UNCHANGED <<approvals, granted, declined, effects, raised, aborts>>
        /\ requests' \in Nat /\ HistoryGrown
    BY HistoryStays DEF Resume, Accept, history, IInv, TypeOK
  <1>2. CASE /\ store.stage \in {"assess_action", "execute_action", "verify"}
             /\ Save(h, store, Operating(store))
    BY <1>1, <1>2, OperatingPlaced, HandlerKeeps DEF Save, IInv, TypeOK
  <1>3. CASE ~store.ended /\ Save(h, i, w)
    <2>1. i \in Runs /\ i.stage = store.stage /\ i.ended = store.ended
          /\ i.approval = store.approval /\ i.action = store.action
          /\ i.verified = store.verified /\ i.claims = store.claims
          /\ i.report = store.report /\ i.calls = store.calls
      BY <1>1 DEF Runs, Statuses
    <2>2. store.stage = "none"
      BY <1>1, <1>3 DEF Lawful
    <2>3. Lawful(i, approvals, granted, declined, effects)
      BY <1>1, <2>1, <2>2, RestagedLawful
    <2>4. w \in Workers /\ Placed(w) /\ w.run = i
      <3>1. store.op \in BOOLEAN
        BY <1>1 DEF Runs
      <3> QED
        BY <1>3, <2>1, <3>1 DEF At, Workers, Places, Placed
    <2> QED
      BY <1>1, <1>3, <2>1, <2>3, <2>4, HandlerKeeps DEF Save, IInv, TypeOK
  <1>4. CASE store.ended /\ store.stage = "none" /\ Save(h, a, Operating(a))
    <2>1. a \in Runs /\ a.stage = "assess_action" /\ a.ended = store.ended
          /\ a.approval = store.approval /\ a.action = store.action
          /\ a.verified = store.verified /\ a.claims = store.claims
          /\ a.report = store.report /\ a.calls = store.calls
      BY <1>1 DEF Runs, Stages
    <2>2. Lawful(a, approvals, granted, declined, effects)
      BY <1>1, <1>4, <2>1, RestagedLawful
    <2>3. Operating(a) \in Workers /\ Placed(Operating(a)) /\ Operating(a).run = a
      BY <2>1, OperatingPlaced
    <2> QED
      BY <1>1, <1>4, <2>1, <2>2, <2>3, HandlerKeeps DEF Save, IInv, TypeOK
  <1> QED
    BY <1>2, <1>3, <1>4 DEF Resume

\* A decidable run waits for a decision nobody has taken yet.
LEMMA DecidableUndecided ==
  ASSUME IInv, Decidable
  PROVE  /\ store \in Runs /\ Lawful(store, approvals, granted, declined, effects)
         /\ store.ended /\ store.claims /\ store.action # NoAction /\ store.action.tool # NoTool
         /\ store.verified = "not_run" /\ store.calls \in Nat /\ store.calls <= MaxToolCalls
         /\ store.approval.id \in 1 .. approvals
         /\ store.approval.id \notin granted \cup declined
  <1>1. /\ store \in Runs /\ Lawful(store, approvals, granted, declined, effects)
        /\ store.stage = "wait_approval" /\ store.approval.decision = "pending"
        /\ approvals \in Nat
    BY DEF IInv, TypeOK, Decidable
  <1>2. /\ store.ended /\ store.claims /\ store.action # NoAction /\ store.action.tool # NoTool
        /\ store.verified = "not_run" /\ store.approval.id \notin granted \cup declined
    BY <1>1 DEF Lawful, Unfinished
  <1>3. store.calls \in Nat /\ store.calls <= MaxToolCalls
    BY <1>1 DEF Lawful, CallsCovered, Runs
  <1>4. store.approval.id \in Nat \ {0}
    BY <1>1 DEF Runs, Approvals, NoApproval
  <1>5. store.approval.id <= approvals
    BY <1>1 DEF Lawful
  <1> QED
    BY <1>1, <1>2, <1>3, <1>4, <1>5

\* An approved run goes on under an approval that was granted.
LEMMA ApproveKeeps ==
  ASSUME IInv, NEW h \in Handlers, Approve(h)
  PROVE  IInv'
  <1> DEFINE r == [store EXCEPT !.approval.decision = "approved", !.status = "running",
                                !.stage = "execute_action"]
             id == store.approval.id
  <1>1. /\ Decidable /\ granted' = granted \cup {id} /\ Save(h, r, Operating(r))
        /\ UNCHANGED <<approvals, declined, effects, raised, aborts>> /\ requests' \in Nat
    BY DEF Approve, Accept, IInv, TypeOK
  <1>2. /\ store \in Runs /\ Lawful(store, approvals, granted, declined, effects)
        /\ store.ended /\ store.claims /\ store.action # NoAction /\ store.action.tool # NoTool
        /\ store.verified = "not_run" /\ store.calls \in Nat /\ store.calls <= MaxToolCalls
        /\ id \in 1 .. approvals /\ approvals \in Nat
    BY <1>1, DecidableUndecided DEF IInv, TypeOK
  <1>3. HistoryGrown
    BY <1>1, <1>2 DEF HistoryGrown, Grown, IInv, TypeOK
  <1>4. r \in Runs /\ r.approval.id = id /\ r.approval.decision = "approved"
        /\ r.stage = "execute_action" /\ r.ended = store.ended /\ r.claims = store.claims
        /\ r.action = store.action /\ r.verified = store.verified /\ r.calls = store.calls
        /\ r.report = store.report
    <2>1. store.approval \in [id: Nat \ {0}, decision: {"pending", "approved", "declined"}]
      BY <1>2 DEF Runs, Approvals, NoApproval
    <2>2. [store.approval EXCEPT !.decision = "approved"] \in Approvals
      BY <2>1 DEF Approvals
    <2> QED
      BY <1>2, <2>1, <2>2 DEF Runs, Statuses, Stages
  <1>5. Earned(r, effects') /\ CallsCovered(r) /\ ReportShown(r)
    BY <1>2, <1>4 DEF Earned, CallsCovered, ReportShown
  <1>6. id <= approvals' /\ id \in granted'
    BY <1>1, <1>2
  <1> HIDE DEF r
  <1>7. Lawful(r, approvals', granted', declined', effects')
    BY <1>2, <1>4, <1>5, <1>6 DEF Lawful, Unfinished
  <1>8. Operating(r) \in Workers /\ Placed(Operating(r)) /\ Operating(r).run = r
    BY <1>4, OperatingPlaced
  <1> QED
    BY <1>1, <1>3, <1>4, <1>7, <1>8, HandlerKeeps DEF Save, IInv, TypeOK

\* A declined run is closed; it has an action, so its report has claims.
LEMMA DeclineKeeps ==
  ASSUME IInv, NEW h \in Handlers, Decline(h)
  PROVE  IInv'
  <1> DEFINE r == [store EXCEPT !.approval.decision = "declined", !.verified = "not_run"]
             id == store.approval.id
  <1>1. /\ Decidable /\ declined' = declined \cup {id} /\ Close(h, r, "completed")
        /\ UNCHANGED <<approvals, granted, effects, aborts>> /\ requests' \in Nat
    BY DEF Decline, Accept, IInv, TypeOK
  <1>2. /\ store \in Runs /\ store.ended /\ store.claims
        /\ store.calls \in Nat /\ store.calls <= MaxToolCalls
        /\ id \in 1 .. approvals /\ approvals \in Nat
    BY <1>1, DecidableUndecided DEF IInv, TypeOK
  <1>3. HistoryGrown
    BY <1>1, <1>2 DEF HistoryGrown, Grown, IInv, TypeOK
  <1>4. r \in Runs /\ r.approval.id = id /\ r.approval.decision = "declined"
        /\ r.ended = store.ended /\ r.claims = store.claims
        /\ r.verified = "not_run" /\ r.calls = store.calls
    <2>1. store.approval \in [id: Nat \ {0}, decision: {"pending", "approved", "declined"}]
      BY <1>1, <1>2 DEF Runs, Approvals, NoApproval
    <2>2. [store.approval EXCEPT !.decision = "declined"] \in Approvals
      BY <2>1 DEF Approvals
    <2> QED
      BY <1>2, <2>1, <2>2 DEF Runs
  <1>5. r.approval.id <= approvals' /\ r.calls <= MaxToolCalls + 2 * MaxRetries + 1
    BY <1>1, <1>2, <1>4
  <1>6. Closing(r, approvals', granted', effects')
    BY <1>2, <1>4, <1>5 DEF Closing
  <1>7. r.claims /\ aborts' \in Nat
    BY <1>1, <1>2, <1>4 DEF IInv, TypeOK
  <1> HIDE DEF r
  <1> QED
    BY <1>1, <1>3, <1>4, <1>6, <1>7, CloseKeeps

\* A handler that dies loses its copy; what it called may have acted.
LEMMA AbortKeeps ==
  ASSUME IInv, NEW h \in Handlers, Abort(h)
  PROVE  IInv'
  <1>1. /\ worker[h].at # "idle" /\ Move(h, Idle) /\ aborts' = aborts + 1
        /\ UNCHANGED <<store, approvals, granted, declined, raised, requests>>
    BY DEF Abort
  <1>2. HistoryGrown /\ Lawful(store, approvals', granted', declined', effects')
    <2>1. CASE UNCHANGED effects
      BY <1>1, <2>1, HistoryStays DEF IInv
    <2>2. CASE worker[h].at = "acting" /\ effects' = Append(effects, Effect(worker[h].run))
      <3>1. worker[h].run \in Runs /\ worker[h].run.action # NoAction
            /\ worker[h].run.action.tool \in Tools
        BY <1>1, <2>2, Carried, ClosingLawful DEF Placed
      <3> QED
        BY <1>1, <2>2, <3>1, EffectGrows
    <2> QED
      BY <2>1, <2>2 DEF Abort
  <1>3. store' \in Runs /\ raised' \in BOOLEAN /\ requests' \in Nat /\ aborts' \in Nat
    BY <1>1 DEF IInv, TypeOK
  <1> QED
    BY <1>1, <1>2, <1>3, IdleWorker, HandlerKeeps

-----------------------------------------------------------------------------
(***************************************************************************)
(* Every step, and what follows for every behaviour.                       *)
(***************************************************************************)
\* Nothing happens, and nothing is lost.
LEMMA StutterKeeps ==
  ASSUME IInv, UNCHANGED vars
  PROVE  IInv'
  BY SMTT(60) DEF vars, history, IInv, TypeOK, Active, Lawful, Earned

\* Every step keeps the invariant.
LEMMA NextIInv ==
  ASSUME IInv, [Next]_vars
  PROVE  IInv'
  <1>1. CASE UNCHANGED vars
    BY <1>1, StutterKeeps
  <1>2. ASSUME NEW h \in Handlers, Step(h)
        PROVE  IInv'
    BY <1>2, InvestigateKeeps, ConcludeKeeps, InterruptKeeps, ReturnedKeeps, AssessActionKeeps,
       BeginActionKeeps, ActKeeps, BeginVerificationKeeps, VerifyKeeps DEF Step
  <1>3. ASSUME NEW h \in Handlers,
               Start(h) \/ Resume(h) \/ Approve(h) \/ Decline(h) \/ Abort(h)
        PROVE  IInv'
    BY <1>3, StartKeeps, ResumeKeeps, ApproveKeeps, DeclineKeeps, AbortKeeps
  <1> QED
    BY <1>1, <1>2, <1>3 DEF Next

\* The checkpoint and every copy in flight are lawful in every reachable state.
THEOREM Invariance == Spec => []IInv
  <1>1. Init => IInv
    BY InitIInv
  <1>2. IInv /\ [Next]_vars => IInv'
    BY NextIInv
  <1> QED
    BY <1>1, <1>2, PTL DEF Spec

\* The checkpoint and the copies of AgentState are well-formed in every reachable
\* state (AgentState, models.py).
THEOREM TypeCorrect == Spec => []TypeOK
  <1>1. IInv => TypeOK
    BY DEF IInv
  <1> QED
    BY <1>1, Invariance, PTL

\* Phase5Runtime._verify only judges an action that acted under the run's own
\* approval, whatever copies concurrent handlers save over each other.
THEOREM VerdictsAreEarned == Spec => []VerificationFollowsEffect
  <1>1. IInv => VerificationFollowsEffect
    BY DEF IInv, TypeOK, Lawful, Earned, VerificationFollowsEffect, Everywhere, VerdictEarned
  <1> QED
    BY <1>1, Invariance, PTL

\* The charges of _execute_action and _verify overdraw the budget by no more than
\* their own attempts.
THEOREM OverdraftIsBounded == Spec => []CallsBounded
  <1>1. IInv => CallsBounded
    BY DEF IInv, TypeOK, Lawful, CallsBounded, Everywhere
  <1> QED
    BY <1>1, Invariance, PTL

\* A waiting or finished run shows a report in its own status, and none is
\* reported completed without claims (AgentReport's validator, _refresh_report).
THEOREM ReportsAreCurrent == Spec => []ReportIsCurrent
  <1>1. IInv => ReportIsCurrent
    BY DEF IInv, TypeOK, Lawful, ReportIsCurrent, Everywhere
  <1> QED
    BY <1>1, Invariance, PTL

-----------------------------------------------------------------------------
(***************************************************************************)
(* The operation keeps ApprovalBoundary: every step asks, grants, declines,*)
(* acts, or is none of its business.                                       *)
(***************************************************************************)
\* The registry lets an effect through that the boundary allows: an approval the
\* runtime hands over is one that was granted.
LEMMA EffectPromised ==
  ASSUME IInv, NEW r \in Runs, Lawful(r, approvals, granted, declined, effects),
         r.stage = "execute_action", Authorized(r.action.tool, TrustedId(r)),
         effects' = Append(effects, Effect(r)), UNCHANGED <<approvals, granted, declined>>
  PROVE  Promise!Act
  <1>1. r.action.tool \in Tools
    BY ClosingLawful
  <1>2. TrustedId(r) \in granted \cup {0}
    BY DEF TrustedId, Lawful
  <1>3. /\ ToolRisk[r.action.tool] \in {"R0", "R1", "R2"}
        /\ ToolRisk[r.action.tool] = "R2" => TrustedId(r) # 0
    BY DEF Authorized
  <1>4. effects' = Append(effects, [tool |-> r.action.tool, approval |-> TrustedId(r)])
    BY DEF Effect
  <1> QED
    BY <1>1, <1>2, <1>3, <1>4 DEF Promise!Act

\* An assessment asks for an approval at most.
LEMMA AssessActionPromised ==
  ASSUME NEW h \in Handlers, AssessAction(h)
  PROVE  [Promise!Next]_(Promise!boundary)
  <1>1. /\ approvals' = approvals + 1 \/ approvals' = approvals
        /\ UNCHANGED <<granted, declined, effects>>
    BY DEF AssessAction
  <1> QED
    BY <1>1 DEF Promise!Next, Promise!Ask, Promise!boundary

\* An attempt of the action acts as the boundary allows, or not at all.
LEMMA ActPromised ==
  ASSUME IInv, NEW h \in Handlers, Act(h)
  PROVE  [Promise!Next]_(Promise!boundary)
  <1> DEFINE q == worker[h].run
  <1>1. /\ q \in Runs /\ Lawful(q, approvals, granted, declined, effects)
        /\ q.stage = "execute_action" /\ UNCHANGED <<approvals, granted, declined>>
    BY Carried DEF Act, Placed
  <1>2. PICK answer \in Answers(q) :
          effects' = IF answer.acted THEN Append(effects, Effect(q)) ELSE effects
    BY DEF Act
  <1>3. CASE answer.acted
    <2>1. Authorized(q.action.tool, TrustedId(q))
      BY <1>3 DEF Answers
    <2> QED
      BY <1>1, <1>2, <1>3, <2>1, EffectPromised DEF Promise!Next
  <1>4. CASE ~answer.acted
    BY <1>1, <1>2, <1>4 DEF Promise!boundary
  <1> QED
    BY <1>3, <1>4

\* A human decides a request that is still undecided.
LEMMA DecisionPromised ==
  ASSUME IInv, NEW h \in Handlers, Approve(h) \/ Decline(h)
  PROVE  Promise!Next
  <1>1. store.approval.id \in Promise!Undecided
    BY DecidableUndecided DEF Approve, Decline, Promise!Undecided
  <1>2. CASE Approve(h)
    BY <1>1, <1>2 DEF Approve, Promise!Grant, Promise!Next
  <1>3. CASE Decline(h)
    BY <1>1, <1>3 DEF Decline, Promise!Decline, Promise!Next
  <1> QED
    BY <1>2, <1>3

\* A tool whose handler died acted as the boundary allows, or not at all.
LEMMA AbortPromised ==
  ASSUME IInv, NEW h \in Handlers, Abort(h)
  PROVE  [Promise!Next]_(Promise!boundary)
  <1> DEFINE q == worker[h].run
  <1>1. UNCHANGED <<approvals, granted, declined>>
    BY DEF Abort
  <1>2. CASE UNCHANGED effects
    BY <1>1, <1>2 DEF Promise!boundary
  <1>3. CASE /\ worker[h].at = "acting"
             /\ Authorized(q.action.tool, TrustedId(q))
             /\ effects' = Append(effects, Effect(q))
    <2>1. /\ q \in Runs /\ Lawful(q, approvals, granted, declined, effects)
          /\ q.stage = "execute_action"
      BY <1>3, Carried DEF Placed
    <2> QED
      BY <1>1, <1>3, <2>1, EffectPromised DEF Promise!Next
  <1> QED
    BY <1>2, <1>3 DEF Abort

\* Every step of the operation is a step of the boundary or none.
LEMMA NextPromised ==
  ASSUME IInv, [Next]_vars
  PROVE  [Promise!Next]_(Promise!boundary)
  <1>1. CASE UNCHANGED vars
    BY <1>1 DEF vars, history, Promise!boundary
  <1>2. ASSUME NEW h \in Handlers,
               \/ Investigate(h) \/ Conclude(h) \/ Interrupt(h) \/ Returned(h)
               \/ BeginAction(h) \/ BeginVerification(h) \/ Verify(h) \/ Start(h) \/ Resume(h)
        PROVE  UNCHANGED Promise!boundary
    BY <1>2 DEF Investigate, Conclude, Interrupt, Returned, BeginAction, BeginVerification,
       Verify, Start, Resume, history, Promise!boundary
  <1>3. ASSUME NEW h \in Handlers,
               AssessAction(h) \/ Act(h) \/ Approve(h) \/ Decline(h) \/ Abort(h)
        PROVE  [Promise!Next]_(Promise!boundary)
    BY <1>3, AssessActionPromised, ActPromised, DecisionPromised, AbortPromised
  <1> QED
    BY <1>1, <1>2, <1>3 DEF Next, Step

\* Phase5Runtime with RetryingToolRegistry and ToolRegistry keeps the approval
\* boundary: an approval is decided at most once and no R2 tool acts but under an
\* approval granted before, however handlers interleave and die.
THEOREM BoundaryIsKept == Spec => BoundaryKept
  <1>1. Init => Promise!Init
    BY DEF Init, Promise!Init
  <1>2. IInv /\ [Next]_vars => [Promise!Next]_(Promise!boundary)
    BY NextPromised
  <1> QED
    BY <1>1, <1>2, Invariance, PTL DEF Spec, BoundaryKept, Promise!Spec

-----------------------------------------------------------------------------
(***************************************************************************)
(* With one handler at a time, the checkpoint and the copy in flight agree *)
(* with every decision taken.  A handler only ever replaces the approval   *)
(* of its copy where there is none, and then nobody has decided anything.  *)
(***************************************************************************)
Agrees(r, g, d) ==
  /\ \A id \in g : r.approval = [id |-> id, decision |-> "approved"]
  /\ \A id \in d : r.approval = [id |-> id, decision |-> "declined"]

\* What r may be of a handler that carried q.
Follows(q, r) == r.approval = q.approval \/ q.approval = NoApproval

AgreeInv ==
  Alone => /\ requests = 0 => granted = {} /\ declined = {}
           /\ Agrees(store, granted, declined)
           /\ \A h \in Handlers : Active(h) => Agrees(worker[h].run, granted, declined)

\* A successor of a copy that agrees agrees.
LEMMA FollowsAgrees ==
  ASSUME NEW q, NEW r, NEW g, NEW d, Agrees(q, g, d), Follows(q, r)
  PROVE  Agrees(r, g, d)
  <1>1. CASE r.approval = q.approval
    BY <1>1 DEF Agrees
  <1>2. CASE q.approval = NoApproval
    <2>1. NoApproval.decision = "none"
      BY DEF NoApproval
    <2>2. \A id : NoApproval # [id |-> id, decision |-> "approved"]
      BY <2>1
    <2>3. \A id : NoApproval # [id |-> id, decision |-> "declined"]
      BY <2>1
    <2>4. g = {} /\ d = {}
      BY <1>2, <2>2, <2>3 DEF Agrees
    <2> QED
      BY <2>4 DEF Agrees
  <1> QED
    BY <1>1, <1>2 DEF Follows

\* One handler moves, and the checkpoint and its copy agree with the decisions.
LEMMA MoveAgrees ==
  ASSUME IInv, NEW h \in Handlers, NEW w, Move(h, w),
         Alone => /\ requests' = 0 => granted' = {} /\ declined' = {}
                  /\ Agrees(store', granted', declined')
                  /\ w.at # "idle" => Agrees(w.run, granted', declined')
  PROVE  AgreeInv'
  <1>1. DOMAIN worker' = Handlers /\ DOMAIN worker = Handlers /\ worker'[h] = w
    BY DEF IInv, TypeOK, Move
  <1> SUFFICES ASSUME Alone'
      PROVE  /\ requests' = 0 => granted' = {} /\ declined' = {}
             /\ Agrees(store, granted, declined)'
             /\ \A k \in Handlers : Active(k)' => Agrees(worker[k].run, granted, declined)'
    BY DEF AgreeInv
  <1>2. Alone /\ \A k \in Handlers : k = h
    BY <1>1 DEF Alone
  <1> QED
    BY <1>1, <1>2 DEF Active, Agrees

Followed(h) ==
  /\ worker[h].at # "idle"
  /\ UNCHANGED <<granted, declined, requests>>
  /\ store' = store \/ Follows(worker[h].run, store')
  /\ \E w : Move(h, w) /\ (w.at # "idle" => Follows(worker[h].run, w.run))

\* A handler that closes its operation keeps the approval.
LEMMA CloseFollows ==
  ASSUME NEW h, NEW r \in Runs, NEW status, Close(h, r, status),
         worker[h].at # "idle", UNCHANGED <<granted, declined, requests>>,
         Follows(worker[h].run, r)
  PROVE  Followed(h)
  <1> DEFINE s == [r EXCEPT !.stage = "complete", !.status = status, !.report = status]
  <1>1. s.approval = r.approval
    BY DEF Runs
  <1>2. Move(h, Idle) /\ Idle.at = "idle" /\ (store' = store \/ store' = s)
    BY DEF Close, Save, Idle, At
  <1> HIDE DEF s
  <1> QED
    BY <1>1, <1>2 DEF Followed, Follows

\* A handler that saves r and goes on with r or rests.
LEMMA SaveFollows ==
  ASSUME NEW h, NEW r, NEW w, Save(h, r, w), w.at # "idle" => w.run = r,
         worker[h].at # "idle", UNCHANGED <<granted, declined, requests>>,
         Follows(worker[h].run, r)
  PROVE  Followed(h)
  BY DEF Save, Followed, Follows

\* The investigation and its return leave the approval alone.
LEMMA InvestigationFollows ==
  ASSUME IInv, NEW h \in Handlers, Investigate(h) \/ Conclude(h) \/ Interrupt(h) \/ Returned(h)
  PROVE  Followed(h)
  <1> DEFINE q == worker[h].run
  <1>1. worker[h].at # "idle" /\ UNCHANGED <<granted, declined, requests>> /\ q \in Runs
    BY Carried DEF Investigate, Conclude, Interrupt, Returned, history
  <1>2. CASE Investigate(h)
    <2> DEFINE r == [q EXCEPT !.status = "running", !.calls = @ + 1]
               w == At("investigating", worker[h].op, worker[h].pausing, 0, r)
    <2>1. Save(h, r, w) /\ w.run = r /\ Follows(q, r)
      BY <1>1, <1>2 DEF Investigate, At, Follows, Runs
    <2> QED
      BY <1>1, <2>1, SaveFollows
  <1>3. CASE Conclude(h)
    <2>1. PICK o \in Outcomes :
            LET r == [q EXCEPT !.ended = TRUE, !.status = o.status, !.claims = o.claims,
                        !.action = o.action, !.report = o.status, !.verified = "not_run"]
            IN  Save(h, r, At("investigated", worker[h].op, worker[h].pausing, 0, r))
      BY <1>3 DEF Conclude
    <2> DEFINE r == [q EXCEPT !.ended = TRUE, !.status = o.status, !.claims = o.claims,
                       !.action = o.action, !.report = o.status, !.verified = "not_run"]
               w == At("investigated", worker[h].op, worker[h].pausing, 0, r)
    <2>2. Save(h, r, w) /\ w.run = r /\ Follows(q, r)
      BY <1>1, <2>1 DEF At, Follows, Runs
    <2> QED
      BY <1>1, <2>2, SaveFollows
  <1>4. CASE Interrupt(h)
    <2> DEFINE r == [q EXCEPT !.status = "paused"]
               w == At("investigated", worker[h].op, TRUE, 0, r)
    <2>1. Move(h, w) /\ store' = store /\ w.run = r /\ Follows(q, r)
      BY <1>1, <1>4 DEF Interrupt, At, Follows, Runs
    <2> HIDE DEF r, w
    <2> QED
      BY <1>1, <2>1 DEF Followed
  <1>5. CASE Returned(h)
    <2> DEFINE r == [q EXCEPT !.op = worker[h].op]
               s == [r EXCEPT !.stage = "assess_action"]
    <2>1. /\ Operating(s).run = s /\ Idle.at = "idle"
          /\ Follows(q, r) /\ Follows(q, s)
      BY <1>1 DEF Operating, Idle, At, Follows, Runs
    <2>2. Save(h, s, Operating(s)) \/ Save(h, r, Idle)
      BY <1>5 DEF Returned
    <2> HIDE DEF r, s
    <2> QED
      BY <1>1, <2>1, <2>2, SaveFollows
  <1> QED
    BY <1>2, <1>3, <1>4, <1>5

\* The assessment asks for an approval only where there is none.
LEMMA AssessActionFollows ==
  ASSUME IInv, NEW h \in Handlers, AssessAction(h)
  PROVE  Followed(h)
  <1> DEFINE q == worker[h].run
             a == Enriched(q.action)
             r == [q EXCEPT !.action = a]
             s == [r EXCEPT !.stage = "execute_action", !.status = "running"]
  <1>1. worker[h].at # "idle" /\ UNCHANGED <<granted, declined, requests>> /\ q \in Runs
    BY Carried DEF AssessAction
  <1>2. r \in Runs /\ r.approval = q.approval /\ s.approval = q.approval
    BY <1>1, EnrichedAction DEF Runs
  <1>3. Idle.at = "idle" /\ Operating(s).run = s
    BY DEF Idle, Operating, At
  <1>4. \A ap : Waiting(r, ap).approval = ap
    BY <1>2 DEF Waiting, Runs
  <1>5. \/ Close(h, r, "completed")
        \/ Save(h, s, Operating(s))
        \/ r.approval = NoApproval /\ \E ap : Save(h, Waiting(r, ap), Idle)
        \/ Save(h, Waiting(r, r.approval), Idle)
    BY DEF AssessAction
  <1> HIDE DEF r, s
  <1>6. Follows(q, r) /\ Follows(q, s) /\ Follows(q, Waiting(r, r.approval))
    BY <1>2, <1>4 DEF Follows
  <1>7. ASSUME r.approval = NoApproval, NEW ap, Save(h, Waiting(r, ap), Idle)
        PROVE  Followed(h)
    BY <1>1, <1>2, <1>3, <1>7, SaveFollows DEF Follows
  <1> QED
    BY <1>1, <1>2, <1>3, <1>5, <1>6, <1>7, CloseFollows, SaveFollows

\* Charging tool calls leaves the approval alone.
LEMMA ChargedRun ==
  ASSUME NEW q \in Runs, NEW n \in Nat
  PROVE  /\ [q EXCEPT !.calls = @ + n] \in Runs
         /\ [q EXCEPT !.calls = @ + n].approval = q.approval
  <1>1. q.calls + n \in Nat
    BY DEF Runs
  <1> QED
    BY <1>1 DEF Runs

\* The action and the verification leave the approval alone.
LEMMA OperationFollows ==
  ASSUME IInv, NEW h \in Handlers,
         BeginAction(h) \/ Act(h) \/ BeginVerification(h) \/ Verify(h)
  PROVE  Followed(h)
  <1> DEFINE q == worker[h].run
             n == worker[h].attempt
  <1>1. /\ worker[h].at # "idle" /\ UNCHANGED <<granted, declined, requests>>
        /\ q \in Runs /\ worker[h] \in Workers /\ Placed(worker[h])
    BY Carried DEF BeginAction, Act, BeginVerification, Verify, history
  <1>2. ASSUME NEW place, NEW k, Move(h, Calling(place, k, q)), store' = store
        PROVE  Followed(h)
    <2>1. Calling(place, k, q).run = q
      BY DEF Calling, At
    <2> QED
      BY <1>1, <1>2, <2>1 DEF Followed, Follows
  <1>3. Idle.at = "idle" /\ Follows(q, q)
    BY DEF Idle, At, Follows
  <1>4. CASE BeginAction(h)
    <2> DEFINE c == [q EXCEPT !.stage = "complete", !.status = "failed"]
               p == [q EXCEPT !.stage = "wait_approval", !.status = "paused"]
    <2>1. Follows(q, c) /\ Follows(q, p)
      BY <1>1 DEF Follows, Runs
    <2>2. \/ Save(h, c, Idle)
          \/ Close(h, q, "budget_exhausted")
          \/ Save(h, p, Idle)
          \/ Move(h, Calling("acting", 1, q)) /\ store' = store
      BY <1>4 DEF BeginAction
    <2> HIDE DEF c, p
    <2> QED
      BY <1>1, <1>2, <1>3, <2>1, <2>2, CloseFollows, SaveFollows
  <1>5. CASE Act(h)
    <2> DEFINE s == [q EXCEPT !.calls = @ + n]
               t == [s EXCEPT !.stage = "verify", !.status = "running"]
               c == [s EXCEPT !.verified = "inconclusive"]
    <2>1. n \in Nat
      BY <1>1 DEF Workers
    <2>2. s \in Runs /\ s.approval = q.approval
      BY <1>1, <2>1, ChargedRun
    <2>3. c \in Runs /\ Follows(q, t) /\ Follows(q, c) /\ Operating(t).run = t
      <3> HIDE DEF s
      <3> QED
        BY <2>2 DEF Follows, Runs, Operating, At
    <2>4. \/ Move(h, Calling("acting", n + 1, q)) /\ store' = store
          \/ Save(h, t, Operating(t))
          \/ Close(h, c, "failed")
      BY <1>5 DEF Act
    <2> HIDE DEF s, t, c
    <2> QED
      BY <1>1, <1>2, <2>3, <2>4, CloseFollows, SaveFollows
  <1>6. CASE BeginVerification(h)
    BY <1>2, <1>6 DEF BeginVerification
  <1>7. CASE Verify(h)
    <2> DEFINE s == [q EXCEPT !.calls = @ + n]
               c(v) == [s EXCEPT !.verified = v]
    <2>1. n \in Nat
      BY <1>1 DEF Workers
    <2>2. s \in Runs /\ s.approval = q.approval
      BY <1>1, <2>1, ChargedRun
    <2>3. \A v \in {"passed", "failed", "inconclusive"} : c(v) \in Runs /\ Follows(q, c(v))
      <3> HIDE DEF s
      <3> QED
        BY <2>2 DEF Follows, Runs
    <2>4. \/ Move(h, Calling("verifying", n + 1, q)) /\ store' = store
          \/ \E v \in {"passed", "failed", "inconclusive"} : Close(h, c(v), "completed")
      BY <1>7 DEF Verify
    <2> HIDE DEF c
    <2> QED
      BY <1>1, <1>2, <2>3, <2>4, CloseFollows
  <1> QED
    BY <1>4, <1>5, <1>6, <1>7

\* What a step leaves of the approval its handler carried.
LEMMA StepAgrees ==
  ASSUME IInv, AgreeInv, NEW h \in Handlers, Step(h)
  PROVE  AgreeInv'
  <1>1. Followed(h)
    BY InvestigationFollows, AssessActionFollows, OperationFollows DEF Step
  <1>2. PICK w : Move(h, w) /\ (w.at # "idle" => Follows(worker[h].run, w.run))
    BY <1>1 DEF Followed
  <1>3. ASSUME Alone
        PROVE  /\ requests' = 0 => granted' = {} /\ declined' = {}
               /\ Agrees(store', granted', declined')
               /\ w.at # "idle" => Agrees(w.run, granted', declined')
    <2>1. /\ requests = 0 => granted = {} /\ declined = {}
          /\ Agrees(store, granted, declined)
          /\ Agrees(worker[h].run, granted, declined)
      BY <1>1, <1>3 DEF AgreeInv, Followed, Active
    <2> QED
      BY <1>1, <1>2, <2>1, FollowsAgrees DEF Followed
  <1> QED
    BY <1>2, <1>3, MoveAgrees

\* A request reads the checkpoint; a human decides what nobody has decided yet.
LEMMA RequestAgrees ==
  ASSUME IInv, AgreeInv, NEW h \in Handlers,
         Start(h) \/ Resume(h) \/ Approve(h) \/ Decline(h)
  PROVE  AgreeInv'
  <1>1. store \in Runs /\ requests \in Nat /\ Idle.at = "idle"
    BY DEF IInv, TypeOK, Idle, At
  <1>2. CASE Start(h)
    <2>1. PICK op \in BOOLEAN, pausing \in BOOLEAN :
            Save(h, Fresh, At("investigating", op, pausing, 0, Fresh))
      BY <1>2 DEF Start
    <2>2. requests = 0 /\ UNCHANGED <<granted, declined>>
      BY <1>2 DEF Start, history
    <2>3. Alone => Agrees(Fresh, granted', declined') /\ granted' = {} /\ declined' = {}
      BY <2>2 DEF AgreeInv, Agrees
    <2> QED
      BY <2>1, <2>3, MoveAgrees DEF Save, At
  <1>3. CASE Resume(h)
    <2> DEFINE i == [store EXCEPT !.status = "running"]
               a == [store EXCEPT !.stage = "assess_action"]
    <2>1. /\ Follows(store, i) /\ Follows(store, a) /\ Follows(store, store)
          /\ Operating(store).run = store /\ Operating(a).run = a
          /\ At("investigating", store.op, FALSE, 0, i).run = i
      BY <1>1 DEF Follows, Runs, Operating, At
    <2>2. PICK r, w : Save(h, r, w) /\ Follows(store, r) /\ w.run = r
      <3>1. \/ Save(h, store, Operating(store))
            \/ Save(h, i, At("investigating", store.op, FALSE, 0, i))
            \/ Save(h, a, Operating(a))
        BY <1>3 DEF Resume
      <3> HIDE DEF i, a
      <3> QED
        BY <2>1, <3>1
    <2>3. requests' # 0 /\ UNCHANGED <<granted, declined>>
      BY <1>1, <1>3 DEF Resume, Accept, history
    <2>4. Alone => Agrees(r, granted', declined')
      BY <2>2, <2>3, FollowsAgrees DEF AgreeInv
    <2> QED
      BY <2>2, <2>3, <2>4, MoveAgrees DEF Save
  <1>4. ASSUME Decidable, Alone
        PROVE  /\ granted = {} /\ declined = {} /\ store.claims
               /\ store.approval = [id |-> store.approval.id, decision |-> "pending"]
    <2>1. store.approval \in [id: Nat \ {0}, decision: {"pending", "approved", "declined"}]
      BY <1>1, <1>4 DEF Runs, Approvals, NoApproval, Decidable
    <2>2. store.approval.decision = "pending" /\ Agrees(store, granted, declined) /\ store.claims
      BY <1>4, DecidableUndecided DEF AgreeInv, Decidable
    <2>3. store.approval = [id |-> store.approval.id, decision |-> "pending"]
      BY <2>1, <2>2
    <2>4. /\ \A id : store.approval # [id |-> id, decision |-> "approved"]
          /\ \A id : store.approval # [id |-> id, decision |-> "declined"]
      BY <2>2
    <2> QED
      BY <2>2, <2>3, <2>4 DEF Agrees
  <1>5. CASE Approve(h)
    <2> DEFINE r == [store EXCEPT !.approval.decision = "approved", !.status = "running",
                                  !.stage = "execute_action"]
    <2>1. /\ Decidable /\ Save(h, r, Operating(r)) /\ requests' # 0
          /\ granted' = granted \cup {store.approval.id} /\ declined' = declined
      BY <1>1, <1>5 DEF Approve, Accept
    <2>2. Alone => r.approval = [id |-> store.approval.id, decision |-> "approved"]
      BY <1>1, <1>4, <2>1 DEF Runs
    <2> HIDE DEF r
    <2>3. Alone => Agrees(r, granted', declined')
      BY <1>4, <2>1, <2>2 DEF Agrees
    <2> QED
      BY <2>1, <2>3, MoveAgrees DEF Save, Operating, At
  <1>6. CASE Decline(h)
    <2> DEFINE q == [store EXCEPT !.approval.decision = "declined", !.verified = "not_run"]
               r == [q EXCEPT !.stage = "complete", !.status = "completed",
                              !.report = "completed"]
    <2>1. /\ Decidable /\ Close(h, q, "completed") /\ requests' # 0
          /\ declined' = declined \cup {store.approval.id} /\ granted' = granted
      BY <1>1, <1>6 DEF Decline, Accept
    <2>2. q.claims = store.claims
      BY <1>1 DEF Runs
    <2>3. Alone => store' = r
      BY <1>4, <2>1, <2>2 DEF Close, Save
    <2>4. Alone => r.approval = [id |-> store.approval.id, decision |-> "declined"]
      BY <1>1, <1>4, <2>1 DEF Runs
    <2>5. Move(h, Idle)
      BY <2>1 DEF Close, Save
    <2> HIDE DEF q, r
    <2>6. Alone => Agrees(store', granted', declined')
      BY <1>4, <2>1, <2>3, <2>4 DEF Agrees
    <2> QED
      BY <1>1, <2>1, <2>5, <2>6, MoveAgrees
  <1> QED
    BY <1>2, <1>3, <1>5, <1>6

\* A copy that is lost takes no decision along: the checkpoint has it.
LEMMA AbortAgrees ==
  ASSUME IInv, AgreeInv, NEW h \in Handlers, Abort(h)
  PROVE  AgreeInv'
  <1>1. Move(h, Idle) /\ Idle.at = "idle" /\ UNCHANGED <<store, granted, declined, requests>>
    BY DEF Abort, Idle, At
  <1> QED
    BY <1>1, MoveAgrees DEF AgreeInv

\* The decisions on approvals (Phase5Runtime.approve and decline) are never lost or
\* asked for again while one request is served at a time, wherever handlers die.
THEOREM DecisionsAreKept == Spec => []DecisionsKept
  <1>1. Init => AgreeInv
    BY IdleWorker DEF Init, AgreeInv, Agrees, Active
  <1>2. IInv /\ AgreeInv /\ [Next]_vars => AgreeInv'
    <2> SUFFICES ASSUME IInv, AgreeInv, [Next]_vars PROVE AgreeInv'
      OBVIOUS
    <2>1. CASE UNCHANGED vars
      BY <2>1 DEF vars, history, AgreeInv, Agrees, Active, Alone
    <2>2. CASE Next
      BY <2>2, StepAgrees, RequestAgrees, AbortAgrees DEF Next
    <2> QED
      BY <2>1, <2>2
  <1>3. AgreeInv => DecisionsKept
    BY DEF AgreeInv, Agrees, DecisionsKept
  <1> QED
    BY <1>1, <1>2, <1>3, Invariance, PTL DEF Spec
=============================================================================
