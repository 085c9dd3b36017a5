----------------------------- MODULE Reasoning -----------------------------
(***************************************************************************)
(* One investigation as its reasoning provider sees it: the plan that the  *)
(* chain of providers makes, the evidence the tools return, the hypotheses *)
(* derived from it, the decision to stop and the diagnosis.  Time limits,  *)
(* tokens, cost and crashes are AgentInvestigation's subject.              *)
(***************************************************************************)
EXTENDS Plans

CONSTANTS
  Cases,            \* incidents, each with the agent that meets it: its chain of
                    \* providers, its architecture and its max_tool_calls
  Worlds,           \* faults that are active, and faults of earlier incidents
  MaxNonProgress,   \* max_non_progress_steps
  MaxMisses         \* bound: symptoms that a call should have shown but did not

Causes ==
  {"n_plus_one_query", "database_connection_leak", "disk_exhaustion", "memory_leak",
   "broken_payment_configuration"}

\* FAULT_TARGETS: the services a fault can be injected into.
Targets(cause) ==
  CASE cause = "n_plus_one_query"             -> {"checkout"}
    [] cause = "database_connection_leak"     -> {"checkout", "inventory"}
    [] cause = "broken_payment_configuration" -> {"payment"}
    [] OTHER                                  -> Services

Faults == {f \in [cause: Causes, service: Services] : f.service \in Targets(f.cause)}

\* Faults that were restored have left their records and counters of restarts; the
\* reset of some of them was lost or overtaken, and the gauges they moved stay too.
WorldType ==
  {w \in [active: SUBSET Faults, restored: SUBSET Faults, uncleared: SUBSET Faults] :
     w.uncleared \subseteq w.restored}

ASSUME ReasoningAssumption ==
  /\ \A c \in Cases : /\ c.incident \in Incidents /\ c.chain.cap \in Nat /\ c.chain.calls \in Nat
                     /\ c.chain.model \in {"deterministic", "ollama"}
  /\ Worlds \subseteq WorldType
  /\ MaxNonProgress \in Nat \ {0} /\ MaxMisses \in Nat

Onset == 2   \* the incident's start_time; a record is older (1) or newer (3)

VARIABLES
  incident, chain, world,
  plan,          \* the steps, in their order
  done,          \* positions of the steps marked completed
  history,       \* tool_history: the invocation and whether it was answered
  evidence,      \* what the answered calls returned, in their order
  hypotheses,    \* sorted by confidence
  nonProgress,   \* non_progress_count
  at,            \* plan, ask, weigh, conclude or ended
  verdict,
  misses

vars == <<incident, chain, world, plan, done, history, evidence, hypotheses,
          nonProgress, at, verdict, misses>>

NoVerdict == [status |-> "none", code |-> "none", confidence |-> 0, cites |-> {}, action |-> FALSE]

Init ==
  /\ \E c \in Cases : incident = c.incident /\ chain = c.chain
  /\ world \in Worlds
  /\ plan = <<>> /\ done = {} /\ history = <<>> /\ evidence = <<>> /\ hypotheses = <<>>
  /\ nonProgress = 0
  /\ at = "plan"
  /\ verdict = NoVerdict
  /\ misses = 0

-----------------------------------------------------------------------------
(* The plan of the whole chain. *)

Wrapped(base) == WrappedPlan(chain, incident, base)

\* A model answers with the legal steps in some order, or with anything else.
Permuted(steps) ==
  {[i \in DOMAIN steps |-> steps[p[i]]] :
     p \in {q \in [DOMAIN steps -> DOMAIN steps] : \A i, j \in DOMAIN steps : q[i] = q[j] => i = j}}

FullPlans ==
  LET base == BaselinePlan(incident) IN
  IF chain.model = "deterministic" THEN {Wrapped(base)}
  ELSE {Wrapped(p) : p \in UNION {OllamaPlan(incident, a) : a \in Permuted(base) \cup {Tail(base)}}}

MakePlan ==
  /\ at = "plan"
  /\ \/ \E p \in FullPlans : plan' = p /\ at' = "ask" /\ UNCHANGED verdict
     \/ /\ chain.model = "ollama"
        /\ verdict' = [NoVerdict EXCEPT !.status = "failed", !.code = "inconclusive"]
        /\ at' = "ended" /\ UNCHANGED plan
  /\ UNCHANGED <<incident, chain, world, done, history, evidence, hypotheses, nonProgress, misses>>

-----------------------------------------------------------------------------
(* Calls and what they return. *)

Invocation(step) == [step EXCEPT !.id = "call"]
Observed == {history[i].call : i \in DOMAIN history}

\* The steps of plan p still to do: a planner marks the steps it has asked, the
\* reactive provider compares the calls it has observed with a plan made afresh.
Open(p) ==
  IF chain.architecture = "reactive_react"
  THEN {i \in DOMAIN p : Invocation(p[i]) \notin Observed}
  ELSE {i \in DOMAIN p : i \notin done}

\* The status a service answers with under a fault.
Status(cause) ==
  CASE cause = "database_connection_leak"     -> {"503"}
    [] cause = "disk_exhaustion"              -> {"507"}
    [] cause = "memory_leak"                  -> {"503"}
    [] cause = "broken_payment_configuration" -> {"401"}
    [] OTHER                                  -> {}

CausesAt(faults, service) == {f.cause : f \in {g \in faults : g.service = service}}
StatusesOf(faults, service) == UNION {Status(cause) : cause \in CausesAt(faults, service)}

\* The gateway answers 502 when checkout fails or payment refuses.
Upstream(faults) ==
  IF StatusesOf(faults, "checkout") \cap {"503", "507"} # {} \/ StatusesOf(faults, "payment") # {}
  THEN {"502"} ELSE {}

\* The symptoms of faults that a sandbox with these faults shows to a call.
Symptoms(faults, step) ==
  LET Of(cause, symptom) == IF cause \in CausesAt(faults, step.service) THEN {symptom} ELSE {} IN
  CASE step.about \in {"db_query_count", "/orders"} -> Of("n_plus_one_query", "many_queries")
    [] step.about = "db_connections"     -> Of("database_connection_leak", "connections")
    [] step.about = "disk_usage"         -> Of("disk_exhaustion", "full")
    [] step.about = "memory_usage"       -> Of("memory_leak", "memory")
    [] step.about = "container_restarts" -> Of("memory_leak", "restart")
    [] step.about = "WARNING" -> StatusesOf(faults, step.service) \cap {"401"}
    [] step.about = "ERROR" ->
         (StatusesOf(faults, step.service) \cap {"503", "507"})
         \cup (IF step.service = "gateway" THEN Upstream(faults) ELSE {})
    [] OTHER -> {}

\* What earlier faults still show: no restore takes back the records of requests
\* and the restarts counted, the disk reads full under an active fault alone, and
\* the other gauges stay where a reset did not reach them.
Remains(w, step) ==
  CASE step.about \in {"ERROR", "WARNING", "/orders", "container_restarts"} ->
         Symptoms(w.restored, step)
    [] step.about \in {"db_query_count", "db_connections", "memory_usage"} ->
         Symptoms(w.uncleared, step)
    [] OTHER -> {}

\* When the records that show something were written: a window ends at the onset.
RecordTimes(step, saw) ==
  IF step.tool # "search_logs" \/ saw = {} THEN {{}}
  ELSE IF step.window \/ ~chain.temporal THEN {{1}} ELSE {{1}, {3}, {1, 3}}

\* Mutant: the run is marked but not ended.
StopMarks(status) ==
  /\ verdict' = [NoVerdict EXCEPT !.status = status, !.code = "inconclusive"]
  /\ at' = "ask"

\* A run that ends without a diagnosis cites all it has found.
Stop(status) ==
  /\ verdict' = [NoVerdict EXCEPT !.status = status, !.code = "inconclusive",
                                  !.confidence = IF hypotheses = <<>> THEN 0
                                                 ELSE hypotheses[1].confidence,
                                  !.cites = DOMAIN evidence]
  /\ at' = "ended"

\* Step i of plan p is asked; a symptom may not show yet, a call may fail, and what
\* is left of earlier faults may show or be pushed out by newer records.
Call(p, i) ==
  \E answered \in BOOLEAN, saw \in SUBSET (Symptoms(world.active, p[i]) \cup Remains(world, p[i])) :
  \E times \in RecordTimes(p[i], saw) :
    /\ ~answered => saw = {}
    /\ misses' = misses + (IF answered THEN Cardinality(Symptoms(world.active, p[i]) \ saw) ELSE 1)
    /\ misses' <= MaxMisses
    /\ history' = Append(history, [call |-> Invocation(p[i]), answered |-> answered])
    /\ evidence' = IF answered
                   THEN Append(evidence, [step |-> p[i], saw |-> saw, times |-> times])
                   ELSE evidence

\* The next open step is asked and marked, whether the call is answered or not.
\* Too many calls exhaust the budget; the reactive agent plans again first.
Ask ==
  /\ at = "ask"
  /\ \/ \E p \in IF chain.architecture = "reactive_react" THEN FullPlans ELSE {plan} :
          /\ plan' = p
          /\ IF Len(history) >= chain.calls
             THEN Stop("budget_exhausted") /\ UNCHANGED <<done, history, evidence, misses>>
             ELSE IF Open(p) = {}
             THEN at' = "conclude" /\ UNCHANGED <<done, history, evidence, misses, verdict>>
             ELSE LET next == CHOOSE i \in Open(p) : \A j \in Open(p) : i <= j IN
                  /\ Call(p, next)
                  /\ done' = done \cup {next}
                  /\ at' = "weigh" /\ UNCHANGED verdict
     \/ /\ chain.architecture = "reactive_react" /\ chain.model = "ollama"
        /\ Stop("failed")
        /\ UNCHANGED <<plan, done, history, evidence, misses>>
  /\ UNCHANGED <<incident, chain, world, hypotheses, nonProgress>>

-----------------------------------------------------------------------------
(* Hypotheses. *)

\* The evidence of the calls that asked a service about `about', and the part
\* of it that shows a symptom.
About(found, service, about) ==
  {i \in DOMAIN found : found[i].step.service = service /\ found[i].step.about = about}

\* Mutant: evidence from the right call counts, whatever it shows.
ShowingAnything(found, service, about, symptom) == About(found, service, about)

Showing(found, service, about, symptom) ==
  {i \in About(found, service, about) : symptom \in found[i].saw}

Hypothesis(code, confidence, support) ==
  [code |-> code, confidence |-> confidence, support |-> support, cause |-> 0]

\* DeterministicReasoningProvider.update_hypotheses, in the order it appends.
Candidates(found) ==
  LET queries == Showing(found, "checkout", "db_query_count", "many_queries")
      queryLogs == Showing(found, "checkout", "/orders", "many_queries")
      connections == Showing(found, "inventory", "db_connections", "connections")
      inventory503 == Showing(found, "inventory", "ERROR", "503")
      full == Showing(found, "worker", "disk_usage", "full")
      worker507 == Showing(found, "worker", "ERROR", "507")
      worker503 == Showing(found, "worker", "ERROR", "503")
      restarts == Showing(found, "worker", "container_restarts", "restart")
      memory == Showing(found, "worker", "memory_usage", "memory")
      payment401 == Showing(found, "payment", "WARNING", "401")
      gateway502 == Showing(found, "gateway", "ERROR", "502")
      If(condition, h) == IF condition THEN <<h>> ELSE <<>>
      leaking == restarts # {} /\ worker503 # {} /\ full = {}
  IN If(queries # {}, Hypothesis("n_plus_one_query", IF queryLogs # {} THEN 97 ELSE 72,
                                 queries \cup queryLogs))
     \o If(connections # {} /\ inventory503 # {},
           Hypothesis("database_connection_leak", 96, connections \cup inventory503))
     \o If(full # {} /\ worker507 # {}, Hypothesis("disk_exhaustion", 99, full \cup worker507))
     \o If(leaking, Hypothesis("memory_leak", 95, restarts \cup worker503
                                                \cup About(found, "worker", "memory_usage")))
     \o If(~leaking /\ memory # {}, Hypothesis("memory_pressure", 55, memory))
     \o If(payment401 # {} /\ gateway502 # {},
           Hypothesis("broken_payment_configuration", 97, payment401 \cup gateway502))

Oldest(times) == IF times = {} THEN 0 ELSE CHOOSE t \in times : \A u \in times : t <= u

\* The explicit temporal treatment dates a hypothesis by its oldest supporting
\* record that is no later than the incident's onset; 0 stands for none.
Stamped(new) ==
  IF ~chain.temporal THEN new
  ELSE [i \in DOMAIN new |->
          [new[i] EXCEPT !.cause =
             Oldest({t \in UNION {evidence[j].times : j \in new[i].support} : t <= Onset})]]

\* Mutant: a hypothesis that is not a candidate any more moves to the front.
MergedStaleFirst(new) ==
  Only(hypotheses, {h \in DOMAIN hypotheses :
                    \A i \in DOMAIN new : new[i].code # hypotheses[h].code}) \o new

\* Hypotheses already held stay, those derived again are replaced in place, new
\* ones follow, and the whole is sorted by confidence, keeping ties in order.
Merged(new) ==
  LET Newer(code) == {i \in DOMAIN new : new[i].code = code}
      kept == [i \in DOMAIN hypotheses |->
                 IF Newer(hypotheses[i].code) = {} THEN hypotheses[i]
                 ELSE new[CHOOSE j \in Newer(hypotheses[i].code) : TRUE]]
      all == kept \o Only(new, {j \in DOMAIN new : \A i \in DOMAIN hypotheses :
                                                    hypotheses[i].code # new[j].code})
      levels == <<99, 97, 96, 95, 72, 55>>
  IN FlattenSeq([k \in DOMAIN levels |->
                   Only(all, {i \in DOMAIN all : all[i].confidence = levels[k]})])

-----------------------------------------------------------------------------
(* The decision to stop: deterministic provider, diminishing returns, then the *)
(* treatment that waits for unresolved evidence.                              *)

Completed ==
  IF chain.architecture = "reactive_react"
  THEN {i \in DOMAIN plan : Invocation(plan[i]) \in Observed} ELSE done

\* A change to checkout has to be looked into before it is blamed or cleared.
DeploymentEvidence == {"latency", "deployment", "git-diff", "db-query-count", "checkout-logs"}

\* Mutant: a threshold of 0.7.
ConvincedEasily(held) ==
  IF held = <<>> \/ held[1].confidence < 70 THEN Completed = DOMAIN plan
  ELSE incident.service = "checkout" /\ incident.change
         => DeploymentEvidence \subseteq {plan[i].id : i \in Completed}

Convinced(held) ==
  IF held = <<>> \/ held[1].confidence < 90 THEN Completed = DOMAIN plan
  ELSE incident.service = "checkout" /\ incident.change
         => DeploymentEvidence \subseteq {plan[i].id : i \in Completed}

\* The last call failed, or returned what the one before it had returned.
NoProgress ==
  \/ ~history[Len(history)].answered
  \/ LET n == Len(evidence) IN
     n >= 2 /\ Invocation(evidence[n].step) = Invocation(evidence[n - 1].step)
            /\ evidence[n].saw = evidence[n - 1].saw

\* Mutant: every call without progress counts, not only those in a row.
CountNeverReset(held) ==
  IF Convinced(held) THEN 0 ELSE IF NoProgress THEN nonProgress + 1 ELSE nonProgress

Count(held) ==
  IF Convinced(held) THEN 0 ELSE IF NoProgress THEN nonProgress + 1 ELSE 0

Enough(held) ==
  /\ Convinced(held) \/ Count(held) >= MaxNonProgress
  /\ chain.unresolved => Completed = DOMAIN plan

\* _update_hypothesis and _enough_evidence.
Weigh ==
  /\ at = "weigh"
  /\ \E new \in {Stamped(Candidates(evidence))} : hypotheses' = Merged(new)
  /\ nonProgress' = Count(hypotheses')
  /\ at' = IF \/ Enough(hypotheses')
              \/ chain.architecture = "explicit_planner" /\ done = DOMAIN plan
           THEN "conclude" ELSE "ask"
  /\ UNCHANGED <<incident, chain, world, plan, done, history, evidence, verdict, misses>>

-----------------------------------------------------------------------------
(* Diagnosis, recommendation and report. *)

\* Mutant: the weakest hypothesis is the diagnosis.
DiagnosisWeakest ==
  IF hypotheses = <<>>
  THEN [code |-> "inconclusive", confidence |-> 0, cites |-> DOMAIN evidence]
  ELSE [code |-> Last(hypotheses).code, confidence |-> Last(hypotheses).confidence,
        cites |-> Last(hypotheses).support]

Diagnosis ==
  IF hypotheses = <<>>
  THEN [code |-> "inconclusive", confidence |-> 0, cites |-> DOMAIN evidence]
  ELSE [code |-> hypotheses[1].code, confidence |-> hypotheses[1].confidence,
        cites |-> hypotheses[1].support]

\* An action is recommended for the five causes there is a runbook for.
Recommended(diagnosis) == diagnosis.cites # {} /\ diagnosis.code \in Causes

Conclude ==
  /\ at = "conclude"
  /\ verdict' = [status |-> IF Diagnosis.cites # {} THEN "completed" ELSE "failed",
                 code |-> Diagnosis.code, confidence |-> Diagnosis.confidence,
                 cites |-> Diagnosis.cites, action |-> Recommended(Diagnosis)]
  /\ at' = "ended"
  /\ UNCHANGED <<incident, chain, world, plan, done, history, evidence, hypotheses,
                 nonProgress, misses>>

Next == MakePlan \/ Ask \/ Weigh \/ Conclude

Spec == Init /\ [][Next]_vars /\ WF_vars(Next)

-----------------------------------------------------------------------------
(* Properties. *)

Concluded == at = "ended" /\ verdict.status = "completed"
Certain == Concluded /\ verdict.confidence >= 90

\* The run holds what its parts say: hypotheses are sorted, one per root cause,
\* cite evidence the run has, and date no cause after its effect.  The count of
\* calls without progress ends the run at its limit, unless the agent waits for
\* unresolved evidence: then it goes on.
TypeOK ==
  /\ at \in {"plan", "ask", "weigh", "conclude", "ended"}
  /\ done \subseteq DOMAIN plan /\ Len(evidence) <= Len(history)
  /\ nonProgress \in Nat /\ (~chain.unresolved => nonProgress <= MaxNonProgress)
  /\ misses \in 0 .. MaxMisses
  /\ \A i \in DOMAIN hypotheses :
       /\ hypotheses[i].support # {} /\ hypotheses[i].support \subseteq DOMAIN evidence
       /\ hypotheses[i].cause <= Onset
       /\ \A j \in DOMAIN hypotheses : i < j =>
            /\ hypotheses[i].confidence >= hypotheses[j].confidence
            /\ hypotheses[i].code # hypotheses[j].code
  /\ verdict.cites \subseteq DOMAIN evidence

\* The service whose calls establish a root cause.
HomeOf(cause) ==
  CASE cause = "n_plus_one_query"         -> "checkout"
    [] cause = "database_connection_leak" -> "inventory"
    [] cause = "broken_payment_configuration" -> "payment"
    [] OTHER                              -> "worker"

\* The faults that can establish a cause: the active ones, of the restored ones a
\* memory leak and a broken configuration, which records and counters alone
\* establish, and the ones whose gauges no reset has reached.  The disk never: it
\* reads full under an active fault alone.
Establishing(w) ==
  w.active
  \cup {f \in w.restored : f.cause \in {"memory_leak", "broken_payment_configuration"}}
  \cup {f \in w.uncleared : f.cause # "disk_exhaustion"}

\* The causes that can be established, at the service whose calls do it.
Established(w) == {c \in Causes : [cause |-> c, service |-> HomeOf(c)] \in Establishing(w)}

\* A diagnosis the agent is sure of names a root cause that a fault at the service
\* asked about accounts for, and rests on at least two pieces of evidence, whatever
\* tools failed or showed nothing and whatever faults other services have: the
\* cross-check of DeterministicReasoningProvider.  The fault is an active one, or
\* one of those whose evidence outlives it: a full disk is never a thing of the
\* past, an N+1 query or a connection leak only where the reset was lost.
SureIsRight ==
  Certain => verdict.code \in Established(world) /\ Cardinality(verdict.cites) >= 2

\* What speaks for cause d does not stand in the way of c: it is not asked for, or
\* the disk is looked at before anything is put down to a memory leak.
StandsBack(d, c) ==
  IF HomeOf(d) = HomeOf(c)
  THEN c = "disk_exhaustion" /\ (chain.model = "deterministic" \/ chain.compound)
  ELSE ~chain.compound

\* When every call shows what there is to see, an active root cause is found by
\* every chain of providers: in any tool order, planned or reactive, with or
\* without a probe, a cap, a time window or the plan for compound incidents, and
\* beside other faults and what is left of earlier ones, unless their evidence
\* establishes a cause that the same calls ask for.
FullEvidenceFindsTheCause ==
  \A c \in Causes :
    (/\ Concluded /\ misses = 0 /\ [cause |-> c, service |-> HomeOf(c)] \in world.active
     /\ chain.compound \/ incident.service = HomeOf(c)
     /\ \A d \in Established(world) \ {c} : StandsBack(d, c))
      => verdict.code = c /\ verdict.confidence >= 90 /\ verdict.action

\* An unsure agent that leaves steps undone has got nothing out of its last
\* max_non_progress_steps calls in a row (resilience.py), and an agent that waits for
\* unresolved evidence leaves none undone, not even without progress (compound.py).
EarlyStopIsEarned ==
  (Concluded /\ Completed # DOMAIN plan) =>
    /\ ~chain.unresolved
    /\ verdict.confidence < 90 =>
         \A k \in Len(history) - MaxNonProgress + 1 .. Len(history) : ~history[k].answered

\* What the agent concludes is what it would derive from all its evidence now: a
\* hypothesis that newer evidence took the ground from is not the diagnosis.  It
\* stays among the hypotheses, though, and a model that orders the steps for an
\* agent that waits for unresolved evidence can bring it to the top.
DiagnosisIsCurrent ==
  (Concluded /\ verdict.code # "inconclusive" /\ ~(chain.model = "ollama" /\ chain.unresolved)) =>
    \E i \in DOMAIN Candidates(evidence) : Candidates(evidence)[i].code = verdict.code

\* No call is made twice: the treatments that add steps to a plan and the agent
\* that plans again after every call do not spend the budget on repetitions.
NothingAskedTwice == Cardinality(Observed) = Len(history)

\* Every investigation ends.
InvestigationEnds == <>(at = "ended")
=============================================================================
