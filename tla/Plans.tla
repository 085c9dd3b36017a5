------------------------------- MODULE Plans -------------------------------
(***************************************************************************)
(* Investigation plans: what the reasoning provider plans for an incident, *)
(* and how each treatment that can be wrapped around the provider changes  *)
(* that plan.  Titles, objectives and rationales are left out; of a step's *)
(* arguments the service, what is asked of it, the limit on records and    *)
(* whether the call is bounded to a time window are kept.                  *)
(***************************************************************************)
EXTENDS Integers, Sequences, FiniteSets, SequencesExt

Services == {"checkout", "inventory", "worker", "payment", "gateway"}

\* The elements of a sequence at some of its places, in their order.
Only(s, places) ==
  [k \in 1 .. Cardinality(places) |->
     s[CHOOSE i \in places : Cardinality({j \in places : j <= i}) = k]]

\* The incident's service, whether its text speaks of a deployment, a release,
\* a rollout or a change, and whether it says that there was none.
Incidents ==
  {i \in [service: Services, change: BOOLEAN, negated: BOOLEAN] : i.negated => i.change}

DefaultLimit == 20

Step(id, tool, service, about, limit) ==
  [id |-> id, tool |-> tool, service |-> service, about |-> about,
   limit |-> limit, window |-> FALSE]

Metric(id, service, about) == Step(id, "query_metrics", service, about, 0)
Logs(id, service, about) == Step(id, "search_logs", service, about, DefaultLimit)
Deployment(id, service) == Step(id, "inspect_deployment", service, "release", 0)
Diff(id) == Step(id, "inspect_git_diff", "repository", "head", 0)

-----------------------------------------------------------------------------
(* DeterministicReasoningProvider.plan. *)

Context == <<Deployment("deployment", "checkout"), Diff("git-diff")>>

BaselinePlan(incident) ==
  LET service == incident.service IN
  CASE service = "checkout" ->
         <<Metric("latency", "checkout", "p95_latency")>>
         \o (IF incident.change THEN Context ELSE <<>>)
         \o <<Metric("db-query-count", "checkout", "db_query_count"),
              Logs("checkout-logs", "checkout", "/orders")>>
    [] service = "inventory" ->
         <<Metric("db-connections", "inventory", "db_connections"),
           Logs("inventory-errors", "inventory", "ERROR")>>
    [] service = "worker" ->
         <<Metric("disk", "worker", "disk_usage"),
           Metric("memory", "worker", "memory_usage"),
           Metric("restarts", "worker", "container_restarts"),
           Logs("worker-errors", "worker", "ERROR")>>
    [] service = "payment" ->
         <<Logs("payment-warnings", "payment", "WARNING"),
           Logs("gateway-errors", "gateway", "ERROR")>>
    [] OTHER ->
         <<Metric("error-rate", service, "error_rate"),
           Logs("service-errors", service, "ERROR")>>

SameInvocation(s, t) ==
  [s EXCEPT !.id = t.id] = t

\* OllamaReasoningProvider.plan: the model may put the legal steps in another
\* order.  Any other answer fails the plan, which is the empty set here.
OllamaPlan(incident, answer) ==
  LET legal == BaselinePlan(incident) IN
  IF /\ Len(answer) = Len(legal)
     /\ ToSet([i \in DOMAIN answer |-> answer[i].id])
          = ToSet([i \in DOMAIN legal |-> legal[i].id])
     /\ \A i \in DOMAIN answer : \E j \in DOMAIN legal :
          answer[i].id = legal[j].id /\ SameInvocation(answer[i], legal[j])
  THEN {answer} ELSE {}

-----------------------------------------------------------------------------
(* ControlledToolOrderProvider. *)

Orders == {"free", "deployment_first", "symptom_first", "adaptive"}

Category(step) ==
  CASE step.tool = "inspect_deployment" -> 0
    [] step.tool = "query_metrics"      -> 1
    [] step.tool = "search_logs"        -> 2
    [] step.tool \in {"inspect_git_diff", "search_docs", "read_file"} -> 3
    [] OTHER                            -> 4

ContextSteps(service) ==
  <<Deployment("controlled-deployment-context", service), Diff("controlled-code-context")>>

\* Mutant: the context is added whether or not the plan has it.
CommonAlways(plan, service) == plan \o ContextSteps(service)

\* Every arm gets the deployment and the diff, once.
CommonStepSet(plan, service) ==
  LET context == ContextSteps(service) IN
  plan \o Only(context, {c \in DOMAIN context :
                          \A i \in DOMAIN plan : ~SameInvocation(context[c], plan[i])})

AdaptiveMode(incident) ==
  IF incident.change /\ ~incident.negated THEN "deployment_first" ELSE "symptom_first"

\* The steps by the priority of their category, otherwise in the plan's order.
OrderedSteps(plan, mode, incident) ==
  LET effective == IF mode = "adaptive" THEN AdaptiveMode(incident) ELSE mode
      ranked == IF effective = "deployment_first" THEN <<0, 1, 2, 3, 4>> ELSE <<1, 2, 0, 3, 4>>
      OfRank(i) == Only(plan, {j \in DOMAIN plan : Category(plan[j]) = ranked[i]})
  IN IF effective = "free" THEN plan ELSE FlattenSeq([i \in 1 .. 5 |-> OfRank(i)])

ControlledOrder(plan, mode, incident) ==
  OrderedSteps(CommonStepSet(plan, incident.service), mode, incident)

-----------------------------------------------------------------------------
(* The other decorators that touch the plan. *)

VerificationTools == {"reproduce_request", "rerun_load_test"}

VerificationStep(incident) ==
  IF incident.service = "checkout"
  THEN Step("active-verification", "rerun_load_test", "checkout", "/checkout", 0)
  ELSE Step("active-verification", "reproduce_request", incident.service, "symptom", 0)

\* One probe goes behind the first step.
Verified(plan, incident) ==
  InsertAt(plan, IF plan = <<>> THEN 1 ELSE 2, VerificationStep(incident))

\* Searches are capped; a limit is never raised.
Capped(plan, max) ==
  [i \in DOMAIN plan |->
     IF plan[i].tool = "search_logs" /\ plan[i].limit > max
     THEN [plan[i] EXCEPT !.limit = max] ELSE plan[i]]

\* Metrics and logs are asked for the window that ends at the incident's onset.
Windowed(plan) ==
  [i \in DOMAIN plan |->
     IF plan[i].tool \in {"query_metrics", "search_logs"}
     THEN [plan[i] EXCEPT !.window = TRUE] ELSE plan[i]]

\* The plan every compound incident gets, whatever the provider inside plans.
CompoundPlan ==
  <<Metric("checkout-db-query-count", "checkout", "db_query_count"),
    Logs("checkout-request-logs", "checkout", "/orders"),
    Metric("inventory-db-connections", "inventory", "db_connections"),
    Logs("inventory-errors", "inventory", "ERROR"),
    Metric("worker-disk", "worker", "disk_usage"),
    Metric("worker-memory", "worker", "memory_usage"),
    Metric("worker-restarts", "worker", "container_restarts"),
    Logs("worker-errors", "worker", "ERROR"),
    Logs("payment-warnings", "payment", "WARNING"),
    Logs("gateway-errors", "gateway", "ERROR")>>

-----------------------------------------------------------------------------
When(condition, changed, unchanged) == IF condition THEN changed ELSE unchanged

\* What AgentService wraps around the provider that plans `base'.
WrappedPlan(chain, incident, base) ==
  LET ordered == When(chain.order # "none", ControlledOrder(base, chain.order, incident), base)
      verified == When(chain.verified, Verified(ordered, incident), ordered)
      capped == When(chain.cap > 0, Capped(verified, chain.cap), verified)
      windowed == When(chain.temporal, Windowed(capped), capped)
  IN When(chain.compound, CompoundPlan, windowed)
=============================================================================
