---------------------------- MODULE MCReasoning ----------------------------
(***************************************************************************)
(* Values for the constants of Reasoning.                                  *)
(***************************************************************************)
EXTENDS Reasoning

AllIncidents == {i \in Incidents : i.change => i.service = "checkout"}

Plain ==
  [architecture |-> "explicit_planner", model |-> "deterministic", order |-> "none",
   verified |-> FALSE, cap |-> 0, temporal |-> FALSE, compound |-> FALSE, unresolved |-> FALSE,
   calls |-> 10]

\* Each treatment on its own, and the combinations that meet each other.
AllChains ==
  {Plain,
   [Plain EXCEPT !.architecture = "reactive_react"],
   [Plain EXCEPT !.model = "ollama"],
   [Plain EXCEPT !.verified = TRUE],
   [Plain EXCEPT !.verified = TRUE, !.unresolved = TRUE, !.calls = 3],
   [Plain EXCEPT !.temporal = TRUE, !.cap = 5],
   [Plain EXCEPT !.unresolved = TRUE],
   [Plain EXCEPT !.compound = TRUE],
   [Plain EXCEPT !.compound = TRUE, !.unresolved = TRUE, !.temporal = TRUE],
   [Plain EXCEPT !.architecture = "reactive_react", !.unresolved = TRUE],
   [Plain EXCEPT !.model = "ollama", !.unresolved = TRUE],
   [Plain EXCEPT !.architecture = "reactive_react", !.model = "ollama", !.order = "adaptive"]}
  \cup {[Plain EXCEPT !.order = o] : o \in Orders}

\* A model has few orders to choose from when the plan is short.
AllCases ==
  {c \in [incident: AllIncidents, chain: AllChains] :
     /\ c.chain.model = "ollama" =>
          ~c.incident.change /\ (c.chain.architecture = "reactive_react" => c.incident.service = "inventory")
     /\ c.chain.compound => c.incident.service = "gateway"
     /\ c.incident.negated => c.chain.order # "none"}

At(causes, service) == [cause: causes, service: {service}]
Home(causes) == {[cause |-> c, service |-> HomeOf(c)] : c \in causes}
World(active, restored, uncleared) ==
  [active |-> active, restored |-> restored \cup uncleared, uncleared |-> uncleared]

\* No fault, every single one, pairs that share a service or a plan; then faults
\* beside what is left of earlier ones, and faults of other services.
SomeWorlds ==
  {World({}, {}, {})} \cup {World(Home({c}), {}, {}) : c \in Causes}
  \cup {World(Home({"disk_exhaustion", "memory_leak"}), {}, {}),
        World(Home({"n_plus_one_query", "broken_payment_configuration"}), {}, {}),
        World(Home({"n_plus_one_query"}), Home({"memory_leak"}), {}),
        World(Home({"disk_exhaustion"}), Home({"memory_leak"}), {}),
        World(Home({"memory_leak"}), {}, Home({"disk_exhaustion"})),
        World(At({"disk_exhaustion"}, "checkout"), Home({"broken_payment_configuration"}), {}),
        World(At({"memory_leak"}, "inventory"), {}, Home({"database_connection_leak"}))}
=============================================================================
