---------------------------- MODULE PublishedStudy ----------------------------
(***************************************************************************)
(* What a study promises its reader, without scripts, journals, restarts   *)
(* or deployments: the evidence of an arm, the agent runs it rests on,     *)
(* appears as a whole, no run is evidence twice, and what is published     *)
(* rests on all the evidence of all the arms, as much of each, and stays   *)
(* as it is.                                                               *)
(***************************************************************************)
EXTENDS Naturals, FiniteSets

VARIABLES
  evidence,   \* the agent runs of each arm, none until the arm is delivered
  published   \* the agent runs the published report rests on

study == <<evidence, published>>

Init ==
  /\ \A arm \in DOMAIN evidence : evidence[arm] = {}
  /\ published = {}

Arms == DOMAIN evidence

\* An arm is delivered, or replaced by a repetition of it, none of whose runs is old.
Deliver(arm) ==
  /\ published = {}
  /\ evidence'[arm] # {}
  /\ evidence' = [evidence EXCEPT ![arm] = evidence'[arm]]
  /\ \A other \in Arms : evidence'[arm] \cap evidence[other] = {}
  /\ UNCHANGED published

Publish ==
  /\ published = {}
  /\ \A a, b \in Arms :
       evidence[a] # {} /\ Cardinality(evidence[a]) = Cardinality(evidence[b])
  /\ published' = UNION {evidence[arm] : arm \in Arms}
  /\ UNCHANGED evidence

Next == (\E arm \in Arms : Deliver(arm)) \/ Publish

Spec == Init /\ [][Next]_study
=============================================================================
