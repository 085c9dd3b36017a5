-------------------------- MODULE Reasoning_proofs --------------------------
(***************************************************************************)
(* Proofs about one investigation as its reasoning provider sees it: what  *)
(* it asks and what is found (Calling, Finding), what it holds for true    *)
(* (Holding, Deriving), why it stops (Stopping), and why a cause that it   *)
(* has derived stays one (Settling).                                       *)
(***************************************************************************)
EXTENDS Reasoning, Plans_proofs

-----------------------------------------------------------------------------
(* The inductive invariant: its first three parts. *)

Shown ==
  {"many_queries", "connections", "503", "full", "memory", "restart", "507", "401", "502"}

Calls == [call: Steps, answered: BOOLEAN]
Findings == [step: Steps, saw: SUBSET Shown, times: SUBSET Nat]

\* What a call can show.
Visible(w, step) == Symptoms(w.active, step) \cup Remains(w, step)

\* No question is asked again, what is found was asked, and a call shows
\* nothing but what faults show and earlier faults have left.
Calling ==
  /\ world \in WorldType /\ incident \in Incidents /\ chain.cap \in Nat /\ chain.calls \in Nat
  /\ at \in {"plan", "ask", "weigh", "conclude", "ended"}
  /\ \/ plan \in FullPlans /\ at # "plan"
     \/ plan = <<>> /\ done = {} /\ history = <<>> /\ at \in {"plan", "ended"}
  /\ done \subseteq DOMAIN plan
  /\ history \in Seq(Calls) /\ evidence \in Seq(Findings) /\ Len(evidence) <= Len(history)
  /\ \A i, j \in DOMAIN history : i # j => history[i].call # history[j].call
  /\ chain.architecture # "reactive_react" =>
       \A i \in DOMAIN history : \E j \in done : history[i].call = Invocation(plan[j])
  /\ \A i \in DOMAIN evidence :
       /\ evidence[i].saw \subseteq Visible(world, evidence[i].step)
       /\ \E k \in DOMAIN history : history[k].call = Invocation(evidence[i].step)
  /\ \A i, j \in DOMAIN evidence :
       i # j => Invocation(evidence[i].step) # Invocation(evidence[j].step)
  /\ at = "weigh" => history # <<>>
  /\ misses \in 0 .. MaxMisses

Codes == Causes \cup {"memory_pressure"}
Confidences == {99, 97, 96, 95, 72, 55}
Hypotheses == [code: Codes, confidence: Confidences, support: SUBSET Nat, cause: 0 .. Onset]

\* A hypothesis rests on some of the evidence found; a sure one on two pieces of
\* it, and a fault accounts for its cause.
Grounded(h, found, there) ==
  /\ h.support # {} /\ h.support \subseteq DOMAIN found
  /\ h.confidence >= 90 => h.code \in Established(there) /\ \E i, j \in h.support : i # j

Sorted(held) == \A i, j \in DOMAIN held : i < j => held[i].confidence >= held[j].confidence
OneEach(held) == \A i, j \in DOMAIN held : i # j => held[i].code # held[j].code

\* Hypotheses about different causes, each grounded.
Founded(held, found, there) ==
  /\ held \in Seq(Hypotheses) /\ OneEach(held)
  /\ \A i \in DOMAIN held : Grounded(held[i], found, there)

Holding == Founded(hypotheses, evidence, world) /\ Sorted(hypotheses)

\* The calls that nonProgress counts: the last ones before the evidence is weighed.
Weighed == IF at = "weigh" THEN Len(history) - 1 ELSE Len(history)
Sure == hypotheses # <<>> /\ hypotheses[1].confidence >= 90

\* Why a run may conclude with steps undone.
Earned ==
  Completed = DOMAIN plan \/ (~chain.unresolved /\ (Sure \/ nonProgress >= MaxNonProgress))

Stopping ==
  /\ nonProgress \in 0 .. Weighed
  /\ \A k \in Weighed - nonProgress + 1 .. Weighed : ~history[k].answered
  /\ ~chain.unresolved => nonProgress <= MaxNonProgress
  /\ at \in {"plan", "ask", "weigh"} /\ ~chain.unresolved => nonProgress < MaxNonProgress
  /\ at = "conclude" => Earned
  /\ IF Concluded
     THEN /\ Earned /\ verdict.code = Diagnosis.code
          /\ verdict.confidence = Diagnosis.confidence /\ verdict.cites = Diagnosis.cites
     ELSE verdict.cites \subseteq DOMAIN evidence

-----------------------------------------------------------------------------
(* Plans. *)

\* What the providers wrap: the legal steps, in their order unless a model has
\* ordered them.
WrapsLegal(p, b) ==
  /\ b \in Seq(PlainSteps) /\ Distinct(b) /\ ToSet(b) = ToSet(BaselinePlan(incident))
  /\ chain.model = "deterministic" => b = BaselinePlan(incident)
  /\ p = WrappedPlan(chain, incident, b)

LEMMA FullPlansWrap ==
  ASSUME incident \in Incidents
  PROVE  \A p \in FullPlans : \E b : WrapsLegal(p, b)
<1> DEFINE base == BaselinePlan(incident)
<1> DEFINE answers == Permuted(base) \cup {Tail(base)}
<1>1. base \in Seq(PlainSteps) /\ Distinct(base) /\ base # <<>>
  BY BaselineSound
<1>2. \A answer \in answers : answer \in Seq(Steps)
  <2> SUFFICES ASSUME NEW answer \in answers
               PROVE  answer \in Seq(Steps)
    OBVIOUS
  <2> HIDE DEF base
  <2>1. base \in Seq(Steps) /\ Len(base) \in Nat /\ DOMAIN base = 1 .. Len(base)
    <3>1. base \in Seq(PlainSteps)
      BY <1>1
    <3> QED
      BY <3>1, PlainAreSteps, SMTT(30)
  <2>2. CASE answer \in Permuted(base)
    <3>1. PICK p \in [DOMAIN base -> DOMAIN base] : answer = [i \in DOMAIN base |-> base[p[i]]]
      BY <2>2, SMTT(30) DEF Permuted
    <3>2. answer \in [1 .. Len(base) -> Steps]
      <4>1. \A i \in DOMAIN base : base[i] \in Steps
        BY <2>1
      <4>2. \A i \in DOMAIN base : base[p[i]] \in Steps
        BY <4>1
      <4> QED
        BY <2>1, <3>1, <4>2
    <3> QED
      BY <2>1, <3>2, FunctionIsSequence
  <2>3. CASE answer = Tail(base)
    BY <1>1, <2>1, <2>3, HeadTailProperties
  <2> QED
    BY <2>2, <2>3
<1>3. ASSUME NEW p \in FullPlans
      PROVE  \E b : WrapsLegal(p, b)
  <2>1. CASE chain.model = "deterministic"
    <3>1. p = WrappedPlan(chain, incident, base)
      BY <2>1 DEF FullPlans, Wrapped
    <3>2. WrapsLegal(p, base)
      BY <1>1, <3>1 DEF WrapsLegal
    <3> QED
      BY <3>2
  <2>2. CASE chain.model # "deterministic"
    <3>1. \E b \in UNION {OllamaPlan(incident, a) : a \in answers} : p = Wrapped(b)
      BY <2>2 DEF FullPlans
    <3> HIDE DEF answers
    <3>2. PICK a \in answers : \E b \in OllamaPlan(incident, a) : p = Wrapped(b)
      BY <3>1
    <3>3. PICK b \in OllamaPlan(incident, a) : p = Wrapped(b)
      BY <3>2
    <3>4. b \in Seq(PlainSteps) /\ Distinct(b) /\ ToSet(b) = ToSet(BaselinePlan(incident))
      BY <1>2, OllamaSound
    <3>5. WrapsLegal(p, b)
      BY <2>2, <3>3, <3>4 DEF WrapsLegal, Wrapped
    <3> QED
      BY <3>5
  <2> QED
    BY <2>1, <2>2
<1> QED
  BY <1>3

\* Every plan the chain can make asks no question twice; all are of one length.
LEMMA FullPlansSound ==
  ASSUME incident \in Incidents, chain.cap \in Nat
  PROVE  \A p, q \in FullPlans : p \in Seq(Steps) /\ Distinct(p) /\ Len(p) = Len(q)
<1> SUFFICES ASSUME NEW p \in FullPlans, NEW q \in FullPlans
             PROVE  p \in Seq(Steps) /\ Distinct(p) /\ Len(p) = Len(q)
  OBVIOUS
<1>1. PICK b : WrapsLegal(p, b)
  BY FullPlansWrap
<1>2. PICK c : WrapsLegal(q, c)
  BY FullPlansWrap
<1>3. /\ b \in Seq(PlainSteps) /\ c \in Seq(PlainSteps) /\ Distinct(b) /\ Distinct(c)
      /\ ToSet(b) = ToSet(c)
      /\ p = WrappedPlan(chain, incident, b) /\ q = WrappedPlan(chain, incident, c)
  BY <1>1, <1>2 DEF WrapsLegal
<1>4. /\ WrappedPlan(chain, incident, b) \in Seq(Steps)
      /\ Distinct(WrappedPlan(chain, incident, b))
      /\ Len(WrappedPlan(chain, incident, b)) = Len(WrappedPlan(chain, incident, c))
  BY <1>3, WrappedSound
<1> QED
  BY <1>3, <1>4

\* A chain without a model, or with the plan for compound incidents, has one plan.
OnePlan == chain.model = "deterministic" \/ chain.compound

\* Every plan the chain can make asks for all that is needed.
LEMMA FullPlansAsk ==
  ASSUME incident \in Incidents, chain.cap \in Nat
  PROVE  /\ \A p \in FullPlans :
              /\ Core(incident.service) \subseteq Questions(p)
              /\ chain.compound => \A service \in Services : Core(service) \subseteq Questions(p)
              /\ \E service \in Services :
                   ByMetrics(p, service) /\ (~chain.compound => service = incident.service)
              /\ OnePlan => DiskFirst(p)
              /\ chain.compound \/ AtHome(p, incident.service)
         /\ OnePlan => \A p, q \in FullPlans : p = q
<1>1. ASSUME NEW p \in FullPlans
      PROVE  /\ Core(incident.service) \subseteq Questions(p)
             /\ chain.compound => \A service \in Services : Core(service) \subseteq Questions(p)
             /\ \E service \in Services :
                  ByMetrics(p, service) /\ (~chain.compound => service = incident.service)
             /\ OnePlan => DiskFirst(p)
             /\ chain.compound \/ AtHome(p, incident.service)
  <2>1. PICK b : WrapsLegal(p, b)
    BY FullPlansWrap
  <2>2. /\ b \in Seq(PlainSteps) /\ Distinct(b) /\ ToSet(b) = ToSet(BaselinePlan(incident))
        /\ p = WrappedPlan(chain, incident, b)
    BY <2>1 DEF WrapsLegal
  <2>3. /\ Core(incident.service) \subseteq Questions(p)
        /\ chain.compound => \A service \in Services : Core(service) \subseteq Questions(p)
        /\ \E service \in Services :
             ByMetrics(p, service) /\ (~chain.compound => service = incident.service)
        /\ chain.compound \/ b = BaselinePlan(incident) => DiskFirst(p)
        /\ chain.compound \/ AtHome(p, incident.service)
    BY <2>2, WrappedAsks
  <2>4. OnePlan => chain.compound \/ b = BaselinePlan(incident)
    BY <2>1 DEF WrapsLegal, OnePlan
  <2> QED
    BY <2>3, <2>4
<1>2. ASSUME OnePlan, NEW p \in FullPlans, NEW q \in FullPlans
      PROVE  p = q
  <2>1. PICK b : WrapsLegal(p, b)
    BY FullPlansWrap
  <2>2. PICK c : WrapsLegal(q, c)
    BY FullPlansWrap
  <2> QED
    BY <1>2, <2>1, <2>2 DEF OnePlan, WrapsLegal, WrappedPlan, When
<1> QED
  BY <1>1, <1>2

\* What is asked does not depend on the id of the step.
LEMMA InvocationAsks ==
  ASSUME NEW s \in Steps, NEW t \in Steps
  PROVE  /\ Invocation(s) \in Steps
         /\ Invocation(s) = Invocation(t) => Question(s) = Question(t)
<1>1. "call" \in Ids
  BY DEF Ids
<1>2. \A u \in Steps : /\ [u EXCEPT !.id = "call"] \in Steps
                       /\ Question([u EXCEPT !.id = "call"]) = Question(u)
  BY <1>1 DEF Steps, Question
<1> QED
  BY <1>2 DEF Invocation

-----------------------------------------------------------------------------
(* Calls. *)

\* There is no end of symptoms: the misses are counted.
LEMMA SymptomsCounted ==
  ASSUME NEW w, NEW step
  PROVE  \A saw \in SUBSET Visible(w, step) :
           /\ saw \subseteq Shown
           /\ Cardinality(Symptoms(w.active, step) \ saw) \in Nat
           /\ Cardinality(Symptoms(w.active, step) \ saw) = 0 => Symptoms(w.active, step) \subseteq saw
<1>1. IsFiniteSet(Shown)
  <2> DEFINE a == {"many_queries"}
  <2> DEFINE b == a \cup {"connections"}
  <2> DEFINE c == b \cup {"503"}
  <2> DEFINE d == c \cup {"full"}
  <2> DEFINE e == d \cup {"memory"}
  <2> DEFINE f == e \cup {"restart"}
  <2> DEFINE g == f \cup {"507"}
  <2> DEFINE h == g \cup {"401"}
  <2>1. Shown = h \cup {"502"}
    BY DEF Shown
  <2>2. IsFiniteSet(a)
    BY FS_Singleton
  <2> HIDE DEF a, b, c, d, e, f, g, h
  <2>3. IsFiniteSet(b)
    BY <2>2, FS_AddElement DEF b
  <2>4. IsFiniteSet(c)
    BY <2>3, FS_AddElement DEF c
  <2>5. IsFiniteSet(d)
    BY <2>4, FS_AddElement DEF d
  <2>6. IsFiniteSet(e)
    BY <2>5, FS_AddElement DEF e
  <2>7. IsFiniteSet(f)
    BY <2>6, FS_AddElement DEF f
  <2>8. IsFiniteSet(g)
    BY <2>7, FS_AddElement DEF g
  <2>9. IsFiniteSet(h)
    BY <2>8, FS_AddElement DEF h
  <2> QED
    BY <2>1, <2>9, FS_AddElement
<1>2. \A faults : Symptoms(faults, step) \subseteq Shown
  BY DEF Symptoms, Upstream, Shown
<1>3. Visible(w, step) \subseteq Shown
  BY <1>2 DEF Visible, Remains
<1>4. ASSUME NEW saw \in SUBSET Visible(w, step)
      PROVE  /\ saw \subseteq Shown /\ Cardinality(Symptoms(w.active, step) \ saw) \in Nat
             /\ Cardinality(Symptoms(w.active, step) \ saw) = 0 => Symptoms(w.active, step) \subseteq saw
  <2> DEFINE missing == Symptoms(w.active, step) \ saw
  <2>1. missing \in SUBSET Shown
    BY <1>2
  <2>2. missing = {} => Symptoms(w.active, step) \subseteq saw
    OBVIOUS
  <2> HIDE DEF missing
  <2>3. IsFiniteSet(missing)
    BY <1>1, <2>1, FS_Subset
  <2>4. Cardinality(missing) = 0 => missing = {}
    BY <2>3, FS_EmptySet
  <2>5. Cardinality(missing) \in Nat
    BY <2>3, FS_CardinalityType
  <2>6. Cardinality(missing) = 0 => Symptoms(w.active, step) \subseteq saw
    BY <2>2, <2>4
  <2> QED
    BY <1>3, <2>5, <2>6 DEF missing
<1> QED
  BY <1>4

LEMMA FullPlansStay ==
  ASSUME incident' = incident, chain' = chain
  PROVE  FullPlans' = FullPlans
  BY DEF FullPlans, Wrapped

LEMMA AppendSound ==
  ASSUME NEW S, NEW s \in Seq(S), NEW x \in S
  PROVE  /\ Append(s, x) \in Seq(S) /\ Len(Append(s, x)) = Len(s) + 1
         /\ DOMAIN Append(s, x) = DOMAIN s \cup {Len(s) + 1} /\ Len(s) + 1 \notin DOMAIN s
         /\ \A i \in DOMAIN s : Append(s, x)[i] = s[i]
         /\ Append(s, x)[Len(s) + 1] = x
<1> DEFINE t == Append(s, x)
<1>1. Len(s) \in Nat /\ DOMAIN s = 1 .. Len(s)
  OBVIOUS
<1>2. t \in Seq(S) /\ Len(t) = Len(s) + 1
  BY AppendProperties
<1>3. (\A i \in 1 .. Len(s) : t[i] = s[i]) /\ t[Len(s) + 1] = x
  BY AppendProperties
<1> HIDE DEF t
<1>4. DOMAIN t = 1 .. Len(s) + 1
  BY <1>2, LenProperties
<1>5. DOMAIN t = DOMAIN s \cup {Len(s) + 1} /\ Len(s) + 1 \notin DOMAIN s
  BY <1>1, <1>4
<1> QED
  BY <1>1, <1>2, <1>3, <1>5 DEF t

\* The plan a run asks from.
LEMMA PlanSound ==
  ASSUME Calling
  PROVE  /\ \A p \in FullPlans : p \in Seq(Steps) /\ Distinct(p)
         /\ \A p, q \in FullPlans : DOMAIN p = DOMAIN q
         /\ at \notin {"plan", "ended"} => plan \in FullPlans
         /\ plan \in Seq(Steps) /\ Distinct(plan)
<1>1. \A p, q \in FullPlans : p \in Seq(Steps) /\ Distinct(p) /\ Len(p) = Len(q)
  BY FullPlansSound DEF Calling
<1>2. \A p, q \in FullPlans : DOMAIN p = DOMAIN q
  <2>1. \A p \in FullPlans : DOMAIN p = 1 .. Len(p)
    BY <1>1
  <2> QED
    BY <1>1, <2>1
<1>3. plan \in FullPlans \/ (plan = <<>> /\ at \in {"plan", "ended"})
  BY DEF Calling
<1>4. CASE plan = <<>>
  <2>1. plan \in Seq(Steps) /\ DOMAIN plan = {}
    BY <1>4
  <2>2. Distinct(plan)
    BY <2>1 DEF Distinct
  <2> QED
    BY <1>1, <1>2, <1>3, <2>1, <2>2
<1>5. CASE plan # <<>>
  BY <1>1, <1>2, <1>3, <1>5
<1> QED
  BY <1>4, <1>5

\* A step that is open has not been asked.
LEMMA OpenIsNew ==
  ASSUME Calling, at = "ask", NEW p \in FullPlans,
         chain.architecture # "reactive_react" => p = plan,
         NEW next \in Open(p)
  PROVE  /\ next \in DOMAIN p /\ p[next] \in Steps /\ Invocation(p[next]) \in Steps
         /\ \A i \in DOMAIN history : history[i].call # Invocation(p[next])
<1>1. p \in Seq(Steps) /\ Distinct(p) /\ next \in DOMAIN p
  BY PlanSound DEF Open
<1>2. \A i \in DOMAIN p : p[i] \in Steps
  BY <1>1
<1>3. p[next] \in Steps /\ Invocation(p[next]) \in Steps
  BY <1>1, <1>2, InvocationAsks
<1>4. CASE chain.architecture = "reactive_react"
  <2>1. Invocation(p[next]) \notin Observed
    BY <1>4 DEF Open
  <2> QED
    BY <1>1, <1>3, <2>1 DEF Observed
<1>5. CASE chain.architecture # "reactive_react"
  <2>1. next \notin done /\ p = plan /\ done \subseteq DOMAIN plan
    BY <1>5 DEF Open, Calling
  <2>2. ASSUME NEW i \in DOMAIN history
        PROVE  history[i].call # Invocation(p[next])
    <3>1. PICK j \in done : history[i].call = Invocation(plan[j])
      BY <1>5 DEF Calling
    <3>2. j \in DOMAIN p /\ j # next /\ p[j] \in Steps
      BY <1>2, <2>1
    <3>3. Question(p[j]) # Question(p[next])
      BY <1>1, <3>2 DEF Distinct
    <3>4. Invocation(p[j]) # Invocation(p[next])
      BY <1>3, <3>2, <3>3, InvocationAsks
    <3> QED
      BY <2>1, <3>1, <3>4
  <2> QED
    BY <1>1, <1>3, <2>2
<1> QED
  BY <1>4, <1>5

\* What a call adds to the history and to the evidence.
LEMMA CallRecords ==
  ASSUME Calling, NEW p, NEW next, p[next] \in Steps, Call(p, next)
  PROVE  \E answered \in BOOLEAN, saw \in SUBSET Visible(world, p[next]), times \in SUBSET Nat :
           /\ [call |-> Invocation(p[next]), answered |-> answered] \in Calls
           /\ [step |-> p[next], saw |-> saw, times |-> times] \in Findings
           /\ history' = Append(history, [call |-> Invocation(p[next]), answered |-> answered])
           /\ evidence' = IF answered
                          THEN Append(evidence, [step |-> p[next], saw |-> saw, times |-> times])
                          ELSE evidence
           /\ misses' \in 0 .. MaxMisses
           /\ misses' = 0 => misses = 0 /\ answered /\ Symptoms(world.active, p[next]) \subseteq saw
<1>1. PICK answered \in BOOLEAN, saw \in SUBSET Visible(world, p[next]) :
        \E times \in RecordTimes(p[next], saw) :
          /\ misses' = misses + (IF answered THEN Cardinality(Symptoms(world.active, p[next]) \ saw) ELSE 1)
          /\ misses' <= MaxMisses
          /\ history' = Append(history, [call |-> Invocation(p[next]), answered |-> answered])
          /\ evidence' = IF answered
                         THEN Append(evidence, [step |-> p[next], saw |-> saw, times |-> times])
                         ELSE evidence
  BY DEF Call, Visible
<1>2. PICK times \in RecordTimes(p[next], saw) :
        /\ misses' = misses + (IF answered THEN Cardinality(Symptoms(world.active, p[next]) \ saw) ELSE 1)
        /\ misses' <= MaxMisses
        /\ history' = Append(history, [call |-> Invocation(p[next]), answered |-> answered])
        /\ evidence' = IF answered
                       THEN Append(evidence, [step |-> p[next], saw |-> saw, times |-> times])
                       ELSE evidence
  BY <1>1
<1>3. times \in SUBSET Nat
  BY DEF RecordTimes
<1>4. /\ saw \subseteq Shown /\ Cardinality(Symptoms(world.active, p[next]) \ saw) \in Nat
      /\ Cardinality(Symptoms(world.active, p[next]) \ saw) = 0 => Symptoms(world.active, p[next]) \subseteq saw
  BY SymptomsCounted
<1>5. /\ misses' \in 0 .. MaxMisses
      /\ misses' = 0 => misses = 0 /\ answered /\ Symptoms(world.active, p[next]) \subseteq saw
  <2>1. misses \in Nat /\ MaxMisses \in Nat
    BY ReasoningAssumption DEF Calling
  <2> DEFINE c == Cardinality(Symptoms(world.active, p[next]) \ saw)
  <2>2. misses' = misses + (IF answered THEN c ELSE 1) /\ misses' <= MaxMisses /\ c \in Nat
    BY <1>2, <1>4
  <2>3. c = 0 => Symptoms(world.active, p[next]) \subseteq saw
    BY <1>4
  <2> HIDE DEF c
  <2> QED
    BY <2>1, <2>2, <2>3
<1>6. Invocation(p[next]) \in Steps
  BY InvocationAsks
<1>7. [call |-> Invocation(p[next]), answered |-> answered] \in Calls
  BY <1>6 DEF Calls
<1>8. [step |-> p[next], saw |-> saw, times |-> times] \in Findings
  BY <1>3, <1>4 DEF Findings
<1> QED
  BY <1>2, <1>3, <1>5, <1>7, <1>8

\* A call that has not been made, and what comes of it.
LEMMA CallKept ==
  ASSUME Calling, at = "ask", NEW p \in FullPlans,
         chain.architecture # "reactive_react" => p = plan,
         NEW next \in Open(p), Call(p, next), plan' = p, done' = done \cup {next},
         at' = "weigh", UNCHANGED <<incident, chain, world>>
  PROVE  Calling'
<1>1. /\ next \in DOMAIN p /\ p[next] \in Steps /\ Invocation(p[next]) \in Steps
      /\ \A i \in DOMAIN history : history[i].call # Invocation(p[next])
  BY OpenIsNew
<1> DEFINE asked == Invocation(p[next])
<1>2. PICK answered \in BOOLEAN, saw \in SUBSET Visible(world, p[next]), times \in SUBSET Nat :
        /\ [call |-> asked, answered |-> answered] \in Calls
        /\ [step |-> p[next], saw |-> saw, times |-> times] \in Findings
        /\ history' = Append(history, [call |-> asked, answered |-> answered])
        /\ evidence' = IF answered
                       THEN Append(evidence, [step |-> p[next], saw |-> saw, times |-> times])
                       ELSE evidence
        /\ misses' \in 0 .. MaxMisses
  BY <1>1, CallRecords
<1> DEFINE call == [call |-> asked, answered |-> answered]
<1> DEFINE found == [step |-> p[next], saw |-> saw, times |-> times]
<1>3. history \in Seq(Calls) /\ evidence \in Seq(Findings) /\ Len(evidence) <= Len(history)
  BY DEF Calling
<1>4. call.call = asked /\ found.step = p[next] /\ found.saw = saw
  OBVIOUS
<1>5. call \in Calls /\ found \in Findings /\ history' = Append(history, call)
      /\ evidence' = IF answered THEN Append(evidence, found) ELSE evidence
  BY <1>2
<1> HIDE DEF call, found, asked
<1> DEFINE n == Len(history) + 1
<1>6. /\ history' \in Seq(Calls) /\ Len(history') = n
      /\ DOMAIN history' = DOMAIN history \cup {n} /\ n \notin DOMAIN history
      /\ (\A i \in DOMAIN history : history'[i] = history[i]) /\ history'[n] = call
  BY <1>3, <1>5, AppendSound
<1> DEFINE m == Len(evidence) + 1
<1>7. \/ evidence' = evidence
      \/ /\ evidence' \in Seq(Findings) /\ Len(evidence') = m
         /\ DOMAIN evidence' = DOMAIN evidence \cup {m} /\ m \notin DOMAIN evidence
         /\ (\A i \in DOMAIN evidence : evidence'[i] = evidence[i]) /\ evidence'[m] = found
  BY <1>3, <1>5, AppendSound
<1>8. evidence' \in Seq(Findings) /\ Len(evidence') <= Len(history')
  <2>1. Len(history) \in Nat /\ Len(evidence) \in Nat
    BY <1>3, LenProperties
  <2>2. Len(evidence') = Len(evidence) \/ Len(evidence') = Len(evidence) + 1
    BY <1>7
  <2>3. evidence' \in Seq(Findings)
    BY <1>3, <1>7
  <2>4. Len(history') = Len(history) + 1
    BY <1>6
  <2> QED
    BY <1>3, <2>1, <2>2, <2>3, <2>4
<1> HIDE DEF n, m
<1>9. \A i, j \in DOMAIN history' : i # j => history'[i].call # history'[j].call
  <2>1. \A i, j \in DOMAIN history : i # j => history[i].call # history[j].call
    BY DEF Calling
  <2> QED
    BY <1>1, <1>4, <1>6, <2>1 DEF asked
<1>10. DOMAIN plan' = DOMAIN plan /\ plan' \in FullPlans'
  <2>1. plan \in FullPlans /\ \A q, r \in FullPlans : DOMAIN q = DOMAIN r
    BY PlanSound
  <2>2. FullPlans' = FullPlans
    BY FullPlansStay
  <2> QED
    BY <2>1, <2>2
<1>11. done' \subseteq DOMAIN plan'
  BY <1>1, <1>10 DEF Calling
<1>12. chain'.architecture # "reactive_react" =>
         \A i \in DOMAIN history' : \E j \in done' : history'[i].call = Invocation(plan'[j])
  <2> SUFFICES ASSUME chain.architecture # "reactive_react", NEW i \in DOMAIN history'
               PROVE  \E j \in done' : history'[i].call = Invocation(plan'[j])
    OBVIOUS
  <2>1. CASE i \in DOMAIN history
    <3>1. PICK j \in done : history[i].call = Invocation(plan[j])
      BY <2>1 DEF Calling
    <3> QED
      BY <1>6, <2>1, <3>1
  <2>2. CASE i = n
    BY <1>4, <1>6, <2>2 DEF asked
  <2> QED
    BY <1>6, <2>1, <2>2
<1>13. \A i \in DOMAIN evidence' :
         /\ evidence'[i].saw \subseteq Visible(world, evidence'[i].step)
         /\ \E k \in DOMAIN history' : history'[k].call = Invocation(evidence'[i].step)
  <2> SUFFICES ASSUME NEW i \in DOMAIN evidence'
               PROVE  /\ evidence'[i].saw \subseteq Visible(world, evidence'[i].step)
                      /\ \E k \in DOMAIN history' : history'[k].call = Invocation(evidence'[i].step)
    OBVIOUS
  <2>1. CASE i \in DOMAIN evidence /\ evidence'[i] = evidence[i]
    <3>1. /\ evidence[i].saw \subseteq Visible(world, evidence[i].step)
          /\ \E k \in DOMAIN history : history[k].call = Invocation(evidence[i].step)
      BY <2>1 DEF Calling
    <3> QED
      BY <1>6, <2>1, <3>1
  <2>2. CASE evidence'[i] = found
    <3>1. n \in DOMAIN history' /\ history'[n].call = Invocation(found.step)
      BY <1>4, <1>6 DEF asked
    <3> QED
      BY <1>4, <2>2, <3>1
  <2> QED
    BY <1>7, <2>1, <2>2
<1>14. \A i, j \in DOMAIN evidence' :
         i # j => Invocation(evidence'[i].step) # Invocation(evidence'[j].step)
  <2>1. \A i, j \in DOMAIN evidence :
          i # j => Invocation(evidence[i].step) # Invocation(evidence[j].step)
    BY DEF Calling
  <2>2. ASSUME NEW i \in DOMAIN evidence
        PROVE  Invocation(evidence[i].step) # Invocation(found.step)
    <3>1. PICK k \in DOMAIN history : history[k].call = Invocation(evidence[i].step)
      BY DEF Calling
    <3> QED
      BY <1>1, <1>4, <3>1
  <2> QED
    BY <1>7, <2>1, <2>2
<1>15. \A i \in DOMAIN evidence' :
         /\ evidence'[i].saw \subseteq Visible(world', evidence'[i].step)
         /\ \E k \in DOMAIN history' : history'[k].call = Invocation(evidence'[i].step)
  BY <1>13
<1>16. history' # <<>>
  <2>1. n \in DOMAIN history'
    BY <1>6
  <2> QED
    BY <2>1
<1> QED
  BY <1>2, <1>6, <1>8, <1>9, <1>10, <1>11, <1>12, <1>14, <1>15, <1>16 DEF Calling

\* What one call adds to what is asked and found.
LEMMA CallAdds ==
  ASSUME Calling, at = "ask", NEW p \in FullPlans,
         chain.architecture # "reactive_react" => p = plan,
         NEW next \in Open(p), Call(p, next)
  PROVE  \E n \in DOMAIN history' :
           /\ DOMAIN history' = DOMAIN history \cup {n}
           /\ \A k \in DOMAIN history : history'[k] = history[k]
           /\ history'[n].call = Invocation(p[next])
           /\ Observed' = Observed \cup {Invocation(p[next])}
           /\ \A i \in DOMAIN evidence' :
                \/ i \in DOMAIN evidence /\ evidence'[i] = evidence[i]
                \/ evidence'[i].step = p[next]
           /\ misses' = 0 =>
                /\ misses = 0 /\ history'[n].answered
                /\ \E i \in DOMAIN evidence' : /\ evidence'[i].step = p[next]
                                               /\ Symptoms(world.active, p[next]) \subseteq evidence'[i].saw
<1>1. p[next] \in Steps
  BY OpenIsNew
<1> DEFINE asked == Invocation(p[next])
<1>2. PICK answered \in BOOLEAN, saw \in SUBSET Visible(world, p[next]), times \in SUBSET Nat :
        /\ [call |-> asked, answered |-> answered] \in Calls
        /\ [step |-> p[next], saw |-> saw, times |-> times] \in Findings
        /\ history' = Append(history, [call |-> asked, answered |-> answered])
        /\ evidence' = IF answered
                       THEN Append(evidence, [step |-> p[next], saw |-> saw, times |-> times])
                       ELSE evidence
        /\ misses' = 0 => misses = 0 /\ answered /\ Symptoms(world.active, p[next]) \subseteq saw
  BY <1>1, CallRecords
<1> DEFINE call == [call |-> asked, answered |-> answered]
<1> DEFINE found == [step |-> p[next], saw |-> saw, times |-> times]
<1>3. history \in Seq(Calls) /\ evidence \in Seq(Findings)
  BY DEF Calling
<1>4. call.call = asked /\ call.answered = answered /\ found.step = p[next] /\ found.saw = saw
  OBVIOUS
<1>5. /\ call \in Calls /\ found \in Findings /\ history' = Append(history, call)
      /\ evidence' = IF answered THEN Append(evidence, found) ELSE evidence
  BY <1>2
<1> HIDE DEF call, found, asked
<1> DEFINE n == Len(history) + 1
<1>6. /\ DOMAIN history' = DOMAIN history \cup {n}
      /\ \A k \in DOMAIN history : history'[k] = history[k]
      /\ history'[n] = call
  BY <1>3, <1>5, AppendSound
<1> DEFINE m == Len(evidence) + 1
<1>7. \/ ~answered /\ evidence' = evidence
      \/ /\ DOMAIN evidence' = DOMAIN evidence \cup {m}
         /\ \A i \in DOMAIN evidence : evidence'[i] = evidence[i]
         /\ evidence'[m] = found
  BY <1>3, <1>5, AppendSound
<1> HIDE DEF n, m
<1>8. Observed' = Observed \cup {asked}
  <2>1. \A x : x \in Observed' <=> x \in Observed \/ x = asked
    BY <1>4, <1>6 DEF Observed
  <2> QED
    BY <2>1
<1>9. \A i \in DOMAIN evidence' :
        \/ i \in DOMAIN evidence /\ evidence'[i] = evidence[i]
        \/ evidence'[i].step = p[next]
  BY <1>4, <1>7
<1>10. ASSUME misses' = 0
       PROVE  /\ misses = 0 /\ history'[n].answered
              /\ \E i \in DOMAIN evidence' : /\ evidence'[i].step = p[next]
                                             /\ Symptoms(world.active, p[next]) \subseteq evidence'[i].saw
  <2>1. misses = 0 /\ answered /\ Symptoms(world.active, p[next]) \subseteq saw
    BY <1>2, <1>10
  <2>2. m \in DOMAIN evidence' /\ evidence'[m].step = p[next] /\ evidence'[m].saw = saw
    BY <1>4, <1>7, <2>1
  <2> QED
    BY <1>4, <1>6, <2>1, <2>2
<1>11. n \in DOMAIN history' /\ history'[n].call = asked
  BY <1>4, <1>6
<1> QED
  BY <1>6, <1>8, <1>9, <1>10, <1>11 DEF asked

\* A step that asks nothing, though it may plan again.
LEMMA CallingStays ==
  ASSUME Calling, at \in {"ask", "weigh", "conclude"}, at' \in {"ask", "conclude", "ended"},
         plan' \in FullPlans, chain.architecture # "reactive_react" => plan' = plan,
         UNCHANGED <<incident, chain, world, done, history, evidence, misses>>
  PROVE  Calling'
<1>1. FullPlans' = FullPlans
  BY FullPlansStay
<1>2. DOMAIN plan' = DOMAIN plan
  <2>1. plan \in FullPlans /\ \A q, r \in FullPlans : DOMAIN q = DOMAIN r
    BY PlanSound
  <2> QED
    BY <2>1
<1>3. at' # "plan" /\ at' # "weigh" /\ at' \in {"plan", "ask", "weigh", "conclude", "ended"}
  OBVIOUS
<1> QED
  BY <1>1, <1>2, <1>3 DEF Calling

Quiet == UNCHANGED <<done, history, evidence, misses>>

\* What Ask does: the run stops, has nothing left to ask, or asks.
LEMMA AskCases ==
  ASSUME Calling, Ask
  PROVE  \E p \in FullPlans :
           /\ plan' = p /\ (chain.architecture # "reactive_react" => p = plan)
           /\ \/ (Stop("failed") \/ Stop("budget_exhausted")) /\ Quiet
              \/ Open(p) = {} /\ at' = "conclude" /\ Quiet /\ UNCHANGED verdict
              \/ \E next \in Open(p) :
                   /\ \A j \in Open(p) : next <= j
                   /\ Call(p, next) /\ done' = done \cup {next} /\ at' = "weigh" /\ UNCHANGED verdict
<1>1. plan \in FullPlans
  BY PlanSound DEF Ask
<1>2. CASE Stop("failed") /\ UNCHANGED <<plan, done, history, evidence, misses>>
  BY <1>1, <1>2 DEF Quiet
<1>3. ASSUME NEW p \in IF chain.architecture = "reactive_react" THEN FullPlans ELSE {plan},
             plan' = p,
             IF Len(history) >= chain.calls
             THEN Stop("budget_exhausted") /\ UNCHANGED <<done, history, evidence, misses>>
             ELSE IF Open(p) = {}
             THEN at' = "conclude" /\ UNCHANGED <<done, history, evidence, misses, verdict>>
             ELSE LET next == CHOOSE i \in Open(p) : \A j \in Open(p) : i <= j IN
                  /\ Call(p, next)
                  /\ done' = done \cup {next}
                  /\ at' = "weigh" /\ UNCHANGED verdict
      PROVE  \E q \in FullPlans :
               /\ plan' = q /\ (chain.architecture # "reactive_react" => q = plan)
               /\ \/ (Stop("failed") \/ Stop("budget_exhausted")) /\ Quiet
                  \/ Open(q) = {} /\ at' = "conclude" /\ Quiet /\ UNCHANGED verdict
                  \/ \E next \in Open(q) :
                       /\ \A j \in Open(q) : next <= j
                       /\ Call(q, next) /\ done' = done \cup {next} /\ at' = "weigh" /\ UNCHANGED verdict
  <2> DEFINE next == CHOOSE i \in Open(p) : \A j \in Open(p) : i <= j
  <2>1. p \in FullPlans /\ (chain.architecture # "reactive_react" => p = plan)
    BY <1>1, <1>3
  <2>2. \/ Stop("budget_exhausted") /\ Quiet
        \/ Open(p) = {} /\ at' = "conclude" /\ Quiet /\ UNCHANGED verdict
        \/ /\ Open(p) # {} /\ Call(p, next) /\ done' = done \cup {next} /\ at' = "weigh"
           /\ UNCHANGED verdict
    BY <1>3 DEF Quiet
  <2>3. Open(p) # {} => next \in Open(p) /\ \A j \in Open(p) : next <= j
    <3>1. \A i \in Open(p) : i \in Nat
      <4>1. p \in Seq(Steps)
        BY <2>1, PlanSound
      <4> QED
        BY <4>1 DEF Open
    <3>2. Open(p) \in SUBSET Nat
      BY <3>1
    <3>3. Open(p) # {} => \E i \in Open(p) : \A j \in Open(p) : i <= j
      BY <3>2, LeastNumber
    <3> QED
      BY <3>3
  <2> HIDE DEF next
  <2>4. p \in FullPlans
    BY <2>1
  <2> USE <2>4
  <2> WITNESS p \in FullPlans
  <2> QED
    BY <1>3, <2>1, <2>2, <2>3
<1> QED
  BY <1>2, <1>3 DEF Ask

\* No question is asked again, and evidence shows what is there.
THEOREM CallingInvariance == Spec => []Calling
<1>1. Init => Calling
  <2> SUFFICES ASSUME Init
               PROVE  Calling
    OBVIOUS
  <2>1. PICK c \in Cases : incident = c.incident /\ chain = c.chain
    BY DEF Init
  <2>2. /\ incident \in Incidents /\ chain.cap \in Nat /\ chain.calls \in Nat /\ MaxMisses \in Nat
        /\ world \in WorldType
    BY <2>1, ReasoningAssumption DEF Init
  <2>3. /\ plan = <<>> /\ done = {} /\ history = <<>> /\ evidence = <<>> /\ at = "plan"
        /\ misses = 0
    BY DEF Init
  <2>4. /\ history \in Seq(Calls) /\ evidence \in Seq(Findings) /\ Len(evidence) <= Len(history)
        /\ DOMAIN history = {} /\ DOMAIN evidence = {}
    BY <2>3
  <2> QED
    BY <2>2, <2>3, <2>4 DEF Calling
<1>2. Calling /\ [Next]_vars => Calling'
  <2> SUFFICES ASSUME Calling, [Next]_vars
               PROVE  Calling'
    OBVIOUS
  <2>1. CASE MakePlan
    <3>1. /\ at = "plan" /\ plan = <<>> /\ done = {} /\ history = <<>>
          /\ UNCHANGED <<incident, chain, world, done, history, evidence, misses>>
      BY <2>1 DEF MakePlan, Calling
    <3>2. FullPlans' = FullPlans
      BY <3>1, FullPlansStay
    <3>3. \/ plan' \in FullPlans /\ at' = "ask"
          \/ plan' = plan /\ at' = "ended"
      BY <2>1 DEF MakePlan
    <3>4. at' # "weigh" /\ DOMAIN history = {}
      BY <3>1, <3>3
    <3> QED
      BY <3>1, <3>2, <3>3, <3>4 DEF Calling
  <2>2. CASE Ask
    <3>1. at = "ask" /\ UNCHANGED <<incident, chain, world>>
      BY <2>2 DEF Ask
    <3>2. PICK p \in FullPlans :
            /\ plan' = p /\ (chain.architecture # "reactive_react" => p = plan)
            /\ \/ (Stop("failed") \/ Stop("budget_exhausted")) /\ Quiet
               \/ Open(p) = {} /\ at' = "conclude" /\ Quiet /\ UNCHANGED verdict
               \/ \E next \in Open(p) :
                    /\ \A j \in Open(p) : next <= j
                    /\ Call(p, next) /\ done' = done \cup {next} /\ at' = "weigh" /\ UNCHANGED verdict
      BY <2>2, AskCases
    <3>3. \/ at' \in {"ended", "conclude"} /\ Quiet
          \/ \E next \in Open(p) : Call(p, next) /\ done' = done \cup {next} /\ at' = "weigh"
      BY <3>2 DEF Stop
    <3>4. CASE at' \in {"ended", "conclude"} /\ Quiet
      BY <3>1, <3>2, <3>4, CallingStays DEF Quiet
    <3>5. ASSUME NEW next \in Open(p), Call(p, next), done' = done \cup {next}, at' = "weigh"
          PROVE  Calling'
      BY <3>1, <3>2, <3>5, CallKept
    <3> QED
      BY <3>3, <3>4, <3>5
  <2>3. CASE Weigh
    <3>1. /\ at = "weigh" /\ at' \in {"conclude", "ask"}
          /\ UNCHANGED <<incident, chain, world, plan, done, history, evidence, misses>>
      BY <2>3 DEF Weigh
    <3>2. plan \in FullPlans
      BY <3>1, PlanSound
    <3> QED
      BY <3>1, <3>2, CallingStays
  <2>4. CASE Conclude
    <3>1. /\ at = "conclude" /\ at' = "ended"
          /\ UNCHANGED <<incident, chain, world, plan, done, history, evidence, misses>>
      BY <2>4 DEF Conclude
    <3>2. plan \in FullPlans
      BY <3>1, PlanSound
    <3> QED
      BY <3>1, <3>2, CallingStays
  <2>5. CASE UNCHANGED vars
    <3>1. UNCHANGED <<incident, chain, world, plan, done, history, evidence, at, misses>>
      BY <2>5 DEF vars
    <3>2. FullPlans' = FullPlans
      BY <3>1, FullPlansStay
    <3> QED
      BY <3>1, <3>2 DEF Calling
  <2> QED
    BY <2>1, <2>2, <2>3, <2>4, <2>5 DEF Next
<1> QED
  BY <1>1, <1>2, PTL DEF Spec

\* No call is made twice.
THEOREM NothingIsAskedTwice == Spec => []NothingAskedTwice
<1>1. Calling => NothingAskedTwice
  <2> SUFFICES ASSUME Calling
               PROVE  Cardinality(Observed) = Len(history)
    BY DEF NothingAskedTwice
  <2>1. /\ Len(history) \in Nat /\ DOMAIN history = 1 .. Len(history)
        /\ \A i, j \in DOMAIN history : i # j => history[i].call # history[j].call
    BY LenProperties DEF Calling
  <2> DEFINE f == [i \in DOMAIN history |-> history[i].call]
  <2>2. f \in [DOMAIN history -> Observed] /\ \A i \in DOMAIN history : f[i] = history[i].call
    BY DEF Observed
  <2>3. \A x \in Observed : \E i \in DOMAIN history : f[i] = x
    BY DEF Observed
  <2> HIDE DEF f
  <2>4. \A i, j \in DOMAIN history : f[i] = f[j] => i = j
    BY <2>1, <2>2
  <2>5. f \in Bijection(DOMAIN history, Observed)
    BY <2>2, <2>3, <2>4 DEF Bijection, Injection, Surjection, IsInjective
  <2>6. IsFiniteSet(DOMAIN history) /\ Cardinality(DOMAIN history) = Len(history)
    <3>1. \A n \in Nat : IsFiniteSet(1 .. n) /\ Cardinality(1 .. n) = n
      BY FS_Interval
    <3> QED
      BY <2>1, <3>1
  <2>7. Cardinality(Observed) = Cardinality(DOMAIN history)
    <3>1. ExistsBijection(DOMAIN history, Observed)
      BY <2>5 DEF ExistsBijection
    <3> QED
      BY <2>6, <3>1, FS_Bijection
  <2> QED
    BY <2>6, <2>7
<1> QED
  BY <1>1, CallingInvariance, PTL

-----------------------------------------------------------------------------
(* Hypotheses. *)

MaybeOne(condition, h) == IF condition THEN <<h>> ELSE <<>>

\* The hypotheses so far are about some of the causes.
SoFar(held, codes, found, there) ==
  Founded(held, found, there) /\ \A i \in DOMAIN held : held[i].code \in codes

LEMMA FirstFounded ==
  ASSUME NEW condition, NEW h, NEW found, NEW there,
         condition => h \in Hypotheses /\ Grounded(h, found, there)
  PROVE  SoFar(MaybeOne(condition, h), {h.code}, found, there)
<1> DEFINE one == MaybeOne(condition, h)
<1>1. CASE condition
  <2>1. one = <<h>>
    BY <1>1 DEF MaybeOne
  <2>2. <<h>> \in Seq(Hypotheses) /\ DOMAIN <<h>> = {1} /\ <<h>>[1] = h
    BY <1>1
  <2>3. one \in Seq(Hypotheses) /\ DOMAIN one = {1} /\ one[1] = h
    BY <2>1, <2>2
  <2> HIDE DEF one
  <2>4. SoFar(one, {h.code}, found, there)
    BY <1>1, <2>3 DEF SoFar, Founded, OneEach
  <2> QED
    BY <2>4 DEF one
<1>2. CASE ~condition
  <2>1. one = <<>>
    BY <1>2 DEF MaybeOne
  <2>2. <<>> \in Seq(Hypotheses) /\ DOMAIN <<>> = {}
    OBVIOUS
  <2>3. one \in Seq(Hypotheses) /\ DOMAIN one = {}
    BY <2>1, <2>2
  <2> HIDE DEF one
  <2>4. SoFar(one, {h.code}, found, there)
    BY <2>3 DEF SoFar, Founded, OneEach
  <2> QED
    BY <2>4 DEF one
<1> QED
  BY <1>1, <1>2

Apart(s, t) == \A i \in DOMAIN s, j \in DOMAIN t : s[i].code # t[j].code

Parts(all, s, t) ==
  \A k \in DOMAIN all : (\E i \in DOMAIN s : all[k] = s[i]) \/ (\E j \in DOMAIN t : all[k] = t[j])

\* Founded hypotheses put behind others, about other causes.
LEMMA FoundedTogether ==
  ASSUME NEW s, NEW t, NEW found, NEW there, Founded(s, found, there), Founded(t, found, there),
         Apart(s, t)
  PROVE  Founded(s \o t, found, there) /\ Parts(s \o t, s, t)
<1> DEFINE all == s \o t
<1>1. /\ s \in Seq(Hypotheses) /\ t \in Seq(Hypotheses) /\ OneEach(s) /\ OneEach(t)
      /\ \A i \in DOMAIN s : Grounded(s[i], found, there)
      /\ \A i \in DOMAIN t : Grounded(t[i], found, there)
  BY DEF Founded
<1>2. /\ Len(s) \in Nat /\ DOMAIN s = 1 .. Len(s) /\ Len(t) \in Nat /\ DOMAIN t = 1 .. Len(t)
  BY <1>1, LenProperties
<1>3. all \in Seq(Hypotheses) /\ Len(all) = Len(s) + Len(t)
  <2>1. s \in Seq(Hypotheses) /\ t \in Seq(Hypotheses)
    BY <1>1
  <2> QED
    BY <2>1, ConcatProperties
<1>4. \A i \in 1 .. Len(s) + Len(t) : all[i] = IF i <= Len(s) THEN s[i] ELSE t[i - Len(s)]
  BY <1>1, ConcatProperties
<1> HIDE DEF all
<1>5. DOMAIN all = 1 .. Len(s) + Len(t)
  BY <1>3, LenProperties
<1>6. \A i \in DOMAIN all : \/ i \in DOMAIN s /\ all[i] = s[i]
                            \/ i - Len(s) \in DOMAIN t /\ all[i] = t[i - Len(s)]
  BY <1>2, <1>4, <1>5
<1>7. \A i, j \in DOMAIN all : i # j => i - Len(s) # j - Len(s)
  BY <1>2, <1>5
<1>8. OneEach(all)
  <2> SUFFICES ASSUME NEW i \in DOMAIN all, NEW j \in DOMAIN all, i # j
               PROVE  all[i].code # all[j].code
    BY DEF OneEach
  <2>1. CASE i \in DOMAIN s /\ all[i] = s[i] /\ j \in DOMAIN s /\ all[j] = s[j]
    BY <1>1, <2>1 DEF OneEach
  <2>2. CASE /\ i - Len(s) \in DOMAIN t /\ all[i] = t[i - Len(s)]
             /\ j - Len(s) \in DOMAIN t /\ all[j] = t[j - Len(s)]
    BY <1>1, <1>7, <2>2 DEF OneEach
  <2>3. CASE i \in DOMAIN s /\ all[i] = s[i] /\ j - Len(s) \in DOMAIN t /\ all[j] = t[j - Len(s)]
    BY <2>3 DEF Apart
  <2>4. CASE j \in DOMAIN s /\ all[j] = s[j] /\ i - Len(s) \in DOMAIN t /\ all[i] = t[i - Len(s)]
    BY <2>4 DEF Apart
  <2> QED
    BY <1>6, <2>1, <2>2, <2>3, <2>4
<1>9. \A k \in DOMAIN all : \/ \E i \in DOMAIN s : all[k] = s[i]
                            \/ \E j \in DOMAIN t : all[k] = t[j]
  BY <1>6
<1>10. \A i \in DOMAIN all : Grounded(all[i], found, there)
  BY <1>1, <1>9
<1>11. Founded(all, found, there)
  BY <1>3, <1>8, <1>10 DEF Founded
<1>12. Parts(all, s, t)
  BY <1>9 DEF Parts
<1> QED
  BY <1>11, <1>12 DEF all

LEMMA NextFounded ==
  ASSUME NEW s, NEW codes, NEW condition, NEW h, NEW found, NEW there,
         SoFar(s, codes, found, there), h.code \notin codes,
         condition => h \in Hypotheses /\ Grounded(h, found, there)
  PROVE  SoFar(s \o MaybeOne(condition, h), codes \cup {h.code}, found, there)
<1> DEFINE one == MaybeOne(condition, h)
<1>1. SoFar(one, {h.code}, found, there)
  BY FirstFounded
<1> HIDE DEF one
<1>2. Founded(s, found, there) /\ Founded(one, found, there)
  BY <1>1 DEF SoFar
<1>3. (\A i \in DOMAIN s : s[i].code \in codes) /\ \A i \in DOMAIN one : one[i].code = h.code
  BY <1>1 DEF SoFar
<1>4. Apart(s, one)
  BY <1>3 DEF Apart
<1>5. Founded(s \o one, found, there) /\ Parts(s \o one, s, one)
  BY <1>2, <1>4, FoundedTogether
<1>6. SoFar(s \o one, codes \cup {h.code}, found, there)
  BY <1>3, <1>5 DEF SoFar, Parts
<1> QED
  BY <1>6 DEF one

\* A cause at a service is a fault there.
LEMMA CausesAreFaults ==
  ASSUME NEW faults \in SUBSET Faults, NEW service, NEW c \in CausesAt(faults, service)
  PROVE  [cause |-> c, service |-> service] \in faults /\ c \in Causes
<1>1. PICK f \in faults : f.service = service /\ f.cause = c
  BY DEF CausesAt
<1>2. f \in [cause: Causes, service: Services]
  BY DEF Faults
<1>3. f = [cause |-> c, service |-> service]
  BY <1>1, <1>2
<1> QED
  BY <1>1, <1>2, <1>3

\* What the symptoms say about the causes.
LEMMA SymptomsMean ==
  ASSUME NEW faults, NEW step
  PROVE  /\ step.about = "db_query_count" /\ "many_queries" \in Symptoms(faults, step)
              => "n_plus_one_query" \in CausesAt(faults, step.service)
         /\ step.about = "db_connections" /\ "connections" \in Symptoms(faults, step)
              => "database_connection_leak" \in CausesAt(faults, step.service)
         /\ step.about = "disk_usage" /\ "full" \in Symptoms(faults, step)
              => "disk_exhaustion" \in CausesAt(faults, step.service)
         /\ step.about = "container_restarts" /\ "restart" \in Symptoms(faults, step)
              => "memory_leak" \in CausesAt(faults, step.service)
         /\ step.about = "WARNING" /\ "401" \in Symptoms(faults, step)
              => "broken_payment_configuration" \in CausesAt(faults, step.service)
<1>1. step.about = "db_query_count" /\ "many_queries" \in Symptoms(faults, step)
        => "n_plus_one_query" \in CausesAt(faults, step.service)
  BY DEF Symptoms
<1>2. step.about = "db_connections" /\ "connections" \in Symptoms(faults, step)
        => "database_connection_leak" \in CausesAt(faults, step.service)
  BY DEF Symptoms
<1>3. step.about = "disk_usage" /\ "full" \in Symptoms(faults, step)
        => "disk_exhaustion" \in CausesAt(faults, step.service)
  BY DEF Symptoms
<1>4. step.about = "container_restarts" /\ "restart" \in Symptoms(faults, step)
        => "memory_leak" \in CausesAt(faults, step.service)
  BY DEF Symptoms
<1>5. ASSUME step.about = "WARNING", "401" \in Symptoms(faults, step)
      PROVE  "broken_payment_configuration" \in CausesAt(faults, step.service)
  <2>1. "401" \in StatusesOf(faults, step.service)
    BY <1>5 DEF Symptoms
  <2>2. PICK cause \in CausesAt(faults, step.service) : "401" \in Status(cause)
    BY <2>1 DEF StatusesOf
  <2>3. cause = "broken_payment_configuration"
    BY <2>2 DEF Status
  <2> QED
    BY <2>3
<1> QED
  BY <1>1, <1>2, <1>3, <1>4, <1>5

\* The faults that account for what is seen of a root cause at its own service.
LEMMA VisibleMeans ==
  ASSUME NEW w \in WorldType, NEW step, NEW symptom \in Visible(w, step), NEW c,
         <<c, step.about, symptom>> \in
           {<<"n_plus_one_query", "db_query_count", "many_queries">>,
            <<"database_connection_leak", "db_connections", "connections">>,
            <<"disk_exhaustion", "disk_usage", "full">>,
            <<"memory_leak", "container_restarts", "restart">>,
            <<"broken_payment_configuration", "WARNING", "401">>},
         step.service = HomeOf(c)
  PROVE  c \in Established(w)
<1>1. w.active \in SUBSET Faults /\ w.restored \in SUBSET Faults /\ w.uncleared \in SUBSET Faults
  BY DEF WorldType
<1>2. ASSUME NEW faults, symptom \in Symptoms(faults, step)
      PROVE  c \in CausesAt(faults, step.service)
  BY <1>2, SymptomsMean
<1>3. ASSUME NEW faults \in SUBSET Faults, faults \subseteq Establishing(w),
             c \in CausesAt(faults, step.service)
      PROVE  c \in Established(w)
  BY <1>3, CausesAreFaults DEF Established
<1>4. CASE symptom \in Symptoms(w.active, step)
  <2>1. w.active \subseteq Establishing(w)
    BY DEF Establishing
  <2> QED
    BY <1>1, <1>2, <1>3, <1>4, <2>1
<1>5. CASE symptom \in Remains(w, step)
  <2>1. CASE c \in {"memory_leak", "broken_payment_configuration"}
    <3>1. symptom \in Symptoms(w.restored, step)
      BY <1>5, <2>1 DEF Remains
    <3>2. c \in CausesAt(w.restored, step.service)
      BY <1>2, <3>1
    <3>3. [cause |-> c, service |-> step.service] \in w.restored /\ c \in Causes
      BY <1>1, <3>2, CausesAreFaults
    <3>4. [cause |-> c, service |-> HomeOf(c)] \in Establishing(w)
      BY <2>1, <3>3 DEF Establishing
    <3> QED
      BY <3>3, <3>4 DEF Established
  <2>2. CASE c \in {"n_plus_one_query", "database_connection_leak"}
    <3>1. symptom \in Symptoms(w.uncleared, step)
      BY <1>5, <2>2 DEF Remains
    <3>2. c \in CausesAt(w.uncleared, step.service)
      BY <1>2, <3>1
    <3>3. [cause |-> c, service |-> step.service] \in w.uncleared /\ c \in Causes
      BY <1>1, <3>2, CausesAreFaults
    <3>4. [cause |-> c, service |-> HomeOf(c)] \in Establishing(w)
      BY <2>2, <3>3 DEF Establishing
    <3> QED
      BY <3>3, <3>4 DEF Established
  <2>3. CASE c = "disk_exhaustion"
    BY <1>5, <2>3 DEF Remains
  <2> QED
    BY <2>1, <2>2, <2>3
<1> QED
  BY <1>4, <1>5 DEF Visible

LEMMA ShowingMeans ==
  ASSUME Calling, NEW service, NEW about, NEW symptom,
         NEW i \in Showing(evidence, service, about, symptom)
  PROVE  /\ i \in DOMAIN evidence /\ i \in Nat
         /\ evidence[i].step.service = service /\ evidence[i].step.about = about
         /\ symptom \in evidence[i].saw
         /\ evidence[i].saw \subseteq Visible(world, evidence[i].step)
<1>1. \A j \in DOMAIN evidence : j \in Nat
  BY DEF Calling
<1> QED
  BY <1>1 DEF Calling, Showing, About

LEMMA HypothesisTyped ==
  ASSUME NEW code \in Codes, NEW confidence \in Confidences, NEW support \in SUBSET Nat
  PROVE  /\ Hypothesis(code, confidence, support) \in Hypotheses
         /\ Hypothesis(code, confidence, support).code = code
         /\ Hypothesis(code, confidence, support).confidence = confidence
         /\ Hypothesis(code, confidence, support).support = support
<1>1. 0 \in 0 .. Onset
  BY DEF Onset
<1> QED
  BY <1>1 DEF Hypothesis, Hypotheses

\* What DeterministicReasoningProvider derives is founded on the evidence.
LEMMA CandidatesFounded ==
  ASSUME Calling
  PROVE  Founded(Candidates(evidence), evidence, world)
<1> DEFINE queries == Showing(evidence, "checkout", "db_query_count", "many_queries")
<1> DEFINE queryLogs == Showing(evidence, "checkout", "/orders", "many_queries")
<1> DEFINE connections == Showing(evidence, "inventory", "db_connections", "connections")
<1> DEFINE inventory503 == Showing(evidence, "inventory", "ERROR", "503")
<1> DEFINE full == Showing(evidence, "worker", "disk_usage", "full")
<1> DEFINE worker507 == Showing(evidence, "worker", "ERROR", "507")
<1> DEFINE worker503 == Showing(evidence, "worker", "ERROR", "503")
<1> DEFINE restarts == Showing(evidence, "worker", "container_restarts", "restart")
<1> DEFINE memory == Showing(evidence, "worker", "memory_usage", "memory")
<1> DEFINE payment401 == Showing(evidence, "payment", "WARNING", "401")
<1> DEFINE gateway502 == Showing(evidence, "gateway", "ERROR", "502")
<1> DEFINE usage == About(evidence, "worker", "memory_usage")
<1> DEFINE leaking == restarts # {} /\ worker503 # {} /\ full = {}
<1> DEFINE h1 == Hypothesis("n_plus_one_query", IF queryLogs # {} THEN 97 ELSE 72, queries \cup queryLogs)
<1> DEFINE h2 == Hypothesis("database_connection_leak", 96, connections \cup inventory503)
<1> DEFINE h3 == Hypothesis("disk_exhaustion", 99, full \cup worker507)
<1> DEFINE h4 == Hypothesis("memory_leak", 95, restarts \cup worker503 \cup usage)
<1> DEFINE h5 == Hypothesis("memory_pressure", 55, memory)
<1> DEFINE h6 == Hypothesis("broken_payment_configuration", 97, payment401 \cup gateway502)
<1> DEFINE q1 == queries # {}
<1> DEFINE q2 == connections # {} /\ inventory503 # {}
<1> DEFINE q3 == full # {} /\ worker507 # {}
<1> DEFINE q4 == leaking
<1> DEFINE q5 == ~leaking /\ memory # {}
<1> DEFINE q6 == payment401 # {} /\ gateway502 # {}
<1> DEFINE s1 == MaybeOne(q1, h1)
<1> DEFINE s2 == s1 \o MaybeOne(q2, h2)
<1> DEFINE s3 == s2 \o MaybeOne(q3, h3)
<1> DEFINE s4 == s3 \o MaybeOne(q4, h4)
<1> DEFINE s5 == s4 \o MaybeOne(q5, h5)
<1> DEFINE s6 == s5 \o MaybeOne(q6, h6)
<1>1. Candidates(evidence) = s6
  BY DEF Candidates, MaybeOne
<1> DEFINE P == SUBSET DOMAIN evidence
<1>2. /\ queries \in P /\ queryLogs \in P /\ connections \in P /\ inventory503 \in P
      /\ full \in P /\ worker507 \in P /\ worker503 \in P /\ restarts \in P /\ memory \in P
      /\ payment401 \in P /\ gateway502 \in P /\ usage \in P
  BY DEF Showing, About
<1>3. P \subseteq SUBSET Nat
  <2>1. DOMAIN evidence \subseteq Nat
    BY DEF Calling
  <2> QED
    BY <2>1
<1>4. /\ \A i \in queries, j \in queryLogs : i # j
      /\ \A i \in connections, j \in inventory503 : i # j
      /\ \A i \in full, j \in worker507 : i # j
      /\ \A i \in restarts, j \in worker503 : i # j
      /\ \A i \in payment401, j \in gateway502 : i # j
  BY DEF Showing, About
<1>5. /\ queries # {} => "n_plus_one_query" \in Established(world)
      /\ connections # {} => "database_connection_leak" \in Established(world)
      /\ full # {} => "disk_exhaustion" \in Established(world)
      /\ restarts # {} => "memory_leak" \in Established(world)
      /\ payment401 # {} => "broken_payment_configuration" \in Established(world)
  <2>1. ASSUME NEW i \in queries
        PROVE  "n_plus_one_query" \in Established(world)
    <3>1. /\ evidence[i].step.service = "checkout" /\ evidence[i].step.about = "db_query_count"
          /\ "many_queries" \in Visible(world, evidence[i].step) /\ world \in WorldType
      BY ShowingMeans DEF Calling
    <3>2. HomeOf("n_plus_one_query") = "checkout"
      BY DEF HomeOf
    <3> QED
      BY <3>1, <3>2, VisibleMeans
  <2>2. ASSUME NEW i \in connections
        PROVE  "database_connection_leak" \in Established(world)
    <3>1. /\ evidence[i].step.service = "inventory" /\ evidence[i].step.about = "db_connections"
          /\ "connections" \in Visible(world, evidence[i].step) /\ world \in WorldType
      BY ShowingMeans DEF Calling
    <3>2. HomeOf("database_connection_leak") = "inventory"
      BY DEF HomeOf
    <3> QED
      BY <3>1, <3>2, VisibleMeans
  <2>3. ASSUME NEW i \in full
        PROVE  "disk_exhaustion" \in Established(world)
    <3>1. /\ evidence[i].step.service = "worker" /\ evidence[i].step.about = "disk_usage"
          /\ "full" \in Visible(world, evidence[i].step) /\ world \in WorldType
      BY ShowingMeans DEF Calling
    <3>2. HomeOf("disk_exhaustion") = "worker"
      BY DEF HomeOf
    <3> QED
      BY <3>1, <3>2, VisibleMeans
  <2>4. ASSUME NEW i \in restarts
        PROVE  "memory_leak" \in Established(world)
    <3>1. /\ evidence[i].step.service = "worker" /\ evidence[i].step.about = "container_restarts"
          /\ "restart" \in Visible(world, evidence[i].step) /\ world \in WorldType
      BY ShowingMeans DEF Calling
    <3>2. HomeOf("memory_leak") = "worker"
      BY DEF HomeOf
    <3> QED
      BY <3>1, <3>2, VisibleMeans
  <2>5. ASSUME NEW i \in payment401
        PROVE  "broken_payment_configuration" \in Established(world)
    <3>1. /\ evidence[i].step.service = "payment" /\ evidence[i].step.about = "WARNING"
          /\ "401" \in Visible(world, evidence[i].step) /\ world \in WorldType
      BY ShowingMeans DEF Calling
    <3>2. HomeOf("broken_payment_configuration") = "payment"
      BY DEF HomeOf
    <3> QED
      BY <3>1, <3>2, VisibleMeans
  <2> HIDE DEF queries, connections, full, restarts, payment401
  <2> QED
    BY <2>1, <2>2, <2>3, <2>4, <2>5
<1> HIDE DEF queries, queryLogs, connections, inventory503, full, worker507, worker503, restarts,
             memory, payment401, gateway502, usage
<1>6. /\ {97, 72, 96, 99, 95, 55} \subseteq Confidences
      /\ Causes \cup {"memory_pressure"} \subseteq Codes
      /\ {"n_plus_one_query", "database_connection_leak", "disk_exhaustion", "memory_leak",
          "broken_payment_configuration"} \subseteq Causes
  BY DEF Confidences, Codes, Causes
<1>7. /\ h1 \in Hypotheses /\ h1.code = "n_plus_one_query"
      /\ h1.confidence = (IF queryLogs # {} THEN 97 ELSE 72) /\ h1.support = queries \cup queryLogs
  BY <1>2, <1>3, <1>6, HypothesisTyped
<1>8. /\ h2 \in Hypotheses /\ h2.code = "database_connection_leak"
      /\ h2.confidence = 96 /\ h2.support = connections \cup inventory503
  BY <1>2, <1>3, <1>6, HypothesisTyped
<1>9. /\ h3 \in Hypotheses /\ h3.code = "disk_exhaustion"
      /\ h3.confidence = 99 /\ h3.support = full \cup worker507
  BY <1>2, <1>3, <1>6, HypothesisTyped
<1>10. /\ h4 \in Hypotheses /\ h4.code = "memory_leak"
       /\ h4.confidence = 95 /\ h4.support = restarts \cup worker503 \cup usage
  BY <1>2, <1>3, <1>6, HypothesisTyped
<1>11. /\ h5 \in Hypotheses /\ h5.code = "memory_pressure"
       /\ h5.confidence = 55 /\ h5.support = memory
  BY <1>2, <1>3, <1>6, HypothesisTyped
<1>12. /\ h6 \in Hypotheses /\ h6.code = "broken_payment_configuration"
       /\ h6.confidence = 97 /\ h6.support = payment401 \cup gateway502
  BY <1>2, <1>3, <1>6, HypothesisTyped
<1> HIDE DEF h1, h2, h3, h4, h5, h6
<1>13. q1 => h1 \in Hypotheses /\ Grounded(h1, evidence, world)
  <2>1. CASE queryLogs = {}
    BY <1>2, <1>7, <2>1 DEF Grounded
  <2>2. CASE queryLogs # {}
    BY <1>2, <1>4, <1>5, <1>7, <2>2 DEF Grounded
  <2> QED
    BY <2>1, <2>2
<1>14. q2 => h2 \in Hypotheses /\ Grounded(h2, evidence, world)
  BY <1>2, <1>4, <1>5, <1>8 DEF Grounded
<1>15. q3 => h3 \in Hypotheses /\ Grounded(h3, evidence, world)
  BY <1>2, <1>4, <1>5, <1>9 DEF Grounded
<1>16. q4 => h4 \in Hypotheses /\ Grounded(h4, evidence, world)
  BY <1>2, <1>4, <1>5, <1>10 DEF Grounded
<1>17. q5 => h5 \in Hypotheses /\ Grounded(h5, evidence, world)
  BY <1>2, <1>11 DEF Grounded
<1>18. q6 => h6 \in Hypotheses /\ Grounded(h6, evidence, world)
  BY <1>2, <1>4, <1>5, <1>12 DEF Grounded
<1> HIDE DEF leaking, q1, q2, q3, q4, q5, q6
<1> DEFINE c1 == {h1.code}
<1> DEFINE c2 == c1 \cup {h2.code}
<1> DEFINE c3 == c2 \cup {h3.code}
<1> DEFINE c4 == c3 \cup {h4.code}
<1> DEFINE c5 == c4 \cup {h5.code}
<1> DEFINE c6 == c5 \cup {h6.code}
<1>19. h2.code \notin c1 /\ h3.code \notin c2 /\ h4.code \notin c3 /\ h5.code \notin c4 /\ h6.code \notin c5
  BY <1>7, <1>8, <1>9, <1>10, <1>11, <1>12
<1>20. SoFar(s1, c1, evidence, world)
  BY <1>13, FirstFounded
<1> HIDE DEF c1, s1
<1>21. SoFar(s2, c2, evidence, world)
  <2>1. h2.code \notin c1
    BY <1>19
  <2> QED
    BY <1>14, <1>20, <2>1, NextFounded
<1> HIDE DEF c2, s2
<1>22. SoFar(s3, c3, evidence, world)
  <2>1. h3.code \notin c2
    BY <1>19
  <2> QED
    BY <1>15, <1>21, <2>1, NextFounded
<1> HIDE DEF c3, s3
<1>23. SoFar(s4, c4, evidence, world)
  <2>1. h4.code \notin c3
    BY <1>19
  <2> QED
    BY <1>16, <1>22, <2>1, NextFounded
<1> HIDE DEF c4, s4
<1>24. SoFar(s5, c5, evidence, world)
  <2>1. h5.code \notin c4
    BY <1>19
  <2> QED
    BY <1>17, <1>23, <2>1, NextFounded
<1> HIDE DEF c5, s5
<1>25. SoFar(s6, c6, evidence, world)
  <2>1. h6.code \notin c5
    BY <1>19
  <2> QED
    BY <1>18, <1>24, <2>1, NextFounded
<1> QED
  BY <1>1, <1>25 DEF SoFar

LEMMA OldestSound ==
  ASSUME NEW T \in SUBSET Nat, \A n \in T : n <= Onset
  PROVE  Oldest(T) \in 0 .. Onset
<1>1. CASE T = {}
  BY <1>1 DEF Oldest, Onset
<1>2. CASE T # {}
  <2>1. \E m \in T : \A n \in T : m <= n
    BY <1>2, LeastNumber
  <2>2. Oldest(T) \in T
    BY <1>2, <2>1 DEF Oldest
  <2>3. \A n \in T : n \in 0 .. Onset
    BY DEF Onset
  <2> QED
    BY <2>2, <2>3
<1> QED
  BY <1>1, <1>2

\* Dating a hypothesis changes nothing else in it.
LEMMA Dated ==
  ASSUME NEW h \in Hypotheses, NEW c \in 0 .. Onset
  PROVE  /\ [h EXCEPT !.cause = c] \in Hypotheses /\ [h EXCEPT !.cause = c].code = h.code
         /\ [h EXCEPT !.cause = c].confidence = h.confidence
         /\ [h EXCEPT !.cause = c].support = h.support
  BY DEF Hypotheses

LEMMA StampedFounded ==
  ASSUME Calling, NEW new, Founded(new, evidence, world)
  PROVE  /\ Founded(Stamped(new), evidence, world) /\ DOMAIN Stamped(new) = DOMAIN new
         /\ \A i \in DOMAIN new : /\ Stamped(new)[i].code = new[i].code
                                 /\ Stamped(new)[i].confidence = new[i].confidence
<1> DEFINE T(i) == {n \in UNION {evidence[j].times : j \in new[i].support} : n <= Onset}
<1> DEFINE dated == [i \in DOMAIN new |-> [new[i] EXCEPT !.cause = Oldest(T(i))]]
<1>1. /\ new \in Seq(Hypotheses) /\ OneEach(new) /\ DOMAIN new = 1 .. Len(new) /\ Len(new) \in Nat
      /\ \A i \in DOMAIN new : new[i] \in Hypotheses /\ Grounded(new[i], evidence, world)
  BY LenProperties DEF Founded
<1>2. Stamped(new) = new \/ Stamped(new) = dated
  BY DEF Stamped
<1>3. ASSUME NEW i \in DOMAIN new
      PROVE  Oldest(T(i)) \in 0 .. Onset
  <2>1. new[i].support \subseteq DOMAIN evidence
    BY <1>1 DEF Grounded
  <2>2. \A j \in DOMAIN evidence : evidence[j].times \in SUBSET Nat
    <3>1. evidence \in Seq(Findings)
      BY DEF Calling
    <3>2. \A j \in DOMAIN evidence : evidence[j] \in Findings
      BY <3>1
    <3> QED
      BY <3>2 DEF Findings
  <2>3. T(i) \in SUBSET Nat /\ \A n \in T(i) : n <= Onset
    BY <2>1, <2>2
  <2> HIDE DEF T
  <2> QED
    BY <2>3, OldestSound
<1> HIDE DEF T
<1>4. ASSUME NEW i \in DOMAIN new
      PROVE  /\ dated[i] \in Hypotheses /\ dated[i].code = new[i].code
             /\ dated[i].confidence = new[i].confidence /\ dated[i].support = new[i].support
  <2> DEFINE h == new[i]
  <2> DEFINE c == Oldest(T(i))
  <2>1. h \in Hypotheses /\ c \in 0 .. Onset
    BY <1>1, <1>3
  <2>2. dated[i] = [h EXCEPT !.cause = c]
    OBVIOUS
  <2> HIDE DEF dated, h, c
  <2>3. /\ dated[i] \in Hypotheses /\ dated[i].code = h.code
        /\ dated[i].confidence = h.confidence /\ dated[i].support = h.support
    BY <2>1, <2>2, Dated
  <2> QED
    BY <2>3 DEF h
<1>5. DOMAIN dated = DOMAIN new /\ dated = [i \in DOMAIN new |-> dated[i]]
  OBVIOUS
<1> HIDE DEF dated
<1>6. dated \in Seq(Hypotheses)
  <2>1. dated \in [1 .. Len(new) -> Hypotheses]
    BY <1>1, <1>4, <1>5
  <2> QED
    BY <1>1, <2>1, FunctionIsSequence
<1>7. OneEach(dated)
  BY <1>1, <1>4, <1>5 DEF OneEach
<1>8. \A i \in DOMAIN dated : Grounded(dated[i], evidence, world)
  BY <1>1, <1>4, <1>5 DEF Grounded
<1>9. Founded(dated, evidence, world)
  BY <1>6, <1>7, <1>8 DEF Founded
<1> QED
  BY <1>2, <1>4, <1>5, <1>9

\* Some of the hypotheses.
LEMMA OnlyFounded ==
  ASSUME NEW s, NEW found, NEW there, Founded(s, found, there), NEW I \in SUBSET DOMAIN s
  PROVE  /\ Founded(Only(s, I), found, there)
         /\ \A k \in DOMAIN Only(s, I) : \E i \in I : Only(s, I)[k] = s[i]
<1> DEFINE some == Only(s, I)
<1>1. /\ s \in Seq(Hypotheses) /\ OneEach(s) /\ Len(s) \in Nat /\ DOMAIN s = 1 .. Len(s)
      /\ \A i \in DOMAIN s : Grounded(s[i], found, there)
  BY LenProperties DEF Founded
<1>2. /\ some \in Seq(Hypotheses) /\ \A k \in DOMAIN some : \E i \in I : some[k] = s[i]
  BY <1>1, OnlyKeeps
<1>3. I \in SUBSET (1 .. Len(s))
  BY <1>1
<1>4. Cardinality(I) \in Nat /\ \E place : InTurn(place, s, I)
  BY <1>1, <1>3, OnlyInOrder
<1>5. PICK place : InTurn(place, s, I)
  BY <1>4
<1>6. /\ DOMAIN some = 1 .. Cardinality(I)
      /\ \A k \in DOMAIN some : place[k] \in I /\ some[k] = s[place[k]]
      /\ \A k, l \in DOMAIN some : k < l => place[k] < place[l]
  BY <1>5 DEF InTurn
<1> HIDE DEF some
<1>7. \A i \in I : i \in Nat
  BY <1>1
<1>8. \A k, l \in DOMAIN some : k # l => place[k] # place[l]
  <2> SUFFICES ASSUME NEW k \in DOMAIN some, NEW l \in DOMAIN some, k # l
               PROVE  place[k] # place[l]
    OBVIOUS
  <2>1. k < l \/ l < k
    BY <1>4, <1>6
  <2>2. place[k] < place[l] \/ place[l] < place[k]
    BY <1>6, <2>1
  <2>3. place[k] \in Nat /\ place[l] \in Nat
    BY <1>6, <1>7
  <2> QED
    BY <2>2, <2>3
<1>9. OneEach(some)
  BY <1>1, <1>6, <1>8 DEF OneEach
<1>10. Founded(some, found, there)
  BY <1>1, <1>2, <1>9 DEF Founded
<1> QED
  BY <1>2, <1>10 DEF some

\* What is derived takes the place of what was held about the same causes, in the
\* order of its confidence.
LEMMA MergedFounded ==
  ASSUME Founded(hypotheses, evidence, world), NEW new, Founded(new, evidence, world)
  PROVE  /\ Founded(Merged(new), evidence, world) /\ Sorted(Merged(new))
         /\ \A j \in DOMAIN new : \E k \in DOMAIN Merged(new) : Merged(new)[k] = new[j]
         /\ \A k \in DOMAIN Merged(new) :
              \/ \E j \in DOMAIN new : Merged(new)[k] = new[j]
              \/ \E i \in DOMAIN hypotheses :
                   /\ Merged(new)[k] = hypotheses[i]
                   /\ \A j \in DOMAIN new : new[j].code # hypotheses[i].code
<1> DEFINE held == hypotheses
<1> DEFINE Newer(code) == {i \in DOMAIN new : new[i].code = code}
<1> DEFINE kept == [i \in DOMAIN held |->
                      IF Newer(held[i].code) = {} THEN held[i]
                      ELSE new[CHOOSE j \in Newer(held[i].code) : TRUE]]
<1> DEFINE J == {j \in DOMAIN new : \A i \in DOMAIN held : held[i].code # new[j].code}
<1> DEFINE added == Only(new, J)
<1> DEFINE all == kept \o added
<1> DEFINE levels == <<99, 97, 96, 95, 72, 55>>
<1> DEFINE G == [k \in 1 .. 6 |-> {i \in DOMAIN all : all[i].confidence = levels[k]}]
<1> DEFINE parts == [k \in 1 .. 6 |-> Only(all, G[k])]
<1> DEFINE flat == FlattenSeq(parts)
<1>1. Merged(new) = flat
  <2>1. DOMAIN levels = 1 .. 6
    OBVIOUS
  <2>2. Merged(new) = FlattenSeq([k \in DOMAIN levels |->
                        Only(all, {i \in DOMAIN all : all[i].confidence = levels[k]})])
    BY DEF Merged
  <2> HIDE DEF all, levels
  <2>3. [k \in DOMAIN levels |-> Only(all, {i \in DOMAIN all : all[i].confidence = levels[k]})]
          = parts
    BY <2>1
  <2> QED
    BY <2>2, <2>3
<1>2. /\ held \in Seq(Hypotheses) /\ OneEach(held) /\ Len(held) \in Nat /\ DOMAIN held = 1 .. Len(held)
      /\ \A i \in DOMAIN held : held[i] \in Hypotheses /\ Grounded(held[i], evidence, world)
  BY LenProperties DEF Founded
<1>3. /\ new \in Seq(Hypotheses) /\ OneEach(new)
      /\ \A i \in DOMAIN new : new[i] \in Hypotheses /\ Grounded(new[i], evidence, world)
  BY DEF Founded
<1>4. /\ DOMAIN kept = DOMAIN held /\ kept = [i \in DOMAIN held |-> kept[i]]
      /\ \A i \in DOMAIN held :
           \/ kept[i] = held[i] /\ \A j \in DOMAIN new : new[j].code # held[i].code
           \/ \E j \in DOMAIN new : kept[i] = new[j] /\ new[j].code = held[i].code
  <2>1. DOMAIN kept = DOMAIN held /\ kept = [i \in DOMAIN held |-> kept[i]]
    OBVIOUS
  <2>2. ASSUME NEW i \in DOMAIN held
        PROVE  \/ kept[i] = held[i] /\ \A j \in DOMAIN new : new[j].code # held[i].code
               \/ \E j \in DOMAIN new : kept[i] = new[j] /\ new[j].code = held[i].code
    <3>1. CASE Newer(held[i].code) = {}
      BY <3>1
    <3>2. CASE Newer(held[i].code) # {}
      <4> DEFINE j == CHOOSE j \in Newer(held[i].code) : TRUE
      <4>1. j \in Newer(held[i].code)
        BY <3>2
      <4>2. kept[i] = new[j]
        BY <3>2
      <4>3. j \in DOMAIN new /\ new[j].code = held[i].code
        BY <4>1
      <4> HIDE DEF j, kept
      <4> QED
        BY <4>2, <4>3
    <3> QED
      BY <3>1, <3>2
  <2> QED
    BY <2>1, <2>2
<1> HIDE DEF kept
<1>5. Founded(kept, evidence, world) /\ \A i \in DOMAIN kept : kept[i].code = held[i].code
  <2>1. \A i \in DOMAIN kept : /\ kept[i] \in Hypotheses /\ Grounded(kept[i], evidence, world)
                               /\ kept[i].code = held[i].code
    BY <1>2, <1>3, <1>4
  <2>2. kept \in Seq(Hypotheses)
    <3>1. kept \in [1 .. Len(held) -> Hypotheses]
      BY <1>2, <1>4, <2>1
    <3> QED
      BY <1>2, <3>1, FunctionIsSequence
  <2>3. OneEach(kept)
    BY <1>2, <1>4, <2>1 DEF OneEach
  <2> QED
    BY <2>1, <2>2, <2>3 DEF Founded
<1>5a. \A j \in DOMAIN new, i \in DOMAIN held : held[i].code = new[j].code => kept[i] = new[j]
  BY <1>3, <1>4 DEF OneEach
<1>6. /\ J \in SUBSET DOMAIN new /\ \A j \in J, i \in DOMAIN held : held[i].code # new[j].code
      /\ \A j \in DOMAIN new : j \notin J => \E i \in DOMAIN held : held[i].code = new[j].code
  OBVIOUS
<1> HIDE DEF J
<1>7. /\ Founded(added, evidence, world)
      /\ \A k \in DOMAIN added : \E j \in J : added[k] = new[j]
  BY <1>6, OnlyFounded
<1>7a. ToSet(added) = {new[j] : j \in J}
  BY <1>3, <1>6, OnlyKeeps
<1> HIDE DEF added
<1>8. Apart(kept, added)
  BY <1>4, <1>5, <1>6, <1>7 DEF Apart
<1>9. Founded(all, evidence, world) /\ Parts(all, kept, added)
  BY <1>5, <1>7, <1>8, FoundedTogether
<1>9a. \A i \in DOMAIN all :
         \/ \E j \in DOMAIN new : all[i] = new[j]
         \/ \E h \in DOMAIN held : all[i] = held[h] /\ \A j \in DOMAIN new : new[j].code # held[h].code
  <2> HIDE DEF all
  <2> QED
    BY <1>4, <1>6, <1>7, <1>9 DEF Parts
<1>9b. \A j \in DOMAIN new : \E i \in DOMAIN all : all[i] = new[j]
  <2> SUFFICES ASSUME NEW j \in DOMAIN new
               PROVE  new[j] \in ToSet(all)
    BY DEF ToSet
  <2>1. ToSet(all) = ToSet(kept) \cup ToSet(added)
    <3>1. kept \in Seq(Hypotheses) /\ added \in Seq(Hypotheses)
      BY <1>5, <1>7 DEF Founded
    <3> QED
      BY <3>1, ConcatElements
  <2> HIDE DEF all
  <2>2. CASE j \in J
    BY <1>7a, <2>1, <2>2
  <2>3. CASE j \notin J
    <3>1. PICK i \in DOMAIN held : held[i].code = new[j].code
      BY <1>6, <2>3
    <3>2. i \in DOMAIN kept /\ kept[i] = new[j]
      BY <1>4, <1>5a, <3>1
    <3> QED
      BY <2>1, <3>2 DEF ToSet
  <2> QED
    BY <2>2, <2>3
<1> HIDE DEF all, levels
<1>10. /\ all \in Seq(Hypotheses) /\ OneEach(all)
       /\ \A i \in DOMAIN all : Grounded(all[i], evidence, world)
  BY <1>9 DEF Founded
<1>11. \A k, l \in 1 .. 6 : (k <= l => levels[k] >= levels[l]) /\ (levels[k] = levels[l] => k = l)
  <2>1. /\ levels[1] = 99 /\ levels[2] = 97 /\ levels[3] = 96 /\ levels[4] = 95 /\ levels[5] = 72
        /\ levels[6] = 55
    BY DEF levels
  <2>2. \A k \in 1 .. 6 : k = 1 \/ k = 2 \/ k = 3 \/ k = 4 \/ k = 5 \/ k = 6
    OBVIOUS
  <2> QED
    BY <2>1, <2>2
<1>12. \A k \in 1 .. 6 : G[k] \in SUBSET DOMAIN all /\ \A i \in G[k] : all[i].confidence = levels[k]
  OBVIOUS
<1>12a. \A i \in DOMAIN all : \E k \in 1 .. 6 : i \in G[k]
  <2>1. \A i \in DOMAIN all : all[i].confidence \in Confidences
    <3>1. \A i \in DOMAIN all : all[i] \in Hypotheses
      BY <1>10
    <3> QED
      BY <3>1 DEF Hypotheses
  <2>2. \A c \in Confidences : \E k \in 1 .. 6 : levels[k] = c
    <3>1. /\ levels[1] = 99 /\ levels[2] = 97 /\ levels[3] = 96 /\ levels[4] = 95
          /\ levels[5] = 72 /\ levels[6] = 55
      BY DEF levels
    <3>2. 1 \in 1 .. 6 /\ 2 \in 1 .. 6 /\ 3 \in 1 .. 6 /\ 4 \in 1 .. 6 /\ 5 \in 1 .. 6 /\ 6 \in 1 .. 6
      OBVIOUS
    <3> QED
      BY <3>1, <3>2 DEF Confidences
  <2> QED
    BY <2>1, <2>2
<1> HIDE DEF G
<1>13. \A k, l \in 1 .. 6 : \A i \in G[k], j \in G[l] : k # l => i # j
  BY <1>11, <1>12
<1>14. /\ flat \in Seq(Hypotheses)
       /\ \E which, place : Taken(flat, all, G, 6, which, place)
  <2>1. GroupParts(parts, all, G, 6) /\ 6 \in Nat
    BY DEF GroupParts
  <2>2. Groups(G, all, 6)
    BY <1>12, <1>13 DEF Groups
  <2>3. all \in Seq(Hypotheses)
    BY <1>10
  <2> HIDE DEF parts
  <2> QED
    BY <2>1, <2>2, <2>3, GroupsTaken
<1> HIDE DEF flat
<1>15. PICK which, place : Taken(flat, all, G, 6, which, place)
  BY <1>14
<1>16. \A p \in DOMAIN flat : /\ which[p] \in 1 .. 6 /\ place[p] \in DOMAIN all
                              /\ flat[p] = all[place[p]]
                              /\ flat[p].confidence = levels[which[p]]
  BY <1>12, <1>15 DEF Taken
<1>17. OneEach(flat)
  <2>1. \A p, q \in DOMAIN flat : p # q => place[p] # place[q]
    BY <1>15 DEF Taken
  <2> QED
    BY <1>10, <1>16, <2>1 DEF OneEach
<1>18. Sorted(flat)
  <2>1. \A p, q \in DOMAIN flat : p < q => which[p] <= which[q]
    BY <1>15 DEF Taken
  <2> QED
    BY <1>11, <1>16, <2>1 DEF Sorted
<1>19. \A p \in DOMAIN flat : Grounded(flat[p], evidence, world)
  BY <1>10, <1>16
<1>20. Founded(flat, evidence, world)
  BY <1>14, <1>17, <1>19 DEF Founded
<1>21. \A i \in DOMAIN all : \E p \in DOMAIN flat : flat[p] = all[i]
  <2>1. \A r \in 1 .. 6 : \A i \in G[r] : \E p \in DOMAIN flat : place[p] = i
    BY <1>15 DEF Taken
  <2> QED
    BY <1>12a, <1>16, <2>1
<1>22. \A j \in DOMAIN new : \E k \in DOMAIN flat : flat[k] = new[j]
  BY <1>9b, <1>21
<1>23. \A k \in DOMAIN flat :
         \/ \E j \in DOMAIN new : flat[k] = new[j]
         \/ \E h \in DOMAIN held : flat[k] = held[h] /\ \A j \in DOMAIN new : new[j].code # held[h].code
  BY <1>9a, <1>16
<1> QED
  BY <1>1, <1>18, <1>20, <1>22, <1>23

\* Evidence is never lost, and no cause comes or goes.
LEMMA EvidenceGrows ==
  ASSUME Calling, [Next]_vars
  PROVE  /\ world' = world /\ DOMAIN evidence \subseteq DOMAIN evidence'
         /\ \A i \in DOMAIN evidence : evidence'[i] = evidence[i]
<1>1. CASE Ask
  <2>1. world' = world /\ at = "ask"
    BY <1>1 DEF Ask
  <2>2. PICK p \in FullPlans :
          /\ plan' = p /\ (chain.architecture # "reactive_react" => p = plan)
          /\ \/ (Stop("failed") \/ Stop("budget_exhausted")) /\ Quiet
             \/ Open(p) = {} /\ at' = "conclude" /\ Quiet /\ UNCHANGED verdict
             \/ \E next \in Open(p) :
                  /\ \A j \in Open(p) : next <= j
                  /\ Call(p, next) /\ done' = done \cup {next} /\ at' = "weigh" /\ UNCHANGED verdict
    BY <1>1, AskCases
  <2>3. CASE Quiet
    BY <2>1, <2>3 DEF Quiet
  <2>4. ASSUME NEW next \in Open(p), Call(p, next)
        PROVE  /\ DOMAIN evidence \subseteq DOMAIN evidence'
               /\ \A i \in DOMAIN evidence : evidence'[i] = evidence[i]
    <3>1. p[next] \in Steps
      BY <2>1, <2>2, OpenIsNew
    <3>2. evidence' = evidence \/ \E found \in Findings : evidence' = Append(evidence, found)
      BY <2>4, <3>1, CallRecords
    <3>3. evidence \in Seq(Findings)
      BY DEF Calling
    <3> QED
      BY <3>2, <3>3, AppendSound
  <2> QED
    BY <2>1, <2>2, <2>3, <2>4
<1>2. CASE MakePlan \/ Weigh \/ Conclude \/ UNCHANGED vars
  BY <1>2 DEF MakePlan, Weigh, Conclude, vars
<1> QED
  BY <1>1, <1>2 DEF Next

\* The hypotheses are founded on the evidence, one for a cause, and in the order
\* of their confidence.
THEOREM HoldingInvariance == Spec => []Holding
<1>1. Init => Holding
  <2> SUFFICES ASSUME Init
               PROVE  Holding
    OBVIOUS
  <2>1. hypotheses \in Seq(Hypotheses) /\ DOMAIN hypotheses = {}
    BY DEF Init
  <2> QED
    BY <2>1 DEF Holding, Founded, OneEach, Sorted
<1>2. Calling /\ Holding /\ [Next]_vars => Holding'
  <2> SUFFICES ASSUME Calling, Holding, [Next]_vars
               PROVE  Holding'
    OBVIOUS
  <2>1. CASE Weigh
    <3>1. hypotheses' = Merged(Stamped(Candidates(evidence))) /\ UNCHANGED <<evidence, world>>
      BY <2>1 DEF Weigh
    <3>2. Founded(Candidates(evidence), evidence, world)
      BY CandidatesFounded
    <3>3. Founded(Stamped(Candidates(evidence)), evidence, world)
      BY <3>2, StampedFounded
    <3>4. Founded(hypotheses, evidence, world)
      BY DEF Holding
    <3>5. /\ Founded(Merged(Stamped(Candidates(evidence))), evidence, world)
          /\ Sorted(Merged(Stamped(Candidates(evidence))))
      BY <3>3, <3>4, MergedFounded
    <3> QED
      BY <3>1, <3>5 DEF Holding
  <2>2. CASE MakePlan \/ Ask \/ Conclude \/ UNCHANGED vars
    <3>1. hypotheses' = hypotheses
      BY <2>2 DEF MakePlan, Ask, Conclude, vars
    <3>2. world' = world /\ DOMAIN evidence \subseteq DOMAIN evidence'
      BY EvidenceGrows
    <3>3. \A h : Grounded(h, evidence, world) => Grounded(h, evidence', world')
      BY <3>2 DEF Grounded
    <3> QED
      BY <3>1, <3>3 DEF Holding, Founded
  <2> QED
    BY <2>1, <2>2 DEF Next
<1> QED
  BY <1>1, <1>2, CallingInvariance, PTL DEF Spec

-----------------------------------------------------------------------------
(* The decision to stop. *)

\* A call without progress is a call without an answer: two that returned the
\* same would have asked the same.
LEMMA NoProgressMeans ==
  ASSUME Calling, NoProgress
  PROVE  ~history[Len(history)].answered
<1> DEFINE n == Len(evidence)
<1>1. n \in Nat /\ DOMAIN evidence = 1 .. n
  BY LenProperties DEF Calling
<1>2. \A i, j \in DOMAIN evidence :
        i # j => Invocation(evidence[i].step) # Invocation(evidence[j].step)
  BY DEF Calling
<1> HIDE DEF n
<1>3. ~(n >= 2 /\ Invocation(evidence[n].step) = Invocation(evidence[n - 1].step))
  <2>1. n >= 2 => n \in DOMAIN evidence /\ n - 1 \in DOMAIN evidence /\ n # n - 1
    BY <1>1
  <2> QED
    BY <1>2, <2>1
<1> QED
  BY <1>3 DEF NoProgress, n

\* When there is nothing left to ask, everything has been asked.
LEMMA NothingOpen ==
  ASSUME Calling, NEW p, Open(p) = {}, plan' = p,
         UNCHANGED <<chain, done, history>>, done \subseteq DOMAIN p
  PROVE  Completed' = DOMAIN plan'
<1>1. Observed' = Observed
  BY DEF Observed
<1>2. CASE chain.architecture = "reactive_react"
  <2>1. \A i \in DOMAIN p : Invocation(p[i]) \in Observed
    BY <1>2 DEF Open
  <2>2. Completed' = {i \in DOMAIN p : Invocation(p[i]) \in Observed}
    BY <1>1, <1>2 DEF Completed
  <2> QED
    BY <2>1, <2>2
<1>3. CASE chain.architecture # "reactive_react"
  <2>1. \A i \in DOMAIN p : i \in done
    BY <1>3 DEF Open
  <2>2. Completed' = done
    BY <1>3 DEF Completed
  <2> QED
    BY <2>1, <2>2
<1> QED
  BY <1>2, <1>3

LEMMA CompletedStays ==
  ASSUME UNCHANGED <<chain, plan, done, history>>
  PROVE  Completed' = Completed
<1>1. Observed' = Observed
  BY DEF Observed
<1> QED
  BY <1>1 DEF Completed

\* Why the providers have enough.
LEMMA EnoughMeans ==
  ASSUME NEW held \in Seq(Hypotheses), Enough(held)
  PROVE  \/ Completed = DOMAIN plan
         \/ /\ ~chain.unresolved
            /\ (held # <<>> /\ held[1].confidence >= 90) \/ Count(held) >= MaxNonProgress
<1>1. held # <<>> => held[1].confidence \in Nat
  <2>1. held # <<>> => 1 \in DOMAIN held
    <3>1. Len(held) \in Nat /\ DOMAIN held = 1 .. Len(held) /\ (Len(held) = 0 => held = <<>>)
      BY LenProperties, EmptySeq
    <3> QED
      BY <3>1
  <2>2. \A i \in DOMAIN held : held[i] \in Hypotheses
    OBVIOUS
  <2>3. \A h \in Hypotheses : h.confidence \in Nat
    BY DEF Hypotheses, Confidences
  <2> QED
    BY <2>1, <2>2, <2>3
<1>2. CASE chain.unresolved
  BY <1>2 DEF Enough
<1>3. CASE ~chain.unresolved /\ Convinced(held)
  <2>1. CASE held = <<>> \/ held[1].confidence < 90
    BY <1>3, <2>1 DEF Convinced
  <2>2. CASE held # <<>> /\ ~(held[1].confidence < 90)
    BY <1>1, <1>3, <2>2
  <2> QED
    BY <2>1, <2>2
<1>4. CASE ~chain.unresolved /\ ~Convinced(held)
  BY <1>4 DEF Enough
<1> QED
  BY <1>2, <1>3, <1>4

\* What the count can become.
LEMMA CountMeans ==
  ASSUME Calling, NEW held
  PROVE  \/ Count(held) = 0
         \/ Count(held) = nonProgress + 1 /\ ~history[Len(history)].answered
  BY NoProgressMeans DEF Count

\* While the run goes on, what it has counted and what it may cite stay.
LEMMA StoppingAsked ==
  ASSUME Calling, Stopping, at = "ask", at' = "weigh", NEW call \in Calls,
         history' = Append(history, call), DOMAIN evidence \subseteq DOMAIN evidence',
         UNCHANGED <<chain, nonProgress, verdict>>
  PROVE  Stopping'
<1>1. history \in Seq(Calls) /\ Len(history) \in Nat /\ DOMAIN history = 1 .. Len(history)
  BY LenProperties DEF Calling
<1>2. Len(history') = Len(history) + 1 /\ \A k \in DOMAIN history : history'[k] = history[k]
  BY <1>1, AppendSound
<1>3. Weighed = Len(history) /\ Weighed' = Len(history)
  <2>1. Weighed = Len(history)
    BY DEF Weighed
  <2>2. Weighed' = Len(history') - 1
    BY DEF Weighed
  <2> QED
    BY <1>1, <1>2, <2>1, <2>2
<1>4. /\ nonProgress \in 0 .. Len(history)
      /\ \A k \in Len(history) - nonProgress + 1 .. Len(history) : ~history[k].answered
      /\ ~chain.unresolved => nonProgress < MaxNonProgress /\ nonProgress <= MaxNonProgress
      /\ ~Concluded /\ verdict.cites \subseteq DOMAIN evidence
  BY <1>3 DEF Stopping, Concluded
<1>5. \A k \in Len(history) - nonProgress + 1 .. Len(history) : k \in DOMAIN history
  BY <1>1, <1>4
<1>6. \A k \in Len(history) - nonProgress + 1 .. Len(history) : ~history'[k].answered
  BY <1>2, <1>4, <1>5
<1>7. ~Concluded'
  BY DEF Concluded
<1>8. verdict'.cites \subseteq DOMAIN evidence'
  BY <1>4
<1> QED
  BY <1>3, <1>4, <1>6, <1>7, <1>8 DEF Stopping

\* The run stops without a diagnosis, and cites what it has found.
LEMMA StoppingStopped ==
  ASSUME Stopping, at = "ask", NEW status \in {"failed", "budget_exhausted"}, Stop(status),
         Quiet, UNCHANGED <<chain, nonProgress>>
  PROVE  Stopping'
<1>1. /\ at' = "ended" /\ verdict'.status = status /\ verdict'.cites = DOMAIN evidence
      /\ history' = history /\ evidence' = evidence
  BY DEF Stop, NoVerdict, Quiet
<1>2. Weighed' = Weighed /\ Weighed = Len(history) /\ ~Concluded'
  BY <1>1 DEF Weighed, Concluded
<1> QED
  BY <1>1, <1>2 DEF Stopping

\* There is nothing left to ask.
LEMMA StoppingDone ==
  ASSUME Calling, Stopping, at = "ask", NEW p \in FullPlans, Open(p) = {}, plan' = p,
         at' = "conclude", Quiet, UNCHANGED <<chain, nonProgress, verdict>>
  PROVE  Stopping'
<1>1. history' = history /\ evidence' = evidence /\ done' = done
  BY DEF Quiet
<1>2. Weighed' = Weighed /\ ~Concluded' /\ ~Concluded
  BY <1>1 DEF Weighed, Concluded
<1>3. done \subseteq DOMAIN p
  <2>1. plan \in FullPlans /\ \A q, r \in FullPlans : DOMAIN q = DOMAIN r
    BY PlanSound
  <2> QED
    BY <2>1 DEF Calling
<1>4. Earned'
  BY <1>1, <1>3, NothingOpen DEF Earned
<1> QED
  BY <1>1, <1>2, <1>4 DEF Stopping

\* The evidence is weighed: the run has enough, or goes on.
LEMMA StoppingWeighed ==
  ASSUME Calling, Stopping, Holding', Weigh
  PROVE  Stopping'
<1>1. /\ at = "weigh" /\ nonProgress' = Count(hypotheses')
      /\ at' = IF \/ Enough(hypotheses')
                  \/ chain.architecture = "explicit_planner" /\ done = DOMAIN plan
               THEN "conclude" ELSE "ask"
      /\ UNCHANGED <<chain, plan, done, history, evidence, verdict>>
  BY DEF Weigh
<1>2. hypotheses' \in Seq(Hypotheses)
  BY DEF Holding, Founded
<1>3. /\ Len(history) \in Nat /\ Len(history) >= 1 /\ Weighed = Len(history) - 1
      /\ Weighed' = Len(history)
  <2>1. history \in Seq(Calls) /\ history # <<>>
    BY <1>1 DEF Calling
  <2>2. Len(history) \in Nat /\ Len(history) # 0
    BY <2>1, LenProperties, EmptySeq
  <2>3. Weighed = Len(history) - 1
    BY <1>1 DEF Weighed
  <2>4. Weighed' = Len(history)
    BY <1>1 DEF Weighed
  <2> QED
    BY <2>2, <2>3, <2>4
<1>4. /\ nonProgress \in 0 .. Len(history) - 1
      /\ \A k \in Len(history) - 1 - nonProgress + 1 .. Len(history) - 1 : ~history[k].answered
      /\ ~chain.unresolved => nonProgress < MaxNonProgress
      /\ verdict.cites \subseteq DOMAIN evidence
  BY <1>1, <1>3 DEF Stopping, Concluded
<1>5. \/ nonProgress' = 0
      \/ nonProgress' = nonProgress + 1 /\ ~history[Len(history)].answered
  BY <1>1, CountMeans
<1>6. nonProgress' \in 0 .. Len(history)
  BY <1>3, <1>4, <1>5
<1>7. \A k \in Len(history) - nonProgress' + 1 .. Len(history) : ~history[k].answered
  <2>1. CASE nonProgress' = 0
    <3>1. \A k \in Len(history) - nonProgress' + 1 .. Len(history) : FALSE
      BY <1>3, <2>1
    <3> QED
      BY <3>1
  <2>2. CASE nonProgress' = nonProgress + 1 /\ ~history[Len(history)].answered
    <3>1. \A k \in Len(history) - nonProgress' + 1 .. Len(history) :
            k = Len(history) \/ k \in Len(history) - 1 - nonProgress + 1 .. Len(history) - 1
      BY <1>3, <1>4, <2>2
    <3> QED
      BY <1>4, <2>2, <3>1
  <2> QED
    BY <1>5, <2>1, <2>2
<1>8. ~chain.unresolved => nonProgress' <= MaxNonProgress
  BY <1>3, <1>4, <1>5, ReasoningAssumption
<1>9. Completed' = Completed
  BY <1>1, CompletedStays
<1>10. CASE at' = "conclude"
  <2>1. Completed = DOMAIN plan
        \/ (~chain.unresolved /\ (Sure' \/ nonProgress' >= MaxNonProgress))
    <3>1. CASE Enough(hypotheses')
      BY <1>1, <1>2, <3>1, EnoughMeans DEF Sure
    <3>2. CASE chain.architecture = "explicit_planner" /\ done = DOMAIN plan
      BY <3>2 DEF Completed
    <3> QED
      BY <1>1, <1>10, <3>1, <3>2
  <2>2. Earned'
    BY <1>1, <1>9, <2>1 DEF Earned
  <2>3. ~Concluded'
    BY <1>10 DEF Concluded
  <2> QED
    BY <1>1, <1>3, <1>4, <1>6, <1>7, <1>8, <1>10, <2>2, <2>3 DEF Stopping
<1>11. CASE at' = "ask"
  <2>1. ~Enough(hypotheses')
    BY <1>1, <1>11
  <2>2. ~chain.unresolved => ~(Count(hypotheses') >= MaxNonProgress)
    BY <2>1 DEF Enough
  <2>3. ~chain.unresolved => nonProgress' < MaxNonProgress
    BY <1>1, <1>3, <1>6, <2>2, ReasoningAssumption
  <2>4. ~Concluded'
    BY <1>11 DEF Concluded
  <2> QED
    BY <1>1, <1>3, <1>4, <1>6, <1>7, <1>8, <1>11, <2>3, <2>4 DEF Stopping
<1> QED
  BY <1>1, <1>10, <1>11

\* The run is planned, or its first plan fails.
LEMMA StoppingPlanned ==
  ASSUME Calling, Stopping, MakePlan
  PROVE  Stopping'
<1>1. /\ at = "plan" /\ at' \in {"ask", "ended"}
      /\ UNCHANGED <<chain, history, evidence, nonProgress>>
  BY DEF MakePlan
<1>2. Weighed' = Weighed /\ ~Concluded
  BY <1>1 DEF Weighed, Concluded
<1>3. ~Concluded' /\ verdict'.cites \subseteq DOMAIN evidence'
  <2>1. CASE at' = "ask" /\ UNCHANGED verdict
    BY <1>1, <1>2, <2>1 DEF Stopping, Concluded
  <2>2. CASE verdict' = [NoVerdict EXCEPT !.status = "failed", !.code = "inconclusive"]
    BY <2>2 DEF NoVerdict, Concluded
  <2> QED
    BY <2>1, <2>2 DEF MakePlan
<1> QED
  BY <1>1, <1>2, <1>3 DEF Stopping

\* The run is diagnosed.
LEMMA StoppingConcluded ==
  ASSUME Stopping, Conclude
  PROVE  Stopping'
<1>1. /\ at = "conclude" /\ at' = "ended"
      /\ UNCHANGED <<chain, plan, done, history, evidence, hypotheses, nonProgress>>
  BY DEF Conclude
<1>2. Weighed' = Weighed /\ Earned
  BY <1>1 DEF Weighed, Stopping
<1>3. Earned'
  <2>1. Completed' = Completed
    BY <1>1, CompletedStays
  <2> QED
    BY <1>1, <1>2, <2>1 DEF Earned, Sure
<1>4. Diagnosis' = Diagnosis
  BY <1>1 DEF Diagnosis
<1> DEFINE d == Diagnosis
<1>5. /\ verdict'.status = (IF d.cites # {} THEN "completed" ELSE "failed")
      /\ verdict'.code = d.code /\ verdict'.confidence = d.confidence
      /\ verdict'.cites = d.cites
  BY DEF Conclude
<1>6. ~Concluded' => d.cites = {}
  BY <1>1, <1>5 DEF Concluded
<1> HIDE DEF d
<1>7. IF Concluded'
      THEN /\ Earned' /\ verdict'.code = Diagnosis'.code
           /\ verdict'.confidence = Diagnosis'.confidence /\ verdict'.cites = Diagnosis'.cites
      ELSE verdict'.cites \subseteq DOMAIN evidence'
  BY <1>3, <1>4, <1>5, <1>6 DEF d
<1> QED
  BY <1>1, <1>2, <1>7 DEF Stopping

\* The run stops only for a reason, and its calls without progress are counted.
THEOREM StoppingInvariance == Spec => []Stopping
<1>1. Init => Stopping
  <2> SUFFICES ASSUME Init
               PROVE  Stopping
    OBVIOUS
  <2>1. /\ history = <<>> /\ nonProgress = 0 /\ at = "plan" /\ verdict.cites = {}
    BY DEF Init, NoVerdict
  <2>2. Weighed = 0 /\ ~Concluded
    BY <2>1 DEF Weighed, Concluded
  <2> QED
    BY <2>1, <2>2, ReasoningAssumption DEF Stopping
<1>2. Calling /\ Calling' /\ Holding' /\ Stopping /\ [Next]_vars => Stopping'
  <2> SUFFICES ASSUME Calling, Holding', Stopping, [Next]_vars
               PROVE  Stopping'
    OBVIOUS
  <2>1. CASE MakePlan
    BY <2>1, StoppingPlanned
  <2>2. CASE Ask
    <3>1. at = "ask" /\ UNCHANGED <<chain, nonProgress>>
      BY <2>2 DEF Ask
    <3>2. PICK p \in FullPlans :
            /\ plan' = p /\ (chain.architecture # "reactive_react" => p = plan)
            /\ \/ (Stop("failed") \/ Stop("budget_exhausted")) /\ Quiet
               \/ Open(p) = {} /\ at' = "conclude" /\ Quiet /\ UNCHANGED verdict
               \/ \E next \in Open(p) :
                    /\ \A j \in Open(p) : next <= j
                    /\ Call(p, next) /\ done' = done \cup {next} /\ at' = "weigh" /\ UNCHANGED verdict
      BY <2>2, AskCases
    <3>3. CASE (Stop("failed") \/ Stop("budget_exhausted")) /\ Quiet
      BY <3>1, <3>3, StoppingStopped
    <3>4. CASE Open(p) = {} /\ at' = "conclude" /\ Quiet /\ UNCHANGED verdict
      BY <3>1, <3>2, <3>4, StoppingDone
    <3>5. ASSUME NEW next \in Open(p), Call(p, next), at' = "weigh", UNCHANGED verdict
          PROVE  Stopping'
      <4>1. p[next] \in Steps
        BY <3>1, <3>2, OpenIsNew
      <4>2. PICK call \in Calls : history' = Append(history, call)
        BY <3>5, <4>1, CallRecords
      <4>3. DOMAIN evidence \subseteq DOMAIN evidence'
        BY EvidenceGrows
      <4> QED
        BY <3>1, <3>5, <4>2, <4>3, StoppingAsked
    <3> QED
      BY <3>2, <3>3, <3>4, <3>5
  <2>3. CASE Weigh
    BY <2>3, StoppingWeighed
  <2>4. CASE Conclude
    BY <2>4, StoppingConcluded
  <2>5. CASE UNCHANGED vars
    <3>1. UNCHANGED <<chain, plan, done, history, evidence, hypotheses, nonProgress, at, verdict>>
      BY <2>5 DEF vars
    <3>2. Weighed' = Weighed /\ Completed' = Completed /\ Concluded' = Concluded
      BY <3>1, CompletedStays DEF Weighed, Concluded
    <3>3. Earned' = Earned /\ Diagnosis' = Diagnosis
      BY <3>1, <3>2 DEF Earned, Sure, Diagnosis
    <3> QED
      BY <3>1, <3>2, <3>3 DEF Stopping
  <2> QED
    BY <2>1, <2>2, <2>3, <2>4, <2>5 DEF Next
<1> QED
  BY <1>1, <1>2, CallingInvariance, HoldingInvariance, PTL DEF Spec

-----------------------------------------------------------------------------
(* What is derived from the evidence: the other three parts. *)

Queries(found) == Showing(found, "checkout", "db_query_count", "many_queries")
QueryLogs(found) == Showing(found, "checkout", "/orders", "many_queries")
Connections(found) == Showing(found, "inventory", "db_connections", "connections")
Inventory503(found) == Showing(found, "inventory", "ERROR", "503")
Full(found) == Showing(found, "worker", "disk_usage", "full")
Worker507(found) == Showing(found, "worker", "ERROR", "507")
Worker503(found) == Showing(found, "worker", "ERROR", "503")
Restarts(found) == Showing(found, "worker", "container_restarts", "restart")
Memory(found) == Showing(found, "worker", "memory_usage", "memory")
Payment401(found) == Showing(found, "payment", "WARNING", "401")
Gateway502(found) == Showing(found, "gateway", "ERROR", "502")
Leaking(found) == Restarts(found) # {} /\ Worker503(found) # {} /\ Full(found) = {}

\* What there has to be for a hypothesis to be derived, and to be held ever after.
Backed(code, found) ==
  CASE code = "n_plus_one_query"             -> Queries(found) # {}
    [] code = "database_connection_leak"     -> Connections(found) # {} /\ Inventory503(found) # {}
    [] code = "disk_exhaustion"              -> Full(found) # {} /\ Worker507(found) # {}
    [] code = "memory_leak"                  -> Restarts(found) # {} /\ Worker503(found) # {}
    [] code = "memory_pressure"              -> Memory(found) # {}
    [] code = "broken_payment_configuration" -> Payment401(found) # {} /\ Gateway502(found) # {}
    [] OTHER                                 -> FALSE

\* Newer evidence takes the ground from two of them.
Derived(code, found) ==
  /\ Backed(code, found)
  /\ code = "memory_leak" => Full(found) = {}
  /\ code = "memory_pressure" => ~Leaking(found)

Confidence(code, found) ==
  CASE code = "n_plus_one_query"             -> IF QueryLogs(found) # {} THEN 97 ELSE 72
    [] code = "database_connection_leak"     -> 96
    [] code = "disk_exhaustion"              -> 99
    [] code = "memory_leak"                  -> 95
    [] code = "memory_pressure"              -> 55
    [] code = "broken_payment_configuration" -> 97
    [] OTHER                                 -> 0

LEMMA MaybeOneIs ==
  ASSUME NEW S, NEW h \in S, NEW condition
  PROVE  /\ MaybeOne(condition, h) \in Seq(S)
         /\ ToSet(MaybeOne(condition, h)) = {x \in {h} : condition}
<1>1. CASE condition
  <2>1. MaybeOne(condition, h) = <<h>>
    BY <1>1 DEF MaybeOne
  <2>2. <<h>> \in Seq(S) /\ DOMAIN <<h>> = {1} /\ <<h>>[1] = h
    OBVIOUS
  <2>3. ToSet(<<h>>) = {h}
    BY <2>2 DEF ToSet
  <2> QED
    BY <1>1, <2>1, <2>2, <2>3
<1>2. CASE ~condition
  <2>1. MaybeOne(condition, h) = <<>>
    BY <1>2 DEF MaybeOne
  <2>2. <<>> \in Seq(S) /\ DOMAIN <<>> = {}
    OBVIOUS
  <2>3. ToSet(<<>>) = {}
    BY <2>2 DEF ToSet
  <2> QED
    BY <1>2, <2>1, <2>2, <2>3
<1> QED
  BY <1>1, <1>2

LEMMA MaybeOneMore ==
  ASSUME NEW S, NEW s \in Seq(S), NEW h \in S, NEW condition
  PROVE  /\ s \o MaybeOne(condition, h) \in Seq(S)
         /\ ToSet(s \o MaybeOne(condition, h)) = ToSet(s) \cup {x \in {h} : condition}
<1> DEFINE one == MaybeOne(condition, h)
<1>1. one \in Seq(S) /\ ToSet(one) = {x \in {h} : condition}
  BY MaybeOneIs
<1> HIDE DEF one
<1>2. s \o one \in Seq(S) /\ ToSet(s \o one) = ToSet(s) \cup ToSet(one)
  BY <1>1, ConcatProperties, ConcatElements
<1> QED
  BY <1>1, <1>2 DEF one

\* DeterministicReasoningProvider derives a hypothesis for every code the evidence
\* backs, and no other.
LEMMA CandidatesTell ==
  ASSUME NEW found
  PROVE  /\ \A i \in DOMAIN Candidates(found) :
              /\ Candidates(found)[i].code \in Codes /\ Derived(Candidates(found)[i].code, found)
              /\ Candidates(found)[i].confidence = Confidence(Candidates(found)[i].code, found)
         /\ \A code \in Codes : Derived(code, found) =>
              \E i \in DOMAIN Candidates(found) :
                /\ Candidates(found)[i].code = code
                /\ Candidates(found)[i].confidence = Confidence(code, found)
<1> DEFINE usage == About(found, "worker", "memory_usage")
<1> DEFINE h1 == Hypothesis("n_plus_one_query", IF QueryLogs(found) # {} THEN 97 ELSE 72,
                            Queries(found) \cup QueryLogs(found))
<1> DEFINE h2 == Hypothesis("database_connection_leak", 96, Connections(found) \cup Inventory503(found))
<1> DEFINE h3 == Hypothesis("disk_exhaustion", 99, Full(found) \cup Worker507(found))
<1> DEFINE h4 == Hypothesis("memory_leak", 95, Restarts(found) \cup Worker503(found) \cup usage)
<1> DEFINE h5 == Hypothesis("memory_pressure", 55, Memory(found))
<1> DEFINE h6 == Hypothesis("broken_payment_configuration", 97, Payment401(found) \cup Gateway502(found))
<1> DEFINE q1 == Queries(found) # {}
<1> DEFINE q2 == Connections(found) # {} /\ Inventory503(found) # {}
<1> DEFINE q3 == Full(found) # {} /\ Worker507(found) # {}
<1> DEFINE q4 == Leaking(found)
<1> DEFINE q5 == ~Leaking(found) /\ Memory(found) # {}
<1> DEFINE q6 == Payment401(found) # {} /\ Gateway502(found) # {}
<1> DEFINE S == {h1, h2, h3, h4, h5, h6}
<1> DEFINE s1 == MaybeOne(q1, h1)
<1> DEFINE s2 == s1 \o MaybeOne(q2, h2)
<1> DEFINE s3 == s2 \o MaybeOne(q3, h3)
<1> DEFINE s4 == s3 \o MaybeOne(q4, h4)
<1> DEFINE s5 == s4 \o MaybeOne(q5, h5)
<1> DEFINE s6 == s5 \o MaybeOne(q6, h6)
<1>1. Candidates(found) = s6
  BY DEF Candidates, MaybeOne, Leaking, Queries, QueryLogs, Connections, Inventory503, Full,
         Worker507, Worker503, Restarts, Memory, Payment401, Gateway502
<1>2. /\ h1.code = "n_plus_one_query" /\ h1.confidence = (IF QueryLogs(found) # {} THEN 97 ELSE 72)
      /\ h2.code = "database_connection_leak" /\ h2.confidence = 96
      /\ h3.code = "disk_exhaustion" /\ h3.confidence = 99
      /\ h4.code = "memory_leak" /\ h4.confidence = 95
      /\ h5.code = "memory_pressure" /\ h5.confidence = 55
      /\ h6.code = "broken_payment_configuration" /\ h6.confidence = 97
  BY DEF Hypothesis
<1> HIDE DEF h1, h2, h3, h4, h5, h6
<1>3. h1 \in S /\ h2 \in S /\ h3 \in S /\ h4 \in S /\ h5 \in S /\ h6 \in S
  OBVIOUS
<1> HIDE DEF S
<1> HIDE DEF q1, q2, q3, q4, q5, q6
<1>4. s1 \in Seq(S) /\ ToSet(s1) = {x \in {h1} : q1}
  BY <1>3, MaybeOneIs
<1> HIDE DEF s1
<1>5. s2 \in Seq(S) /\ ToSet(s2) = ToSet(s1) \cup {x \in {h2} : q2}
  BY <1>3, <1>4, MaybeOneMore
<1> HIDE DEF s2
<1>6. s3 \in Seq(S) /\ ToSet(s3) = ToSet(s2) \cup {x \in {h3} : q3}
  BY <1>3, <1>5, MaybeOneMore
<1> HIDE DEF s3
<1>7. s4 \in Seq(S) /\ ToSet(s4) = ToSet(s3) \cup {x \in {h4} : q4}
  BY <1>3, <1>6, MaybeOneMore
<1> HIDE DEF s4
<1>8. s5 \in Seq(S) /\ ToSet(s5) = ToSet(s4) \cup {x \in {h5} : q5}
  BY <1>3, <1>7, MaybeOneMore
<1> HIDE DEF s5
<1>9. s6 \in Seq(S) /\ ToSet(s6) = ToSet(s5) \cup {x \in {h6} : q6}
  BY <1>3, <1>8, MaybeOneMore
<1> HIDE DEF s6
<1> DEFINE T == ToSet(s6)
<1>10. \A x : x \in T <=> \/ x = h1 /\ q1
                          \/ x = h2 /\ q2
                          \/ x = h3 /\ q3
                          \/ x = h4 /\ q4
                          \/ x = h5 /\ q5
                          \/ x = h6 /\ q6
  BY <1>4, <1>5, <1>6, <1>7, <1>8, <1>9
<1>11. T = {s6[i] : i \in DOMAIN s6}
  BY DEF ToSet
<1> HIDE DEF T
<1>12. ASSUME NEW x \in T
       PROVE  x.code \in Codes /\ Derived(x.code, found) /\ x.confidence = Confidence(x.code, found)
  <2>1. CASE x = h1 /\ q1
    BY <1>2, <2>1 DEF Codes, Causes, Derived, Backed, Confidence, q1
  <2>2. CASE x = h2 /\ q2
    BY <1>2, <2>2 DEF Codes, Causes, Derived, Backed, Confidence, q2
  <2>3. CASE x = h3 /\ q3
    BY <1>2, <2>3 DEF Codes, Causes, Derived, Backed, Confidence, q3
  <2>4. CASE x = h4 /\ q4
    BY <1>2, <2>4 DEF Codes, Causes, Derived, Backed, Confidence, q4, Leaking
  <2>5. CASE x = h5 /\ q5
    BY <1>2, <2>5 DEF Codes, Causes, Derived, Backed, Confidence, q5
  <2>6. CASE x = h6 /\ q6
    BY <1>2, <2>6 DEF Codes, Causes, Derived, Backed, Confidence, q6
  <2> QED
    BY <1>10, <2>1, <2>2, <2>3, <2>4, <2>5, <2>6
<1>13. ASSUME NEW code \in Codes, Derived(code, found)
       PROVE  \E x \in T : x.code = code /\ x.confidence = Confidence(code, found)
  <2>1. CASE code = "n_plus_one_query"
    <3>1. q1
      BY <1>13, <2>1 DEF Derived, Backed, q1
    <3>2. h1 \in T
      BY <1>10, <3>1
    <3>3. h1.code = code /\ h1.confidence = Confidence(code, found)
      BY <1>2, <2>1 DEF Confidence
    <3> QED
      BY <3>2, <3>3
  <2>2. CASE code = "database_connection_leak"
    <3>1. q2
      BY <1>13, <2>2 DEF Derived, Backed, q2
    <3>2. h2 \in T
      BY <1>10, <3>1
    <3>3. h2.code = code /\ h2.confidence = Confidence(code, found)
      BY <1>2, <2>2 DEF Confidence
    <3> QED
      BY <3>2, <3>3
  <2>3. CASE code = "disk_exhaustion"
    <3>1. q3
      BY <1>13, <2>3 DEF Derived, Backed, q3
    <3>2. h3 \in T
      BY <1>10, <3>1
    <3>3. h3.code = code /\ h3.confidence = Confidence(code, found)
      BY <1>2, <2>3 DEF Confidence
    <3> QED
      BY <3>2, <3>3
  <2>4. CASE code = "memory_leak"
    <3>1. q4
      BY <1>13, <2>4 DEF Derived, Backed, q4, Leaking
    <3>2. h4 \in T
      BY <1>10, <3>1
    <3>3. h4.code = code /\ h4.confidence = Confidence(code, found)
      BY <1>2, <2>4 DEF Confidence
    <3> QED
      BY <3>2, <3>3
  <2>5. CASE code = "memory_pressure"
    <3>1. q5
      BY <1>13, <2>5 DEF Derived, Backed, q5
    <3>2. h5 \in T
      BY <1>10, <3>1
    <3>3. h5.code = code /\ h5.confidence = Confidence(code, found)
      BY <1>2, <2>5 DEF Confidence
    <3> QED
      BY <3>2, <3>3
  <2>6. CASE code = "broken_payment_configuration"
    <3>1. q6
      BY <1>13, <2>6 DEF Derived, Backed, q6
    <3>2. h6 \in T
      BY <1>10, <3>1
    <3>3. h6.code = code /\ h6.confidence = Confidence(code, found)
      BY <1>2, <2>6 DEF Confidence
    <3> QED
      BY <3>2, <3>3
  <2> QED
    BY <2>1, <2>2, <2>3, <2>4, <2>5, <2>6 DEF Codes, Causes
<1> QED
  BY <1>1, <1>11, <1>12, <1>13

\* What is held for true is backed by the evidence, at the confidence it is
\* derived with; and what the evidence says, once weighed, is held.
Deriving ==
  /\ \A i \in DOMAIN hypotheses :
       /\ Backed(hypotheses[i].code, evidence)
       /\ hypotheses[i].code \in {"memory_leak", "memory_pressure"} =>
            hypotheses[i].confidence = Confidence(hypotheses[i].code, evidence)
  /\ at # "weigh" =>
       \A code \in Codes : Derived(code, evidence) =>
         \E i \in DOMAIN hypotheses : /\ hypotheses[i].code = code
                                      /\ hypotheses[i].confidence = Confidence(code, evidence)

\* What has been asked is answered in full unless something was missed, and what
\* is done has been asked.  A diagnosis follows from a plan.
Finding ==
  /\ misses = 0 => \A k \in DOMAIN history :
       /\ history[k].answered
       /\ \E i \in DOMAIN evidence : /\ Invocation(evidence[i].step) = history[k].call
                                     /\ Symptoms(world.active, evidence[i].step) \subseteq evidence[i].saw
  /\ chain.architecture # "reactive_react" => \A i \in done : Invocation(plan[i]) \in Observed
  /\ Concluded => plan \in FullPlans /\ verdict.action = Recommended(Diagnosis)

\* The ground of a memory leak does not change under it: with one plan the disk is
\* asked about before the restarts are, and a chain that does not wait for
\* unresolved evidence stops as soon as it holds one.
Settling ==
  /\ chain.model \in {"deterministic", "ollama"}
  /\ \A i \in DOMAIN evidence :
       evidence[i].step.about \in Telling =>
         chain.compound \/ evidence[i].step.service = incident.service
  /\ OnePlan /\ (\E i \in DOMAIN evidence : OfRestarts(evidence[i].step)) =>
       \A p \in FullPlans : \A j \in DOMAIN p : OfDisk(p[j]) => Invocation(p[j]) \in Observed
  /\ (OnePlan \/ ~chain.unresolved) /\ (\E i \in DOMAIN hypotheses : hypotheses[i].code = "memory_leak") =>
       Full(evidence) = {} /\ (OnePlan \/ at \in {"conclude", "ended"})

\* Weighing the evidence replaces what it derives and keeps the rest.
LEMMA WeighedTells ==
  ASSUME Calling, Holding, Weigh
  PROVE  /\ \A code \in Codes : Derived(code, evidence) =>
              \E k \in DOMAIN hypotheses' : /\ hypotheses'[k].code = code
                                            /\ hypotheses'[k].confidence = Confidence(code, evidence)
         /\ \A k \in DOMAIN hypotheses' :
              \/ /\ Derived(hypotheses'[k].code, evidence)
                 /\ hypotheses'[k].confidence = Confidence(hypotheses'[k].code, evidence)
              \/ \E i \in DOMAIN hypotheses : hypotheses'[k] = hypotheses[i]
                                              /\ ~Derived(hypotheses[i].code, evidence)
<1> DEFINE new == Stamped(Candidates(evidence))
<1>1. hypotheses' = Merged(new)
  BY DEF Weigh
<1>2. Founded(Candidates(evidence), evidence, world)
  BY CandidatesFounded
<1>3. /\ Founded(new, evidence, world) /\ DOMAIN new = DOMAIN Candidates(evidence)
      /\ \A i \in DOMAIN new : /\ new[i].code = Candidates(evidence)[i].code
                               /\ new[i].confidence = Candidates(evidence)[i].confidence
  BY <1>2, StampedFounded
<1> HIDE DEF new
<1>4. /\ \A i \in DOMAIN new : /\ Derived(new[i].code, evidence)
                               /\ new[i].confidence = Confidence(new[i].code, evidence)
      /\ \A code \in Codes : Derived(code, evidence) =>
           \E i \in DOMAIN new : /\ new[i].code = code
                                 /\ new[i].confidence = Confidence(code, evidence)
  <2>1. /\ \A i \in DOMAIN Candidates(evidence) :
              /\ Derived(Candidates(evidence)[i].code, evidence)
              /\ Candidates(evidence)[i].confidence = Confidence(Candidates(evidence)[i].code, evidence)
        /\ \A code \in Codes : Derived(code, evidence) =>
             \E i \in DOMAIN Candidates(evidence) :
               /\ Candidates(evidence)[i].code = code
               /\ Candidates(evidence)[i].confidence = Confidence(code, evidence)
    BY CandidatesTell
  <2> QED
    BY <1>3, <2>1, Zenon
<1>5. /\ \A j \in DOMAIN new : \E k \in DOMAIN hypotheses' : hypotheses'[k] = new[j]
      /\ \A k \in DOMAIN hypotheses' :
           \/ \E j \in DOMAIN new : hypotheses'[k] = new[j]
           \/ \E i \in DOMAIN hypotheses :
                hypotheses'[k] = hypotheses[i] /\ \A j \in DOMAIN new : new[j].code # hypotheses[i].code
  <2>1. Founded(hypotheses, evidence, world)
    BY DEF Holding
  <2> QED
    BY <1>1, <1>3, <2>1, MergedFounded
<1>6. \A i \in DOMAIN hypotheses : hypotheses[i].code \in Codes
  <2>1. \A i \in DOMAIN hypotheses : hypotheses[i] \in Hypotheses
    BY DEF Holding, Founded
  <2>2. \A h \in Hypotheses : h.code \in Codes
    BY DEF Hypotheses
  <2> QED
    BY <2>1, <2>2
<1>7. ASSUME NEW code \in Codes, Derived(code, evidence)
      PROVE  \E k \in DOMAIN hypotheses' : /\ hypotheses'[k].code = code
                                           /\ hypotheses'[k].confidence = Confidence(code, evidence)
  <2>1. PICK i \in DOMAIN new : /\ new[i].code = code
                                /\ new[i].confidence = Confidence(code, evidence)
    BY <1>4, <1>7
  <2>2. PICK k \in DOMAIN hypotheses' : hypotheses'[k] = new[i]
    BY <1>5
  <2> QED
    BY <2>1, <2>2
<1>8. ASSUME NEW k \in DOMAIN hypotheses'
      PROVE  \/ /\ Derived(hypotheses'[k].code, evidence)
                /\ hypotheses'[k].confidence = Confidence(hypotheses'[k].code, evidence)
             \/ \E i \in DOMAIN hypotheses : hypotheses'[k] = hypotheses[i]
                                             /\ ~Derived(hypotheses[i].code, evidence)
  <2>1. CASE \E j \in DOMAIN new : hypotheses'[k] = new[j]
    BY <1>4, <2>1, Zenon
  <2>2. ASSUME NEW i \in DOMAIN hypotheses, hypotheses'[k] = hypotheses[i],
               \A j \in DOMAIN new : new[j].code # hypotheses[i].code
        PROVE  ~Derived(hypotheses[i].code, evidence)
    BY <1>4, <1>6, <2>2, Zenon
  <2> QED
    BY <1>5, <2>1, <2>2
<1> QED
  BY <1>7, <1>8

\* What shows something goes on showing it.
LEMMA ShowingGrows ==
  ASSUME Calling, [Next]_vars
  PROVE  \A service, about, symptom :
           Showing(evidence, service, about, symptom) \subseteq Showing(evidence', service, about, symptom)
<1>1. DOMAIN evidence \subseteq DOMAIN evidence' /\ \A i \in DOMAIN evidence : evidence'[i] = evidence[i]
  BY EvidenceGrows
<1> QED
  BY <1>1 DEF Showing, About

LEMMA BackedStays ==
  ASSUME Calling, [Next]_vars, NEW code, Backed(code, evidence)
  PROVE  Backed(code, evidence')
  BY ShowingGrows DEF Backed, Queries, Connections, Inventory503, Full, Worker507, Worker503,
                      Restarts, Memory, Payment401, Gateway502

\* What is held is backed, and what is backed and weighed is held.
THEOREM DerivingInvariance == Spec => []Deriving
<1>1. Init => Deriving
  <2> SUFFICES ASSUME Init
               PROVE  Deriving
    OBVIOUS
  <2>1. DOMAIN hypotheses = {} /\ DOMAIN evidence = {}
    BY DEF Init
  <2>2. \A code : ~Backed(code, evidence)
    BY <2>1 DEF Backed, Queries, Connections, Inventory503, Full, Worker507, Worker503, Restarts,
                Memory, Payment401, Gateway502, Showing, About
  <2> QED
    BY <2>1, <2>2 DEF Deriving, Derived
<1>2. Calling /\ Holding /\ Deriving /\ [Next]_vars => Deriving'
  <2> SUFFICES ASSUME Calling, Holding, Deriving, [Next]_vars
               PROVE  Deriving'
    OBVIOUS
  <2>1. CASE Weigh
    <3>1. evidence' = evidence
      BY <2>1 DEF Weigh
    <3>2. /\ \A code \in Codes : Derived(code, evidence) =>
               \E k \in DOMAIN hypotheses' : /\ hypotheses'[k].code = code
                                             /\ hypotheses'[k].confidence = Confidence(code, evidence)
          /\ \A k \in DOMAIN hypotheses' :
               \/ /\ Derived(hypotheses'[k].code, evidence)
                  /\ hypotheses'[k].confidence = Confidence(hypotheses'[k].code, evidence)
               \/ \E i \in DOMAIN hypotheses : hypotheses'[k] = hypotheses[i]
                                               /\ ~Derived(hypotheses[i].code, evidence)
      BY <2>1, WeighedTells
    <3>3. ASSUME NEW k \in DOMAIN hypotheses'
          PROVE  /\ Backed(hypotheses'[k].code, evidence)
                 /\ hypotheses'[k].code \in {"memory_leak", "memory_pressure"} =>
                      hypotheses'[k].confidence = Confidence(hypotheses'[k].code, evidence)
      BY <3>2 DEF Deriving, Derived
    <3> QED
      BY <3>1, <3>2, <3>3 DEF Deriving
  <2>2. CASE MakePlan \/ Ask \/ Conclude \/ UNCHANGED vars
    <3>1. hypotheses' = hypotheses
      BY <2>2 DEF MakePlan, Ask, Conclude, vars
    <3>2. \A code : Backed(code, evidence) => Backed(code, evidence')
      BY BackedStays
    <3>3. \A code \in {"memory_leak", "memory_pressure"} :
            Confidence(code, evidence') = Confidence(code, evidence)
      BY DEF Confidence
    <3>4. at' # "weigh" => at # "weigh" /\ evidence' = evidence
      <4>1. CASE Ask
        <5>1. at = "ask"
          BY <4>1 DEF Ask
        <5>2. PICK p \in FullPlans :
                /\ plan' = p /\ (chain.architecture # "reactive_react" => p = plan)
                /\ \/ (Stop("failed") \/ Stop("budget_exhausted")) /\ Quiet
                   \/ Open(p) = {} /\ at' = "conclude" /\ Quiet /\ UNCHANGED verdict
                   \/ \E next \in Open(p) :
                        /\ \A j \in Open(p) : next <= j
                        /\ Call(p, next) /\ done' = done \cup {next} /\ at' = "weigh" /\ UNCHANGED verdict
          BY <4>1, AskCases
        <5> QED
          BY <5>1, <5>2 DEF Quiet
      <4>2. CASE MakePlan \/ Conclude \/ UNCHANGED vars
        BY <4>2 DEF MakePlan, Conclude, vars
      <4> QED
        BY <2>2, <4>1, <4>2
    <3>5. \A i \in DOMAIN hypotheses :
            /\ Backed(hypotheses[i].code, evidence')
            /\ hypotheses[i].code \in {"memory_leak", "memory_pressure"} =>
                 hypotheses[i].confidence = Confidence(hypotheses[i].code, evidence')
      BY <3>2, <3>3 DEF Deriving
    <3> QED
      BY <3>1, <3>4, <3>5 DEF Deriving
  <2> QED
    BY <2>1, <2>2 DEF Next
<1> QED
  BY <1>1, <1>2, CallingInvariance, HoldingInvariance, PTL DEF Spec

\* What is found after a step that asks nothing.
LEMMA FindingStays ==
  ASSUME Finding, UNCHANGED <<world, chain, done, history, evidence, misses>>,
         chain.architecture # "reactive_react" => done = {} \/ plan' = plan,
         Concluded' => plan' \in FullPlans' /\ verdict'.action = Recommended(Diagnosis)'
  PROVE  Finding'
<1>1. Observed' = Observed
  BY DEF Observed
<1>2. chain.architecture # "reactive_react" => \A i \in done : plan'[i] = plan[i]
  OBVIOUS
<1> QED
  BY <1>1, <1>2 DEF Finding, Invocation

\* What is done has been asked, and what is asked is answered unless it is missed.
THEOREM FindingInvariance == Spec => []Finding
<1>1. Init => Finding
  BY DEF Init, Finding, Concluded
<1>2. Calling /\ Finding /\ [Next]_vars => Finding'
  <2> SUFFICES ASSUME Calling, Finding, [Next]_vars
               PROVE  Finding'
    OBVIOUS
  <2>1. CASE MakePlan
    <3>1. /\ at = "plan" /\ UNCHANGED <<world, chain, incident, done, history, evidence, misses>>
          /\ at' = "ask" \/ verdict' = [NoVerdict EXCEPT !.status = "failed", !.code = "inconclusive"]
      BY <2>1 DEF MakePlan
    <3>2. done = {}
      BY <3>1 DEF Calling
    <3>3. ~Concluded'
      BY <3>1 DEF Concluded, NoVerdict
    <3> QED
      BY <3>1, <3>2, <3>3, FindingStays
  <2>2. CASE Ask
    <3>1. at = "ask" /\ UNCHANGED <<incident, chain, world>>
      BY <2>2 DEF Ask
    <3>2. PICK p \in FullPlans :
            /\ plan' = p /\ (chain.architecture # "reactive_react" => p = plan)
            /\ \/ (Stop("failed") \/ Stop("budget_exhausted")) /\ Quiet
               \/ Open(p) = {} /\ at' = "conclude" /\ Quiet /\ UNCHANGED verdict
               \/ \E next \in Open(p) :
                    /\ \A j \in Open(p) : next <= j
                    /\ Call(p, next) /\ done' = done \cup {next} /\ at' = "weigh" /\ UNCHANGED verdict
      BY <2>2, AskCases
    <3>3. ~Concluded'
      BY <3>2 DEF Concluded, Stop, NoVerdict
    <3>4. CASE Quiet
      BY <3>1, <3>2, <3>3, <3>4, FindingStays DEF Quiet
    <3>5. ASSUME NEW next \in Open(p), Call(p, next), done' = done \cup {next}
          PROVE  Finding'
      <4>1. PICK n \in DOMAIN history' :
              /\ DOMAIN history' = DOMAIN history \cup {n}
              /\ \A k \in DOMAIN history : history'[k] = history[k]
              /\ history'[n].call = Invocation(p[next])
              /\ Observed' = Observed \cup {Invocation(p[next])}
              /\ misses' = 0 =>
                   /\ misses = 0 /\ history'[n].answered
                   /\ \E i \in DOMAIN evidence' : /\ evidence'[i].step = p[next]
                                                  /\ Symptoms(world.active, p[next]) \subseteq evidence'[i].saw
        BY <3>1, <3>2, <3>5, CallAdds
      <4>2. DOMAIN evidence \subseteq DOMAIN evidence' /\ \A i \in DOMAIN evidence : evidence'[i] = evidence[i]
        BY EvidenceGrows
      <4>3. ASSUME misses' = 0, NEW k \in DOMAIN history'
            PROVE  /\ history'[k].answered
                   /\ \E i \in DOMAIN evidence' :
                        /\ Invocation(evidence'[i].step) = history'[k].call
                        /\ Symptoms(world.active, evidence'[i].step) \subseteq evidence'[i].saw
        <5>1. CASE k = n
          BY <4>1, <4>3, <5>1
        <5>2. CASE k \in DOMAIN history
          <6>1. /\ history[k].answered
                /\ \E i \in DOMAIN evidence :
                     /\ Invocation(evidence[i].step) = history[k].call
                     /\ Symptoms(world.active, evidence[i].step) \subseteq evidence[i].saw
            BY <4>1, <4>3, <5>2 DEF Finding
          <6>2. history'[k] = history[k]
            BY <4>1, <5>2
          <6> QED
            BY <4>2, <6>1, <6>2
        <5> QED
          BY <4>1, <5>1, <5>2
      <4>4. ASSUME chain.architecture # "reactive_react", NEW i \in done'
            PROVE  Invocation(plan'[i]) \in Observed'
        <5>1. plan' = plan /\ p = plan /\ (i \in done \/ i = next)
          BY <3>2, <3>5, <4>4
        <5> QED
          BY <4>1, <4>4, <5>1 DEF Finding
      <4> QED
        BY <3>1, <3>3, <4>3, <4>4 DEF Finding, Invocation
    <3> QED
      BY <3>2, <3>4, <3>5
  <2>3. CASE Weigh
    <3>1. /\ at' # "ended" /\ UNCHANGED <<world, chain, plan, done, history, evidence, misses>>
      BY <2>3 DEF Weigh
    <3> QED
      BY <3>1, FindingStays DEF Concluded
  <2>4. CASE Conclude
    <3>1. /\ at = "conclude" /\ verdict'.action = Recommended(Diagnosis)
          /\ UNCHANGED <<incident, chain, world, plan, done, history, evidence, hypotheses, misses>>
      BY <2>4 DEF Conclude
    <3>2. plan \in FullPlans /\ FullPlans' = FullPlans
      BY <3>1, PlanSound, FullPlansStay
    <3>3. Recommended(Diagnosis)' = Recommended(Diagnosis)
      BY <3>1 DEF Recommended, Diagnosis
    <3> QED
      BY <3>1, <3>2, <3>3, FindingStays
  <2>5. CASE UNCHANGED vars
    <3>1. UNCHANGED <<incident, chain, world, plan, done, history, evidence, hypotheses, at, verdict, misses>>
      BY <2>5 DEF vars
    <3>2. FullPlans' = FullPlans /\ Recommended(Diagnosis)' = Recommended(Diagnosis) /\ Concluded' = Concluded
      BY <3>1, FullPlansStay DEF Recommended, Diagnosis, Concluded
    <3>3. Concluded' => plan' \in FullPlans' /\ verdict'.action = Recommended(Diagnosis)'
      BY <3>1, <3>2 DEF Finding
    <3> QED
      BY <3>1, <3>3, FindingStays
  <2> QED
    BY <2>1, <2>2, <2>3, <2>4, <2>5 DEF Next
<1> QED
  BY <1>1, <1>2, CallingInvariance, PTL DEF Spec

\* What there is to see of an active root cause when a question is answered in full.
LEMMA SymptomsShown ==
  ASSUME NEW faults, NEW c, [cause |-> c, service |-> HomeOf(c)] \in faults, NEW step
  PROVE  /\ c = "n_plus_one_query" /\ step.service = "checkout"
              /\ step.about \in {"db_query_count", "/orders"} => "many_queries" \in Symptoms(faults, step)
         /\ c = "database_connection_leak" /\ step.service = "inventory"
              /\ step.about = "db_connections" => "connections" \in Symptoms(faults, step)
         /\ c = "database_connection_leak" /\ step.service = "inventory"
              /\ step.about = "ERROR" => "503" \in Symptoms(faults, step)
         /\ c = "disk_exhaustion" /\ step.service = "worker"
              /\ step.about = "disk_usage" => "full" \in Symptoms(faults, step)
         /\ c = "disk_exhaustion" /\ step.service = "worker"
              /\ step.about = "ERROR" => "507" \in Symptoms(faults, step)
         /\ c = "memory_leak" /\ step.service = "worker"
              /\ step.about = "container_restarts" => "restart" \in Symptoms(faults, step)
         /\ c = "memory_leak" /\ step.service = "worker"
              /\ step.about = "ERROR" => "503" \in Symptoms(faults, step)
         /\ c = "broken_payment_configuration" /\ step.service = "payment"
              /\ step.about = "WARNING" => "401" \in Symptoms(faults, step)
         /\ c = "broken_payment_configuration" /\ step.service = "gateway"
              /\ step.about = "ERROR" => "502" \in Symptoms(faults, step)
<1>1. c \in CausesAt(faults, HomeOf(c))
  <2> DEFINE f == [cause |-> c, service |-> HomeOf(c)]
  <2>1. f.cause = c /\ f \in {g \in faults : g.service = HomeOf(c)}
    OBVIOUS
  <2> HIDE DEF f
  <2> QED
    BY <2>1 DEF CausesAt
<1>2. ASSUME NEW code \in Status(c)
      PROVE  code \in StatusesOf(faults, HomeOf(c))
  BY <1>1, <1>2 DEF StatusesOf
<1>3. ASSUME c = "n_plus_one_query", step.service = "checkout", step.about \in {"db_query_count", "/orders"}
      PROVE  "many_queries" \in Symptoms(faults, step)
  BY <1>1, <1>3 DEF Symptoms, HomeOf
<1>4. ASSUME c = "database_connection_leak", step.service = "inventory", step.about = "db_connections"
      PROVE  "connections" \in Symptoms(faults, step)
  BY <1>1, <1>4 DEF Symptoms, HomeOf
<1>5. ASSUME c = "database_connection_leak", step.service = "inventory", step.about = "ERROR"
      PROVE  "503" \in Symptoms(faults, step)
  <2>1. "503" \in StatusesOf(faults, "inventory")
    BY <1>2, <1>5 DEF Status, HomeOf
  <2> QED
    BY <1>5, <2>1 DEF Symptoms
<1>6. ASSUME c = "disk_exhaustion", step.service = "worker", step.about = "disk_usage"
      PROVE  "full" \in Symptoms(faults, step)
  BY <1>1, <1>6 DEF Symptoms, HomeOf
<1>7. ASSUME c = "disk_exhaustion", step.service = "worker", step.about = "ERROR"
      PROVE  "507" \in Symptoms(faults, step)
  <2>1. "507" \in StatusesOf(faults, "worker")
    BY <1>2, <1>7 DEF Status, HomeOf
  <2> QED
    BY <1>7, <2>1 DEF Symptoms
<1>8. ASSUME c = "memory_leak", step.service = "worker", step.about = "container_restarts"
      PROVE  "restart" \in Symptoms(faults, step)
  BY <1>1, <1>8 DEF Symptoms, HomeOf
<1>9. ASSUME c = "memory_leak", step.service = "worker", step.about = "ERROR"
      PROVE  "503" \in Symptoms(faults, step)
  <2>1. "503" \in StatusesOf(faults, "worker")
    BY <1>2, <1>9 DEF Status, HomeOf
  <2> QED
    BY <1>9, <2>1 DEF Symptoms
<1>10. ASSUME c = "broken_payment_configuration", step.service = "payment", step.about = "WARNING"
      PROVE  "401" \in Symptoms(faults, step)
  <2>1. "401" \in StatusesOf(faults, "payment")
    BY <1>2, <1>10 DEF Status, HomeOf
  <2> QED
    BY <1>10, <2>1 DEF Symptoms
<1>11. ASSUME c = "broken_payment_configuration", step.service = "gateway", step.about = "ERROR"
      PROVE  "502" \in Symptoms(faults, step)
  <2>1. "401" \in StatusesOf(faults, "payment")
    BY <1>2, <1>11 DEF Status, HomeOf
  <2> QED
    BY <1>11, <2>1 DEF Symptoms, Upstream
<1> QED
  BY <1>3, <1>4, <1>5, <1>6, <1>7, <1>8, <1>9, <1>10, <1>11

\* When nothing is missed, a question that is asked is answered with all there is to see.
LEMMA AskedIsSeen ==
  ASSUME Calling, Finding, misses = 0, plan \in FullPlans,
         NEW j \in DOMAIN plan, Invocation(plan[j]) \in Observed
  PROVE  \E i \in DOMAIN evidence : /\ Question(evidence[i].step) = Question(plan[j])
                                    /\ Symptoms(world.active, evidence[i].step) \subseteq evidence[i].saw
<1>1. plan[j] \in Steps
  <2>1. plan \in Seq(Steps)
    BY PlanSound
  <2> QED
    BY <2>1
<1>2. PICK k \in DOMAIN history : history[k].call = Invocation(plan[j])
  BY DEF Observed
<1>3. PICK i \in DOMAIN evidence :
        /\ Invocation(evidence[i].step) = history[k].call
        /\ Symptoms(world.active, evidence[i].step) \subseteq evidence[i].saw
  BY DEF Finding
<1>4. evidence[i].step \in Steps
  <2>1. \A m \in DOMAIN evidence : evidence[m] \in Findings
    BY DEF Calling
  <2> QED
    BY <2>1 DEF Findings
<1>5. Question(evidence[i].step) = Question(plan[j])
  BY <1>1, <1>2, <1>3, <1>4, InvocationAsks
<1> QED
  BY <1>3, <1>5

\* So is each question of a plan that is done.
LEMMA AllIsSeen ==
  ASSUME Calling, Finding, misses = 0, plan \in FullPlans, Completed = DOMAIN plan,
         NEW q \in Questions(plan)
  PROVE  \E i \in DOMAIN evidence : /\ Question(evidence[i].step) = q
                                    /\ Symptoms(world.active, evidence[i].step) \subseteq evidence[i].saw
<1>1. PICK j \in DOMAIN plan : q = Question(plan[j])
  BY DEF Questions
<1>2. Invocation(plan[j]) \in Observed
  <2>1. CASE chain.architecture = "reactive_react"
    BY <2>1 DEF Completed
  <2>2. CASE chain.architecture # "reactive_react"
    BY <2>2 DEF Completed, Finding
  <2> QED
    BY <2>1, <2>2
<1> QED
  BY <1>1, <1>2, AskedIsSeen

\* An active root cause is derived when all there is to see of it is seen.
LEMMA CauseIsDerived ==
  ASSUME Calling, Finding, misses = 0, plan \in FullPlans, Completed = DOMAIN plan,
         NEW c \in Causes, [cause |-> c, service |-> HomeOf(c)] \in world.active,
         chain.compound \/ incident.service = HomeOf(c),
         c = "memory_leak" => Full(evidence) = {}
  PROVE  Derived(c, evidence) /\ Confidence(c, evidence) >= 90
<1>1. ASSUME NEW service \in Services, chain.compound \/ incident.service = service
      PROVE  Core(service) \subseteq Questions(plan)
  <2>1. /\ Core(incident.service) \subseteq Questions(plan)
        /\ chain.compound => \A s \in Services : Core(s) \subseteq Questions(plan)
    BY FullPlansAsk DEF Calling
  <2> QED
    BY <1>1, <2>1
<1>2. ASSUME NEW tool, NEW service, NEW about, NEW symptom,
             <<tool, service, about>> \in Questions(plan),
             \A step : step.service = service /\ step.about = about => symptom \in Symptoms(world.active, step)
      PROVE  Showing(evidence, service, about, symptom) # {}
  <2>1. PICK i \in DOMAIN evidence : /\ Question(evidence[i].step) = <<tool, service, about>>
                                     /\ Symptoms(world.active, evidence[i].step) \subseteq evidence[i].saw
    BY <1>2, AllIsSeen
  <2>2. evidence[i].step.service = service /\ evidence[i].step.about = about
    BY <2>1 DEF Question
  <2>3. i \in Showing(evidence, service, about, symptom)
    BY <1>2, <2>1, <2>2 DEF Showing, About
  <2> QED
    BY <2>3
<1>3. [cause |-> c, service |-> HomeOf(c)] \in world.active
  OBVIOUS
<1>4. CASE c = "n_plus_one_query"
  <2>1. Core("checkout") \subseteq Questions(plan)
    BY <1>1, <1>4 DEF HomeOf, Services
  <2>2. /\ <<"query_metrics", "checkout", "db_query_count">> \in Questions(plan)
        /\ <<"search_logs", "checkout", "/orders">> \in Questions(plan)
    BY <2>1 DEF Core
  <2>3. Queries(evidence) # {}
    BY <1>2, <1>3, <1>4, <2>2, SymptomsShown DEF Queries
  <2>4. QueryLogs(evidence) # {}
    BY <1>2, <1>3, <1>4, <2>2, SymptomsShown DEF QueryLogs
  <2> QED
    BY <1>4, <2>3, <2>4 DEF Derived, Backed, Confidence
<1>5. CASE c = "database_connection_leak"
  <2>1. Core("inventory") \subseteq Questions(plan)
    BY <1>1, <1>5 DEF HomeOf, Services
  <2>2. /\ <<"query_metrics", "inventory", "db_connections">> \in Questions(plan)
        /\ <<"search_logs", "inventory", "ERROR">> \in Questions(plan)
    BY <2>1 DEF Core
  <2>3. Connections(evidence) # {}
    BY <1>2, <1>3, <1>5, <2>2, SymptomsShown DEF Connections
  <2>4. Inventory503(evidence) # {}
    BY <1>2, <1>3, <1>5, <2>2, SymptomsShown DEF Inventory503
  <2> QED
    BY <1>5, <2>3, <2>4 DEF Derived, Backed, Confidence
<1>6. CASE c = "disk_exhaustion"
  <2>1. Core("worker") \subseteq Questions(plan)
    BY <1>1, <1>6 DEF HomeOf, Services
  <2>2. /\ <<"query_metrics", "worker", "disk_usage">> \in Questions(plan)
        /\ <<"search_logs", "worker", "ERROR">> \in Questions(plan)
    BY <2>1 DEF Core
  <2>3. Full(evidence) # {}
    BY <1>2, <1>3, <1>6, <2>2, SymptomsShown DEF Full
  <2>4. Worker507(evidence) # {}
    BY <1>2, <1>3, <1>6, <2>2, SymptomsShown DEF Worker507
  <2> QED
    BY <1>6, <2>3, <2>4 DEF Derived, Backed, Confidence
<1>7. CASE c = "memory_leak"
  <2>1. Core("worker") \subseteq Questions(plan)
    BY <1>1, <1>7 DEF HomeOf, Services
  <2>2. /\ <<"query_metrics", "worker", "container_restarts">> \in Questions(plan)
        /\ <<"search_logs", "worker", "ERROR">> \in Questions(plan)
    BY <2>1 DEF Core
  <2>3. Restarts(evidence) # {}
    BY <1>2, <1>3, <1>7, <2>2, SymptomsShown DEF Restarts
  <2>4. Worker503(evidence) # {}
    BY <1>2, <1>3, <1>7, <2>2, SymptomsShown DEF Worker503
  <2>5. Full(evidence) = {}
    BY <1>7
  <2> QED
    BY <1>7, <2>3, <2>4, <2>5 DEF Derived, Backed, Confidence
<1>8. CASE c = "broken_payment_configuration"
  <2>1. Core("payment") \subseteq Questions(plan)
    BY <1>1, <1>8 DEF HomeOf, Services
  <2>2. /\ <<"search_logs", "payment", "WARNING">> \in Questions(plan)
        /\ <<"search_logs", "gateway", "ERROR">> \in Questions(plan)
    BY <2>1 DEF Core
  <2>3. Payment401(evidence) # {}
    BY <1>2, <1>3, <1>8, <2>2, SymptomsShown DEF Payment401
  <2>4. Gateway502(evidence) # {}
    BY <1>2, <1>3, <1>8, <2>2, SymptomsShown DEF Gateway502
  <2> QED
    BY <1>8, <2>3, <2>4 DEF Derived, Backed, Confidence
<1> QED
  BY <1>4, <1>5, <1>6, <1>7, <1>8 DEF Causes

\* A run that has missed nothing does not give up: its calls were all answered.
LEMMA NothingInVain ==
  ASSUME Calling, Stopping, Finding, Concluded, misses = 0
  PROVE  ~(nonProgress >= MaxNonProgress)
<1> SUFFICES ASSUME nonProgress >= MaxNonProgress
             PROVE  FALSE
  OBVIOUS
<1>1. Weighed = Len(history) /\ Len(history) \in Nat /\ DOMAIN history = 1 .. Len(history)
  BY LenProperties DEF Weighed, Concluded, Calling
<1>2. nonProgress \in 0 .. Len(history) /\ MaxNonProgress \in Nat \ {0}
  BY <1>1, ReasoningAssumption DEF Stopping
<1>3. Len(history) \in Len(history) - nonProgress + 1 .. Len(history) /\ Len(history) \in DOMAIN history
  BY <1>1, <1>2
<1>4. ~history[Len(history)].answered
  BY <1>1, <1>3 DEF Stopping
<1>5. history[Len(history)].answered
  BY <1>3 DEF Finding
<1> QED
  BY <1>4, <1>5

\* The first of the hypotheses is one of them, and at least as sure as the others.
LEMMA FirstIsSurest ==
  ASSUME NEW held \in Seq(Hypotheses), Sorted(held), NEW k \in DOMAIN held
  PROVE  /\ held # <<>> /\ 1 \in DOMAIN held /\ held[1] \in Hypotheses
         /\ held[1].confidence \in Nat /\ held[k].confidence \in Nat
         /\ held[1].confidence >= held[k].confidence
<1>1. Len(held) \in Nat /\ DOMAIN held = 1 .. Len(held)
  BY LenProperties
<1>2. 1 \in DOMAIN held /\ held # <<>> /\ (k = 1 \/ 1 < k)
  BY <1>1
<1>3. /\ \A i \in DOMAIN held : held[i] \in Hypotheses
      /\ \A h \in Hypotheses : h.confidence \in Nat
  <2>1. \A i \in DOMAIN held : held[i] \in Hypotheses
    OBVIOUS
  <2>2. \A h \in Hypotheses : h.confidence \in Nat
    BY DEF Hypotheses, Confidences
  <2> QED
    BY <2>1, <2>2
<1>4. held[1].confidence >= held[k].confidence
  <2>1. CASE k = 1
    BY <1>2, <1>3, <2>1
  <2>2. CASE 1 < k
    BY <1>2, <2>2 DEF Sorted
  <2> QED
    BY <1>2, <2>1, <2>2
<1> QED
  BY <1>2, <1>3, <1>4

\* The disk is not asked about again once the restarts have been looked at.
LEMMA SettlingAsked ==
  ASSUME Calling, Deriving, Finding, Settling, at = "ask", NEW p \in FullPlans,
         chain.architecture # "reactive_react" => p = plan,
         NEW next \in Open(p), \A j \in Open(p) : next <= j, Call(p, next),
         UNCHANGED <<incident, chain, hypotheses>>
  PROVE  Settling'
<1>1. FullPlans' = FullPlans /\ OnePlan' = OnePlan
  BY FullPlansStay DEF OnePlan
<1>2. /\ next \in DOMAIN p /\ p \in Seq(Steps) /\ DOMAIN p = 1 .. Len(p) /\ Len(p) \in Nat
      /\ Invocation(p[next]) \notin Observed
  BY OpenIsNew, PlanSound, LenProperties DEF Observed
<1>3. /\ Observed' = Observed \cup {Invocation(p[next])}
      /\ \A i \in DOMAIN evidence' :
           \/ i \in DOMAIN evidence /\ evidence'[i] = evidence[i]
           \/ evidence'[i].step = p[next]
  BY CallAdds
<1>4. ASSUME NEW i \in DOMAIN evidence', evidence'[i].step.about \in Telling
      PROVE  chain.compound \/ evidence'[i].step.service = incident.service
  <2>1. CASE i \in DOMAIN evidence /\ evidence'[i] = evidence[i]
    BY <1>4, <2>1 DEF Settling
  <2>2. CASE evidence'[i].step = p[next]
    <3>1. chain.compound \/ AtHome(p, incident.service)
      BY FullPlansAsk DEF Calling
    <3> QED
      BY <1>2, <1>4, <2>2, <3>1 DEF AtHome
  <2> QED
    BY <1>3, <1>4, <2>1, <2>2
<1>5. ASSUME OnePlan, NEW i \in DOMAIN evidence', OfRestarts(evidence'[i].step),
             NEW q \in FullPlans, NEW j \in DOMAIN q, OfDisk(q[j])
      PROVE  Invocation(q[j]) \in Observed'
  <2>1. CASE i \in DOMAIN evidence /\ evidence'[i] = evidence[i]
    <3>1. OfRestarts(evidence[i].step)
      BY <1>5, <2>1 DEF OfRestarts
    <3>2. Invocation(q[j]) \in Observed
      BY <1>5, <2>1, <3>1 DEF Settling
    <3> QED
      BY <1>3, <3>2
  <2>2. CASE evidence'[i].step = p[next]
    <3>1. q = p /\ DiskFirst(p)
      BY <1>5, FullPlansAsk DEF Calling
    <3>2. OfRestarts(p[next])
      BY <1>5, <2>2 DEF OfRestarts
    <3>3. j < next /\ j \in DOMAIN p
      BY <1>2, <1>5, <3>1, <3>2 DEF DiskFirst
    <3>4. j \notin Open(p)
      BY <1>2, <3>3
    <3>5. Invocation(p[j]) \in Observed
      <4>1. CASE chain.architecture = "reactive_react"
        BY <3>3, <3>4, <4>1 DEF Open
      <4>2. CASE chain.architecture # "reactive_react"
        BY <3>3, <3>4, <4>2 DEF Open, Finding
      <4> QED
        BY <4>1, <4>2
    <3> QED
      BY <1>3, <3>1, <3>5
  <2> QED
    BY <1>3, <1>5, <2>1, <2>2
<1>6. ASSUME OnePlan \/ ~chain.unresolved, NEW h \in DOMAIN hypotheses,
             hypotheses[h].code = "memory_leak"
      PROVE  OnePlan /\ Full(evidence') = {}
  <2>1. OnePlan /\ Full(evidence) = {}
    BY <1>6 DEF Settling
  <2>2. PICK r \in DOMAIN evidence : OfRestarts(evidence[r].step)
    <3>1. Restarts(evidence) # {}
      BY <1>6 DEF Deriving, Backed
    <3> QED
      BY <3>1 DEF Restarts, Showing, About, OfRestarts
  <2>3. ~OfDisk(p[next])
    BY <1>2, <2>1, <2>2 DEF Settling
  <2>4. ASSUME NEW i \in Full(evidence')
        PROVE  FALSE
    <3>1. /\ i \in DOMAIN evidence' /\ evidence'[i].step.service = "worker"
          /\ evidence'[i].step.about = "disk_usage" /\ "full" \in evidence'[i].saw
      BY <2>4 DEF Full, Showing, About
    <3>2. i \in DOMAIN evidence /\ evidence'[i] = evidence[i]
      BY <1>3, <2>3, <3>1 DEF OfDisk
    <3>3. i \in Full(evidence)
      BY <3>1, <3>2 DEF Full, Showing, About
    <3> QED
      BY <2>1, <3>3
  <2> QED
    BY <2>1, <2>4
<1>7. chain.model \in {"deterministic", "ollama"}
  BY DEF Settling
<1> QED
  BY <1>1, <1>4, <1>5, <1>6, <1>7 DEF Settling, OnePlan

LEMMA SettlingStays ==
  ASSUME Settling, UNCHANGED <<incident, chain, history, evidence, hypotheses>>,
         at \in {"conclude", "ended"} => at' \in {"conclude", "ended"}
  PROVE  Settling'
<1>1. FullPlans' = FullPlans /\ OnePlan' = OnePlan /\ Observed' = Observed
  BY FullPlansStay DEF OnePlan, Observed
<1> QED
  BY <1>1 DEF Settling, Invocation

\* A chain that derives a memory leak, and waits for nothing, stops.
LEMMA SettlingWeighed ==
  ASSUME Calling, Holding, Holding', Settling, Weigh
  PROVE  Settling'
<1>1. at = "weigh" /\ UNCHANGED <<incident, chain, plan, history, evidence>>
  BY DEF Weigh
<1>2. FullPlans' = FullPlans /\ OnePlan' = OnePlan /\ Observed' = Observed
  BY <1>1, FullPlansStay DEF OnePlan, Observed
<1>3. ASSUME OnePlan \/ ~chain.unresolved, NEW k \in DOMAIN hypotheses',
             hypotheses'[k].code = "memory_leak"
      PROVE  Full(evidence) = {} /\ (OnePlan \/ at' \in {"conclude", "ended"})
  <2>1. \/ /\ Derived(hypotheses'[k].code, evidence)
           /\ hypotheses'[k].confidence = Confidence(hypotheses'[k].code, evidence)
        \/ \E i \in DOMAIN hypotheses : hypotheses'[k] = hypotheses[i]
    BY <1>3, WeighedTells
  <2>2. CASE \E i \in DOMAIN hypotheses : hypotheses'[k] = hypotheses[i]
    BY <1>1, <1>3, <2>2 DEF Settling
  <2>3. CASE /\ Derived(hypotheses'[k].code, evidence)
             /\ hypotheses'[k].confidence = Confidence(hypotheses'[k].code, evidence)
    <3>1. Full(evidence) = {} /\ Restarts(evidence) # {} /\ hypotheses'[k].confidence = 95
      BY <1>3, <2>3 DEF Derived, Backed, Confidence
    <3>2. ASSUME ~OnePlan
          PROVE  at' = "conclude"
      <4>1. ~chain.compound /\ ~chain.unresolved
        BY <1>3, <3>2 DEF OnePlan
      <4>2. \E i \in DOMAIN evidence : OfRestarts(evidence[i].step)
        BY <3>1 DEF Restarts, Showing, About, OfRestarts
      <4>3. incident.service = "worker"
        BY <4>1, <4>2 DEF Settling, OfRestarts, Telling
      <4>4. hypotheses' \in Seq(Hypotheses) /\ Sorted(hypotheses')
        BY DEF Holding, Founded
      <4>5. /\ hypotheses' # <<>> /\ hypotheses'[1].confidence \in Nat
            /\ hypotheses'[1].confidence >= hypotheses'[k].confidence
        BY <4>4, FirstIsSurest
      <4>6. ~(hypotheses'[1].confidence < 90)
        BY <3>1, <4>5
      <4>7. Convinced(hypotheses')
        BY <4>3, <4>5, <4>6 DEF Convinced
      <4>8. Enough(hypotheses')
        BY <4>1, <4>7 DEF Enough
      <4> QED
        BY <4>8 DEF Weigh
    <3> QED
      BY <3>1, <3>2
  <2> QED
    BY <2>1, <2>2, <2>3
<1> QED
  BY <1>1, <1>2, <1>3 DEF Settling, Invocation

\* A memory leak keeps its ground, unless a model orders the steps of an agent
\* that waits for unresolved evidence.
THEOREM SettlingInvariance == Spec => []Settling
<1>1. Init => Settling
  <2> SUFFICES ASSUME Init
               PROVE  Settling
    OBVIOUS
  <2>1. chain.model \in {"deterministic", "ollama"}
    BY ReasoningAssumption DEF Init
  <2>2. DOMAIN evidence = {} /\ DOMAIN hypotheses = {}
    BY DEF Init
  <2> QED
    BY <2>1, <2>2 DEF Settling
<1>2. /\ Calling /\ Holding /\ Holding' /\ Deriving /\ Finding /\ Settling /\ [Next]_vars
      => Settling'
  <2> SUFFICES ASSUME Calling, Holding, Holding', Deriving, Finding, Settling, [Next]_vars
               PROVE  Settling'
    OBVIOUS
  <2>1. CASE Ask
    <3>1. at = "ask" /\ UNCHANGED <<incident, chain, hypotheses>>
      BY <2>1 DEF Ask
    <3>2. PICK p \in FullPlans :
            /\ plan' = p /\ (chain.architecture # "reactive_react" => p = plan)
            /\ \/ (Stop("failed") \/ Stop("budget_exhausted")) /\ Quiet
               \/ Open(p) = {} /\ at' = "conclude" /\ Quiet /\ UNCHANGED verdict
               \/ \E next \in Open(p) :
                    /\ \A j \in Open(p) : next <= j
                    /\ Call(p, next) /\ done' = done \cup {next} /\ at' = "weigh" /\ UNCHANGED verdict
      BY <2>1, AskCases
    <3>3. CASE Quiet
      BY <3>1, <3>3, SettlingStays DEF Quiet
    <3>4. ASSUME NEW next \in Open(p), \A j \in Open(p) : next <= j, Call(p, next)
          PROVE  Settling'
      BY <3>1, <3>2, <3>4, SettlingAsked
    <3> QED
      BY <3>2, <3>3, <3>4
  <2>2. CASE Weigh
    BY <2>2, SettlingWeighed
  <2>3. CASE MakePlan
    BY <2>3, SettlingStays DEF MakePlan
  <2>4. CASE Conclude
    BY <2>4, SettlingStays DEF Conclude
  <2>5. CASE UNCHANGED vars
    BY <2>5, SettlingStays DEF vars
  <2> QED
    BY <2>1, <2>2, <2>3, <2>4, <2>5 DEF Next
<1> QED
  BY <1>1, <1>2, CallingInvariance, HoldingInvariance, DerivingInvariance, FindingInvariance, PTL
     DEF Spec

-----------------------------------------------------------------------------
(* What the run's properties say. *)

\* A diagnosis is the first hypothesis, or none.
LEMMA DiagnosisHeld ==
  ASSUME Calling, Holding, Stopping, Concluded
  PROVE  \/ hypotheses = <<>> /\ verdict.confidence = 0 /\ verdict.cites = DOMAIN evidence
         \/ /\ 1 \in DOMAIN hypotheses /\ hypotheses[1] \in Hypotheses
            /\ Grounded(hypotheses[1], evidence, world)
            /\ verdict.code = hypotheses[1].code
            /\ verdict.confidence = hypotheses[1].confidence
            /\ verdict.cites = hypotheses[1].support
<1>1. /\ verdict.code = Diagnosis.code /\ verdict.confidence = Diagnosis.confidence
      /\ verdict.cites = Diagnosis.cites
  BY DEF Stopping
<1>2. /\ hypotheses \in Seq(Hypotheses)
      /\ \A i \in DOMAIN hypotheses : Grounded(hypotheses[i], evidence, world)
  BY DEF Holding, Founded
<1>3. hypotheses # <<>> => 1 \in DOMAIN hypotheses
  <2>1. /\ Len(hypotheses) \in Nat /\ DOMAIN hypotheses = 1 .. Len(hypotheses)
        /\ (Len(hypotheses) = 0 => hypotheses = <<>>)
    BY <1>2, LenProperties, EmptySeq
  <2> QED
    BY <2>1
<1>4. CASE hypotheses = <<>>
  BY <1>1, <1>4 DEF Diagnosis
<1>5. CASE hypotheses # <<>>
  <2>1. \A i \in DOMAIN hypotheses : hypotheses[i] \in Hypotheses
    BY <1>2
  <2> QED
    BY <1>1, <1>2, <1>3, <1>5, <2>1 DEF Diagnosis
<1> QED
  BY <1>4, <1>5

\* Two members make a finite set of two at least.
LEMMA TwoAtLeast ==
  ASSUME NEW S, IsFiniteSet(S), NEW i \in S, NEW j \in S, i # j
  PROVE  Cardinality(S) >= 2
<1> DEFINE pair == {i} \cup {j}
<1>1. IsFiniteSet({i}) /\ Cardinality({i}) = 1
  BY FS_Singleton
<1>2. Cardinality(pair) = 2
  BY <1>1, FS_AddElement
<1>3. pair \in SUBSET S
  OBVIOUS
<1> HIDE DEF pair
<1>4. Cardinality(pair) <= Cardinality(S)
  BY <1>3, FS_Subset
<1>5. Cardinality(S) \in Nat
  BY FS_CardinalityType
<1> QED
  BY <1>2, <1>4, <1>5

\* A diagnosis the agent is sure of is right, and rests on two pieces of evidence.
THEOREM SureDiagnosesAreRight == Spec => []SureIsRight
<1>1. Calling /\ Holding /\ Stopping => SureIsRight
  <2> SUFFICES ASSUME Calling, Holding, Stopping, Concluded, verdict.confidence >= 90
               PROVE  verdict.code \in Established(world) /\ Cardinality(verdict.cites) >= 2
    BY DEF SureIsRight, Certain
  <2>1. /\ Grounded(hypotheses[1], evidence, world) /\ verdict.code = hypotheses[1].code
        /\ verdict.confidence = hypotheses[1].confidence /\ verdict.cites = hypotheses[1].support
    <3>1. verdict.confidence # 0
      OBVIOUS
    <3> QED
      BY <3>1, DiagnosisHeld
  <2>2. verdict.code \in Established(world) /\ \E i, j \in verdict.cites : i # j
    BY <2>1 DEF Grounded
  <2>3. IsFiniteSet(verdict.cites)
    <3>1. Len(evidence) \in Nat /\ DOMAIN evidence = 1 .. Len(evidence)
      BY LenProperties DEF Calling
    <3>2. \A n \in Nat : IsFiniteSet(1 .. n)
      BY FS_Interval
    <3>3. IsFiniteSet(DOMAIN evidence)
      BY <3>1, <3>2
    <3>4. verdict.cites \in SUBSET DOMAIN evidence
      BY <2>1 DEF Grounded
    <3> QED
      BY <3>3, <3>4, FS_Subset
  <2> QED
    BY <2>2, <2>3, TwoAtLeast
<1> QED
  BY <1>1, CallingInvariance, HoldingInvariance, StoppingInvariance, PTL

\* An unsure agent stops before its plan is done only when its last calls were
\* all in vain, and never when it waits for unresolved evidence.
THEOREM EarlyStopsAreEarned == Spec => []EarlyStopIsEarned
<1>1. Calling /\ Holding /\ Stopping => EarlyStopIsEarned
  <2> SUFFICES ASSUME Calling, Holding, Stopping, Concluded, Completed # DOMAIN plan
               PROVE  /\ ~chain.unresolved
                      /\ verdict.confidence < 90 =>
                           \A k \in Len(history) - MaxNonProgress + 1 .. Len(history) :
                             ~history[k].answered
    BY DEF EarlyStopIsEarned
  <2>1. ~chain.unresolved /\ (Sure \/ nonProgress >= MaxNonProgress)
    BY DEF Stopping, Earned
  <2>2. ASSUME verdict.confidence < 90
        PROVE  \A k \in Len(history) - MaxNonProgress + 1 .. Len(history) : ~history[k].answered
    <3>1. ~Sure
      <4>1. Sure => verdict.confidence = hypotheses[1].confidence /\ hypotheses[1] \in Hypotheses
        BY DiagnosisHeld DEF Sure
      <4>2. \A h \in Hypotheses : h.confidence \in Nat
        BY DEF Hypotheses, Confidences
      <4> QED
        BY <2>2, <4>1, <4>2 DEF Sure
    <3>2. Weighed = Len(history)
      BY DEF Weighed, Concluded
    <3>3. /\ nonProgress \in 0 .. Len(history) /\ nonProgress >= MaxNonProgress
          /\ \A k \in Len(history) - nonProgress + 1 .. Len(history) : ~history[k].answered
      BY <2>1, <3>1, <3>2 DEF Stopping
    <3>4. Len(history) \in Nat /\ MaxNonProgress \in Nat
      BY LenProperties, ReasoningAssumption DEF Calling
    <3>5. \A k \in Len(history) - MaxNonProgress + 1 .. Len(history) :
            k \in Len(history) - nonProgress + 1 .. Len(history)
      BY <3>3, <3>4
    <3> QED
      BY <3>3, <3>5
  <2> QED
    BY <2>1, <2>2
<1> QED
  BY <1>1, CallingInvariance, HoldingInvariance, StoppingInvariance, PTL

\* A cause that is held for true speaks from its own service.
LEMMA BackedAtHome ==
  ASSUME Calling, Settling, ~chain.compound, NEW d \in Causes, Backed(d, evidence)
  PROVE  HomeOf(d) = incident.service
<1>1. ASSUME NEW about \in Telling, NEW symptom,
             Showing(evidence, HomeOf(d), about, symptom) # {}
      PROVE  HomeOf(d) = incident.service
  <2>1. PICK i \in Showing(evidence, HomeOf(d), about, symptom) : TRUE
    BY <1>1
  <2>2. /\ i \in DOMAIN evidence /\ evidence[i].step.service = HomeOf(d)
        /\ evidence[i].step.about = about
    BY ShowingMeans
  <2> QED
    BY <2>2 DEF Settling
<1>2. CASE d = "n_plus_one_query"
  BY <1>1, <1>2 DEF Backed, Queries, HomeOf, Telling
<1>3. CASE d = "database_connection_leak"
  BY <1>1, <1>3 DEF Backed, Connections, HomeOf, Telling
<1>4. CASE d = "disk_exhaustion"
  BY <1>1, <1>4 DEF Backed, Full, HomeOf, Telling
<1>5. CASE d = "memory_leak"
  BY <1>1, <1>5 DEF Backed, Restarts, HomeOf, Telling
<1>6. CASE d = "broken_payment_configuration"
  BY <1>1, <1>6 DEF Backed, Payment401, HomeOf, Telling
<1> QED
  BY <1>2, <1>3, <1>4, <1>5, <1>6 DEF Causes

\* With one plan a memory leak is not held beside a disk that is full: the disk has
\* been looked at before the restarts.
LEMMA DiskIsSeen ==
  ASSUME Calling, Deriving, Finding, Settling, OnePlan, misses = 0, plan \in FullPlans,
         chain.compound \/ incident.service = "worker",
         [cause |-> "disk_exhaustion", service |-> "worker"] \in world.active,
         NEW h \in DOMAIN hypotheses
  PROVE  hypotheses[h].code # "memory_leak"
<1> SUFFICES ASSUME hypotheses[h].code = "memory_leak"
             PROVE  FALSE
  OBVIOUS
<1>1. Full(evidence) = {} /\ Restarts(evidence) # {}
  BY DEF Settling, Deriving, Backed
<1>2. \E i \in DOMAIN evidence : OfRestarts(evidence[i].step)
  BY <1>1 DEF Restarts, Showing, About, OfRestarts
<1>3. Core("worker") \subseteq Questions(plan)
  BY FullPlansAsk DEF Calling, Services
<1>4. PICK j \in DOMAIN plan : Question(plan[j]) = <<"query_metrics", "worker", "disk_usage">>
  BY <1>3 DEF Core, Questions
<1>5. Invocation(plan[j]) \in Observed
  BY <1>2, <1>4 DEF Settling, OfDisk, Question
<1>6. PICK i \in DOMAIN evidence :
        /\ Question(evidence[i].step) = Question(plan[j])
        /\ Symptoms(world.active, evidence[i].step) \subseteq evidence[i].saw
  BY <1>5, AskedIsSeen
<1>7. evidence[i].step.service = "worker" /\ evidence[i].step.about = "disk_usage"
  BY <1>4, <1>6 DEF Question
<1>8. "full" \in Symptoms(world.active, evidence[i].step)
  BY <1>7, SymptomsShown DEF HomeOf
<1>9. i \in Full(evidence)
  BY <1>6, <1>7, <1>8 DEF Full, Showing, About
<1> QED
  BY <1>1, <1>9

\* When every call shows what there is to see, an active root cause at the service
\* asked about is found, with whatever plan, order, probe, cap, window and
\* architecture, beside every fault, active or over, that stands back.
THEOREM FullEvidenceSuffices == Spec => []FullEvidenceFindsTheCause
<1>1. Calling /\ Holding /\ Stopping /\ Deriving /\ Finding /\ Settling => FullEvidenceFindsTheCause
  <2> SUFFICES ASSUME Calling, Holding, Stopping, Deriving, Finding, Settling,
                      NEW c \in Causes, Concluded, misses = 0,
                      [cause |-> c, service |-> HomeOf(c)] \in world.active,
                      chain.compound \/ incident.service = HomeOf(c),
                      \A d \in Established(world) \ {c} : StandsBack(d, c)
               PROVE  verdict.code = c /\ verdict.confidence >= 90 /\ verdict.action
    BY DEF FullEvidenceFindsTheCause
  <2>0. plan \in FullPlans
    BY DEF Finding
  <2>1. Sure
    <3>1. CASE Completed = DOMAIN plan
      <4>1. c = "memory_leak" => Full(evidence) = {}
        <5> SUFFICES ASSUME c = "memory_leak", NEW i \in Full(evidence)
                     PROVE  FALSE
          OBVIOUS
        <5>1. /\ evidence[i].step.service = "worker" /\ evidence[i].step.about = "disk_usage"
              /\ "full" \in Visible(world, evidence[i].step) /\ world \in WorldType
          <6>1. i \in Showing(evidence, "worker", "disk_usage", "full")
            BY DEF Full
          <6>2. world \in WorldType
            BY DEF Calling
          <6> QED
            BY <6>1, <6>2, ShowingMeans
        <5>2. HomeOf("disk_exhaustion") = "worker" /\ HomeOf(c) = "worker"
          BY DEF HomeOf
        <5>3. "disk_exhaustion" \in Established(world)
          BY <5>1, <5>2, VisibleMeans
        <5> QED
          BY <5>2, <5>3 DEF StandsBack
      <4>2. Derived(c, evidence) /\ Confidence(c, evidence) >= 90
        BY <2>0, <3>1, <4>1, CauseIsDerived
      <4>3. at # "weigh" /\ c \in Codes
        BY DEF Concluded, Codes
      <4>4. PICK k \in DOMAIN hypotheses : /\ hypotheses[k].code = c
                                           /\ hypotheses[k].confidence = Confidence(c, evidence)
        BY <4>2, <4>3 DEF Deriving
      <4>5. /\ hypotheses # <<>> /\ hypotheses[1].confidence \in Nat /\ hypotheses[k].confidence \in Nat
            /\ hypotheses[1].confidence >= hypotheses[k].confidence
        BY FirstIsSurest DEF Holding, Founded
      <4> QED
        BY <4>2, <4>4, <4>5 DEF Sure
    <3>2. CASE Completed # DOMAIN plan
      BY <3>2, NothingInVain DEF Stopping, Earned
    <3> QED
      BY <3>1, <3>2
  <2>2. /\ 1 \in DOMAIN hypotheses
        /\ hypotheses[1] \in Hypotheses /\ Grounded(hypotheses[1], evidence, world)
        /\ verdict.code = hypotheses[1].code /\ verdict.confidence = hypotheses[1].confidence
    BY <2>1, DiagnosisHeld DEF Sure
  <2> DEFINE d == hypotheses[1].code
  <2>3. verdict.code = c /\ verdict.confidence >= 90
    <3>1. d \in Established(world) /\ verdict.code = d /\ verdict.confidence >= 90
      BY <2>1, <2>2 DEF Grounded, Sure
    <3>2. Backed(d, evidence) /\ d \in Causes
      BY <2>2, <3>1 DEF Deriving, Established
    <3>3. ASSUME d # c
          PROVE  FALSE
      <4>1. StandsBack(d, c)
        BY <3>1, <3>3
      <4>2. CASE HomeOf(d) # HomeOf(c)
        <5>1. ~chain.compound /\ incident.service = HomeOf(c)
          BY <4>1, <4>2 DEF StandsBack
        <5> HIDE DEF d
        <5>2. HomeOf(d) = incident.service
          BY <3>2, <5>1, BackedAtHome
        <5> QED
          BY <4>2, <5>1, <5>2
      <4>3. CASE HomeOf(d) = HomeOf(c)
        <5>1. c = "disk_exhaustion" /\ OnePlan
          BY <4>1, <4>3 DEF StandsBack, OnePlan
        <5>2. HomeOf(c) = "worker"
          BY <5>1 DEF HomeOf
        <5> HIDE DEF d
        <5>3. d = "memory_leak"
          BY <3>2, <3>3, <4>3, <5>1, <5>2 DEF Causes, HomeOf
        <5>4. hypotheses[1].code # "memory_leak"
          BY <2>0, <2>2, <5>1, <5>2, DiskIsSeen
        <5> QED
          BY <5>3, <5>4 DEF d
      <4> QED
        BY <4>2, <4>3
    <3> QED
      BY <3>1, <3>3
  <2>4. verdict.action = Recommended(Diagnosis)
    BY DEF Finding
  <2>5. Diagnosis.code = hypotheses[1].code /\ Diagnosis.cites = hypotheses[1].support
    BY <2>1 DEF Diagnosis, Sure
  <2>6. Recommended(Diagnosis)
    BY <2>2, <2>3, <2>5 DEF Recommended, Grounded
  <2> QED
    BY <2>3, <2>4, <2>6
<1> QED
  BY <1>1, CallingInvariance, HoldingInvariance, StoppingInvariance, DerivingInvariance,
     FindingInvariance, SettlingInvariance, PTL

\* A diagnosis is what would be derived from all the evidence now, unless a model
\* orders the steps of an agent that waits for unresolved evidence.
THEOREM DiagnosesAreCurrent == Spec => []DiagnosisIsCurrent
<1>1. Calling /\ Holding /\ Stopping /\ Deriving /\ Settling => DiagnosisIsCurrent
  <2> SUFFICES ASSUME Calling, Holding, Stopping, Deriving, Settling, Concluded,
                      verdict.code # "inconclusive", ~(chain.model = "ollama" /\ chain.unresolved)
               PROVE  \E i \in DOMAIN Candidates(evidence) : Candidates(evidence)[i].code = verdict.code
    BY DEF DiagnosisIsCurrent
  <2>1. hypotheses # <<>>
    BY DEF Stopping, Diagnosis
  <2>2. 1 \in DOMAIN hypotheses /\ hypotheses[1] \in Hypotheses /\ verdict.code = hypotheses[1].code
    BY <2>1, DiagnosisHeld
  <2>3. verdict.code \in Codes
    BY <2>2 DEF Hypotheses
  <2>4. Backed(verdict.code, evidence)
    BY <2>2 DEF Deriving
  <2>5. verdict.code = "memory_leak" => Full(evidence) = {}
    <3>1. OnePlan \/ ~chain.unresolved
      BY DEF Settling, OnePlan
    <3> QED
      BY <2>2, <3>1 DEF Settling
  <2>6. ASSUME verdict.code = "memory_pressure", Leaking(evidence)
        PROVE  FALSE
    <3>1. "memory_leak" \in Codes /\ Derived("memory_leak", evidence) /\ at # "weigh"
      <4>1. Backed("memory_leak", evidence) /\ Full(evidence) = {}
        BY <2>6 DEF Backed, Leaking
      <4>2. Derived("memory_leak", evidence)
        BY <4>1 DEF Derived
      <4> QED
        BY <4>2 DEF Codes, Causes, Concluded
    <3>2. PICK k \in DOMAIN hypotheses : hypotheses[k].confidence = Confidence("memory_leak", evidence)
      BY <3>1 DEF Deriving
    <3>3. hypotheses[k].confidence = 95
      BY <3>2 DEF Confidence
    <3>4. hypotheses[1].confidence = 55
      <4>1. hypotheses[1].code = "memory_pressure"
        BY <2>2, <2>6
      <4>2. hypotheses[1].confidence = Confidence("memory_pressure", evidence)
        BY <2>2, <4>1 DEF Deriving
      <4> QED
        BY <4>2 DEF Confidence
    <3>5. hypotheses[1].confidence >= hypotheses[k].confidence
      BY FirstIsSurest DEF Holding, Founded
    <3> QED
      BY <3>3, <3>4, <3>5
  <2>7. Derived(verdict.code, evidence)
    BY <2>4, <2>5, <2>6 DEF Derived
  <2> QED
    BY <2>3, <2>7, CandidatesTell
<1> QED
  BY <1>1, CallingInvariance, HoldingInvariance, StoppingInvariance, DerivingInvariance,
     SettlingInvariance, PTL

\* The run holds what its parts say.
THEOREM TypeCorrect == Spec => []TypeOK
<1>1. Calling /\ Holding /\ Stopping => TypeOK
  <2> SUFFICES ASSUME Calling, Holding, Stopping
               PROVE  TypeOK
    OBVIOUS
  <2>1. /\ at \in {"plan", "ask", "weigh", "conclude", "ended"}
        /\ done \subseteq DOMAIN plan /\ Len(evidence) <= Len(history)
        /\ misses \in 0 .. MaxMisses
    BY DEF Calling
  <2>2. nonProgress \in Nat /\ (~chain.unresolved => nonProgress <= MaxNonProgress)
    <3>1. Len(history) \in Nat
      BY LenProperties DEF Calling
    <3>2. nonProgress \in 0 .. Weighed
      BY DEF Stopping
    <3>3. nonProgress \in Nat
      BY <3>1, <3>2 DEF Weighed
    <3> QED
      BY <3>3 DEF Stopping
  <2>3. /\ hypotheses \in Seq(Hypotheses) /\ OneEach(hypotheses) /\ Sorted(hypotheses)
        /\ \A i \in DOMAIN hypotheses : Grounded(hypotheses[i], evidence, world)
    BY DEF Holding, Founded
  <2>4. \A i \in DOMAIN hypotheses :
          /\ hypotheses[i].support # {} /\ hypotheses[i].support \subseteq DOMAIN evidence
          /\ hypotheses[i].cause <= Onset
    <3>1. \A i \in DOMAIN hypotheses : hypotheses[i] \in Hypotheses
      BY <2>3
    <3>2. \A h \in Hypotheses : h.cause <= Onset
      BY DEF Hypotheses, Onset
    <3> QED
      BY <2>3, <3>1, <3>2 DEF Grounded
  <2>5. \A i, j \in DOMAIN hypotheses : i < j =>
          /\ hypotheses[i].confidence >= hypotheses[j].confidence
          /\ hypotheses[i].code # hypotheses[j].code
    <3>1. \A i, j \in DOMAIN hypotheses : i < j => i # j
      BY <2>3
    <3> QED
      BY <2>3, <3>1 DEF Sorted, OneEach
  <2>6. verdict.cites \subseteq DOMAIN evidence
    <3>1. CASE Concluded
      BY <3>1, DiagnosisHeld DEF Grounded
    <3>2. CASE ~Concluded
      BY <3>2 DEF Stopping
    <3> QED
      BY <3>1, <3>2
  <2> QED
    BY <2>1, <2>2, <2>4, <2>5, <2>6 DEF TypeOK
<1> QED
  BY <1>1, CallingInvariance, HoldingInvariance, StoppingInvariance, PTL
=============================================================================
