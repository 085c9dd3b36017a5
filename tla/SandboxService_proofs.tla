------------------------ MODULE SandboxService_proofs ------------------------
(***************************************************************************)
(* Proofs about SandboxService for any service, callers, limits and bounds: *)
(* its types, the bound on the footprint of a fault, and that what was     *)
(* restored is clean.                                                      *)
(***************************************************************************)
EXTENDS SandboxService, TLAPS

Written == [spec : Specs, generation : 1 .. MaxInjects]

\* Generations count injections, so that the bound of the injections is one of theirs.
Counted ==
  /\ spent.injects <= MaxInjects
  /\ \A f \in FaultTypes : faults[f] # NoFault => faults[f].generation <= spent.injects
  /\ \A o \in Operators :
       op[o].stage = "injecting" => op[o].entry.generation <= spent.injects

\* A request reads as long as there is something to read, and works on the disk for
\* a fault that it has seen.
Working ==
  /\ loop.at = "reading" => loop.todo # <<>>
  /\ loop.at \in {"listing", "weighing"} => loop.todo # <<>> /\ Entry \in Written

Typed == TypeOK /\ Counted /\ Working

LEMMA KindsOfFaults ==
  /\ FaultTypes = {"n_plus_one", "connection_leak", "disk_exhaustion", "broken_config",
                   "memory_leak"}
  /\ FaultOrder \in Seq(FaultTypes) /\ FaultOrder # <<>>
  BY DEF FaultTypes, FaultOrder, ToSet

LEMMA StepsOfResets ==
  /\ ToSet(ResetSteps) = {"connections", "memory", "unlink", "forget", "queries"}
  /\ DOMAIN ResetSteps = 1 .. 5 /\ Len(ResetSteps) = 5
  /\ ResetSteps[1] = "connections" /\ ResetSteps[2] = "memory" /\ ResetSteps[3] = "unlink"
  /\ ResetSteps[4] = "forget" /\ ResetSteps[5] = "queries"
  BY DEF ResetSteps, ToSet

LEMMA EntriesAreWritten ==
  /\ Entries = Written \cup {NoFault} /\ NoFault \notin Written
  /\ \A e \in Written : /\ e.spec \in Specs /\ e.generation \in 1 .. MaxInjects
                        /\ e.spec.allowed \in Nat \ {0} /\ e.spec.failsAt \in 1 .. e.spec.allowed
  BY EntryAssumption, SpecAssumption, BoundAssumption DEF Entries, Written

LEMMA TypedInit == Init => Typed
<1> SUFFICES ASSUME Init PROVE Typed
  OBVIOUS
<1> USE KindsOfFaults, BoundAssumption DEF Init
<1>1. faults \in [FaultTypes -> Entries]
  BY DEF Entries
<1>2. op \in [Operators -> Operations]
  BY DEF Operations
<1>3. loop \in {Free} \cup Requests \cup Listings
  OBVIOUS
<1>4. runtime \in [connections : Nat, memory : Nat, listed : Seq(Paths), queries : Nat]
  BY DEF Unused
<1>5. spent \in [{"injects", "requests", "losses", "crashes"} -> Nat]
  OBVIOUS
<1>6. TypeOK
  BY <1>1, <1>2, <1>3, <1>4, <1>5 DEF TypeOK
<1>7. Counted
  BY DEF Counted, Idle
<1>8. Working
  BY DEF Working, Free
<1> QED
  BY <1>6, <1>7, <1>8 DEF Typed

-----------------------------------------------------------------------------
(* Types: the controller. *)

\* Only the faults and the operations of the controller move.
LEMMA TypedController ==
  ASSUME Typed, NEW o \in Operators,
         \/ \E f \in Injected, spec \in Specs : Inject(o, f, spec)
         \/ FinishInject(o) \/ RestoreAll(o) \/ Return(o)
  PROVE  Typed'
<1> USE KindsOfFaults, EntriesAreWritten, BoundAssumption
<1>1. TypeOK /\ Counted /\ Working
  BY DEF Typed
<1>2. ASSUME NEW f \in Injected, NEW spec \in Specs, Inject(o, f, spec)
      PROVE  Typed'
  <2> DEFINE generation == IF faults[f] = NoFault THEN 1 ELSE faults[f].generation + 1
             entry == [spec |-> spec, generation |-> generation]
  <2>1. /\ op' = [op EXCEPT ![o] = [stage |-> "injecting", fault |-> f, entry |-> entry]]
        /\ spent' = [spent EXCEPT !["injects"] = @ + 1] /\ spent.injects < MaxInjects
        /\ UNCHANGED <<faults, reset, loop, slow, runtime, files, lost>>
    BY <1>2 DEF Inject, Spend
  <2>2. f \in FaultTypes /\ faults[f] \in Entries /\ spent.injects \in Nat
    BY <1>1 DEF TypeOK
  <2>3. generation \in 1 .. spent.injects + 1
    BY SMTT(30), <1>1, <2>2 DEF Counted
  <2>4. entry \in Written /\ entry.generation <= spent.injects + 1
    BY <2>1, <2>2, <2>3 DEF Written
  <2>5. op' \in [Operators -> Operations]
    BY SMTT(30), <1>1, <2>1, <2>2, <2>4 DEF TypeOK, Operations
  <2>6. /\ spent' \in [{"injects", "requests", "losses", "crashes"} -> Nat]
        /\ spent'.injects = spent.injects + 1
    BY <1>1, <2>1 DEF TypeOK
  <2>7. TypeOK'
    BY <1>1, <2>1, <2>5, <2>6 DEF TypeOK
  <2>8. Counted'
    <3>1. spent'.injects <= MaxInjects
      BY <2>1, <2>2, <2>6
    <3>2. \A g \in FaultTypes : faults'[g] # NoFault => faults'[g].generation <= spent'.injects
      <4> SUFFICES ASSUME NEW g \in FaultTypes, faults[g] # NoFault
                   PROVE  faults[g].generation <= spent.injects + 1
        BY <2>1, <2>6
      <4>1. faults[g].generation \in Nat
        BY SMTT(30), <1>1 DEF TypeOK
      <4> QED
        BY <1>1, <2>2, <4>1 DEF Counted
    <3>3. ASSUME NEW p \in Operators, op'[p].stage = "injecting"
          PROVE  op'[p].entry.generation <= spent'.injects
      <4>1. CASE p = o
        BY <1>1, <2>1, <2>4, <2>6, <4>1 DEF TypeOK
      <4>2. CASE p # o
        <5>1. op'[p] = op[p] /\ op[p] \in Operations /\ op[p].stage = "injecting"
          BY <1>1, <2>1, <3>3, <4>2 DEF TypeOK
        <5>2. op[p].entry \in Written
          BY <5>1 DEF Operations, Idle, Resetting
        <5> QED
          BY <1>1, <2>2, <2>6, <5>1, <5>2 DEF Counted
      <4> QED
        BY <4>1, <4>2
    <3> QED
      BY <3>1, <3>2, <3>3 DEF Counted
  <2>9. Working'
    BY <1>1, <2>1 DEF Working, Entry
  <2> QED
    BY <2>7, <2>8, <2>9 DEF Typed
<1>3. ASSUME FinishInject(o)
      PROVE  Typed'
  <2>1. /\ op[o].stage = "injecting"
        /\ faults' = [faults EXCEPT ![op[o].fault] = op[o].entry]
        /\ op' = [op EXCEPT ![o] = Idle]
        /\ UNCHANGED <<reset, loop, slow, runtime, files, lost, spent>>
    BY <1>3 DEF FinishInject
  <2>2. op[o].fault \in FaultTypes /\ op[o].entry \in Written
    <3>1. op[o] \in Operations
      BY <1>1 DEF TypeOK
    <3>2. op[o] \in [stage : {"injecting"}, fault : FaultTypes, entry : Entries \ {NoFault}]
      BY <2>1, <3>1 DEF Operations, Idle, Resetting
    <3> QED
      BY <3>2
  <2>3. faults' \in [FaultTypes -> Entries] /\ op' \in [Operators -> Operations]
    BY <1>1, <2>1, <2>2 DEF TypeOK, Operations
  <2>4. TypeOK'
    BY <1>1, <2>1, <2>3 DEF TypeOK
  <2>5. Counted'
    BY <1>1, <2>1, <2>2 DEF Counted, TypeOK, Idle
  <2>6. Working'
    BY <1>1, <2>1 DEF Working, Entry
  <2> QED
    BY <2>4, <2>5, <2>6 DEF Typed
<1>4. ASSUME RestoreAll(o) \/ Return(o)
      PROVE  Typed'
  <2> DEFINE found == {f \in FaultTypes : faults[f] # NoFault}
             deleting == [stage |-> "deleting", keys |-> found]
  <2>a. op' = [op EXCEPT ![o] = deleting] \/ op' = [op EXCEPT ![o] = Idle]
    BY <1>4 DEF RestoreAll, Return
  <2>b. found \in SUBSET FaultTypes
    OBVIOUS
  <2>c. deleting \in Operations /\ Idle \in Operations
    BY <2>b DEF Operations
  <2>d. deleting.stage = "deleting" /\ Idle.stage = "idle"
    BY DEF Idle
  <2> HIDE DEF deleting
  <2>1. PICK next \in Operations : /\ op' = [op EXCEPT ![o] = next]
                                   /\ next.stage # "injecting"
    BY <2>a, <2>c, <2>d
  <2>2. UNCHANGED <<faults, reset, loop, slow, runtime, files, lost, spent>>
    BY <1>4 DEF RestoreAll, Return
  <2>3. TypeOK'
    BY <1>1, <2>1, <2>2 DEF TypeOK
  <2>4. Counted'
    BY <1>1, <2>1, <2>2 DEF Counted, TypeOK
  <2>5. Working'
    BY <1>1, <2>2 DEF Working, Entry
  <2> QED
    BY <2>3, <2>4, <2>5 DEF Typed
<1> QED
  BY <1>2, <1>3, <1>4

\* Faults are deleted, if any, and a reset is sent.
LEMMA TypedRestore ==
  ASSUME Typed, NEW o \in Operators,
         \/ \E keys \in {{f} : f \in Injected} \cup {FaultTypes} : Restore(o, keys)
         \/ DeleteAll(o) \/ Restart(o)
  PROVE  Typed'
<1> USE EntriesAreWritten
<1>1. TypeOK /\ Counted /\ Working
  BY DEF Typed
<1>2. /\ op' = [op EXCEPT ![o] = Resetting]
      /\ reset' = [reset EXCEPT ![o] = "sent"]
      /\ UNCHANGED <<loop, slow, runtime, files, lost, spent>>
  BY DEF Restore, DeleteAll, Restart, SendReset
<1>3. faults' = faults \/ \E keys : faults' = Without(keys)
  BY DEF Restore, DeleteAll, Restart
<1>4. /\ faults' \in [FaultTypes -> Entries]
      /\ \A f \in FaultTypes : faults'[f] \in {faults[f], NoFault}
  BY <1>1, <1>3 DEF Without, TypeOK
<1>5. TypeOK'
  BY <1>1, <1>2, <1>4 DEF TypeOK, Operations
<1>6. Counted'
  BY <1>1, <1>2, <1>4 DEF Counted, TypeOK, Resetting
<1>7. Working'
  BY <1>1, <1>2 DEF Working, Entry
<1> QED
  BY <1>5, <1>6, <1>7 DEF Typed

\* A reset on its way, and in its thread.
LEMMA TypedReset ==
  ASSUME Typed, NEW o \in Operators, Lose(o) \/ ResetArrives(o) \/ ResetStep(o)
  PROVE  Typed'
<1> USE StepsOfResets
<1>1. TypeOK /\ Counted /\ Working
  BY DEF Typed
<1>2. UNCHANGED <<faults, op, loop, slow>>
  BY DEF Lose, ResetArrives, ResetStep
<1>3. reset' \in [Operators -> {"none", "sent"} \cup ToSet(ResetSteps)]
  <2>1. PICK next \in {"none", "sent"} \cup ToSet(ResetSteps) : reset' = [reset EXCEPT ![o] = next]
    <3>1. CASE Lose(o) \/ ResetArrives(o)
      BY <3>1 DEF Lose, ResetArrives
    <3>2. CASE ResetStep(o)
      <4>1. PICK i \in 1 .. 5 : reset' = [reset EXCEPT ![o] = IF i = 5 THEN "none" ELSE ResetSteps[i + 1]]
        BY <3>2 DEF ResetStep
      <4>2. i = 5 \/ ResetSteps[i + 1] \in ToSet(ResetSteps)
        BY <4>1
      <4> QED
        BY <4>1, <4>2
    <3> QED
      BY <3>1, <3>2
  <2> QED
    BY <1>1, <2>1 DEF TypeOK
<1>4. lost' \in BOOLEAN
  BY <1>1 DEF Lose, ResetArrives, ResetStep, TypeOK
<1>5. runtime' \in [connections : Nat, memory : Nat, listed : Seq(Paths), queries : Nat]
  <2>1. CASE Lose(o) \/ ResetArrives(o)
    BY <1>1, <2>1 DEF Lose, ResetArrives, TypeOK
  <2>2. CASE ResetStep(o)
    <3>1. \/ runtime' = [runtime EXCEPT !.connections = 0]
          \/ runtime' = [runtime EXCEPT !.memory = 0]
          \/ runtime' = [runtime EXCEPT !.listed = <<>>]
          \/ runtime' = [runtime EXCEPT !.queries = 0]
          \/ runtime' = runtime
      BY <2>2 DEF ResetStep
    <3>2. runtime \in [connections : Nat, memory : Nat, listed : Seq(Paths), queries : Nat]
      BY <1>1 DEF TypeOK
    <3>3. CASE runtime' = [runtime EXCEPT !.listed = <<>>]
      <4>1. <<>> \in Seq(Paths)
        OBVIOUS
      <4> QED
        BY <3>2, <3>3, <4>1
    <3> QED
      BY <3>1, <3>2, <3>3
  <2> QED
    BY <2>1, <2>2
<1>6. files' \in SUBSET Paths
  BY <1>1 DEF Lose, ResetArrives, ResetStep, TypeOK
<1>7. /\ spent' \in [{"injects", "requests", "losses", "crashes"} -> Nat]
      /\ spent'.injects = spent.injects
  BY <1>1 DEF Lose, ResetArrives, ResetStep, TypeOK, Spend
<1>8. TypeOK'
  BY <1>1, <1>2, <1>3, <1>4, <1>5, <1>6, <1>7 DEF TypeOK
<1>9. Counted' /\ Working'
  BY <1>1, <1>2, <1>7 DEF Counted, Working, Entry
<1> QED
  BY <1>8, <1>9 DEF Typed

-----------------------------------------------------------------------------
(* Types: the requests. *)

Runtimes == [connections : Nat, memory : Nat, listed : Seq(Paths), queries : Nat]

LEMMA WhereTheLoopIs ==
  ASSUME TypeOK
  PROVE  /\ loop = Free \/ loop.at # "free"
         /\ loop.at \in {"reading", "applying", "weighing"} => loop \in Requests
         /\ loop.at = "listing" => loop \in Listings
         /\ loop # Free => loop.seen \in [FaultTypes -> Entries] /\ loop.todo \in Seq(FaultTypes)
  BY DEF TypeOK, Free, Requests, Listings

\* What a fault asks for is written in Redis.
LEMMA SeenIsWritten ==
  ASSUME TypeOK, NEW f \in FaultTypes, Seen(f)
  PROVE  Entry \in Written /\ Entry = loop.seen[f] /\ loop # Free
  BY WhereTheLoopIs, EntriesAreWritten DEF Seen, Applying, Entry, Free

LEMMA GoingOn ==
  ASSUME TypeOK, loop.at \in {"applying", "weighing"}, loop.todo # <<>>
  PROVE  /\ Onward \in Requests
         /\ Onward.at = "applying" /\ Onward.seen = loop.seen
<1>1. loop \in Requests /\ Tail(loop.todo) \in Seq(FaultTypes)
  BY WhereTheLoopIs DEF Requests
<1> QED
  BY <1>1 DEF Onward, Requests

\* A step that ends the request or goes on with the next kind.
LEMMA TypedStep ==
  ASSUME Typed, UNCHANGED <<faults, op, reset, lost, spent>>,
         loop' \in {Free} \cup Requests, loop'.at \in {"free", "applying"},
         slow' \in Nat, runtime' \in Runtimes, files' \in SUBSET Paths
  PROVE  Typed'
<1>1. TypeOK'
  BY DEF Typed, TypeOK, Runtimes
<1>2. Counted' /\ Working'
  BY DEF Typed, Counted, Working
<1> QED
  BY <1>1, <1>2 DEF Typed

LEMMA TypedFault ==
  ASSUME Typed, Skip \/ LeakConnection \/ LeakMemory \/ BreakConfig \/ WeighDisk
  PROVE  Typed'
<1> USE EntriesAreWritten, KindsOfFaults
<1>1. TypeOK /\ Counted /\ Working
  BY DEF Typed
<1>2. loop.at \in {"applying", "weighing"} /\ loop.todo # <<>>
  BY <1>1 DEF Skip, LeakConnection, LeakMemory, BreakConfig, WeighDisk, Seen, Applying, Working
<1>3. loop' = Free \/ loop' = Onward
  BY DEF Skip, LeakConnection, LeakMemory, BreakConfig, WeighDisk, Raised
<1>4. loop' \in {Free} \cup Requests /\ loop'.at \in {"free", "applying"}
  BY <1>1, <1>2, <1>3, GoingOn DEF Free
<1>5. runtime \in Runtimes /\ files \in SUBSET Paths /\ slow \in Nat
  BY <1>1 DEF TypeOK, Runtimes
<1>6. runtime' \in Runtimes
  <2>1. CASE LeakConnection
    <3>1. runtime' = [runtime EXCEPT !.connections = @ + 1]
      BY <2>1 DEF LeakConnection
    <3> QED
      BY <1>5, <3>1 DEF Runtimes
  <2>2. CASE LeakMemory
    <3>1. PICK n \in {0, runtime.memory, runtime.memory + 1} : runtime' = [runtime EXCEPT !.memory = n]
      BY <2>2 DEF LeakMemory
    <3>2. n \in Nat
      BY <1>5, <3>1 DEF Runtimes
    <3> QED
      BY <1>5, <3>1, <3>2 DEF Runtimes
  <2> QED
    BY <1>5, <2>1, <2>2 DEF Skip, BreakConfig, WeighDisk
<1> QED
  BY <1>4, <1>5, <1>6, TypedStep
     DEF Skip, LeakConnection, LeakMemory, BreakConfig, WeighDisk

LEMMA TypedFile ==
  ASSUME Typed, WriteFile \/ ListFile
  PROVE  Typed'
<1> USE EntriesAreWritten, KindsOfFaults
<1>1. TypeOK /\ Counted /\ Working
  BY DEF Typed
<1>2. CASE WriteFile
  <2> DEFINE path == <<Entry.generation, Len(runtime.listed)>>
  <2>1. Entry \in Written /\ loop # Free /\ loop.at = "applying" /\ loop.todo # <<>>
    BY <1>1, <1>2, SeenIsWritten DEF WriteFile, Seen, Applying
  <2>2. path \in Paths
    BY <1>1, <2>1 DEF TypeOK, Paths
  <2>3. loop \in Requests
    BY <1>1, <2>1, WhereTheLoopIs
  <2>4. files' \in SUBSET Paths
    BY <1>1, <1>2, <2>2 DEF WriteFile, TypeOK
  <2>5. \/ loop' = [at |-> "listing", todo |-> loop.todo, seen |-> loop.seen, path |-> path]
        \/ loop' = [loop EXCEPT !.at = "weighing"]
    BY <1>2 DEF WriteFile
  <2>6. loop' \in Requests \cup Listings
    <3>1. loop.todo \in Seq(FaultTypes) /\ loop.seen \in [FaultTypes -> Entries]
      BY <2>3 DEF Requests
    <3>2. ASSUME loop' = [at |-> "listing", todo |-> loop.todo, seen |-> loop.seen, path |-> path]
          PROVE  loop' \in Listings
      BY <2>2, <3>1, <3>2 DEF Listings
    <3>3. ASSUME loop' = [loop EXCEPT !.at = "weighing"]
          PROVE  loop' \in Requests
      BY <2>3, <3>3 DEF Requests
    <3> QED
      BY <2>5, <3>2, <3>3
  <2>7. /\ loop'.at \in {"listing", "weighing"}
        /\ loop'.todo = loop.todo /\ loop'.seen = loop.seen
    BY <2>3, <2>5 DEF Requests
  <2>8. TypeOK'
    BY <1>1, <1>2, <2>4, <2>6 DEF WriteFile, TypeOK
  <2>9. Counted' /\ Working'
    BY <1>1, <1>2, <2>1, <2>7 DEF WriteFile, Counted, Working, Entry
  <2> QED
    BY <2>8, <2>9 DEF Typed
<1>3. CASE ListFile
  <2>1. loop \in Listings /\ loop.todo # <<>> /\ Entry \in Written
    BY <1>1, <1>3, WhereTheLoopIs DEF ListFile, Working
  <2>2. Append(runtime.listed, loop.path) \in Seq(Paths)
    BY <1>1, <2>1 DEF TypeOK, Listings
  <2>3. runtime' \in Runtimes
    BY <1>1, <1>3, <2>2 DEF ListFile, TypeOK, Runtimes
  <2>4. loop' \in Requests /\ loop'.at = "weighing" /\ loop'.todo = loop.todo /\ loop'.seen = loop.seen
    BY <1>3, <2>1 DEF ListFile, Requests, Listings
  <2>5. TypeOK'
    BY <1>1, <1>3, <2>3, <2>4 DEF ListFile, TypeOK, Runtimes
  <2>6. Counted' /\ Working'
    BY <1>1, <1>3, <2>1, <2>4 DEF ListFile, Counted, Working, Entry
  <2> QED
    BY <2>5, <2>6 DEF Typed
<1> QED
  BY <1>2, <1>3

\* The beginning and the end of a request.
LEMMA TypedRequest ==
  ASSUME Typed, Begin \/ ReadFault \/ Serve \/ FinishSlow
  PROVE  Typed'
<1> USE EntriesAreWritten, KindsOfFaults
<1>1. TypeOK /\ Counted /\ Working
  BY DEF Typed
<1>2. CASE Begin
  <2>1. loop' \in Requests /\ loop'.at = "reading" /\ loop'.todo # <<>>
    BY <1>2 DEF Begin, Requests
  <2>2. /\ spent' \in [{"injects", "requests", "losses", "crashes"} -> Nat]
        /\ spent'.injects = spent.injects
    BY <1>1, <1>2 DEF Begin, Spend, TypeOK
  <2>3. TypeOK'
    BY <1>1, <1>2, <2>1, <2>2 DEF Begin, TypeOK
  <2>4. Counted' /\ Working'
    BY <1>1, <1>2, <2>1, <2>2 DEF Begin, Counted, Working
  <2> QED
    BY <2>3, <2>4 DEF Typed
<1>3. CASE ReadFault
  <2> DEFINE f == Head(loop.todo)
             seen == [loop.seen EXCEPT ![f] = faults[f]]
  <2>1. loop \in Requests /\ loop.todo # <<>>
    BY <1>1, <1>3, WhereTheLoopIs DEF ReadFault, Working
  <2>2. f \in FaultTypes /\ Tail(loop.todo) \in Seq(FaultTypes) /\ seen \in [FaultTypes -> Entries]
    BY <1>1, <2>1 DEF Requests, TypeOK
  <2>3. \/ /\ loop' = [[loop EXCEPT !.seen[f] = faults[f], !.todo = Tail(@)]
                         EXCEPT !.at = "applying", !.todo = FaultOrder]
        \/ /\ loop' = [loop EXCEPT !.seen[f] = faults[f], !.todo = Tail(@)]
           /\ loop'.todo # <<>>
    BY <1>3, <2>1 DEF ReadFault
  <2>4. /\ loop' \in Requests /\ loop'.at \in {"reading", "applying"}
        /\ loop'.at = "reading" => loop'.todo # <<>>
    <3>1. loop.at = "reading"
      BY <1>3 DEF ReadFault
    <3> QED
      BY <2>1, <2>2, <2>3, <3>1 DEF Requests
  <2>5. TypeOK'
    BY <1>1, <1>3, <2>4 DEF ReadFault, TypeOK
  <2>6. Counted' /\ Working'
    BY <1>1, <1>3, <2>4 DEF ReadFault, Counted, Working
  <2> QED
    BY <2>5, <2>6 DEF Typed
<1>4. CASE Serve \/ FinishSlow
  <2>1. loop' = Free
    BY <1>4 DEF Serve, FinishSlow
  <2>2. slow' \in Nat /\ runtime' \in Runtimes /\ files' \in SUBSET Paths
    <3>1. runtime \in Runtimes /\ slow \in Nat /\ files \in SUBSET Paths
      BY <1>1 DEF TypeOK, Runtimes
    <3>2. \E n \in {0, 1, SlowQueries} :
            runtime' = runtime \/ runtime' = [runtime EXCEPT !.queries = n]
      BY <1>4 DEF Serve, FinishSlow
    <3>3. SlowQueries \in Nat
      BY BoundAssumption
    <3>4. slow' \in Nat
      BY <1>4, <3>1 DEF Serve, FinishSlow
    <3>5. files' = files
      BY <1>4 DEF Serve, FinishSlow
    <3> QED
      BY SMTT(30), <3>1, <3>2, <3>3, <3>4, <3>5 DEF Runtimes
  <2>3. UNCHANGED <<faults, op, reset, lost, spent>>
    BY <1>4 DEF Serve, FinishSlow
  <2> QED
    BY <2>1, <2>2, <2>3, TypedStep DEF Free
<1> QED
  BY <1>2, <1>3, <1>4

LEMMA TypedCrash ==
  ASSUME Typed, Crash
  PROVE  Typed'
<1>1. TypeOK /\ Counted /\ Working
  BY DEF Typed
<1>2. /\ spent' \in [{"injects", "requests", "losses", "crashes"} -> Nat]
      /\ spent'.injects = spent.injects
  BY <1>1 DEF Crash, Spend, TypeOK
<1>3. reset' \in [Operators -> {"none", "sent"} \cup ToSet(ResetSteps)]
  BY DEF Crash
<1>4. Unused \in [connections : Nat, memory : Nat, listed : Seq(Paths), queries : Nat]
  BY DEF Unused
<1>5. TypeOK'
  BY <1>1, <1>2, <1>3, <1>4 DEF Crash, TypeOK
<1>6. Counted' /\ Working'
  BY <1>1, <1>2 DEF Crash, Counted, Working, Free
<1> QED
  BY <1>5, <1>6 DEF Typed

LEMMA TypedNext ==
  ASSUME Typed, [Next]_vars
  PROVE  Typed'
<1>1. CASE UNCHANGED vars
  BY <1>1 DEF vars, Typed, TypeOK, Counted, Working, Entry
<1>2. CASE Request
  BY <1>2, TypedFault, TypedFile, TypedRequest DEF Request
<1>3. CASE Crash
  BY <1>3, TypedCrash
<1>4. ASSUME NEW o \in Operators, Operation(o)
      PROVE  Typed'
  BY <1>4, TypedController, TypedRestore, TypedReset DEF Operation
<1> QED
  BY <1>1, <1>2, <1>3, <1>4 DEF Next
-----------------------------------------------------------------------------
(* The footprint. *)

\* The next debug file is one that was still allowed when the request looked, and
\* memory is below the limit at which it is dropped.
Footprint ==
  /\ \E s \in Specs : Len(runtime.listed) <= s.allowed
  /\ \E s \in Specs : runtime.memory < s.allowed
  /\ loop.at = "listing" => Len(runtime.listed) < Entry.spec.allowed

LEMMA FootprintInit == Init => Footprint
<1> SUFFICES ASSUME Init PROVE Footprint
  OBVIOUS
<1>1. PICK s \in Specs : s.allowed \in Nat \ {0}
  BY SpecAssumption
<1>2. runtime.memory = 0 /\ Len(runtime.listed) = 0 /\ loop.at = "free"
  BY DEF Init, Unused, Free
<1> QED
  BY <1>1, <1>2 DEF Footprint

\* The steps of a request that concern the disk or the memory.
LEMMA FootprintFault ==
  ASSUME Typed, Footprint, WriteFile \/ ListFile \/ LeakMemory
  PROVE  Footprint'
<1> USE EntriesAreWritten, KindsOfFaults
<1>1. TypeOK /\ Counted /\ Working
  BY DEF Typed
<1>2. Len(runtime.listed) \in Nat /\ runtime.memory \in Nat
  BY <1>1 DEF TypeOK
<1>3. CASE WriteFile
  <2>1. runtime' = runtime
    BY <1>3 DEF WriteFile
  <2>2. \/ /\ loop'.at = "listing" /\ loop'.todo = loop.todo /\ loop'.seen = loop.seen
           /\ Len(runtime.listed) < Entry.spec.allowed
        \/ loop'.at = "weighing"
    <3>1. loop \in Requests
      BY <1>1, <1>3, WhereTheLoopIs DEF WriteFile, Seen, Applying
    <3> QED
      BY <1>3, <3>1 DEF WriteFile, Requests
  <2> QED
    BY <2>1, <2>2 DEF Footprint, Entry
<1>4. CASE ListFile
  <2>1. loop \in Listings /\ Entry \in Written /\ loop'.at = "weighing"
    BY <1>1, <1>4, WhereTheLoopIs DEF ListFile, Working
  <2>2. Len(runtime.listed) < Entry.spec.allowed
    BY <1>4 DEF ListFile, Footprint
  <2>3. runtime'.listed = Append(runtime.listed, loop.path) /\ runtime'.memory = runtime.memory
    BY <1>1, <1>4 DEF ListFile, TypeOK
  <2>4. Len(runtime'.listed) = Len(runtime.listed) + 1
    BY <1>1, <2>1, <2>3 DEF TypeOK, Listings
  <2>5. Len(runtime'.listed) <= Entry.spec.allowed
    BY <1>2, <2>1, <2>2, <2>4
  <2> QED
    BY <2>1, <2>3, <2>5 DEF Footprint
<1>5. CASE LeakMemory
  <2>1. Entry \in Written /\ loop # Free /\ loop.at = "applying" /\ loop.todo # <<>>
    BY <1>1, <1>5, SeenIsWritten DEF LeakMemory, Seen, Applying
  <2>2. PICK n \in Nat : runtime' = [runtime EXCEPT !.memory = n] /\ n < Entry.spec.allowed
    <3> DEFINE grown == IF runtime.memory < Entry.spec.allowed
                        THEN runtime.memory + 1 ELSE runtime.memory
               kept == IF grown >= Entry.spec.failsAt THEN 0 ELSE grown
    <3>1. runtime' = [runtime EXCEPT !.memory = kept]
      BY <1>5 DEF LeakMemory
    <3>2. Entry.spec.allowed \in Nat \ {0} /\ Entry.spec.failsAt \in 1 .. Entry.spec.allowed
      BY <2>1
    <3>3. kept \in Nat /\ kept < Entry.spec.allowed
      BY <1>2, <3>2
    <3> QED
      BY <3>1, <3>3
  <2>3. runtime'.listed = runtime.listed /\ runtime'.memory = n
    BY <1>1, <2>2 DEF TypeOK
  <2>4. loop'.at \in {"free", "applying"}
    BY <1>1, <1>5, <2>1, GoingOn DEF LeakMemory, Raised, Free
  <2> QED
    BY <2>1, <2>2, <2>3, <2>4 DEF Footprint
<1> QED
  BY <1>3, <1>4, <1>5

\* The other steps of a request leave both alone, and end elsewhere.
LEMMA FootprintRequest ==
  ASSUME Typed, Footprint,
         \/ Begin \/ ReadFault \/ Skip \/ LeakConnection \/ WeighDisk \/ BreakConfig
         \/ Serve \/ FinishSlow
  PROVE  Footprint'
<1>1. TypeOK /\ Counted /\ Working
  BY DEF Typed
<1>2. runtime'.listed = runtime.listed /\ runtime'.memory = runtime.memory
  BY <1>1 DEF TypeOK, Begin, ReadFault, Skip, LeakConnection, WeighDisk, BreakConfig, Serve,
              FinishSlow
<1>3. loop'.at # "listing"
  <2>1. CASE Begin \/ Serve \/ FinishSlow
    BY <2>1 DEF Begin, Serve, FinishSlow, Free
  <2>2. CASE ReadFault
    <3>1. loop \in Requests /\ loop.at = "reading"
      BY <1>1, <2>2, WhereTheLoopIs DEF ReadFault
    <3> QED
      BY <2>2, <3>1 DEF ReadFault, Requests
  <2>3. CASE Skip \/ LeakConnection \/ WeighDisk \/ BreakConfig
    <3>1. loop.at \in {"applying", "weighing"} /\ loop.todo # <<>>
      BY <1>1, <2>3 DEF Skip, LeakConnection, BreakConfig, WeighDisk, Seen, Applying, Working
    <3>2. loop' = Free \/ loop' = Onward
      BY <2>3 DEF Skip, LeakConnection, BreakConfig, WeighDisk, Raised
    <3> QED
      BY <1>1, <3>1, <3>2, GoingOn DEF Free
  <2> QED
    BY <2>1, <2>2, <2>3
<1> QED
  BY <1>2, <1>3 DEF Footprint

LEMMA FootprintNext ==
  ASSUME Typed, Footprint, [Next]_vars
  PROVE  Footprint'
<1>1. TypeOK /\ Counted /\ Working
  BY DEF Typed
<1>2. PICK least \in Specs : least.allowed \in Nat \ {0}
  BY SpecAssumption
<1>3. CASE UNCHANGED vars
  BY <1>3 DEF vars, Footprint, Entry
<1>4. CASE Request
  BY <1>4, FootprintFault, FootprintRequest DEF Request
<1>5. CASE Crash
  BY <1>2, <1>5 DEF Crash, Footprint, Unused, Free
<1>6. ASSUME NEW o \in Operators, Operation(o)
      PROVE  Footprint'
  <2>1. CASE ResetStep(o)
    <3>1. UNCHANGED loop /\ runtime'.memory \in {runtime.memory, 0}
                        /\ runtime'.listed \in {runtime.listed, <<>>}
      <4>1. /\ UNCHANGED loop
            /\ \/ runtime' = [runtime EXCEPT !.connections = 0]
               \/ runtime' = [runtime EXCEPT !.memory = 0]
               \/ runtime' = [runtime EXCEPT !.listed = <<>>]
               \/ runtime' = [runtime EXCEPT !.queries = 0]
               \/ runtime' = runtime
        BY <2>1 DEF ResetStep
      <4> QED
        BY <1>1, <4>1 DEF TypeOK
    <3>2. loop.at = "listing" => Entry.spec.allowed \in Nat \ {0}
      BY <1>1, EntriesAreWritten DEF Working
    <3>3. Len(<<>>) = 0
      OBVIOUS
    <3> QED
      BY <1>2, <3>1, <3>2, <3>3 DEF Footprint, Entry
  <2>2. CASE ~ResetStep(o)
    <3>1. UNCHANGED <<loop, runtime>>
      BY <1>6, <2>2 DEF Operation, Inject, FinishInject, Restore, RestoreAll, DeleteAll, Restart,
                        Return, Lose, ResetArrives
    <3> QED
      BY <3>1 DEF Footprint, Entry
  <2> QED
    BY <2>1, <2>2
<1> QED
  BY <1>3, <1>4, <1>5, <1>6 DEF Next

-----------------------------------------------------------------------------
(* What was restored is clean. *)

\* The request that the loop works on has read a fault.
SeenSome == loop # Free /\ \E f \in FaultTypes : loop.seen[f] # NoFault

\* A reset is still to come that has not got beyond the steps given, unless a fault is
\* defined or a reset was lost.
Coming(steps) ==
  lost \/ ~Faultless \/ \E o \in Operators : reset[o] \in {"sent"} \cup steps

\* Whatever there is of a fault, in the request or in the service, a reset that clears
\* it is still to come: the loop takes up none while it works for a fault it has read.
Remembered ==
  /\ SeenSome => Coming({})
  /\ runtime.connections # 0 => Coming({"connections"})
  /\ runtime.memory # 0 => Coming({"connections", "memory"})
  /\ runtime.listed # <<>> => Coming({"connections", "memory", "unlink", "forget"})

\* A request only adds what a fault that it has read asks for.
LEMMA RequestRemembers ==
  ASSUME Typed, Remembered, Request
  PROVE  Remembered'
<1> USE EntriesAreWritten, KindsOfFaults
<1>1. TypeOK /\ Counted /\ Working
  BY DEF Typed
<1>2. UNCHANGED <<faults, reset, lost>>
  BY DEF Request, Begin, ReadFault, Skip, LeakConnection, WriteFile, ListFile, WeighDisk,
         LeakMemory, BreakConfig, Serve, FinishSlow
<1>3. SeenSome' => SeenSome \/ ~Faultless
  <2>1. CASE Begin
    BY <2>1 DEF Begin, SeenSome
  <2>2. CASE ReadFault
    <3>1. loop \in Requests /\ loop # Free /\ loop.todo # <<>>
      BY <1>1, <2>2, WhereTheLoopIs DEF ReadFault, Working, Free
    <3>2. Head(loop.todo) \in FaultTypes
      BY <3>1 DEF Requests
    <3>3. loop'.seen = [loop.seen EXCEPT ![Head(loop.todo)] = faults[Head(loop.todo)]]
      BY <2>2, <3>1 DEF ReadFault, Requests
    <3> QED
      BY <3>1, <3>2, <3>3 DEF SeenSome, Faultless, Requests
  <2>3. CASE WriteFile \/ ListFile
    <3>1. loop \in Requests \cup Listings /\ loop # Free
      BY <1>1, <2>3, WhereTheLoopIs DEF WriteFile, ListFile, Seen, Applying, Free
    <3>2. loop'.seen = loop.seen
      BY <2>3, <3>1 DEF WriteFile, ListFile, Requests, Listings
    <3> QED
      BY <3>1, <3>2 DEF SeenSome
  <2>4. CASE Skip \/ LeakConnection \/ LeakMemory \/ BreakConfig \/ WeighDisk
    <3>1. loop.at \in {"applying", "weighing"} /\ loop.todo # <<>>
      BY <1>1, <2>4 DEF Skip, LeakConnection, LeakMemory, BreakConfig, WeighDisk, Seen, Applying,
                        Working
    <3>2. loop # Free
      BY <3>1 DEF Free
    <3>3. loop' = Free \/ loop' = Onward
      BY <2>4 DEF Skip, LeakConnection, LeakMemory, BreakConfig, WeighDisk, Raised
    <3> QED
      BY <1>1, <3>1, <3>2, <3>3, GoingOn DEF SeenSome
  <2>5. CASE Serve \/ FinishSlow
    BY <2>5 DEF Serve, FinishSlow, SeenSome
  <2> QED
    BY <2>1, <2>2, <2>3, <2>4, <2>5 DEF Request
<1>4. \/ SeenSome
      \/ /\ runtime'.connections = runtime.connections /\ runtime'.memory = runtime.memory
         /\ runtime'.listed = runtime.listed
  <2>1. CASE LeakConnection \/ LeakMemory
    <3>1. \E f \in FaultTypes : Seen(f)
      BY <2>1 DEF LeakConnection, LeakMemory
    <3> QED
      BY <1>1, <3>1, SeenIsWritten DEF SeenSome
  <2>2. CASE ListFile
    <3>1. loop \in Listings /\ loop # Free /\ loop.todo # <<>> /\ Entry \in Written
      BY <1>1, <2>2, WhereTheLoopIs DEF ListFile, Working, Free
    <3>2. Head(loop.todo) \in FaultTypes
      BY <3>1 DEF Listings
    <3> QED
      BY <3>1, <3>2 DEF SeenSome, Entry
  <2>3. CASE Serve \/ FinishSlow
    <3>1. runtime' = runtime \/ \E n : runtime' = [runtime EXCEPT !.queries = n]
      BY <2>3 DEF Serve, FinishSlow
    <3> QED
      BY <1>1, <3>1 DEF TypeOK
  <2>4. CASE Begin \/ ReadFault \/ Skip \/ WriteFile \/ WeighDisk \/ BreakConfig
    BY <2>4 DEF Begin, ReadFault, Skip, WriteFile, WeighDisk, BreakConfig
  <2> QED
    BY <2>1, <2>2, <2>3, <2>4 DEF Request
<1>5. \A steps : Coming(steps)' <=> Coming(steps)
  BY <1>2 DEF Coming, Faultless
<1>6. \A steps : Coming({}) => Coming(steps)
  BY DEF Coming
<1>7. SeenSome' => Coming({})'
  BY <1>3, <1>5 DEF Remembered, Coming
<1>8. CASE SeenSome
  BY <1>5, <1>6, <1>7, <1>8 DEF Remembered
<1>9. CASE ~SeenSome
  BY <1>4, <1>5, <1>7, <1>9 DEF Remembered
<1> QED
  BY <1>8, <1>9

\* The controller's steps define a fault, send a reset, or change nothing that counts.
LEMMA ControllerRemembers ==
  ASSUME Typed, Remembered, NEW o \in Operators,
         \/ \E f \in Injected, spec \in Specs : Inject(o, f, spec)
         \/ FinishInject(o) \/ RestoreAll(o) \/ DeleteAll(o) \/ Restart(o) \/ Return(o)
         \/ \E keys \in {{f} : f \in Injected} \cup {FaultTypes} : Restore(o, keys)
  PROVE  Remembered'
<1>1. TypeOK
  BY DEF Typed
<1>2. UNCHANGED <<loop, runtime, lost>>
  BY DEF Inject, FinishInject, Restore, RestoreAll, DeleteAll, Restart, Return
<1>3. CASE FinishInject(o)
  <2>1. op[o].fault \in FaultTypes /\ op[o].entry # NoFault
    <3>1. op[o] \in Operations /\ op[o].stage = "injecting"
      BY <1>1, <1>3 DEF FinishInject, TypeOK
    <3> QED
      BY <3>1 DEF Operations, Idle, Resetting
  <2>2. ~Faultless'
    BY <1>1, <1>3, <2>1 DEF FinishInject, Faultless, TypeOK
  <2> QED
    BY <2>2 DEF Remembered, Coming
<1>4. ASSUME reset' = [reset EXCEPT ![o] = "sent"]
      PROVE  Remembered'
  <2>1. reset'[o] = "sent"
    BY <1>1, <1>4 DEF TypeOK
  <2> QED
    BY <2>1 DEF Remembered, Coming
<1>5. CASE UNCHANGED <<faults, reset>>
  BY <1>2, <1>5 DEF Remembered, Coming, SeenSome, Faultless
<1> QED
  BY <1>3, <1>4, <1>5
     DEF Inject, Restore, RestoreAll, DeleteAll, Restart, Return, SendReset

\* A reset is taken up when no request is worked on, and clears one thing after the
\* other; one that is lost is remembered as such.
LEMMA ResetRemembers ==
  ASSUME Typed, Remembered, NEW o \in Operators, Lose(o) \/ ResetArrives(o) \/ ResetStep(o)
  PROVE  Remembered'
<1> USE StepsOfResets
<1>1. TypeOK
  BY DEF Typed
<1>2. CASE Lose(o)
  BY <1>2 DEF Lose, Remembered, Coming
<1>3. CASE ResetArrives(o)
  <2>1. reset'[o] = "connections" /\ ~SeenSome'
    BY <1>1, <1>3 DEF ResetArrives, TypeOK, SeenSome
  <2> QED
    BY <2>1 DEF Remembered, Coming
<1>4. CASE ResetStep(o)
  <2> DEFINE Still(steps) == \E p \in Operators : reset[p] \in {"sent"} \cup steps
  <2>1. UNCHANGED <<faults, loop, lost>>
    BY <1>4 DEF ResetStep
  <2>2. \A p \in Operators : p # o => reset'[p] = reset[p]
    BY <1>1, <1>4 DEF ResetStep, TypeOK
  <2>3. PICK i \in 1 .. 5 : /\ reset[o] = ResetSteps[i]
                            /\ reset' = [reset EXCEPT ![o] =
                                           IF i = 5 THEN "none" ELSE ResetSteps[i + 1]]
    BY <1>4 DEF ResetStep
  <2>4. \/ reset[o] = "connections" /\ reset'[o] = "memory"
        \/ reset[o] = "memory" /\ reset'[o] = "unlink"
        \/ reset[o] = "unlink" /\ reset'[o] = "forget"
        \/ reset[o] = "forget" /\ reset'[o] = "queries"
        \/ reset[o] = "queries" /\ reset'[o] = "none"
    <3>1. reset'[o] = IF i = 5 THEN "none" ELSE ResetSteps[i + 1]
      BY <1>1, <2>3 DEF TypeOK
    <3> QED
      BY <2>3, <3>1
  <2>5. /\ runtime'.connections = IF reset[o] = "connections" THEN 0 ELSE runtime.connections
        /\ runtime'.memory = IF reset[o] = "memory" THEN 0 ELSE runtime.memory
        /\ runtime'.listed = IF reset[o] = "forget" THEN <<>> ELSE runtime.listed
    <3>1. runtime' = CASE reset[o] = "connections" -> [runtime EXCEPT !.connections = 0]
                       [] reset[o] = "memory"      -> [runtime EXCEPT !.memory = 0]
                       [] reset[o] = "forget"      -> [runtime EXCEPT !.listed = <<>>]
                       [] reset[o] = "queries"     -> [runtime EXCEPT !.queries = 0]
                       [] OTHER                    -> runtime
      BY <1>4 DEF ResetStep
    <3> QED
      BY <1>1, <2>4, <3>1 DEF TypeOK
  <2>6. /\ Still({}) => Still({})'
        /\ reset[o] # "connections" /\ Still({"connections"}) => Still({"connections"})'
        /\ reset[o] # "memory" /\ Still({"connections", "memory"})
             => Still({"connections", "memory"})'
        /\ reset[o] # "forget" /\ Still({"connections", "memory", "unlink", "forget"})
             => Still({"connections", "memory", "unlink", "forget"})'
    BY <2>2, <2>4
  <2> QED
    BY <2>1, <2>5, <2>6 DEF Remembered, Coming, SeenSome, Faultless
<1> QED
  BY <1>2, <1>3, <1>4

LEMMA RememberedNext ==
  ASSUME Typed, Remembered, [Next]_vars
  PROVE  Remembered'
<1>1. CASE UNCHANGED vars
  BY <1>1 DEF vars, Remembered, Coming, SeenSome, Faultless
<1>2. CASE Request
  BY <1>2, RequestRemembers
<1>3. CASE Crash
  BY <1>3 DEF Crash, Remembered, SeenSome, Unused
<1>4. ASSUME NEW o \in Operators, Operation(o)
      PROVE  Remembered'
  BY <1>4, ControllerRemembers, ResetRemembers DEF Operation
<1> QED
  BY <1>1, <1>2, <1>3, <1>4 DEF Next

-----------------------------------------------------------------------------

Inv == Typed /\ Footprint /\ Remembered

LEMMA Invariance == Spec => []Inv
<1>1. Init => Inv
  <2>1. Init => Remembered
    BY DEF Init, Remembered, SeenSome, Unused, Free
  <2> QED
    BY <2>1, TypedInit, FootprintInit DEF Inv
<1>2. Inv /\ [Next]_vars => Inv'
  BY TypedNext, FootprintNext, RememberedNext DEF Inv
<1> QED
  BY <1>1, <1>2, PTL DEF Spec

\* Every variable keeps its type, in particular every entry of Redis and every fault a
\* request has read is one that was injected, and no count falls below zero.
THEOREM TypesHold == Spec => []TypeOK
<1>1. Inv => TypeOK
  BY DEF Inv, Typed
<1> QED
  BY <1>1, Invariance, PTL

\* Whatever callers, requests, losses and restarts did: once no fault is defined and
\* nothing is under way, the service is clean, unless the last reset was lost.
THEOREM RestoredHolds == Spec => []RestoredIsClean
<1>1. Inv => RestoredIsClean
  <2> SUFFICES ASSUME Remembered, Settled, ~lost PROVE Clean
    BY DEF Inv, RestoredIsClean
  <2>1. \A o \in Operators : reset[o] = "none"
    BY DEF Settled, Ready
  <2>2. /\ ~Coming({"connections"}) /\ ~Coming({"connections", "memory"})
        /\ ~Coming({"connections", "memory", "unlink", "forget"})
    BY <2>1 DEF Coming, Settled
  <2> QED
    BY <2>2 DEF Remembered, Clean
<1> QED
  BY <1>1, Invariance, PTL

\* Debug files and memory stay within the largest limit of any injection, for any number
\* of injections, requests, resets and restarts.
THEOREM FootprintHolds == Spec => []FootprintBounded
<1>1. Inv => FootprintBounded
  <2> SUFFICES ASSUME TypeOK, Footprint PROVE FootprintBounded
    BY DEF Inv, Typed
  <2>1. PICK s \in Specs : Len(runtime.listed) <= s.allowed
    BY DEF Footprint
  <2>2. PICK t \in Specs : runtime.memory < t.allowed
    BY DEF Footprint
  <2>3. /\ s.allowed \in Nat /\ t.allowed \in Nat
        /\ Len(runtime.listed) \in Nat /\ runtime.memory \in Nat
    BY SpecAssumption DEF TypeOK
  <2>4. CASE s.allowed <= t.allowed
    BY <2>1, <2>2, <2>3, <2>4 DEF FootprintBounded
  <2>5. CASE t.allowed <= s.allowed
    BY <2>1, <2>2, <2>3, <2>5 DEF FootprintBounded
  <2> QED
    BY <2>3, <2>4, <2>5
<1> QED
  BY <1>1, Invariance, PTL
=============================================================================
