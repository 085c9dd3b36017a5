--------------------------- MODULE SandboxService ---------------------------
(***************************************************************************)
(* ChaosLab around one simulated service: the controller's operations, the  *)
(* fault definitions in Redis, the service's event loop with its requests,  *)
(* and the resets, which the service runs in threads beside its loop.       *)
(***************************************************************************)
EXTENDS Integers, Sequences, FiniteSets, SequencesExt

CONSTANTS
  Service,       \* the service that is looked at
  Operators,     \* callers of the controller, one operation each at a time
  Specs,         \* severity and configuration of a fault, as two limits
  NoFault,       \* a key that Redis does not hold
  SlowQueries,   \* queries of one request under N+1
  Injected,      \* bound: the kinds of faults that are injected
  MaxInjects,    \* bound: injections in a behaviour
  MaxRequests,   \* bound: requests to the service
  MaxLosses,     \* bound: resets that are lost on their way
  MaxCrashes     \* bound: restarts of the service's container

FaultOrder ==
  <<"n_plus_one", "connection_leak", "disk_exhaustion", "broken_config", "memory_leak">>
FaultTypes == ToSet(FaultOrder)

Services == {"gateway", "checkout", "inventory", "payment", "worker"}

FaultTargets ==
  [n_plus_one      |-> {"checkout"},
   connection_leak |-> {"checkout", "inventory"},
   disk_exhaustion |-> Services,
   broken_config   |-> {"payment"},
   memory_leak     |-> Services]

ASSUME ServiceAssumption == Service \in Services
\* Severity only lowers a limit: a fault fails at or below what it may use.
ASSUME SpecAssumption ==
  /\ Specs # {}
  /\ \A s \in Specs : s.allowed \in Nat \ {0} /\ s.failsAt \in 1 .. s.allowed
ASSUME EntryAssumption == NoFault \notin [spec : Specs, generation : Nat]
ASSUME BoundAssumption ==
  SlowQueries \in Nat /\ SlowQueries > 1 /\ Injected \subseteq FaultTypes
  /\ {MaxInjects, MaxRequests, MaxLosses, MaxCrashes} \subseteq Nat

VARIABLES
  faults,    \* Redis: the entry of every kind of fault, or NoFault
  op,        \* where each operator's operation stands in the controller
  reset,     \* the reset each operation has sent, up to its last step
  loop,      \* the request the event loop is working on
  slow,      \* requests that sleep between their queries and their answer
  runtime,   \* RuntimeState: connections, memory, listed files, queries
  files,     \* the files on the container's disk
  lost,      \* history: a reset was lost and none has arrived since
  spent      \* what was used of each bound

vars == <<faults, op, reset, loop, slow, runtime, files, lost, spent>>

Idle == [stage |-> "idle"]
Resetting == [stage |-> "resetting"]
Free == [at |-> "free"]
Unused == [connections |-> 0, memory |-> 0, listed |-> <<>>, queries |-> 0]

\* The steps of a reset in its thread, in their order.
ResetSteps == <<"connections", "memory", "unlink", "forget", "queries">>

Targeted(f) == Service \in FaultTargets[f]
Spend(bound) == spent' = [spent EXCEPT ![bound] = @ + 1]

Init ==
  /\ faults = [f \in FaultTypes |-> NoFault]
  /\ op = [o \in Operators |-> Idle]
  /\ reset = [o \in Operators |-> "none"]
  /\ loop = Free
  /\ slow = 0
  /\ runtime = Unused
  /\ files = {}
  /\ lost = FALSE
  /\ spent = [injects |-> 0, requests |-> 0, losses |-> 0, crashes |-> 0]

-----------------------------------------------------------------------------
(* The controller. *)

Ready(o) == op[o] = Idle /\ reset[o] = "none"

\* The first half of FaultStore.inject: the generation follows the entry read.
Inject(o, f, spec) ==
  /\ Ready(o) /\ Targeted(f) /\ spent.injects < MaxInjects
  /\ LET generation == IF faults[f] = NoFault THEN 1 ELSE faults[f].generation + 1
     IN op' = [op EXCEPT ![o] = [stage |-> "injecting", fault |-> f,
                 entry |-> [spec |-> spec, generation |-> generation]]]
  /\ Spend("injects")
  /\ UNCHANGED <<faults, reset, loop, slow, runtime, files, lost>>

FinishInject(o) ==
  /\ op[o].stage = "injecting"
  /\ faults' = [faults EXCEPT ![op[o].fault] = op[o].entry]
  /\ op' = [op EXCEPT ![o] = Idle]
  /\ UNCHANGED <<reset, loop, slow, runtime, files, lost, spent>>

Without(keys) == [f \in FaultTypes |-> IF f \in keys THEN NoFault ELSE faults[f]]

SendReset(o) ==
  /\ op' = [op EXCEPT ![o] = Resetting]
  /\ reset' = [reset EXCEPT ![o] = "sent"]

\* Restore of one fault or of the service, and the rollback, which is the latter.
Restore(o, keys) ==
  /\ Ready(o)
  /\ faults' = Without(keys)
  /\ SendReset(o)
  /\ UNCHANGED <<loop, slow, runtime, files, lost, spent>>

\* restore_all scans the keys before it deletes those it found.
RestoreAll(o) ==
  /\ Ready(o)
  /\ op' = [op EXCEPT ![o] = [stage |-> "deleting",
              keys |-> {f \in FaultTypes : faults[f] # NoFault}]]
  /\ UNCHANGED <<faults, reset, loop, slow, runtime, files, lost, spent>>

\* Mutant: restore_all forgets the services.
DeleteAllOnly(o) ==
  /\ op[o].stage = "deleting"
  /\ faults' = Without(op[o].keys)
  /\ op' = [op EXCEPT ![o] = Idle]
  /\ UNCHANGED <<reset, loop, slow, runtime, files, lost, spent>>

DeleteAll(o) ==
  /\ op[o].stage = "deleting"
  /\ faults' = Without(op[o].keys)
  /\ SendReset(o)
  /\ UNCHANGED <<loop, slow, runtime, files, lost, spent>>

Restart(o) ==
  /\ Ready(o)
  /\ SendReset(o)
  /\ UNCHANGED <<faults, loop, slow, runtime, files, lost, spent>>

\* The reset was answered, or reset_service swallows an error or its timeout.
Return(o) ==
  /\ op[o] = Resetting
  /\ op' = [op EXCEPT ![o] = Idle]
  /\ UNCHANGED <<faults, reset, loop, slow, runtime, files, lost, spent>>

\* A reset that never reaches the service.
Lose(o) ==
  /\ reset[o] = "sent" /\ spent.losses < MaxLosses
  /\ reset' = [reset EXCEPT ![o] = "none"]
  /\ lost' = TRUE
  /\ Spend("losses")
  /\ UNCHANGED <<faults, op, loop, slow, runtime, files>>

-----------------------------------------------------------------------------
(* The reset in the service. The loop hands it to a thread when it is free,  *)
(* and goes on with other requests while the thread runs.                    *)

\* Mutant: the reset does not go through the loop.
ResetArrivesAnytime(o) ==
  /\ reset[o] = "sent"
  /\ reset' = [reset EXCEPT ![o] = ResetSteps[1]]
  /\ lost' = FALSE
  /\ UNCHANGED <<faults, op, loop, slow, runtime, files, spent>>

ResetArrives(o) ==
  /\ reset[o] = "sent" /\ loop = Free
  /\ reset' = [reset EXCEPT ![o] = ResetSteps[1]]
  /\ lost' = FALSE
  /\ UNCHANGED <<faults, op, loop, slow, runtime, files, spent>>

ResetStep(o) ==
  \E i \in DOMAIN ResetSteps :
    /\ reset[o] = ResetSteps[i]
    /\ reset' = [reset EXCEPT ![o] =
                   IF i = Len(ResetSteps) THEN "none" ELSE ResetSteps[i + 1]]
    /\ runtime' = CASE reset[o] = "connections" -> [runtime EXCEPT !.connections = 0]
                    [] reset[o] = "memory"      -> [runtime EXCEPT !.memory = 0]
                    [] reset[o] = "forget"      -> [runtime EXCEPT !.listed = <<>>]
                    [] reset[o] = "queries"     -> [runtime EXCEPT !.queries = 0]
                    [] OTHER                    -> runtime
    /\ files' = IF reset[o] = "unlink" THEN files \ ToSet(runtime.listed) ELSE files
    /\ UNCHANGED <<faults, op, loop, slow, lost, spent>>

-----------------------------------------------------------------------------
(* A request. Reading the faults and applying them never awaits, so the loop *)
(* is taken for the whole of it; only resets in threads and Redis move.      *)

Begin ==
  /\ loop = Free /\ spent.requests < MaxRequests
  /\ loop' = [at |-> "reading", todo |-> FaultOrder, seen |-> [f \in FaultTypes |-> NoFault]]
  /\ Spend("requests")
  /\ UNCHANGED <<faults, op, reset, slow, runtime, files, lost>>

\* active_for asks Redis for the key of every kind, one after the other; what the
\* controller refuses to inject into this service is never there.
ReadFault ==
  /\ loop.at = "reading"
  /\ LET f == Head(loop.todo)
         read == [loop EXCEPT !.seen[f] = faults[f], !.todo = Tail(@)]
     IN loop' = IF read.todo = <<>> THEN [read EXCEPT !.at = "applying", !.todo = FaultOrder]
                                    ELSE read
  /\ UNCHANGED <<faults, op, reset, slow, runtime, files, lost, spent>>

Applying(f) == loop.at = "applying" /\ loop.todo # <<>> /\ Head(loop.todo) = f
Entry == loop.seen[Head(loop.todo)]
Seen(f) == Applying(f) /\ Entry # NoFault
Onward == [loop EXCEPT !.at = "applying", !.todo = Tail(@)]

\* Nothing to do for this kind before the request itself.
Skip ==
  /\ \E f \in FaultTypes : Applying(f) /\ (f = "n_plus_one" \/ Entry = NoFault)
  /\ loop' = Onward
  /\ UNCHANGED <<faults, op, reset, slow, runtime, files, lost, spent>>

Raised(failed) == loop' = IF failed THEN Free ELSE Onward

Capacity(spec) == IF spec.failsAt < 2 THEN 2 ELSE spec.failsAt

LeakConnection ==
  /\ Seen("connection_leak")
  /\ runtime' = [runtime EXCEPT !.connections = @ + 1]
  /\ Raised(runtime'.connections >= Capacity(Entry.spec))
  /\ UNCHANGED <<faults, op, reset, slow, files, lost, spent>>

\* The next debug file is written, if one more is allowed ...
WriteFile ==
  /\ Seen("disk_exhaustion")
  /\ LET path == <<Entry.generation, Len(runtime.listed)>>
     IN IF Len(runtime.listed) < Entry.spec.allowed
        THEN /\ files' = files \cup {path}
             /\ loop' = [at |-> "listing", todo |-> loop.todo, seen |-> loop.seen, path |-> path]
        ELSE loop' = [loop EXCEPT !.at = "weighing"] /\ UNCHANGED files
  /\ UNCHANGED <<faults, op, reset, slow, runtime, lost, spent>>

\* ... then listed ...
ListFile ==
  /\ loop.at = "listing"
  /\ runtime' = [runtime EXCEPT !.listed = Append(@, loop.path)]
  /\ loop' = [at |-> "weighing", todo |-> loop.todo, seen |-> loop.seen]
  /\ UNCHANGED <<faults, op, reset, slow, files, lost, spent>>

\* ... and the request fails when the disk is full enough.
WeighDisk ==
  /\ loop.at = "weighing"
  /\ Raised(Len(runtime.listed) >= Entry.spec.failsAt)
  /\ UNCHANGED <<faults, op, reset, slow, runtime, files, lost, spent>>

\* Mutant: a request fails above the limit, not at it.
LeakMemoryAbove ==
  /\ Seen("memory_leak")
  /\ LET grown == IF runtime.memory < Entry.spec.allowed
                  THEN runtime.memory + 1 ELSE runtime.memory
         failed == grown > Entry.spec.failsAt
     IN runtime' = [runtime EXCEPT !.memory = IF failed THEN 0 ELSE grown] /\ Raised(failed)
  /\ UNCHANGED <<faults, op, reset, slow, files, lost, spent>>

\* Memory is counted in chunks; at its limit it is dropped with the request.
LeakMemory ==
  /\ Seen("memory_leak")
  /\ LET grown == IF runtime.memory < Entry.spec.allowed
                  THEN runtime.memory + 1 ELSE runtime.memory
         failed == grown >= Entry.spec.failsAt
     IN runtime' = [runtime EXCEPT !.memory = IF failed THEN 0 ELSE grown] /\ Raised(failed)
  /\ UNCHANGED <<faults, op, reset, slow, files, lost, spent>>

BreakConfig ==
  /\ Seen("broken_config")
  /\ Raised(Service = "payment")
  /\ UNCHANGED <<faults, op, reset, slow, runtime, files, lost, spent>>

\* What is left of the request: under N+1 it sleeps, the database may fail.
Serve ==
  /\ loop.at = "applying" /\ loop.todo = <<>>
  /\ loop' = Free
  /\ \/ UNCHANGED <<slow, runtime>>
     \/ /\ Service = "checkout" /\ loop.seen["n_plus_one"] # NoFault
        /\ slow' = slow + 1
        /\ UNCHANGED runtime
     \/ /\ Service \in {"checkout", "inventory"} /\ loop.seen["n_plus_one"] = NoFault
        /\ runtime' = [runtime EXCEPT !.queries = 1]
        /\ UNCHANGED slow
  /\ UNCHANGED <<faults, op, reset, files, lost, spent>>

FinishSlow ==
  /\ slow > 0 /\ loop = Free
  /\ slow' = slow - 1
  /\ runtime' = [runtime EXCEPT !.queries = SlowQueries]
  /\ UNCHANGED <<faults, op, reset, loop, files, lost, spent>>

\* The container restarts: memory and threads are gone, the disk is not unless
\* the container was replaced, Redis keeps the faults.
Crash ==
  /\ spent.crashes < MaxCrashes
  /\ Spend("crashes")
  /\ runtime' = Unused /\ loop' = Free /\ slow' = 0
  /\ reset' = [o \in Operators |-> IF reset[o] = "sent" THEN "sent" ELSE "none"]
  /\ files' \in {files, {}}
  /\ UNCHANGED <<faults, op, lost>>

-----------------------------------------------------------------------------

Request ==
  \/ Begin \/ ReadFault \/ Skip \/ LeakConnection \/ WriteFile \/ ListFile
  \/ WeighDisk \/ LeakMemory \/ BreakConfig \/ Serve \/ FinishSlow

Operation(o) ==
  \/ \E f \in Injected, spec \in Specs : Inject(o, f, spec)
  \/ FinishInject(o)
  \/ \E keys \in {{f} : f \in Injected} \cup {FaultTypes} : Restore(o, keys)
  \/ RestoreAll(o) \/ DeleteAll(o) \/ Restart(o) \/ Return(o)
  \/ Lose(o) \/ ResetArrives(o) \/ ResetStep(o)

Next == Request \/ Crash \/ \E o \in Operators : Operation(o)

Spec == Init /\ [][Next]_vars

\* The loop finishes what it began, threads run on, a reset that is not lost
\* arrives, and the controller ends every operation: reset_service has a timeout.
\* Requests, operations, losses and crashes happen as they like.
Fairness ==
  /\ WF_vars(Request /\ ~Begin)
  /\ \A o \in Operators :
       /\ WF_vars(FinishInject(o) \/ DeleteAll(o) \/ Return(o))
       /\ WF_vars(ResetStep(o))
       /\ SF_vars(ResetArrives(o))

FairSpec == Spec /\ Fairness

-----------------------------------------------------------------------------
(* Properties. *)

Entries == [spec : Specs, generation : 1 .. MaxInjects] \cup {NoFault}
Paths == (1 .. MaxInjects) \X Nat
Requests ==
  [at : {"reading", "applying", "weighing"}, todo : Seq(FaultTypes),
   seen : [FaultTypes -> Entries]]
Listings ==
  [at : {"listing"}, todo : Seq(FaultTypes), seen : [FaultTypes -> Entries], path : Paths]
Operations ==
  {Idle, Resetting}
  \cup [stage : {"injecting"}, fault : FaultTypes, entry : Entries \ {NoFault}]
  \cup [stage : {"deleting"}, keys : SUBSET FaultTypes]

\* Every variable has its type; a count never falls below zero.
TypeOK ==
  /\ faults \in [FaultTypes -> Entries]
  /\ op \in [Operators -> Operations]
  /\ reset \in [Operators -> {"none", "sent"} \cup ToSet(ResetSteps)]
  /\ loop \in {Free} \cup Requests \cup Listings
  /\ slow \in Nat
  /\ runtime \in [connections : Nat, memory : Nat, listed : Seq(Paths), queries : Nat]
  /\ files \in SUBSET Paths
  /\ lost \in BOOLEAN
  /\ spent \in [{"injects", "requests", "losses", "crashes"} -> Nat]

Faultless == \A f \in FaultTypes : faults[f] = NoFault
Clean == runtime.connections = 0 /\ runtime.memory = 0 /\ runtime.listed = <<>>
Settled == Faultless /\ loop = Free /\ \A o \in Operators : Ready(o)

\* Once no fault is defined and nothing is under way, the service keeps nothing of
\* any fault, however injections, requests, restores and resets of several callers
\* met, unless a reset was lost: the delete comes before the reset, and the reset is
\* taken up by the loop that holds the requests (controller.py 75-104, service.py 158).
RestoredIsClean == Settled /\ ~lost => Clean

\* The footprint of a fault stays within the largest limit it was ever injected with,
\* across injections that change the limits and resets that run beside a request, and
\* memory never rests at that limit (effects.py 29-51).
FootprintBounded ==
  \E s \in Specs :
    /\ Len(runtime.listed) <= s.allowed /\ runtime.memory <= s.allowed
    /\ loop = Free => runtime.memory < s.allowed

\* Without a fault and without a lost reset, the service gets clean by itself.
EventuallyClean == (Faultless /\ ~lost) ~> (Clean \/ ~Faultless \/ lost)

(* What the documentation says of the program, and the program does not do. *)

\* docs/chaoslab.md:28, "connection leaks use a bounded simulated pool counter".
PoolBounded == \E s \in Specs : runtime.connections <= Capacity(s)

\* docs/chaoslab.md:101, "restore returns connection state to zero": after all
\* operations have returned, and their resets are over.
RestoreZeroesConnections == Settled => runtime.connections = 0

\* docs/phase-2-handoff.md:45, "restore returns query count to the healthy baseline",
\* even when every reset arrived and every request has ended.
RestoreZeroesQueries == Settled /\ slow = 0 /\ ~lost => runtime.queries <= 1

\* docs/chaoslab.md:110, "restore deletes bounded simulator files".
RestoreDeletesFiles == Settled /\ ~lost => files = {}
=============================================================================
