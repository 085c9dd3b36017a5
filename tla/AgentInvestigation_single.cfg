\* Either architecture, one request at a time, resumed after pauses and after handlers that died.
CONSTANTS
  h1 = h1
  h2 = h2
  metrics = metrics
  logs = logs
  none = none
  Handlers <- OneHandler
  Invocations <- BothCalls
  NoTool = none
  Plans <- BoundaryPlans
  Reactive = TRUE
  MaxSteps = 4
  MaxToolCalls = 3
  MaxRepeated = 2
  PauseAfter <- SomePauses
  MaxRequests = 3
  MaxAborts = 2
SPECIFICATION EitherSpec
INVARIANTS
  CallsAccounted
  ReactiveCallsOnce
PROPERTIES
  CheckpointsOnlyGrow
  RequestsReturn
CHECK_DEADLOCK FALSE
