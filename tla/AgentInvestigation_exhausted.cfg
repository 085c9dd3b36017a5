\* A run paused behind the node that found its budget exhausted, then resumed.
CONSTANTS
  h1 = h1
  h2 = h2
  metrics = metrics
  logs = logs
  none = none
  Handlers <- OneHandler
  Invocations <- BothCalls
  NoTool = none
  Plans <- BoundaryPlans
  Reactive = FALSE
  MaxSteps = 3
  MaxToolCalls = 1
  MaxRepeated = 1
  PauseAfter <- OnePause
  MaxRequests = 2
  MaxAborts = 0
SPECIFICATION Spec
INVARIANT ExhaustedNotCompleted
CHECK_DEADLOCK FALSE
