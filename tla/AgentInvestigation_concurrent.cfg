\* Two requests on the same run at once: a start or resume beside a resume, or two
\* resumes side by side.
CONSTANTS
  h1 = h1
  h2 = h2
  metrics = metrics
  logs = logs
  none = none
  Handlers <- TwoHandlers
  Invocations <- BothCalls
  NoTool = none
  Plans <- ConcurrentPlans
  Reactive = FALSE
  MaxSteps = 2
  MaxToolCalls = 2
  MaxRepeated = 1
  PauseAfter <- OnePause
  MaxRequests = 3
  MaxAborts = 0
SPECIFICATION TogetherSpec
INVARIANTS
  BudgetsHold
  EvidenceBacksReports
  RoutingMatchesCheckpoint
SYMMETRY Interchangeable
CHECK_DEADLOCK FALSE
