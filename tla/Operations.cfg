\* One request at a time with crashes and retries, or two requests on the same run.
CONSTANTS
  h1 = h1
  h2 = h2
  rollback = rollback
  loadtest = loadtest
  destroy = destroy
  none = none
  Handlers <- OneHandler
  Tools <- SomeTools
  NoTool = none
  ToolRisk <- SomeRisks
  Rollback = rollback
  Actions <- EveryAction
  ServiceKnown = FALSE
  MaxToolCalls = 2
  MaxRetries = 1
  MaxRequests = 5
  MaxAborts = 2
SPECIFICATION EitherSpec
INVARIANTS
  VerificationFollowsEffect
  CallsBounded
  ReportIsCurrent
  DecisionsKept
PROPERTIES
  BoundaryKept
  ApprovalLeadsToEnd
CHECK_DEADLOCK FALSE
