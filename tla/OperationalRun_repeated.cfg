\* An approved action that two handlers carry out.
CONSTANTS
  h1 = h1
  h2 = h2
  rollback = rollback
  loadtest = loadtest
  destroy = destroy
  none = none
  Handlers <- TwoHandlers
  Tools <- SomeTools
  NoTool = none
  ToolRisk <- SomeRisks
  Rollback = rollback
  Actions <- TwoActions
  ServiceKnown = TRUE
  MaxToolCalls = 2
  MaxRetries = 0
  MaxRequests = 4
  MaxAborts = 0
SPECIFICATION Spec
INVARIANT OneEffectPerApproval
CHECK_DEADLOCK FALSE
