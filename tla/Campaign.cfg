\* One process over a campaign of two trials, started four times, or two at once.
CONSTANTS
  r1 = r1
  r2 = r2
  t1 = t1
  t2 = t2
  leak = leak
  disk = disk
  Runners <- OneRunner
  Trials <- TwoTrials
  Campaign <- BothTrials
  Faults <- BothFaults
  FaultsOf <- SharedFault
  MaxStarts = 4
  MaxCrashes = 2
  MaxFailures = 3
SPECIFICATION EitherSpec
INVARIANTS
  CompletedHasResult
  AgentSeesItsFaults
  ScoredAfterCleanup
PROPERTIES
  ScoredNotRepeated
CHECK_DEADLOCK FALSE
