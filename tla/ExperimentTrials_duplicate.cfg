\* A process that dies before the score is stored, and its successor.
CONSTANTS
  r1 = r1
  r2 = r2
  t1 = t1
  t2 = t2
  leak = leak
  disk = disk
  Runners <- OneRunner
  Trials <- OneTrial
  Campaign <- OnlyTrial
  Faults <- BothFaults
  FaultsOf <- OneFault
  MaxStarts = 2
  MaxCrashes = 1
  MaxFailures = 0
SPECIFICATION Spec
INVARIANT NoDuplicateRuns
CHECK_DEADLOCK FALSE
