\* Every incident under every treatment, with up to two symptoms missed.
CONSTANTS
  Cases <- AllCases
  Worlds <- SomeWorlds
  MaxNonProgress = 2
  MaxMisses = 2
SPECIFICATION Spec
INVARIANTS
  TypeOK
  SureIsRight
  DiagnosisIsCurrent
  
  
  NothingAskedTwice
PROPERTIES
  InvestigationEnds
CHECK_DEADLOCK FALSE
