\* Three configurations of the grid over two scenarios, one accident of each kind.
CONSTANTS
  Grid <- SomeConfigurations
  Scenarios <- SmallCohort
  Control <- NoFault
  Catalogs <- SomeCatalogs
  Fares <- SomeFares
  Deployments <- SomeDeployments
  MaxMoves = 1
  MaxUpgrades = 1
  MaxDeaths = 1
  MaxReruns = 1
SPECIFICATION FairSpec
INVARIANTS
  ComparedOnOneBenchmark
  TrialsUnderTreatment
  FrontierIsSound
  BestIsBest
PROPERTIES
  StudyPublished
  GridConcludes
CHECK_DEADLOCK FALSE
