\* Each study with two scenarios, one deployment, one death and one rerun.
CONSTANTS
  Adversarials = 2
  Validations = 2
  Misleading = 1
  PerTier = 1
  CohortOf <- SmallCohorts
  Outcomes <- SomeOutcomes
  Answers <- SomeAnswers
  Deployments <- SomeDeployments
  MaxMoves = 1
  MaxDeaths = 1
  MaxReruns = 1
SPECIFICATION FairSpec
INVARIANTS
  ArtifactsStand
  RecordsUnderTreatment
  ComparedRunsPlanAlike
  ReportAddsUp
  FinishedStudiesReport
PROPERTIES
  ArmsPublished
  ArmsConclude
CHECK_DEADLOCK FALSE
