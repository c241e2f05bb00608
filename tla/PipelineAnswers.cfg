\* Two groups, one thread or two, every sort of answer, one retry at both levels.
CONSTANTS
  MaxGroups = 2
  MaxWorkers = 2
  MaxRetries = 1
  ValidationRetries = 1
  Answers <- EverySort
  NoAnswer = NoAnswer
  NoFile = NoFile

SPECIFICATION FairSpec

INVARIANTS
  TypeOK
  RecordsFollowAnswers
  SummaryTellsTheTruth
  CompleteMeansChecked
  RequestsBounded
  NothingRunsAfterReturn

PROPERTIES
  PipelineReturns

\* run_pipeline ends.
CHECK_DEADLOCK FALSE
