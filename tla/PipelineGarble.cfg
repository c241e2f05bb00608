\* One group, every sort of answer.
CONSTANTS
  MaxGroups = 1
  MaxWorkers = 2
  MaxRetries = 1
  ValidationRetries = 1
  Answers <- EverySort
  NoAnswer = NoAnswer
  NoFile = NoFile

SPECIFICATION Spec

INVARIANTS
  EveryBrokenAnswerCounted

CHECK_DEADLOCK FALSE
