\* A run started from the web, three approvers, two deaths at any point.
CONSTANTS
  Starter = s
  CliApprovers = {c1, c2}
  WebApprovers = {w1}
  StarterIsCli = FALSE
  Requests = {r1}
  NoRequest = NoRequest
  NoOne = NoOne
  NoDecision = NoDecision
  Empty = Empty
  Garbled = Garbled
  MaxCrashes = 2
  MaxEdits = 0

SPECIFICATION Spec

SYMMETRY CallSymmetry

INVARIANTS
  TypeOK
  ProbeSentAtMostOnce
  NoLostUpdate
  RejectedMeansUnsent
  FailureStopsTheRun

PROPERTIES
  TerminalIsFinal
  ImplementsGate

\* Every call is made at most once, so all of them may be over.
CHECK_DEADLOCK FALSE
