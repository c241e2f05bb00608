\* Two web decisions on one run.
CONSTANTS
  Starter = s
  CliApprovers = {}
  WebApprovers = {w1, w2}
  StarterIsCli = FALSE
  Requests = {r1}
  NoRequest = NoRequest
  NoOne = NoOne
  NoDecision = NoDecision
  Empty = Empty
  Garbled = Garbled
  MaxCrashes = 0
  MaxEdits = 0

SPECIFICATION Spec

INVARIANTS
  ClaimNamesTheDecision

\* Every call is made at most once, so all of them may be over.
CHECK_DEADLOCK FALSE
