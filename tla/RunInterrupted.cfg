\* The web process dies in phase one; an operator comes back later.
CONSTANTS
  Starter = s
  CliApprovers = {c1}
  WebApprovers = {}
  StarterIsCli = FALSE
  Requests = {r1}
  NoRequest = NoRequest
  NoOne = NoOne
  NoDecision = NoDecision
  Empty = Empty
  Garbled = Garbled
  MaxCrashes = 1
  MaxEdits = 0

SPECIFICATION ApprovingSpec

PROPERTIES
  InterruptedRunGoesOn

\* Every call is made at most once, so all of them may be over.
CHECK_DEADLOCK FALSE
