\* A run started from the CLI, which prompts, a web decision at any time, and
\* one edit of the proposal by hand.
CONSTANTS
  Starter = s
  CliApprovers = {}
  WebApprovers = {w1}
  StarterIsCli = TRUE
  Requests = {r1, r2}
  NoRequest = NoRequest
  NoOne = NoOne
  NoDecision = NoDecision
  Empty = Empty
  Garbled = Garbled
  MaxCrashes = 0
  MaxEdits = 1

SPECIFICATION FairSpec

INVARIANTS
  SentRequestWasApproved
  DoneMeansSettled

PROPERTY
  DecidedRunEnds

\* Every call is made at most once, so all of them may be over.
CHECK_DEADLOCK FALSE
