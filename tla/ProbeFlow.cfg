\* Four registries, six analyses, and two changes by hand.
CONSTANTS
  QueryPaths <- MCQueryPaths
  Registries <- MCRegistries
  Analyses <- MCAnalyses
  Overrides <- MCOverrides
  Probes <- MCProbes
  NoObjective = NoObjective
  NoFile = NoFile
  Broken = Broken
  MaxEdits = 2

SPECIFICATION Spec

INVARIANTS
  TypeOK
  AppSeesWhatWasApproved
  PoliciesAgree
  FinishedRunsAgree
  ConclusionsAreGrounded
  MaskingIsReported

\* A run ends, and may wait for an operator for ever.
CHECK_DEADLOCK FALSE
