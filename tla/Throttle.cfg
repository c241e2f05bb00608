\* Three threads; a token comes back in two ticks and a half, and a request may
\* be under way for twice as long.
CONSTANTS
  Threads = {t1, t2, t3}
  Token = 5
  Rate = 2
  Burst = 2
  MaxClock = 6

SPECIFICATION ThrottleSpec

SYMMETRY ThreadSymmetry

INVARIANTS
  ThrottleTypeOK
  BudgetKept
  NobodyOversleeps
  RefusalsAreDueToDelay

\* The clock stops.
CHECK_DEADLOCK FALSE
