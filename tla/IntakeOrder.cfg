\* The instance of Intake.cfg: five reports of OpenGrep, three of ZAP, three access logs.
CONSTANTS
  Reports <- MCReports
  AlertReports <- MCAlertReports
  AccessLogs <- MCAccessLogs
  Claims <- MCClaims
  RouteOf <- MCRouteOf
  Thresholds <- MCThresholds
  MaxInstances = 2
  NoRoute = NoRoute
  NoFingerprint = NoFingerprint
  NotAnObject = NotAnObject
  NoMeasure = NoMeasure
  Absent = Absent
  Malformed = Malformed
  NoLine = NoLine
  NoClaim = NoClaim
  FpA = FpA
  FpB = FpB
  FpC = FpC

SPECIFICATION Spec

INVARIANT
  CorrelationIsDeterministic

\* A run ends.
CHECK_DEADLOCK FALSE
