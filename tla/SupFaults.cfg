SPECIFICATION ConfiguredSpec
CONSTANTS
  a1 = a1
  a2 = a2
  a3 = a3
  Apps <- ThreeApps
  Class <- Triggered
  Operator <- ResettingOperator
  MaxFaults = 1
  MaxRequests = 2
  PatientClient = TRUE
  Outcomes <- ThrowingAction
INVARIANTS
  RunningTogether
PROPERTIES
  RunningIsReportedTrue
  ErrorIsReported
CHECK_DEADLOCK FALSE
