SPECIFICATION ConfiguredSpec
CONSTANTS
  a1 = a1
  a2 = a2
  a3 = a3
  Apps <- TwoApps
  Class <- FrontEnd
  Operator <- RecoveringOperator
  MaxFaults = 1
  MaxRequests = 2
  PatientClient = TRUE
  Outcomes <- ThrowingAction
PROPERTIES
  ResetIsCarriedOut
CHECK_DEADLOCK FALSE
