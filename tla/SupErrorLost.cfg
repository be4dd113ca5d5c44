SPECIFICATION ConfiguredSpec
CONSTANTS
  a1 = a1
  a2 = a2
  a3 = a3
  Apps <- TwoApps
  Class <- FrontEnd
  Operator <- SoberOperator
  MaxFaults = 1
  MaxRequests = 1
  PatientClient = TRUE
  Outcomes <- ThrowingAction
PROPERTIES
  SupervisorFollowsError
CHECK_DEADLOCK FALSE
