SPECIFICATION SupFairSpec
CONSTANTS
  a1 = a1
  a2 = a2
  a3 = a3
  Apps <- ThreeApps
  Class <- WholeCrate
  Operator <- SoberOperator
  MaxFaults = 0
  MaxRequests = 8
  PatientClient = TRUE
  Outcomes <- ThrowingAction
INVARIANTS
  SupTypeOK
  OrderRespected
  CommandsAreWelcome
PROPERTIES
  TransitionsEnd
CHECK_DEADLOCK FALSE
