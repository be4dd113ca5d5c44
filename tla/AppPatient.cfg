SPECIFICATION FairSpec
CONSTANTS
  MaxRequests = 5
  PatientClient = TRUE
  Outcomes <- ThrowingAction
INVARIANTS
  NoStrandedJob
  ActionUndisturbed
  ReadyMeansDone
PROPERTIES
  KeepsContract
CHECK_DEADLOCK FALSE
