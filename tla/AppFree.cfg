SPECIFICATION Spec
CONSTANTS
  MaxRequests = 4
  PatientClient = FALSE
  Outcomes <- AnyAction
INVARIANTS
  TypeOK
  NoOrphanTransition
  SemaphoreFollowsJob
CHECK_DEADLOCK FALSE
