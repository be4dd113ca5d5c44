SPECIFICATION ScanSpec
CONSTANTS
  Cards = {c1, c2}
  Scans <- ShortScans
  NTriggers = 2
  RegisterSize = 6
  WordSize = 16
  Operator <- AnyCommand
  MaxCommands = 3
  MaxSeen = 3
  MaxBacklog = 2
  MaxQueue = 1
  MaxFaults = 1
INVARIANTS
  ScanTypeOK
  LabelsAreTrue
  PointIsAgreed
  TriggersFindFrontEnds
PROPERTIES
  PointsAreFull
  ScanEnds
CHECK_DEADLOCK FALSE
