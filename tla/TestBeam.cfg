SPECIFICATION TBSpec
CONSTANTS
  Kinds <- AllKinds
  ScanMin = 0
  ScanMax = 3
  Step = 2
  RegisterMax = 3
  NTriggers = 2
  PatientUser = TRUE
  MaxClicks = 6
INVARIANTS
  TBTypeOK
  OneRunner
  DataIsLabelled
  RestIsQuiet
PROPERTIES
  ScanEnds
CHECK_DEADLOCK FALSE
