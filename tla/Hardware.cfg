SPECIFICATION HwSpec
CONSTANT
  NumCards = 3
INVARIANTS
  HwTypeOK
  MonitorsRun
  NoneIsMissing
  
PROPERTIES
  WorkIsQuiet
  TransitionsEnd
CHECK_DEADLOCK FALSE
