SPECIFICATION HwDeviceSpec
CONSTANTS
  Threads = {job, monitor}
  Registers = {"a", "b", "p", "w"}
  Pulses = {"p"}
  WriteOnly = {"w"}
  Unknown = {"nowhere"}
  Values = {0, 1, 2}
  Calls <- MCCalls
  Frequency = 2
  MAX_IPBUS_RETRIES = 5
  MaxCalls = 2
  NoThread = NoThread
  NoValue = NoValue
INVARIANTS
  HwDeviceTypeOK
  AccessIsOver
CHECK_DEADLOCK FALSE
