SPECIFICATION PhaseSpec
CONSTANTS
  Ring = 32
  Good <- MCGood
  GthSteps = 4
  MaxShift = 96
  BadRun <- MCBadRun
  GoodRun <- MCGoodRun
  BestRun <- MCBestRun
  Half <- MCHalf
  MaxFaults = 2
INVARIANTS
  RestsInsideLock
PROPERTIES
  SearchEnds
CHECK_DEADLOCK FALSE
