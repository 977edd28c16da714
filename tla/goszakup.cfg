SPECIFICATION Spec
CONSTANTS
  k1 = k1
  k2 = k2
  valid = valid
  ended = ended
  broken = broken
  Calls = {k1, k2}
  Stats = {valid, ended, broken}
  NoStat = NoStat
  Missing = Missing
  NoNumber = NoNumber
  Numbers = {0, 1, 2, 3, 4, 5, 6, 7}
  Number <- NumberOf
  Shift <- ShiftOf
  MaxOffset = 3
  Ids = {1, 2, 3}
  MaxStart = 2
  Views <- FourViews
  MaxFaults = 2
INVARIANTS TypeOK NearestNumber ChoosesAmongAll
PROPERTIES KeepsContract ParseReturns
CHECK_DEADLOCK FALSE
