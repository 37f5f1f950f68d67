SPECIFICATION SpecUnrecorded
CONSTANTS
  Families <- Two
  Buffer = 1
  MaxLiveLogs = 2
  ReuseLogs = FALSE
  MaxSeq = 2
  MaxCrash = 1
  MaxForced = 0
INVARIANT NothingLost
CHECK_DEADLOCK FALSE
