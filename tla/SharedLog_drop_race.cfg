SPECIFICATION SpecDropDuringWrite
CONSTANTS
  Families <- Two
  Buffer = 1
  MaxLiveLogs = 2
  ReuseLogs = FALSE
  MaxSeq = 1
  MaxCrash = 0
  MaxForced = 0
INVARIANT CapturedStayLive
CHECK_DEADLOCK FALSE
