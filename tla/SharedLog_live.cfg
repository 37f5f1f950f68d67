SPECIFICATION FairSpec
CONSTANTS
  Families <- Two
  Buffer = 1
  MaxLiveLogs = 2
  ReuseLogs = FALSE
  MaxSeq = 3
  MaxCrash = 0
  MaxForced = 1
INVARIANT Inductive
PROPERTIES EveryFlushCompletes EveryWriteReturns
CHECK_DEADLOCK FALSE
