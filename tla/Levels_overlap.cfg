SPECIFICATION Spec
CONSTANTS
  NKeys = 3
  MaxSeq = 4
  NumLevels = 4
  MaxMemCompactLevel = 2
  Writes <- Puts
  WritesDuringCall = TRUE
  MaxSnapshots = 0
  MaxCalls = 1
INVARIANT ReadsExact
CHECK_DEADLOCK FALSE
