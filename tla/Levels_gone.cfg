SPECIFICATION Spec
CONSTANTS
  NKeys = 2
  MaxSeq = 2
  NumLevels = 3
  MaxMemCompactLevel = 1
  Writes <- Folding
  WritesDuringCall = FALSE
  MaxSnapshots = 0
  MaxCalls = 1
PROPERTY RangeDeletedGone
CHECK_DEADLOCK FALSE
