SPECIFICATION Spec
CONSTANTS
  NKeys = 2
  MaxSeq = 4
  NumLevels = 3
  MaxMemCompactLevel = 1
  Writes <- Folding
  WritesDuringCall = FALSE
  MaxSnapshots = 1
  MaxCalls = 0
INVARIANTS TypeOK ReadsExact
PROPERTY BaseIsPlain
CHECK_DEADLOCK FALSE
