SPECIFICATION Spec
CONSTANTS
  NKeys = 4
  MaxSeq = 4
  NumLevels = 3
  MaxMemCompactLevel = 1
  Writes <- Spanning
  WritesDuringCall = FALSE
  MaxSnapshots = 0
  MaxCalls = 1
INVARIANTS ReadsExact LayerOrder LevelsDisjoint
PROPERTY CallEmptiesLevels
CHECK_DEADLOCK FALSE
