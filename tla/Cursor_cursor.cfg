SPECIFICATION Spec
CONSTANTS
  NKeys = 3
  MaxSeq = 4
  Writes <- SomeWrites
  LateWrites = 1
  MaxTables = 2
INVARIANT ViewExact
PROPERTY ImplementsWalk
CHECK_DEADLOCK FALSE
