SPECIFICATION Spec
CONSTANTS
  Families <- Two
  Buffer = 1
  MaxLiveLogs = 2
  ReuseLogs = TRUE
  MaxSeq = 3
  MaxCrash = 2
  MaxForced = 0
INVARIANTS
  TypeOK
  NothingLost
  NeverTwice
  ContentsExact
  SequenceUnique
  FreshLogNumber
  TrimStaysObsolete
  ListedCanOpen
  DroppedForGood
PROPERTIES
  NoLaggard
  ImplementsStore
CHECK_DEADLOCK FALSE
