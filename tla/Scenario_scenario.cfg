SPECIFICATION Spec
CONSTANTS
  P = 3
  Digits = 2
  NFamilies = 2
  NKeys = 2
  MaxSnapshots = 2
  Seeds <- SomeSeeds
  Touches <- SomeTouches
  Faulty = TRUE
INVARIANTS
  NoFalseAlarm
  LossIsFound
  AckBracketsDb
  WritesHitTheirFamily
  SnapshotIsHeld
CHECK_DEADLOCK FALSE
