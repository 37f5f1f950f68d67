SPECIFICATION Spec
CONSTANTS
  SnapEvery = 1
  SnapLag = 1
  ScanEvery = 4
  GetEvery = 2
  LoadBatch = 2
  OpsMax = 4
  Workloads <- SomeWorkloads
  Continue = 1
  ScanLens = {1, 2}
  Faulty = TRUE
INVARIANTS
  TypeOK
  NoFalseAlarm
  AppliedIsExact
  ResumeExact
  InsertsOnce
  WindowIsLive
  SnapshotsAreChecked
CHECK_DEADLOCK FALSE
