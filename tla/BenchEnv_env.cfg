SPECIFICATION FairSpec
CONSTANTS
  BufferSize = 2
  MaxBytes <- Three
  Does <- Some
  MaxJobs = 2
  MaxErrors = 1
  MaxArms = 1
  Cues <- SomeCues
INVARIANTS IdleMeansIdle SurvivesAsPrefix CrashesOnCue
PROPERTIES WaitEnds ShutdownRunsAll
CHECK_DEADLOCK FALSE
