SPECIFICATION Spec
CONSTANTS
  Recordings <- MCOneRecording
  MaxJobs = 3
  MaxAttempts = 1
  MaxContention = 1
  PoolSize = 2
  Budgets <- SafetyBudgets
INVARIANTS
  TypeOK
  OneRunPerRecording
  LiveRows
  AttemptsBounded
  ThumbnailNeverLast
PROPERTIES
  CancellationHolds
  NoDemotionUnderRun
CHECK_DEADLOCK FALSE
