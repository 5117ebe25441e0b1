SPECIFICATION FairSpec
CONSTANTS
  Recordings <- MCOneRecording
  MaxJobs = 4
  MaxAttempts = 1
  MaxContention = 1
  PoolSize = 1
  Budgets <- LiveBudgets
INVARIANTS
  NotStranded
PROPERTIES
  QueueComesToRest
CHECK_DEADLOCK FALSE
