SPECIFICATION FairSpec
CONSTANTS
  t1 = t1
  t2 = t2
  a1 = a1
  a2 = a2
  RoutineOrder <- MCOrder
  Target <- MCBotAndOkx
  Agent <- MCSameAgent
  Once = {t2}
  Recurring = {t1}
  Limited = {t1, t2}
  Paused = {}
  Deleted = {}
  InterruptsFail = FALSE
  MaxRuns = 2
  MaxRestarts = 0
  MaxSaveFailures = 1
  MaxVisits = 0
PROPERTY LimitedRunsEnd
PROPERTY QueueDrains
CHECK_DEADLOCK FALSE
