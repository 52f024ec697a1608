SPECIFICATION Spec
CONSTANTS
  t1 = t1
  t2 = t2
  a1 = a1
  a2 = a2
  RoutineOrder <- MCOrder
  Target <- MCBotAndGoal
  Agent <- MCTwoAgents
  Once = {t2}
  Recurring = {t1}
  Limited = {t1}
  Paused = {t1}
  Deleted = {a1, a2}
  InterruptsFail = TRUE
  MaxRuns = 2
  MaxRestarts = 1
  MaxSaveFailures = 1
  MaxVisits = 1
INVARIANT OneScheduledRun
INVARIANT StartedOnce
INVARIANT RunsHaveAnOwner
INVARIANT FailuresReportedOnce
PROPERTY OverIsOver
CONSTRAINT OneWorld
CHECK_DEADLOCK FALSE
