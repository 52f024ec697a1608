SPECIFICATION FairSpec
CONSTANTS
  a = a
  b = b
  c = c
  Bots = {a, b, c}
  User = user
  Room = room
  Members = {c}
  Spoken <- MCSpoken
  Barrable = {c}
  Depth = 2
  Requests = 2
  Executions = 3
  Saved <- MCSaved
  Most = 4
  Keep = 4
  MaxNodes = 5
  MaxTurns = 1
  MaxFaults = 1
PROPERTY ResumedWithAllAnswers
INVARIANT WorkHasItsTurn
PROPERTY EndsStand
PROPERTY TeamsFinish
PROPERTY LifetimeEndsAll
CHECK_DEADLOCK FALSE
