SPECIFICATION Spec
CONSTANTS
  b1 = b1
  b2 = b2
  b3 = b3
  h1 = h1
  h2 = h2
  h3 = h3
  NoHandoff = NoHandoff
  Bots = {b1, b2, b3}
  Handoffs = {h1, h2}
  Source <- MCSource
  Target <- MCTarget
  NeedsApproval = {}
  MaxQueued = 2
  Barrable = {}
  Unavailable = {b3}
  EndsUnheard = FALSE
  MaxTurns = 3
  MaxRestarts = 0
INVARIANT HandoffsAccounted
CHECK_DEADLOCK FALSE
