SPECIFICATION FairSpec
CONSTANTS
  b1 = b1
  b2 = b2
  b3 = b3
  h1 = h1
  h2 = h2
  h3 = h3
  NoHandoff = NoHandoff
  Bots = {b1, b2, b3}
  Handoffs = {h1, h2, h3}
  Source <- MCSource
  Target <- MCTarget
  NeedsApproval = {h1}
  MaxQueued = 2
  Barrable = {}
  Unavailable = {}
  EndsUnheard = FALSE
  MaxTurns = 2
  MaxRestarts = 0
PROPERTY Delivered
PROPERTY Heard
CHECK_DEADLOCK FALSE
