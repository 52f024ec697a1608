SPECIFICATION Spec
CONSTANTS
  b1 = b1
  b2 = b2
  b3 = b3
  h1 = h1
  h2 = h2
  h3 = h3
  NoHandoff = NoHandoff
  Bots = {b1, b2, b3}
  Handoffs = {h1, h2, h3}
  Source <- MCSource
  Target <- MCTarget
  NeedsApproval = {h1}
  MaxQueued = 2
  Barrable = {b3}
  Unavailable = {b3}
  EndsUnheard = TRUE
  MaxTurns = 2
  MaxRestarts = 1
INVARIANT StartedOnce
INVARIANT RightReply
INVARIANT NoStrandedHandoff
PROPERTY VerdictsStand
PROPERTY RevokedIsRevoked
CHECK_DEADLOCK FALSE
