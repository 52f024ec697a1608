SPECIFICATION FairSpec
CONSTANTS
  s1 = s1
  s2 = s2
  Sends = {s1, s2}
  Attempts = {1, 2}
  MaxTurns = 3
  MaxFaults = 2
INVARIANT SaidOnce
INVARIANT RunOnce
INVARIANT PromisesKept
INVARIANT CancelledStaysOut
INVARIANT OneProviderTurn
PROPERTY ThreadKeptByItsTurn
PROPERTY FollowUpsRun
