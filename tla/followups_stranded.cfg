SPECIFICATION FairSpec
CONSTANTS
  s1 = s1
  s2 = s2
  Sends = {s1, s2}
  Attempts = {1, 2}
  MaxTurns = 3
  MaxFaults = 0
PROPERTY FollowUpsRunDespiteChannels
