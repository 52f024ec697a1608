SPECIFICATION SidesSpec
CONSTANTS
  Tasks = {t1}
  Checks = {c1, c2}
  Deliverables = {good, bad}
  Passing = {good}
  Window = 1
  MaxTime = 1
  MaxEvents = 4
  Disputes = {d1}
  Juries = {j1, j2}
  Revealers = {v1}
  Cases <- MCCases
  Threshold = 65
  MaxCommits = 2
  MaxDeliberations = 3
  MaxFaults = 2
INVARIANT AnsweredKept
INVARIANT LedgerTruthful
INVARIANT FeeClaimedOnce
INVARIANT RubricAddsUp
SYMMETRY CheckSymmetry
CHECK_DEADLOCK FALSE
