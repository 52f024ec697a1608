SPECIFICATION Spec
CONSTANTS
  Owners = {o1, o2, o3}
  Children = {c1, c2}
  Former = former
  MaxGenerations = 2
  MaxDeaths = 2
INVARIANT HoldersKeepTheirLease
INVARIANT NotAllRefused
SYMMETRY LeaseSymmetry
CHECK_DEADLOCK FALSE
