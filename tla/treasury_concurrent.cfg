SPECIFICATION Spec
CONSTANTS
  r1 = r1
  r2 = r2
  r3 = r3
  Runs = {r1, r2, r3}
  Budget <- MCBudget
  LargestBudget = 2
  InitialBalance = 3
  MaxPerRunSpend = 2
  MonthlyBudgetCap = 4
  ReservationTtl = 1
  SpendWindow = 2
  Deposits = {2}
  SettableBalances = {}
  RefundsEnabled = FALSE
  MockMode = FALSE
  MaxInFlight = 3
  MaxTime = 4
  MaxGiven = 5
  MaxRestarts = 1
  MaxSaveFailures = 0
INVARIANT ReservedCovered
INVARIANT MonthlyCapHeld
INVARIANT NoOrphanReservation
PROPERTY ImplementsAccount
CHECK_DEADLOCK FALSE
