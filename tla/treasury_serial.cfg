SPECIFICATION Spec
CONSTANTS
  r1 = r1
  r2 = r2
  r3 = r3
  Runs = {r1, r3}
  Budget <- MCBudgetTwo
  LargestBudget = 2
  InitialBalance = 3
  MaxPerRunSpend = 2
  MonthlyBudgetCap = 4
  ReservationTtl = 1
  SpendWindow = 2
  Deposits = {2}
  SettableBalances = {1}
  RefundsEnabled = TRUE
  MockMode = FALSE
  MaxInFlight = 1
  MaxTime = 4
  MaxGiven = 5
  MaxRestarts = 2
  MaxSaveFailures = 1
INVARIANT NoDoubleSpend
INVARIANT RunsKeepTheirReservation
INVARIANT BooksBalance
INVARIANT OkMeansBooked
CHECK_DEADLOCK FALSE
