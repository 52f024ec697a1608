---------------------------- MODULE SpendAccount ----------------------------
(***************************************************************************)
(* What the OKX treasury promises its operator: money leaves the account   *)
(* only by spends that were allowed in full AT THE MOMENT they happened,   *)
(* each run spends at most once, and nothing else moves the funds but a    *)
(* top-up.  There are no reservations here: one Spend is one atomic check  *)
(* and debit, the "spend" of server/okx/scheduler.ts with nothing between  *)
(* its check and its commit.                                               *)
(***************************************************************************)
EXTENDS SpendTotals

CONSTANTS
  InitialBalance, MaxPerRunSpend, MonthlyBudgetCap,
  SpendWindow,      \* length of the rolling budget window
  Deposits          \* the amounts an operator may top up

VARIABLES
  funds,            \* what the account holds
  spentAt,          \* when each run spent, or Never
  clock

Never == -1

vars == <<funds, spentAt, clock>>

(* The runs whose spend still counts against the monthly cap at time t. *)
InWindow(t) == {r \in Runs : spentAt[r] # Never /\ spentAt[r] >= t - SpendWindow}

Init ==
  /\ funds = InitialBalance
  /\ spentAt = [r \in Runs |-> Never]
  /\ clock = 0

Spend(r) ==
  /\ spentAt[r] = Never
  /\ Budget[r] \in 1 .. MaxPerRunSpend
  /\ Budget[r] <= funds
  /\ Total(InWindow(clock)) + Budget[r] <= MonthlyBudgetCap
  /\ funds' = funds - Budget[r]
  /\ spentAt' = [spentAt EXCEPT ![r] = clock]
  /\ UNCHANGED clock

TopUp(a) == funds' = funds + a /\ UNCHANGED <<spentAt, clock>>

Pass == clock' = clock + 1 /\ UNCHANGED <<funds, spentAt>>

Next ==
  \/ \E r \in Runs : Spend(r)
  \/ \E a \in Deposits : TopUp(a)
  \/ Pass

Spec == Init /\ [][Next]_vars

=============================================================================
