------------------------------ MODULE Treasury ------------------------------
(***************************************************************************)
(* server/okx/scheduler.ts: the OKX treasury (OkxTreasuryManager) and the  *)
(* engine that spends from it (OkxRecurringEngine.executeScheduledRun).    *)
(*                                                                         *)
(* executeScheduledRun reserves its budget, then awaits three answers: the *)
(* posted task, the gas balance and the payment made by the onchainos CLI. *)
(* Each await is a point where other runs, the settings form, the clock    *)
(* and a restart interleave; between two awaits the code runs unbroken, so *)
(* each continuation is one action.  Reservations live in memory, balance  *)
(* and receipts also in a file that every change rewrites; the rewrite may *)
(* fail after memory has changed.  The chain itself (paid) is external: a  *)
(* payment lands before the CLI answers, and the CLI may report an error   *)
(* for a payment that landed (no transaction hash in its output).          *)
(***************************************************************************)
EXTENDS SpendTotals

CONSTANTS
  InitialBalance, MaxPerRunSpend, MonthlyBudgetCap,
  ReservationTtl,     \* 5 minutes, in clock units
  SpendWindow,        \* 30 days, in clock units
  Deposits,           \* amounts passed to deposit()
  SettableBalances,   \* values of the settings form's balance field
  RefundsEnabled,     \* whether refundTask is called
  MockMode,           \* test and development builds: no CLI, synthetic hash
  MaxInFlight,        \* executeScheduledRun calls under way at once
  MaxTime, MaxGiven, MaxRestarts, MaxSaveFailures   \* bounds of the model

ASSUME TreasuryAssumption ==
  /\ InitialBalance \in Nat
  /\ MaxPerRunSpend \in Nat
  /\ MonthlyBudgetCap \in Nat
  /\ ReservationTtl \in Nat
  /\ SpendWindow \in Nat
  /\ Deposits \subseteq Nat \ {0}     \* deposit() throws on anything else
  /\ SettableBalances \subseteq Nat   \* setBalance() throws on a negative
  /\ RefundsEnabled \in BOOLEAN
  /\ MockMode \in BOOLEAN
  /\ MaxInFlight \in Nat
  /\ MaxTime \in Nat /\ MaxGiven \in Nat
  /\ MaxRestarts \in Nat /\ MaxSaveFailures \in Nat

VARIABLES
  balance,       \* OkxTreasuryManager.balance
  debitedAt,     \* receipts with a positive amount: when, or Never
  refundedAt,    \* receipts with a negative amount: when, or Never (see RefundTask)
  file,          \* okx-treasury.json: the same three, as last saved (and given then)
  heldAt,        \* reservations: when each was taken, or Never
  stage,         \* where each run's executeScheduledRun stands
  task,          \* each run's OkxTaskRecord: its status and transaction hash
  paid,          \* the runs whose payment landed on chain
  now,           \* Date.now()
  given,         \* what the operator put into the account, in all (history)
  restarts, saveFailures,
  torn           \* runs the process died in between their hash and their debit (history)

books  == <<balance, debitedAt, refundedAt>>
run    == <<stage, task>>
faults == <<restarts, saveFailures, torn>>
vars   == <<books, file, heldAt, run, paid, now, given, faults>>

Never == -1
Times == Nat \cup {Never}
NoTx  == "none"
Synthetic == "synthetic"   \* the hash invented when no CLI is configured
OnChain   == "onchain"     \* the hash the CLI printed

Stages   == {"idle", "posting", "gas", "paying", "ok", "failed"}
Statuses == {"none", "created", "in_progress", "failed"}
Tasks    == [status : Statuses, txHash : {NoTx, Synthetic, OnChain}]
Files    == [balance : Int, debitedAt : [Runs -> Times], refundedAt : [Runs -> Times],
             given : Int]

InFlight == {r \in Runs : stage[r] \in {"posting", "gas", "paying"}}

-----------------------------------------------------------------------------
(* The sums the code recomputes at every call. *)

Held == {r \in Runs : heldAt[r] # Never}

(* The reservations expireStaleReservations keeps at time now: one exactly *)
(* ReservationTtl old is not yet stale.                                    *)
Fresh == {r \in Held : now - heldAt[r] <= ReservationTtl}

Within(at) == {r \in Runs : at[r] # Never /\ at[r] >= now - SpendWindow}

AtLeastZero(n) == IF n < 0 THEN 0 ELSE n

(* getMonthlySpend: refund receipts are negative, the result never is. *)
MonthlySpend == AtLeastZero(Total(Within(debitedAt)) - Total(Within(refundedAt)))

(* Seeded faults: canSpend that compares with the whole balance, or that   *)
(* forgets what is reserved when it looks at the cap.                      *)
CanSpendWholeBalance(r) ==
  /\ Budget[r] > 0
  /\ Budget[r] <= balance
  /\ Budget[r] <= MaxPerRunSpend
  /\ MonthlySpend + Total(Fresh) + Budget[r] <= MonthlyBudgetCap

CanSpendSpentOnly(r) ==
  /\ Budget[r] > 0
  /\ Budget[r] <= balance - Total(Fresh)
  /\ Budget[r] <= MaxPerRunSpend
  /\ MonthlySpend + Budget[r] <= MonthlyBudgetCap

(* canSpend, after it has expired the stale reservations. *)
CanSpend(r) ==
  /\ Budget[r] > 0
  /\ Budget[r] <= balance - Total(Fresh)
  /\ Budget[r] <= MaxPerRunSpend
  /\ MonthlySpend + Total(Fresh) + Budget[r] <= MonthlyBudgetCap

-----------------------------------------------------------------------------
Init ==
  /\ balance = InitialBalance
  /\ given = InitialBalance
  /\ debitedAt = [r \in Runs |-> Never]
  /\ refundedAt = [r \in Runs |-> Never]
  /\ file = [balance |-> balance, debitedAt |-> debitedAt, refundedAt |-> refundedAt,
             given |-> given]
  /\ heldAt = [r \in Runs |-> Never]
  /\ stage = [r \in Runs |-> "idle"]
  /\ task = [r \in Runs |-> [status |-> "none", txHash |-> NoTx]]
  /\ paid = {}
  /\ now = 0
  /\ restarts = 0
  /\ saveFailures = 0
  /\ torn = {}

(* save(): the whole book is rewritten ... *)
SaveOk ==
  /\ file' = [balance |-> balance', debitedAt |-> debitedAt', refundedAt |-> refundedAt',
              given |-> given']
  /\ UNCHANGED faults

(* ... or the write throws and the old file stays. *)
SaveThrows ==
  /\ saveFailures < MaxSaveFailures
  /\ saveFailures' = saveFailures + 1
  /\ UNCHANGED <<file, restarts, torn>>

-----------------------------------------------------------------------------
(* OkxTreasuryManager, called by the operator. *)

Deposit(a) ==
  /\ given + a <= MaxGiven
  /\ balance' = balance + a
  /\ given' = given + a
  /\ UNCHANGED <<debitedAt, refundedAt, heldAt, run, paid, now>>
  /\ SaveOk \/ SaveThrows

(* The settings form: an absolute value, reservations are not consulted. *)
SetBalance(b) ==
  /\ balance' = b
  /\ given' = given + (b - balance)
  /\ UNCHANGED <<debitedAt, refundedAt, heldAt, run, paid, now>>
  /\ SaveOk \/ SaveThrows

(* refundTask: any amount for any task, whether or not anything was debited *)
(* for it.  Here r stands for an amount only, and a receipt for each of    *)
(* them bounds how many there are.                                         *)
RefundTask(r) ==
  /\ RefundsEnabled
  /\ Budget[r] > 0
  /\ refundedAt[r] = Never
  /\ balance' = balance + Budget[r]
  /\ refundedAt' = [refundedAt EXCEPT ![r] = now]
  /\ UNCHANGED <<debitedAt, heldAt, run, paid, now, given>>
  /\ SaveOk \/ SaveThrows

-----------------------------------------------------------------------------
(* executeScheduledRun, one action per continuation. *)

(* Seeded fault: a scheduler tick that starts before the last one ended.   *)
ReserveInOverlappingTick(r) ==
  /\ stage[r] = "idle"
  /\ CanSpend(r)
  /\ heldAt' = [q \in Runs |-> IF q = r THEN now
                               ELSE IF q \in Fresh THEN heldAt[q] ELSE Never]
  /\ stage' = [stage EXCEPT ![r] = "posting"]
  /\ UNCHANGED <<books, file, task, paid, now, given, faults>>

(* reserve(): stale reservations go, whoever holds them, then canSpend. *)
Reserve(r) ==
  /\ stage[r] = "idle"
  /\ Cardinality(InFlight) < MaxInFlight
  /\ CanSpend(r)
  /\ heldAt' = [q \in Runs |-> IF q = r THEN now
                               ELSE IF q \in Fresh THEN heldAt[q] ELSE Never]
  /\ stage' = [stage EXCEPT ![r] = "posting"]
  /\ UNCHANGED <<books, file, task, paid, now, given, faults>>

(* reserve() throws; the sweep of stale reservations has happened. *)
ReserveRejected(r) ==
  /\ stage[r] = "idle"
  /\ Cardinality(InFlight) < MaxInFlight
  /\ ~CanSpend(r)
  /\ heldAt' = [q \in Runs |-> IF q \in Fresh THEN heldAt[q] ELSE Never]
  /\ stage' = [stage EXCEPT ![r] = "failed"]
  /\ UNCHANGED <<books, file, task, paid, now, given, faults>>

(* The failure path of every continuation after the task was posted:       *)
(* releaseReservation, the task marked failed, the run reported as failed. *)
Fail(r, txHash) ==
  /\ heldAt' = [heldAt EXCEPT ![r] = Never]
  /\ stage' = [stage EXCEPT ![r] = "failed"]
  /\ task' = [task EXCEPT ![r] = [status |-> "failed", txHash |-> txHash]]

(* postTask records the task locally, whatever the portal answered ... *)
PostTask(r) ==
  /\ stage[r] = "posting"
  /\ task' = [task EXCEPT ![r].status = "created"]
  /\ stage' = [stage EXCEPT ![r] = "gas"]
  /\ UNCHANGED <<books, file, heldAt, paid, now, given, faults>>

(* ... or throws, the ledger file could not be written: the record is in   *)
(* the ledger's memory, the engine never learns of it and cannot fail it.  *)
PostTaskThrows(r) ==
  /\ stage[r] = "posting"
  /\ task' = [task EXCEPT ![r].status = "created"]
  /\ heldAt' = [heldAt EXCEPT ![r] = Never]
  /\ stage' = [stage EXCEPT ![r] = "failed"]
  /\ UNCHANGED <<books, file, paid, now, given, faults>>

AssertGasSufficiency(r) ==
  /\ stage[r] = "gas"
  /\ stage' = [stage EXCEPT ![r] = "paying"]
  /\ UNCHANGED <<books, file, heldAt, task, paid, now, given, faults>>

(* Seeded fault: the early return forgets the reservation. *)
GasShortUnreleased(r) ==
  /\ stage[r] = "gas"
  /\ stage' = [stage EXCEPT ![r] = "failed"]
  /\ task' = [task EXCEPT ![r].status = "failed"]
  /\ UNCHANGED <<books, file, heldAt, paid, now, given, faults>>

GasShort(r) ==
  /\ stage[r] = "gas"
  /\ Fail(r, NoTx)
  /\ UNCHANGED <<books, file, paid, now, given, faults>>

(* The CLI submits the payment: the chain changes, the engine knows nothing. *)
PaymentLands(r) ==
  /\ stage[r] = "paying"
  /\ ~MockMode
  /\ r \notin paid
  /\ paid' = paid \cup {r}
  /\ UNCHANGED <<books, file, heldAt, run, now, given, faults>>

(* agentPayment throws, whether or not the payment landed. *)
AgentPaymentThrows(r) ==
  /\ stage[r] = "paying"
  /\ ~MockMode
  /\ Fail(r, NoTx)
  /\ UNCHANGED <<books, file, paid, now, given, faults>>

(* The hash the payment step returns: the CLI's for a payment that landed, *)
(* an invented one in a mock build whose CLI is not configured.            *)
TxHash(r) == IF MockMode THEN Synthetic ELSE OnChain

Answered(r) == stage[r] = "paying" /\ (MockMode \/ r \in paid)

(* Seeded fault: a receipt without a debit. *)
DebitReceiptOnly(r) ==
  /\ heldAt' = [heldAt EXCEPT ![r] = Never]
  /\ debitedAt' = [debitedAt EXCEPT ![r] = now]
  /\ UNCHANGED <<balance, refundedAt>>

(* commitReservation: the debit is not checked again. *)
Debit(r) ==
  /\ heldAt' = [heldAt EXCEPT ![r] = Never]
  /\ balance' = balance - Budget[r]
  /\ debitedAt' = [debitedAt EXCEPT ![r] = now]
  /\ UNCHANGED refundedAt

(* Seeded fault: a save that fails is ignored. *)
CommitReservationUnchecked(r) ==
  /\ Answered(r)
  /\ heldAt[r] # Never
  /\ Debit(r)
  /\ UNCHANGED <<paid, now, given>>
  /\ SaveOk \/ SaveThrows
  /\ stage' = [stage EXCEPT ![r] = "ok"]
  /\ task' = [task EXCEPT ![r] = [status |-> "in_progress", txHash |-> TxHash(r)]]

(* agentPayment resolves: the task carries the hash, the spend is committed. *)
CommitReservation(r) ==
  /\ Answered(r)
  /\ heldAt[r] # Never
  /\ Debit(r)
  /\ UNCHANGED <<paid, now, given>>
  /\ \/ /\ SaveOk
        /\ stage' = [stage EXCEPT ![r] = "ok"]
        /\ task' = [task EXCEPT ![r] = [status |-> "in_progress", txHash |-> TxHash(r)]]
     \/ /\ SaveThrows
        /\ stage' = [stage EXCEPT ![r] = "failed"]
        /\ task' = [task EXCEPT ![r] = [status |-> "failed", txHash |-> TxHash(r)]]

(* agentPayment resolves after another run's reserve() has swept this      *)
(* reservation away: commitReservation throws "not found".                 *)
CommitNotFound(r) ==
  /\ Answered(r)
  /\ heldAt[r] = Never
  /\ Fail(r, TxHash(r))
  /\ UNCHANGED <<books, file, paid, now, given, faults>>

(* agentPayment resolves, but the ledger file cannot be written: the hash  *)
(* is in memory, the error takes the failure path, nothing is committed.   *)
LedgerSaveThrows(r) ==
  /\ Answered(r)
  /\ saveFailures < MaxSaveFailures
  /\ saveFailures' = saveFailures + 1
  /\ Fail(r, TxHash(r))
  /\ UNCHANGED <<books, file, paid, now, given, restarts, torn>>

-----------------------------------------------------------------------------
(* The clock and the process. *)

Tick ==
  /\ now < MaxTime
  /\ now' = now + 1
  /\ UNCHANGED <<books, file, heldAt, run, paid, given, faults>>

(* What a process that dies leaves of its tasks: all, or the hash of one    *)
(* whose debit had yet to be written (scheduler.ts:508, 533).              *)
LeftBehind ==
  \/ UNCHANGED <<task, torn>>
  \/ \E r \in Runs :
       /\ Answered(r)
       /\ task' = [task EXCEPT ![r] = [status |-> "in_progress", txHash |-> TxHash(r)]]
       /\ torn' = torn \cup {r}

(* The server restarts: the books are read back from the file, the         *)
(* reservations are gone, the routine manager fails what was running.      *)
Restart ==
  /\ restarts < MaxRestarts
  /\ restarts' = restarts + 1
  /\ balance' = file.balance
  /\ debitedAt' = file.debitedAt
  /\ refundedAt' = file.refundedAt
  /\ given' = file.given
  /\ heldAt' = [r \in Runs |-> Never]
  /\ stage' = [r \in Runs |-> IF r \in InFlight THEN "failed" ELSE stage[r]]
  /\ LeftBehind
  /\ UNCHANGED <<file, paid, now, saveFailures>>

Operator ==
  \/ \E a \in Deposits : Deposit(a)
  \/ \E b \in SettableBalances : SetBalance(b)
  \/ \E r \in Runs : RefundTask(r)

Engine(r) ==
  \/ Reserve(r) \/ ReserveRejected(r)
  \/ PostTask(r) \/ PostTaskThrows(r)
  \/ AssertGasSufficiency(r) \/ GasShort(r)
  \/ AgentPaymentThrows(r)
  \/ CommitReservation(r) \/ CommitNotFound(r) \/ LedgerSaveThrows(r)

Next ==
  \/ Operator
  \/ \E r \in Runs : Engine(r) \/ PaymentLands(r)
  \/ Tick
  \/ Restart

Spec == Init /\ [][Next]_vars

-----------------------------------------------------------------------------
(* Properties. *)

TypeOK ==
  /\ balance \in Int
  /\ debitedAt \in [Runs -> Times]
  /\ refundedAt \in [Runs -> Times]
  /\ file \in Files
  /\ heldAt \in [Runs -> Times]
  /\ stage \in [Runs -> Stages]
  /\ task \in [Runs -> Tasks]
  /\ paid \in SUBSET Runs
  /\ now \in Nat /\ given \in Int
  /\ restarts \in Nat /\ saveFailures \in Nat /\ torn \in SUBSET Runs

(* Everything promised to runs under way is in the account at once, however *)
(* their reservations, commits, sweeps and restarts interleave.  (The       *)
(* settings form can break this, so it is checked and proved without it.)   *)
ReservedCovered == Total(Held) <= balance

(* The 30-day spend and everything still promised stay within the monthly  *)
(* cap at every moment, although the window slides between reserve and     *)
(* commit, and commit does not look again.  (Checked without refunds.)     *)
MonthlyCapHeld == MonthlySpend + Total(Held) <= MonthlyBudgetCap

(* No reservation outlives the run that took it: every early return,        *)
(* exception and restart gives the money back.                              *)
NoOrphanReservation == Held \subseteq InFlight

(* A run reported as dispatched stays on the books, in memory and in the    *)
(* file, through every later failure to save and every restart.             *)
OkMeansBooked ==
  \A r \in Runs : stage[r] = "ok" =>
    /\ debitedAt[r] # Never /\ file.debitedAt[r] # Never
    /\ task[r] = [status |-> "in_progress", txHash |-> TxHash(r)]

(* The treasury is never debited for a task that carries no payment hash,   *)
(* and outside mock builds the payment behind a hash is on the chain.       *)
DebitsBacked ==
  \A r \in Runs :
    /\ debitedAt[r] # Never => task[r].txHash # NoTx
    /\ task[r].txHash = OnChain => r \in paid

(* The receipts explain the balance to the coin. *)
BooksBalance ==
  balance + Total({r \in Runs : debitedAt[r] # Never})
    = given + Total({r \in Runs : refundedAt[r] # Never})

(* README.md:94, no double spend: while saves succeed, what the engine was  *)
(* told it paid has left the balance: the balance and those payments are    *)
(* together no more than the account was given, also when the operator sets *)
(* the balance under a hold.  Not among them are a run in which the process *)
(* died before its debit and a payment that landed and was reported as an   *)
(* error: the engine never books those.                                     *)
NoDoubleSpend ==
  saveFailures = 0 =>
    Total({r \in Runs \ torn : task[r].txHash # NoTx}) + balance
      <= given + Total({r \in Runs : refundedAt[r] # Never})

(* A run under way keeps its reservation until it settles. *)
RunsKeepTheirReservation == InFlight \subseteq Held

(* Reserve-then-commit is as good as an atomic check-and-debit: every debit *)
(* was allowed in full at the moment of its commit (SpendAccount).          *)
Account == INSTANCE SpendAccount WITH funds <- balance, spentAt <- debitedAt, clock <- now
ImplementsAccount == Account!Spec

=============================================================================
