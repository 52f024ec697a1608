--------------------------- MODULE Treasury_proofs ---------------------------
(***************************************************************************)
(* Proofs about Treasury, for every set of runs, budgets, caps, windows    *)
(* and bounds.                                                             *)
(***************************************************************************)
EXTENDS Treasury, FiniteSetTheorems, TLAPS

-----------------------------------------------------------------------------
(* The laws of the sums in SpendTotals, for every finite set of runs. *)

(* The coins of any set of runs are finitely many, so their number is a    *)
(* natural number.                                                         *)
LEMMA CoinsFinite ==
  ASSUME NEW S \in SUBSET Runs
  PROVE  IsFiniteSet(Coins(S))
<1>1. IsFiniteSet(S)
  BY RunsAssumption, FS_Subset
<1>2. IsFiniteSet(1 .. LargestBudget)
  BY RunsAssumption, FS_Interval
<1>3. IsFiniteSet(S \X (1 .. LargestBudget))
  BY <1>1, <1>2, FS_Product
<1>4. Coins(S) \subseteq S \X (1 .. LargestBudget)
  BY DEF Coins
<1>5. QED
  BY <1>3, <1>4, FS_Subset

(* A sum is a natural number. *)
LEMMA TotalType ==
  ASSUME NEW S \in SUBSET Runs
  PROVE  Total(S) \in Nat
BY CoinsFinite, FS_CardinalityType DEF Total

(* Nothing adds up to nothing. *)
LEMMA TotalEmpty == Total({}) = 0
<1>1. Coins({}) = {}
  BY DEF Coins
<1>2. QED
  BY <1>1, FS_EmptySet DEF Total

(* A single run adds up to its budget. *)
LEMMA TotalSingle ==
  ASSUME NEW r \in Runs
  PROVE  Total({r}) = Budget[r]
<1>1. Budget[r] \in Nat
  BY RunsAssumption
<1>2. Coins({r}) = {r} \X (1 .. Budget[r])
  <2>1. Budget[r] <= LargestBudget /\ LargestBudget \in Nat
    BY RunsAssumption
  <2>2. ASSUME NEW c
        PROVE  c \in Coins({r}) <=> c \in {r} \X (1 .. Budget[r])
    BY <1>1, <2>1 DEF Coins
  <2>3. QED
    BY <2>2
<1>3. /\ IsFiniteSet({r})
      /\ Cardinality({r}) = 1
  BY FS_Singleton
<1>4. /\ IsFiniteSet(1 .. Budget[r])
      /\ Cardinality(1 .. Budget[r]) = Budget[r]
  BY <1>1, FS_Interval
<1>5. Cardinality({r} \X (1 .. Budget[r]))
        = Cardinality({r}) * Cardinality(1 .. Budget[r])
  BY <1>3, <1>4, FS_Product
<1>6. Cardinality({r} \X (1 .. Budget[r])) = 1 * Budget[r]
  BY <1>3, <1>4, <1>5
<1>7. 1 * Budget[r] = Budget[r]
  BY <1>1
<1>8. QED
  BY <1>2, <1>6, <1>7 DEF Total

(* Sums over disjoint sets of runs add up. *)
LEMMA TotalDisjoint ==
  ASSUME NEW S \in SUBSET Runs, NEW T \in SUBSET Runs, S \cap T = {}
  PROVE  Total(S \cup T) = Total(S) + Total(T)
<1>1. Coins(S \cup T) = Coins(S) \cup Coins(T)
  BY DEF Coins
<1>2. Coins(S) \cap Coins(T) = {}
  BY DEF Coins
<1>3. IsFiniteSet(Coins(S)) /\ IsFiniteSet(Coins(T))
  BY CoinsFinite
<1>4. Cardinality(Coins(S) \cap Coins(T)) = 0
  BY <1>2, FS_EmptySet
<1>5. Cardinality(Coins(S)) \in Nat /\ Cardinality(Coins(T)) \in Nat
  BY <1>3, FS_CardinalityType
<1>6. Cardinality(Coins(S) \cup Coins(T)) = Cardinality(Coins(S))
        + Cardinality(Coins(T)) - Cardinality(Coins(S) \cap Coins(T))
  BY <1>3, FS_Union
<1>7. Cardinality(Coins(S) \cup Coins(T))
        = Cardinality(Coins(S)) + Cardinality(Coins(T))
  BY <1>4, <1>5, <1>6
<1>8. QED
  BY <1>1, <1>7, Zenon DEF Total

(* A new run adds its budget. *)
LEMMA TotalAdd ==
  ASSUME NEW S \in SUBSET Runs, NEW r \in Runs, r \notin S
  PROVE  Total(S \cup {r}) = Total(S) + Budget[r]
BY TotalDisjoint, TotalSingle

(* Dropping runs takes their sum away, so a smaller set never adds up to more. *)
LEMMA TotalDrop ==
  ASSUME NEW S \in SUBSET Runs, NEW T \in SUBSET S
  PROVE  /\ Total(S) = Total(T) + Total(S \ T)
         /\ Total(T) <= Total(S)
<1>1. Total(T \cup (S \ T)) = Total(T) + Total(S \ T)
  BY TotalDisjoint
<1>2. T \cup (S \ T) = S
  OBVIOUS
<1>3. Total(S) = Total(T) + Total(S \ T)
  BY <1>1, <1>2, Zenon
<1>4. Total(T) \in Nat /\ Total(S \ T) \in Nat
  BY TotalType
<1>5. QED
  BY <1>3, <1>4

(* Taking one run out takes its budget out. *)
LEMMA TotalRemove ==
  ASSUME NEW S \in SUBSET Runs, NEW r \in S
  PROVE  /\ Total(S) = Total(S \ {r}) + Budget[r]
         /\ Budget[r] <= Total(S)
<1>1. Total((S \ {r}) \cup {r}) = Total(S \ {r}) + Budget[r]
  BY TotalAdd
<1>2. (S \ {r}) \cup {r} = S
  OBVIOUS
<1>3. Total(S \ {r}) \in Nat /\ Budget[r] \in Nat
  BY TotalType, RunsAssumption
<1>4. QED
  BY <1>1, <1>2, <1>3

(* A set with at most one run more adds up to at most its budget more. *)
LEMMA TotalAtMost ==
  ASSUME NEW S \in SUBSET Runs, NEW r \in Runs, NEW T, T \subseteq S \cup {r}
  PROVE  Total(T) <= Total(S) + Budget[r]
<1>1. Total(T) <= Total(S \cup {r})
  BY TotalDrop
<1>2. Total(S \cup {r}) <= Total(S) + Budget[r]
  <2>1. CASE r \in S
    <3>1. S \cup {r} = S
      BY <2>1
    <3>2. Total(S \cup {r}) = Total(S)
      BY <3>1, Zenon
    <3>3. QED
      BY <3>2, TotalType, RunsAssumption
  <2>2. CASE r \notin S
    BY <2>2, TotalAdd, TotalType, RunsAssumption
  <2>3. QED
    BY <2>1, <2>2
<1>3. Total(T) \in Nat /\ Total(S \cup {r}) \in Nat /\ Total(S) \in Nat /\ Budget[r] \in Nat
  BY TotalType, RunsAssumption
<1>4. QED
  BY <1>1, <1>2, <1>3

-----------------------------------------------------------------------------
(* Treasury. *)

(* A budget is a natural number. *)
LEMMA BudgetType == \A r \in Runs : Budget[r] \in Nat
BY RunsAssumption

(* Whether the save succeeds or not, the file holds books. *)
LEMMA SaveType ==
  ASSUME TypeOK, SaveOk \/ SaveThrows,
         balance' \in Int, given' \in Int,
         debitedAt' \in [Runs -> Times], refundedAt' \in [Runs -> Times]
  PROVE  /\ file' \in Files
         /\ restarts' \in Nat /\ saveFailures' \in Nat /\ torn' \in SUBSET Runs
<1>1. CASE SaveOk
  BY <1>1 DEF SaveOk, Files, faults, TypeOK
<1>2. CASE SaveThrows
  BY <1>2 DEF SaveThrows, TypeOK
<1>3. QED
  BY <1>1, <1>2

(* What a dying process leaves: at most one task has got its hash, which is *)
(* that of a payment that was answered.                                    *)
LEMMA LeftBehindTasks ==
  ASSUME TypeOK, LeftBehind
  PROVE  /\ task' \in [Runs -> Tasks] /\ torn' \in SUBSET Runs
         /\ torn \subseteq torn'
         /\ \A r \in Runs :
              \/ task'[r] = task[r]
              \/ r \in torn' /\ Answered(r) /\ task'[r].txHash = TxHash(r)
<1>1. CASE UNCHANGED <<task, torn>>
  BY <1>1 DEF TypeOK
<1>2. ASSUME NEW r \in Runs, Answered(r), torn' = torn \cup {r},
             task' = [task EXCEPT ![r] = [status |-> "in_progress", txHash |-> TxHash(r)]]
      PROVE  /\ task' \in [Runs -> Tasks] /\ torn' \in SUBSET Runs
             /\ torn \subseteq torn'
             /\ \A q \in Runs :
                  \/ task'[q] = task[q]
                  \/ q \in torn' /\ Answered(q) /\ task'[q].txHash = TxHash(q)
  <2>1. [status |-> "in_progress", txHash |-> TxHash(r)] \in Tasks
    BY DEF Tasks, Statuses, TxHash, NoTx, Synthetic, OnChain
  <2>2. QED
    BY <1>2, <2>1 DEF TypeOK
<1>3. QED
  BY <1>1, <1>2 DEF LeftBehind

(* The state a first start finds. *)
LEMMA TypeInit == Init => TypeOK
BY TreasuryAssumption
   DEF Init, TypeOK, Times, Never, Stages, Statuses, Tasks, Files, NoTx, Synthetic, OnChain

(* Every variable keeps the shape the code gives it. *)
THEOREM TypeCorrect == Spec => []TypeOK
<1> USE DEF TypeOK, Times, Never, Stages, Statuses, Tasks, Files, NoTx,
            Synthetic, OnChain
<1>1. Init => TypeOK
  BY TypeInit
<1>2. TypeOK /\ [Next]_vars => TypeOK'
  <2> SUFFICES ASSUME TypeOK, [Next]_vars
               PROVE  TypeOK'
    OBVIOUS
  <2> USE DEF books, run, faults
  <2>1. ASSUME NEW a \in Deposits, Deposit(a)
        PROVE  TypeOK'
    BY <2>1, SaveType, TreasuryAssumption DEF Deposit
  <2>2. ASSUME NEW b \in SettableBalances, SetBalance(b)
        PROVE  TypeOK'
    BY <2>2, SaveType, TreasuryAssumption DEF SetBalance
  <2>3. ASSUME NEW r \in Runs, RefundTask(r)
        PROVE  TypeOK'
    <3>1. balance' \in Int /\ refundedAt' \in [Runs -> Times]
      BY <2>3, BudgetType DEF RefundTask
    <3>2. QED
      BY <2>3, <3>1, SaveType DEF RefundTask
  <2>4. ASSUME NEW r \in Runs, Engine(r) \/ PaymentLands(r)
        PROVE  TypeOK'
    <3>1. CASE Reserve(r) \/ ReserveRejected(r)
      <4>1. heldAt' \in [Runs -> Times]
        BY <3>1 DEF Reserve, ReserveRejected
      <4>2. stage' \in [Runs -> Stages]
        BY <3>1 DEF Reserve, ReserveRejected
      <4>3. UNCHANGED <<books, file, task, paid, now, given, faults>>
        BY <3>1 DEF Reserve, ReserveRejected
      <4>4. QED
        BY <4>1, <4>2, <4>3
    <3>2. CASE PostTask(r) \/ PostTaskThrows(r)
      <4>1. task' = [task EXCEPT ![r] = [status |-> "created", txHash |-> task[r].txHash]]
        BY <3>2 DEF PostTask, PostTaskThrows
      <4>2. [status |-> "created", txHash |-> task[r].txHash] \in Tasks
        OBVIOUS
      <4>3. task' \in [Runs -> Tasks]
        BY <4>1, <4>2
      <4>4. stage' \in [Runs -> Stages] /\ heldAt' \in [Runs -> Times]
        BY <3>2 DEF PostTask, PostTaskThrows
      <4>5. UNCHANGED <<books, file, paid, now, given, faults>>
        BY <3>2 DEF PostTask, PostTaskThrows
      <4>6. QED
        BY <4>3, <4>4, <4>5
    <3>3. CASE AssertGasSufficiency(r) \/ PaymentLands(r)
      BY <3>3 DEF AssertGasSufficiency, PaymentLands
    <3>4. ASSUME NEW tx \in {NoTx, Synthetic, OnChain}, Fail(r, tx)
          PROVE  /\ heldAt' \in [Runs -> Times]
                 /\ stage' \in [Runs -> Stages]
                 /\ task' \in [Runs -> Tasks]
      BY <3>4 DEF Fail
    <3>5. TxHash(r) \in {NoTx, Synthetic, OnChain}
      BY DEF TxHash
    <3>6. CASE GasShort(r) \/ AgentPaymentThrows(r) \/ CommitNotFound(r) \/ LedgerSaveThrows(r)
      <4>1. PICK tx \in {NoTx, Synthetic, OnChain} : Fail(r, tx)
        BY <3>5, <3>6 DEF GasShort, AgentPaymentThrows, CommitNotFound, LedgerSaveThrows
      <4>2. /\ UNCHANGED <<books, file, paid, now, given>>
            /\ restarts' \in Nat /\ saveFailures' \in Nat /\ torn' \in SUBSET Runs
        BY <3>6 DEF GasShort, AgentPaymentThrows, CommitNotFound, LedgerSaveThrows
      <4>3. QED
        BY <3>4, <4>1, <4>2
    <3>7. CASE CommitReservation(r)
      <4>1. /\ balance' \in Int
            /\ debitedAt' \in [Runs -> Times]
            /\ heldAt' \in [Runs -> Times]
        BY <3>7, BudgetType DEF CommitReservation, Debit
      <4>2. stage' \in [Runs -> Stages]
        BY <3>7 DEF CommitReservation
      <4>3. task' \in [Runs -> Tasks]
        BY <3>5, <3>7 DEF CommitReservation
      <4>4. UNCHANGED <<refundedAt, paid, now, given>> /\ (SaveOk \/ SaveThrows)
        BY <3>7 DEF CommitReservation, Debit
      <4>5. QED
        BY <4>1, <4>2, <4>3, <4>4, SaveType
    <3>8. QED
      BY <2>4, <3>1, <3>2, <3>3, <3>4, <3>5, <3>6, <3>7 DEF Engine
  <2>5. CASE Tick
    BY <2>5 DEF Tick
  <2>6. CASE Restart
    <3>1. task' \in [Runs -> Tasks] /\ torn' \in SUBSET Runs
      BY <2>6, LeftBehindTasks DEF Restart
    <3>2. QED
      BY <2>6, <3>1 DEF Restart
  <2>7. CASE UNCHANGED vars
    BY <2>7 DEF vars
  <2>8. QED
    BY <2>1, <2>2, <2>3, <2>4, <2>5, <2>6, <2>7 DEF Next, Operator
<1>3. QED
  BY <1>1, <1>2, PTL DEF Spec

-----------------------------------------------------------------------------
(* What the actions do to the set of reservations. *)

(* Reservations belong to runs, and those not stale are reservations. *)
LEMMA HeldInRuns == Held \subseteq Runs /\ Fresh \subseteq Held
BY DEF Held, Fresh

(* reserve(): the stale ones go, the new one comes. *)
LEMMA HeldAfterReserve ==
  ASSUME TypeOK, NEW r \in Runs, Reserve(r)
  PROVE  Held' = Fresh \cup {r}
BY DEF Reserve, Held, Fresh, TypeOK, Never

(* After reserve() the promises are those not stale and the new budget. *)
LEMMA ReserveTotal ==
  ASSUME TypeOK, NEW r \in Runs, Reserve(r)
  PROVE  Total(Held') <= Total(Fresh) + Budget[r]
<1>1. Held' \subseteq Fresh \cup {r} /\ Fresh \subseteq Runs
  BY HeldAfterReserve, HeldInRuns
<1>2. QED
  BY <1>1, TotalAtMost

(* Everything that ends a run under way gives its reservation back, and    *)
(* nothing but a commit touches the books while doing so.                  *)
LEMMA HeldAfterRelease ==
  ASSUME TypeOK, NEW r \in Runs,
         \/ GasShort(r) \/ AgentPaymentThrows(r) \/ CommitNotFound(r)
         \/ LedgerSaveThrows(r) \/ PostTaskThrows(r)
  PROVE  Held' = Held \ {r} /\ UNCHANGED <<books, file, now>>
<1>1. heldAt' = [heldAt EXCEPT ![r] = Never]
  BY DEF GasShort, AgentPaymentThrows, CommitNotFound, LedgerSaveThrows, PostTaskThrows, Fail
<1>2. Held' = Held \ {r}
  BY <1>1 DEF Held, TypeOK
<1>3. UNCHANGED <<books, file, now>>
  BY DEF GasShort, AgentPaymentThrows, CommitNotFound, LedgerSaveThrows, PostTaskThrows
<1>4. QED
  BY <1>2, <1>3

(* The actions that leave reservations and books alone. *)
LEMMA HeldUnchanged ==
  ASSUME NEW r \in Runs, PostTask(r) \/ AssertGasSufficiency(r) \/ PaymentLands(r)
  PROVE  Held' = Held /\ UNCHANGED <<books, file, now>>
BY DEF PostTask, AssertGasSufficiency, PaymentLands, Held, run

(* A successful commit debits the account by what it had reserved. *)
LEMMA HeldAfterCommit ==
  ASSUME TypeOK, NEW r \in Runs, CommitReservation(r)
  PROVE  /\ r \in Held
         /\ Held' = Held \ {r}
         /\ balance' = balance - Budget[r]
         /\ debitedAt' = [debitedAt EXCEPT ![r] = now]
         /\ UNCHANGED <<refundedAt, now>>
         /\ SaveOk \/ SaveThrows
<1>1. /\ heldAt' = [heldAt EXCEPT ![r] = Never]
      /\ heldAt[r] # Never
      /\ balance' = balance - Budget[r]
      /\ debitedAt' = [debitedAt EXCEPT ![r] = now]
      /\ UNCHANGED <<refundedAt, now>>
      /\ SaveOk \/ SaveThrows
  BY DEF CommitReservation, Debit
<1>2. r \in Held /\ Held' = Held \ {r}
  BY <1>1 DEF Held, TypeOK
<1>3. QED
  BY <1>1, <1>2

-----------------------------------------------------------------------------
(* ReservedCovered, as long as the settings form leaves the balance alone. *)
(* A restart reads the balance back, so the one in the file counts too.    *)

CoveredInv ==
  /\ TypeOK
  /\ ReservedCovered
  /\ file.balance >= 0

(* After a save or a failed save the file holds a non-negative balance. *)
LEMMA SaveBalance ==
  ASSUME TypeOK, file.balance >= 0, balance' \in Int, balance' >= 0, SaveOk \/ SaveThrows
  PROVE  file'.balance >= 0
BY DEF SaveOk, SaveThrows

(* Every step keeps all promises covered. *)
LEMMA CoveredStep ==
  ASSUME SettableBalances = {}, CoveredInv, TypeOK', [Next]_vars
  PROVE  CoveredInv'
<1> USE DEF CoveredInv
<1>1. Total(Held) \in Nat /\ Total(Held) <= balance /\ balance \in Int
  BY HeldInRuns, TotalType DEF ReservedCovered, TypeOK
<1>2. SUFFICES Total(Held') <= balance' /\ file'.balance >= 0
  BY DEF ReservedCovered
<1>3. ASSUME Held' = Held, UNCHANGED <<books, file>>
      PROVE  Total(Held') <= balance' /\ file'.balance >= 0
  BY <1>1, <1>3, Zenon DEF books
<1>4. ASSUME Held' \subseteq Held, UNCHANGED <<books, file>>
      PROVE  Total(Held') <= balance' /\ file'.balance >= 0
  <2>1. Total(Held') <= Total(Held) /\ Total(Held') \in Nat
    BY <1>4, HeldInRuns, TotalDrop, TotalType
  <2>2. QED
    BY <1>1, <1>4, <2>1 DEF books
<1>5. ASSUME NEW a \in Nat, balance' = balance + a, heldAt' = heldAt, SaveOk \/ SaveThrows
      PROVE  Total(Held') <= balance' /\ file'.balance >= 0
  <2>1. Held' = Held
    BY <1>5 DEF Held
  <2>2. Total(Held') = Total(Held)
    BY <2>1, Zenon
  <2>3. balance' \in Int /\ balance' >= 0 /\ Total(Held') <= balance'
    BY <1>1, <1>5, <2>2
  <2>4. QED
    BY <1>5, <2>3, SaveBalance
<1>6. ASSUME NEW a \in Deposits, Deposit(a)
      PROVE  Total(Held') <= balance' /\ file'.balance >= 0
  BY <1>5, <1>6, TreasuryAssumption DEF Deposit
<1>7. ASSUME NEW r \in Runs, RefundTask(r)
      PROVE  Total(Held') <= balance' /\ file'.balance >= 0
  BY <1>5, <1>7, BudgetType DEF RefundTask
<1>8. ASSUME NEW r \in Runs, Reserve(r)
      PROVE  Total(Held') <= balance' /\ file'.balance >= 0
  <2>1. Total(Held') <= Total(Fresh) + Budget[r]
    BY <1>8, ReserveTotal
  <2>2. Budget[r] <= balance - Total(Fresh) /\ UNCHANGED <<balance, file>>
    BY <1>8 DEF Reserve, CanSpend, books
  <2>3. Held' \subseteq Runs
    BY DEF Held
  <2>4. Total(Held') \in Nat /\ Total(Fresh) \in Nat /\ Budget[r] \in Nat
    BY <2>3, BudgetType, HeldInRuns, TotalType
  <2>5. QED
    BY <1>1, <2>1, <2>2, <2>4
<1>9. ASSUME NEW r \in Runs, ReserveRejected(r)
      PROVE  Total(Held') <= balance' /\ file'.balance >= 0
  <2>1. Held' \subseteq Held /\ UNCHANGED <<books, file>>
    BY <1>9, HeldInRuns DEF ReserveRejected, Held, Fresh, Never
  <2>2. QED
    BY <1>4, <2>1
<1>10. ASSUME NEW r \in Runs, CommitReservation(r)
       PROVE  Total(Held') <= balance' /\ file'.balance >= 0
  <2>1. /\ r \in Held /\ Held' = Held \ {r}
        /\ balance' = balance - Budget[r]
        /\ SaveOk \/ SaveThrows
    BY <1>10, HeldAfterCommit
  <2>2. Total(Held) = Total(Held \ {r}) + Budget[r]
    BY <2>1, HeldInRuns, TotalRemove
  <2>3. Total(Held) = Total(Held') + Budget[r]
    BY <2>1, <2>2, Zenon
  <2>4. Total(Held') \in Nat /\ Budget[r] \in Nat
    BY <2>1, HeldInRuns, BudgetType, TotalType
  <2>5. balance' \in Int /\ balance' >= 0 /\ Total(Held') <= balance'
    BY <1>1, <2>1, <2>3, <2>4
  <2>6. QED
    BY <2>1, <2>5, SaveBalance
<1>11. ASSUME NEW r \in Runs, Engine(r) \/ PaymentLands(r)
       PROVE  Total(Held') <= balance' /\ file'.balance >= 0
  <2>1. CASE PostTask(r) \/ AssertGasSufficiency(r) \/ PaymentLands(r)
    BY <1>3, <2>1, HeldUnchanged
  <2>2. CASE \/ GasShort(r) \/ AgentPaymentThrows(r) \/ CommitNotFound(r)
             \/ LedgerSaveThrows(r) \/ PostTaskThrows(r)
    BY <1>4, <2>2, HeldAfterRelease
  <2>3. QED
    BY <1>8, <1>9, <1>10, <1>11, <2>1, <2>2 DEF Engine
<1>12. ASSUME Tick \/ UNCHANGED vars
       PROVE  Total(Held') <= balance' /\ file'.balance >= 0
  <2>1. UNCHANGED <<books, file, heldAt>>
    BY <1>12 DEF Tick, vars
  <2>2. Held' = Held
    BY <2>1 DEF Held
  <2>3. QED
    BY <1>3, <2>1, <2>2
<1>13. CASE Restart
  <2>1. Held' = {} /\ balance' = file.balance /\ file' = file
    BY <1>13 DEF Restart, Held, Never
  <2>2. Total(Held') = 0
    BY <2>1, TotalEmpty, Zenon
  <2>3. QED
    BY <2>1, <2>2
<1>14. QED
  BY <1>6, <1>7, <1>11, <1>12, <1>13 DEF Next, Operator

(* A fresh treasury holds nothing and promises nothing. *)
LEMMA CoveredInit == Init => CoveredInv
<1> SUFFICES ASSUME Init PROVE CoveredInv
  OBVIOUS
<1>1. Held = {} /\ balance = InitialBalance /\ file.balance = InitialBalance
  BY DEF Init, Held, Never
<1>2. Total(Held) = 0
  BY <1>1, TotalEmpty, Zenon
<1>3. TypeOK
  BY TypeInit
<1>4. QED
  BY <1>1, <1>2, <1>3, TreasuryAssumption DEF CoveredInv, ReservedCovered

(* Without the settings form the treasury never promises more than it has, *)
(* however runs, sweeps, refunds, failed saves and restarts interleave.    *)
THEOREM ReservationsCovered ==
  ASSUME SettableBalances = {}
  PROVE  Spec => []ReservedCovered
<1>1. Init => CoveredInv
  BY CoveredInit
<1>2. CoveredInv /\ TypeOK' /\ [Next]_vars => CoveredInv'
  BY CoveredStep
<1>3. CoveredInv => ReservedCovered
  BY DEF CoveredInv
<1>4. QED
  BY <1>1, <1>2, <1>3, TypeCorrect, PTL DEF Spec

-----------------------------------------------------------------------------
(* MonthlyCapHeld, as long as refundTask is not called.  The receipts in    *)
(* the file count too, a restart reads them back.                           *)

Debited == Within(debitedAt)
Saved   == Within(file.debitedAt)

CapInv ==
  /\ TypeOK
  /\ refundedAt = [r \in Runs |-> Never] /\ file.refundedAt = refundedAt
  /\ Total(Debited) + Total(Held) <= MonthlyBudgetCap
  /\ Total(Saved) <= MonthlyBudgetCap

(* Without refunds the month's spend is the sum of the receipts. *)
LEMMA SpendWithoutRefunds ==
  ASSUME refundedAt = [r \in Runs |-> Never]
  PROVE  MonthlySpend = Total(Debited)
<1>1. Within(refundedAt) = {}
  BY DEF Within
<1>2. Total(Within(refundedAt)) = 0
  BY <1>1, TotalEmpty, Zenon
<1>3. Total(Within(debitedAt)) \in Nat
  BY TotalType DEF Within
<1>4. QED
  BY <1>2, <1>3 DEF MonthlySpend, AtLeastZero, Debited

(* Every step keeps spend and promises within the cap. *)
LEMMA CapStep ==
  ASSUME RefundsEnabled = FALSE, CapInv, TypeOK', [Next]_vars
  PROVE  CapInv'
<1> USE DEF CapInv
<1> DEFINE Goal == /\ (refundedAt = [r \in Runs |-> Never] /\ file.refundedAt = refundedAt)'
                   /\ Total(Debited') + Total(Held') <= MonthlyBudgetCap
                   /\ Total(Saved') <= MonthlyBudgetCap
<1>1. /\ Total(Held) \in Nat /\ Total(Debited) \in Nat /\ Total(Saved) \in Nat
      /\ Total(Held') \in Nat /\ Total(Debited') \in Nat /\ Total(Saved') \in Nat
      /\ MonthlyBudgetCap \in Nat
  <2>1. /\ Held \subseteq Runs /\ Debited \subseteq Runs /\ Saved \subseteq Runs
        /\ Held' \subseteq Runs /\ Debited' \subseteq Runs /\ Saved' \subseteq Runs
    BY DEF Held, Debited, Saved, Within
  <2>2. QED
    BY <2>1, TotalType, TreasuryAssumption
<1>2. SUFFICES Goal
  OBVIOUS
(* Fewer reservations, the same receipts. *)
<1>3. ASSUME Held' \subseteq Held, Debited' \subseteq Debited, Saved' \subseteq Saved,
             UNCHANGED <<refundedAt, file>>
      PROVE  Goal
  <2>1. Held \subseteq Runs /\ Debited \subseteq Runs /\ Saved \subseteq Runs
    BY DEF Held, Debited, Saved, Within
  <2>2. /\ Total(Held') <= Total(Held)
        /\ Total(Debited') <= Total(Debited)
        /\ Total(Saved') <= Total(Saved)
    BY <1>3, <2>1, TotalDrop
  <2>3. QED
    BY <1>1, <1>3, <2>2
(* The receipts in memory stay and the file is rewritten or left alone. *)
<1>4. ASSUME Total(Debited') + Total(Held') <= MonthlyBudgetCap,
             UNCHANGED <<refundedAt, now>>, SaveOk \/ SaveThrows
      PROVE  Goal
  <2>1. CASE SaveOk
    <3>1. Saved' = Debited' /\ file'.refundedAt = refundedAt'
      BY <2>1 DEF SaveOk, Saved, Debited
    <3>2. Total(Saved') = Total(Debited')
      BY <3>1, Zenon
    <3>3. QED
      BY <1>1, <1>4, <3>1, <3>2
  <2>2. CASE SaveThrows
    <3>1. Saved' = Saved /\ file' = file
      BY <1>4, <2>2 DEF SaveThrows, Saved, Within
    <3>2. Total(Saved') = Total(Saved)
      BY <3>1, Zenon
    <3>3. QED
      BY <1>1, <1>4, <3>1, <3>2
  <2>3. QED
    BY <1>4, <2>1, <2>2
<1>5. ASSUME UNCHANGED <<debitedAt, file, now>>
      PROVE  Debited' = Debited /\ Saved' = Saved
  BY <1>5 DEF Debited, Saved, Within
<1>6. ASSUME NEW a \in Deposits, Deposit(a)
      PROVE  Goal
  <2>1. Held' = Held /\ Debited' = Debited
    BY <1>6 DEF Deposit, Held, Debited, Within
  <2>2. Total(Debited') + Total(Held') = Total(Debited) + Total(Held)
    BY <2>1, Zenon
  <2>3. QED
    BY <1>1, <1>4, <1>6, <2>2 DEF Deposit
<1>7. ASSUME NEW b \in SettableBalances, SetBalance(b)
      PROVE  Goal
  <2>1. Held' = Held /\ Debited' = Debited
    BY <1>7 DEF SetBalance, Held, Debited, Within
  <2>2. Total(Debited') + Total(Held') = Total(Debited) + Total(Held)
    BY <2>1, Zenon
  <2>3. QED
    BY <1>1, <1>4, <1>7, <2>2 DEF SetBalance
<1>8. ASSUME NEW r \in Runs, Reserve(r)
      PROVE  Goal
  <2>1. /\ UNCHANGED <<books, file, now>>
        /\ MonthlySpend + Total(Fresh) + Budget[r] <= MonthlyBudgetCap
    BY <1>8 DEF Reserve, CanSpend
  <2>2. Debited' = Debited /\ Saved' = Saved
    BY <1>5, <2>1 DEF books
  <2>3. Total(Debited') = Total(Debited) /\ Total(Saved') = Total(Saved)
    BY <2>2, Zenon
  <2>4. Total(Debited) + Total(Fresh) + Budget[r] <= MonthlyBudgetCap
    BY <2>1, SpendWithoutRefunds
  <2>5. Total(Fresh) \in Nat /\ Budget[r] \in Nat
    BY BudgetType, HeldInRuns, TotalType
  <2>6. Total(Held') <= Total(Fresh) + Budget[r]
    BY <1>8, ReserveTotal
  <2>7. QED
    BY <1>1, <2>1, <2>3, <2>4, <2>5, <2>6 DEF books
<1>9. ASSUME NEW r \in Runs, ReserveRejected(r)
      PROVE  Goal
  <2>1. Held' \subseteq Held /\ UNCHANGED <<books, file, now>>
    BY <1>9, HeldInRuns DEF ReserveRejected, Held, Fresh, Never
  <2>2. QED
    BY <1>3, <1>5, <2>1 DEF books
<1>10. ASSUME NEW r \in Runs, CommitReservation(r)
       PROVE  Goal
  <2>1. /\ r \in Held /\ Held' = Held \ {r}
        /\ debitedAt' = [debitedAt EXCEPT ![r] = now]
        /\ UNCHANGED <<refundedAt, now>>
        /\ SaveOk \/ SaveThrows
    BY <1>10, HeldAfterCommit
  <2>2. Debited \subseteq Runs /\ Held \subseteq Runs /\ Budget[r] \in Nat
    BY BudgetType DEF Debited, Within, Held
  <2>3. Total(Held) = Total(Held \ {r}) + Budget[r]
    BY <2>1, <2>2, TotalRemove
  <2>4. Total(Held) = Total(Held') + Budget[r]
    BY <2>1, <2>3, Zenon
  <2>5. Debited' \subseteq Debited \cup {r}
    BY <2>1 DEF Debited, Within, TypeOK
  <2>6. Total(Debited') <= Total(Debited) + Budget[r]
    BY <2>2, <2>5, TotalAtMost
  <2>7. Total(Debited') + Total(Held') <= MonthlyBudgetCap
    BY <1>1, <2>2, <2>4, <2>6
  <2>8. QED
    BY <1>4, <2>1, <2>7
<1>11. ASSUME NEW r \in Runs, Engine(r) \/ PaymentLands(r)
       PROVE  Goal
  <2>1. CASE PostTask(r) \/ AssertGasSufficiency(r) \/ PaymentLands(r)
    BY <1>3, <1>5, <2>1, HeldUnchanged DEF books
  <2>2. CASE \/ GasShort(r) \/ AgentPaymentThrows(r) \/ CommitNotFound(r)
             \/ LedgerSaveThrows(r) \/ PostTaskThrows(r)
    BY <1>3, <1>5, <2>2, HeldAfterRelease DEF books
  <2>3. QED
    BY <1>8, <1>9, <1>10, <1>11, <2>1, <2>2 DEF Engine
(* The window slides forward. *)
<1>12. CASE Tick
  <2>1. Held' = Held /\ UNCHANGED <<refundedAt, file>>
    BY <1>12 DEF Tick, Held, books
  <2>2. now' = now + 1 /\ UNCHANGED <<debitedAt, file>>
    BY <1>12 DEF Tick, books
  <2>3. now \in Nat /\ SpendWindow \in Nat /\ debitedAt \in [Runs -> Times]
        /\ file.debitedAt \in [Runs -> Times]
    BY TreasuryAssumption DEF TypeOK, Files
  <2>4. Debited' \subseteq Debited /\ Saved' \subseteq Saved
    BY <2>2, <2>3 DEF Debited, Saved, Within, Times, Never
  <2>5. QED
    BY <1>3, <2>1, <2>4
<1>13. CASE Restart
  <2>1. Held' = {} /\ UNCHANGED <<file, now>>
    BY <1>13 DEF Restart, Held, Never
  <2>2. debitedAt' = file.debitedAt /\ refundedAt' = file.refundedAt
    BY <1>13 DEF Restart
  <2>3. Debited' = Saved /\ Saved' = Saved
    BY <2>1, <2>2 DEF Debited, Saved, Within
  <2>4. Total(Held') = 0 /\ Total(Debited') = Total(Saved) /\ Total(Saved') = Total(Saved)
    BY <2>1, <2>3, TotalEmpty, Zenon
  <2>5. QED
    BY <1>1, <2>1, <2>2, <2>4
<1>14. CASE UNCHANGED vars
  <2>1. UNCHANGED <<books, file, heldAt, now>>
    BY <1>14 DEF vars
  <2>2. Held' = Held
    BY <2>1 DEF Held
  <2>3. QED
    BY <1>3, <1>5, <2>1, <2>2 DEF books
<1>15. QED
  BY <1>6, <1>7, <1>11, <1>12, <1>13, <1>14 DEF Next, Operator, RefundTask

(* A fresh treasury has spent nothing. *)
LEMMA CapInit == Init => CapInv
<1> SUFFICES ASSUME Init PROVE CapInv
  OBVIOUS
<1>1. Held = {} /\ Debited = {} /\ Saved = {}
  BY DEF Init, Held, Debited, Saved, Within
<1>2. Total(Held) = 0 /\ Total(Debited) = 0 /\ Total(Saved) = 0
  BY <1>1, TotalEmpty, Zenon
<1>3. TypeOK
  BY TypeInit
<1>4. refundedAt = [r \in Runs |-> Never] /\ file.refundedAt = refundedAt
  BY DEF Init
<1>5. QED
  BY <1>2, <1>3, <1>4, TreasuryAssumption DEF CapInv

(* Without refunds what was spent in the last 30 days and what is reserved *)
(* never exceed the monthly cap together, whatever the settings form does. *)
THEOREM MonthlyCapKept ==
  ASSUME RefundsEnabled = FALSE
  PROVE  Spec => []MonthlyCapHeld
<1>1. Init => CapInv
  BY CapInit
<1>2. CapInv /\ TypeOK' /\ [Next]_vars => CapInv'
  BY CapStep
<1>3. CapInv => MonthlyCapHeld
  BY SpendWithoutRefunds DEF CapInv, MonthlyCapHeld
<1>4. QED
  BY <1>1, <1>2, <1>3, TypeCorrect, PTL DEF Spec

-----------------------------------------------------------------------------
(* NoOrphanReservation and DebitsBacked: no assumption on the constants. *)

(* A continuation of one run moves its own stage and reservation only.     *)
LEMMA OrphanStep ==
  ASSUME TypeOK, NoOrphanReservation, [Next]_vars
  PROVE  NoOrphanReservation'
<1> USE DEF TypeOK, NoOrphanReservation, Held, InFlight
<1>1. ASSUME UNCHANGED <<heldAt, stage>>
      PROVE  NoOrphanReservation'
  BY <1>1
<1>2. ASSUME NEW r \in Runs, stage' = [stage EXCEPT ![r] = stage'[r]],
             heldAt' = [heldAt EXCEPT ![r] = Never]
      PROVE  NoOrphanReservation'
  BY <1>2
<1>3. ASSUME NEW r \in Runs, Engine(r) \/ PaymentLands(r)
      PROVE  NoOrphanReservation'
  <2>1. CASE Reserve(r)
    <3>1. \A q \in Runs : heldAt'[q] # Never => q = r \/ heldAt[q] # Never
      BY <2>1 DEF Reserve, Fresh
    <3>2. stage' = [stage EXCEPT ![r] = "posting"]
      BY <2>1 DEF Reserve
    <3>3. QED
      BY <3>1, <3>2
  <2>2. CASE ReserveRejected(r)
    <3>1. \A q \in Runs : heldAt'[q] # Never => heldAt[q] # Never
      BY <2>2 DEF ReserveRejected, Fresh
    <3>2. stage[r] = "idle" /\ stage' = [stage EXCEPT ![r] = "failed"]
      BY <2>2 DEF ReserveRejected
    <3>3. QED
      BY <3>1, <3>2
  <2>3. CASE PostTask(r) \/ AssertGasSufficiency(r)
    BY <2>3 DEF PostTask, AssertGasSufficiency
  <2>4. CASE PostTaskThrows(r) \/ GasShort(r) \/ AgentPaymentThrows(r)
             \/ CommitNotFound(r) \/ LedgerSaveThrows(r)
    BY <1>2, <2>4 DEF PostTaskThrows, GasShort, AgentPaymentThrows, CommitNotFound,
                      LedgerSaveThrows, Fail
  <2>5. CASE CommitReservation(r)
    BY <1>2, <2>5 DEF CommitReservation, Debit
  <2>6. CASE PaymentLands(r)
    BY <1>1, <2>6 DEF PaymentLands, run
  <2>7. QED
    BY <1>3, <2>1, <2>2, <2>3, <2>4, <2>5, <2>6 DEF Engine
<1>4. CASE Operator
  BY <1>1, <1>4 DEF Operator, Deposit, SetBalance, RefundTask, run
<1>5. CASE Tick
  BY <1>1, <1>5 DEF Tick, run
<1>6. CASE Restart
  BY <1>6 DEF Restart
<1>7. CASE UNCHANGED vars
  BY <1>1, <1>7 DEF vars, run
<1>8. QED
  BY <1>3, <1>4, <1>5, <1>6, <1>7 DEF Next

(* Whatever a run ends with, it has given its reservation back: an early    *)
(* return, an exception, a failed save, a sweep, a restart.                 *)
THEOREM NoOrphans == Spec => []NoOrphanReservation
<1>1. Init => NoOrphanReservation
  BY DEF Init, NoOrphanReservation, Held
<1>2. TypeOK /\ NoOrphanReservation /\ [Next]_vars => NoOrphanReservation'
  BY OrphanStep
<1>3. QED
  BY <1>1, <1>2, TypeCorrect, PTL DEF Spec

-----------------------------------------------------------------------------
(* DebitsBacked.  A debit, in memory or in the file, belongs to a run that  *)
(* is over and keeps the hash it was debited for.                           *)

DebitOf(r) == debitedAt[r] # Never \/ file.debitedAt[r] # Never

BackedInv ==
  \A r \in Runs :
    /\ DebitOf(r) => task[r].txHash # NoTx /\ stage[r] \in {"ok", "failed"}
    /\ task[r].txHash = OnChain => r \in paid

(* Whatever becomes of the save, the file holds old debits or new ones.     *)
LEMMA SaveDebits ==
  ASSUME SaveOk \/ SaveThrows
  PROVE  file'.debitedAt = debitedAt' \/ file'.debitedAt = file.debitedAt
BY DEF SaveOk, SaveThrows

(* No step forgets the hash of a debit or invents a payment. *)
LEMMA BackedStep ==
  ASSUME TypeOK, BackedInv, [Next]_vars
  PROVE  BackedInv'
<1> USE DEF BackedInv, DebitOf
<1>1. ASSUME debitedAt' = debitedAt, task' = task, stage' = stage, paid \subseteq paid',
             file'.debitedAt = debitedAt \/ file'.debitedAt = file.debitedAt
      PROVE  BackedInv'
  BY <1>1
<1>2. ASSUME NEW r \in Runs, stage[r] \notin {"ok", "failed"},
             UNCHANGED <<debitedAt, file, paid>>,
             \A q \in Runs \ {r} : task'[q] = task[q] /\ stage'[q] = stage[q],
             task'[r].txHash = OnChain => r \in paid
      PROVE  BackedInv'
  BY <1>2
<1>3. ASSUME NEW r \in Runs, Engine(r) \/ PaymentLands(r)
      PROVE  BackedInv'
  <2>1. CASE Reserve(r) \/ ReserveRejected(r) \/ AssertGasSufficiency(r)
    <3>1. /\ stage[r] \notin {"ok", "failed"} /\ task' = task
          /\ UNCHANGED <<debitedAt, file, paid>>
          /\ \A q \in Runs \ {r} : stage'[q] = stage[q]
      BY <2>1 DEF Reserve, ReserveRejected, AssertGasSufficiency, books, TypeOK
    <3>2. QED
      BY <1>2, <3>1
  <2>2. CASE PostTask(r) \/ PostTaskThrows(r)
    <3>1. /\ stage[r] \notin {"ok", "failed"}
          /\ UNCHANGED <<debitedAt, file, paid>>
          /\ \A q \in Runs \ {r} : task'[q] = task[q] /\ stage'[q] = stage[q]
      BY <2>2 DEF PostTask, PostTaskThrows, books, TypeOK
    <3>2. task'[r].txHash = task[r].txHash
      <4>1. task \in [Runs -> Tasks] /\ task'[r] = [task[r] EXCEPT !.status = "created"]
        BY <2>2 DEF PostTask, PostTaskThrows, TypeOK
      <4>2. PICK s, x : task[r] = [status |-> s, txHash |-> x]
        BY <4>1 DEF Tasks
      <4>3. QED
        BY <4>1, <4>2
    <3>3. QED
      BY <1>2, <3>1, <3>2
  <2>3. CASE GasShort(r) \/ AgentPaymentThrows(r) \/ CommitNotFound(r) \/ LedgerSaveThrows(r)
    <3>1. PICK tx \in {NoTx, TxHash(r)} : Fail(r, tx) /\ (tx = OnChain => r \in paid)
      BY <2>3 DEF GasShort, AgentPaymentThrows, CommitNotFound, LedgerSaveThrows,
                  Answered, TxHash, NoTx, Synthetic, OnChain
    <3>2. /\ stage[r] \notin {"ok", "failed"}
          /\ UNCHANGED <<debitedAt, file, paid>>
      BY <2>3 DEF GasShort, AgentPaymentThrows, CommitNotFound, LedgerSaveThrows,
                  Answered, books
    <3>3. /\ \A q \in Runs \ {r} : task'[q] = task[q] /\ stage'[q] = stage[q]
          /\ task'[r].txHash = tx
      BY <3>1 DEF Fail, TypeOK
    <3>4. QED
      BY <1>2, <3>1, <3>2, <3>3
  <2>4. CASE CommitReservation(r)
    <3>1. /\ Answered(r) /\ paid' = paid /\ (SaveOk \/ SaveThrows)
          /\ debitedAt' = [debitedAt EXCEPT ![r] = now]
      BY <2>4 DEF CommitReservation, Debit
    <3>2. /\ \A q \in Runs \ {r} : task'[q] = task[q] /\ stage'[q] = stage[q]
          /\ task'[r].txHash = TxHash(r) /\ stage'[r] \in {"ok", "failed"}
      BY <2>4 DEF CommitReservation, TypeOK
    <3>3. TxHash(r) # NoTx /\ (TxHash(r) = OnChain => r \in paid)
      BY <3>1 DEF TxHash, Answered, NoTx, Synthetic, OnChain
    <3>4. \A q \in Runs \ {r} : debitedAt'[q] = debitedAt[q]
      BY <3>1 DEF TypeOK
    <3>5. file'.debitedAt = debitedAt' \/ file'.debitedAt = file.debitedAt
      BY <3>1, SaveDebits
    <3>6. QED
      BY <3>1, <3>2, <3>3, <3>4, <3>5
  <2>5. CASE PaymentLands(r)
    BY <1>1, <2>5 DEF PaymentLands, books, run
  <2>6. QED
    BY <1>3, <2>1, <2>2, <2>3, <2>4, <2>5 DEF Engine
<1>4. CASE Operator
  <2>1. /\ debitedAt' = debitedAt /\ task' = task /\ stage' = stage /\ paid' = paid
        /\ SaveOk \/ SaveThrows
    BY <1>4 DEF Operator, Deposit, SetBalance, RefundTask, run
  <2>2. QED
    BY <1>1, <2>1, SaveDebits
<1>5. CASE Tick
  BY <1>1, <1>5 DEF Tick, books, run
<1>6. CASE Restart
  <2>1. /\ UNCHANGED <<file, paid>> /\ debitedAt' = file.debitedAt
        /\ \A q \in Runs : stage[q] \in {"ok", "failed"} => stage'[q] = stage[q]
    BY <1>6 DEF Restart, InFlight
  <2>2. \A q \in Runs : \/ task'[q] = task[q]
                        \/ Answered(q) /\ task'[q].txHash = TxHash(q)
    BY <1>6, LeftBehindTasks DEF Restart
  <2>3. \A q \in Runs : Answered(q) => stage[q] = "paying" /\ (MockMode \/ q \in paid)
    BY DEF Answered
  <2>4. QED
    BY <2>1, <2>2, <2>3 DEF TxHash, NoTx, Synthetic, OnChain
<1>7. CASE UNCHANGED vars
  BY <1>1, <1>7 DEF vars, books, run
<1>8. QED
  BY <1>3, <1>4, <1>5, <1>6, <1>7 DEF Next

(* Every debit has a payment hash, in memory and after any restart, and a   *)
(* hash the CLI printed stands for a payment on the chain.                  *)
THEOREM DebitsAreBacked == Spec => []DebitsBacked
<1>1. Init => BackedInv
  BY DEF Init, BackedInv, DebitOf, NoTx, OnChain
<1>2. TypeOK /\ BackedInv /\ [Next]_vars => BackedInv'
  BY BackedStep
<1>3. BackedInv => DebitsBacked
  BY DEF BackedInv, DebitOf, DebitsBacked
<1>4. QED
  BY <1>1, <1>2, <1>3, TypeCorrect, PTL DEF Spec

-----------------------------------------------------------------------------
(* RunsKeepTheirReservation where the scheduler runs one routine at a time. *)

(* A run starts only when none is under way. *)
LEMMA SerialStart ==
  ASSUME MaxInFlight <= 1, NEW r \in Runs, Reserve(r) \/ ReserveRejected(r)
  PROVE  InFlight = {}
<1>1. Cardinality(InFlight) < MaxInFlight
  BY Zenon DEF Reserve, ReserveRejected
<1>2. IsFiniteSet(InFlight)
  BY RunsAssumption, FS_Subset DEF InFlight
<1>3. Cardinality(InFlight) \in Nat
  BY <1>2, FS_CardinalityType, Zenon
<1>4. Cardinality(InFlight) = 0
  BY <1>1, <1>3, TreasuryAssumption
<1>5. QED
  BY <1>2, <1>4, FS_EmptySet, Zenon

(* The sweep of stale reservations then finds no run under way to take from. *)
LEMMA SerialStep ==
  ASSUME MaxInFlight <= 1, TypeOK, RunsKeepTheirReservation, [Next]_vars
  PROVE  RunsKeepTheirReservation'
<1> USE DEF TypeOK, RunsKeepTheirReservation, Held, InFlight
<1>1. ASSUME UNCHANGED <<heldAt, stage>>
      PROVE  RunsKeepTheirReservation'
  BY <1>1
<1>2. ASSUME NEW r \in Runs, stage'[r] \in {"ok", "failed"},
             \A q \in Runs \ {r} : stage'[q] = stage[q],
             heldAt' = [heldAt EXCEPT ![r] = Never]
      PROVE  RunsKeepTheirReservation'
  BY <1>2
<1>3. ASSUME NEW r \in Runs, Engine(r) \/ PaymentLands(r)
      PROVE  RunsKeepTheirReservation'
  <2>1. CASE Reserve(r)
    <3>1. \A q \in Runs : stage[q] \notin {"posting", "gas", "paying"}
      BY <2>1, SerialStart
    <3>2. stage' = [stage EXCEPT ![r] = "posting"] /\ heldAt'[r] = now /\ now \in Nat
      BY <2>1 DEF Reserve
    <3>3. QED
      BY <3>1, <3>2 DEF Never
  <2>2. CASE ReserveRejected(r)
    <3>1. \A q \in Runs : stage[q] \notin {"posting", "gas", "paying"}
      BY <2>2, SerialStart
    <3>2. stage' = [stage EXCEPT ![r] = "failed"]
      BY <2>2 DEF ReserveRejected
    <3>3. QED
      BY <3>1, <3>2
  <2>3. CASE PostTask(r) \/ AssertGasSufficiency(r)
    BY <2>3 DEF PostTask, AssertGasSufficiency
  <2>4. CASE PostTaskThrows(r) \/ GasShort(r) \/ AgentPaymentThrows(r)
             \/ CommitNotFound(r) \/ LedgerSaveThrows(r)
    BY <1>2, <2>4 DEF PostTaskThrows, GasShort, AgentPaymentThrows, CommitNotFound,
                      LedgerSaveThrows, Fail
  <2>5. CASE CommitReservation(r)
    BY <1>2, <2>5 DEF CommitReservation, Debit
  <2>6. CASE PaymentLands(r)
    BY <1>1, <2>6 DEF PaymentLands, run
  <2>7. QED
    BY <1>3, <2>1, <2>2, <2>3, <2>4, <2>5, <2>6 DEF Engine
<1>4. CASE Operator
  BY <1>1, <1>4 DEF Operator, Deposit, SetBalance, RefundTask, run
<1>5. CASE Tick
  BY <1>1, <1>5 DEF Tick, run
<1>6. CASE Restart
  BY <1>6 DEF Restart
<1>7. CASE UNCHANGED vars
  BY <1>1, <1>7 DEF vars, run
<1>8. QED
  BY <1>3, <1>4, <1>5, <1>6, <1>7 DEF Next

(* One routine at a time: no run under way ever loses its reservation to   *)
(* the sweep, so no commit finds its reservation gone.                     *)
THEOREM SerialRunsKeepTheirReservation ==
  ASSUME MaxInFlight <= 1
  PROVE  Spec => []RunsKeepTheirReservation
<1>1. Init => RunsKeepTheirReservation
  BY DEF Init, RunsKeepTheirReservation, InFlight
<1>2. TypeOK /\ RunsKeepTheirReservation /\ [Next]_vars => RunsKeepTheirReservation'
  BY SerialStep
<1>3. QED
  BY <1>1, <1>2, TypeCorrect, PTL DEF Spec

-----------------------------------------------------------------------------
(* BooksBalance: no assumption on the constants.  The books in the file     *)
(* have to balance as well, a restart reads them back.                      *)

Receipts(at) == {r \in Runs : at[r] # Never}

Balanced(held, debits, refunds, received) ==
  held + Total(Receipts(debits)) = received + Total(Receipts(refunds))

BooksInv ==
  /\ Balanced(balance, debitedAt, refundedAt, given)
  /\ Balanced(file.balance, file.debitedAt, file.refundedAt, file.given)

(* A receipt that is new adds its run's budget to the sum of the receipts.  *)
LEMMA ReceiptAdds ==
  ASSUME NEW at \in [Runs -> Times], NEW r \in Runs, at[r] = Never, NEW t \in Nat
  PROVE  Total(Receipts([at EXCEPT ![r] = t])) = Total(Receipts(at)) + Budget[r]
<1>1. Receipts([at EXCEPT ![r] = t]) = Receipts(at) \cup {r}
  BY DEF Receipts, Never
<1>2. Receipts(at) \subseteq Runs /\ r \notin Receipts(at)
  BY DEF Receipts
<1>3. Total(Receipts(at) \cup {r}) = Total(Receipts(at)) + Budget[r]
  BY <1>2, TotalAdd
<1>4. QED
  BY <1>1, <1>3, Zenon

(* Books that balance still do when they are saved, or when saving fails.   *)
LEMMA SaveBalanced ==
  ASSUME BooksInv, Balanced(balance', debitedAt', refundedAt', given'), SaveOk \/ SaveThrows
  PROVE  BooksInv'
<1>1. CASE SaveOk
  BY <1>1 DEF SaveOk, BooksInv, Balanced
<1>2. CASE SaveThrows
  BY <1>2 DEF SaveThrows, BooksInv, Balanced
<1>3. QED
  BY <1>1, <1>2

(* Every step that moves money moves both sides by the same amount. *)
LEMMA BooksStep ==
  ASSUME TypeOK, BackedInv, BooksInv, [Next]_vars
  PROVE  BooksInv'
<1>1. ASSUME UNCHANGED <<books, file, given>>
      PROVE  BooksInv'
  BY <1>1 DEF BooksInv, Balanced, books, Receipts
<1>2. /\ balance \in Int /\ given \in Int
      /\ debitedAt \in [Runs -> Times] /\ refundedAt \in [Runs -> Times] /\ now \in Nat
  BY DEF TypeOK
<1>3. Total(Receipts(debitedAt)) \in Nat /\ Total(Receipts(refundedAt)) \in Nat
  BY TotalType DEF Receipts
<1>4. balance + Total(Receipts(debitedAt)) = given + Total(Receipts(refundedAt))
  BY DEF BooksInv, Balanced
<1>5. ASSUME NEW a \in Int, balance' = balance + a, given' = given + a,
             debitedAt' = debitedAt, refundedAt' = refundedAt, SaveOk \/ SaveThrows
      PROVE  BooksInv'
  <2>1. balance' + Total(Receipts(debitedAt)) = given' + Total(Receipts(refundedAt))
    BY <1>2, <1>3, <1>4, <1>5
  <2>2. Balanced(balance', debitedAt', refundedAt', given')
    BY <1>5, <2>1, Zenon DEF Balanced
  <2>3. QED
    BY <1>5, <2>2, SaveBalanced
<1>6. ASSUME NEW a \in Deposits, Deposit(a)
      PROVE  BooksInv'
  BY <1>5, <1>6, TreasuryAssumption DEF Deposit
<1>7. ASSUME NEW b \in SettableBalances, SetBalance(b)
      PROVE  BooksInv'
  <2>1. b - balance \in Int /\ balance' = balance + (b - balance)
    BY <1>2, <1>7, TreasuryAssumption DEF SetBalance
  <2>2. QED
    BY <1>5, <1>7, <2>1 DEF SetBalance
<1>8. ASSUME NEW r \in Runs, RefundTask(r)
      PROVE  BooksInv'
  <2>1. /\ refundedAt[r] = Never /\ refundedAt' = [refundedAt EXCEPT ![r] = now]
        /\ balance' = balance + Budget[r]
        /\ UNCHANGED <<debitedAt, given>>
        /\ SaveOk \/ SaveThrows
    BY <1>8 DEF RefundTask
  <2>2. Total(Receipts(refundedAt')) = Total(Receipts(refundedAt)) + Budget[r]
    BY <1>2, <2>1, ReceiptAdds
  <2>3. balance' + Total(Receipts(debitedAt)) = given + Total(Receipts(refundedAt'))
    BY <1>2, <1>3, <1>4, <2>1, <2>2, BudgetType
  <2>4. Balanced(balance', debitedAt', refundedAt', given')
    BY <2>1, <2>3, Zenon DEF Balanced
  <2>5. QED
    BY <2>1, <2>4, SaveBalanced
<1>9. ASSUME NEW r \in Runs, CommitReservation(r)
      PROVE  BooksInv'
  <2>1. /\ debitedAt' = [debitedAt EXCEPT ![r] = now]
        /\ balance' = balance - Budget[r]
        /\ UNCHANGED <<refundedAt, given>>
        /\ SaveOk \/ SaveThrows
    BY <1>9 DEF CommitReservation, Debit
  <2>2. debitedAt[r] = Never
    BY <1>9 DEF CommitReservation, Answered, BackedInv, DebitOf
  <2>3. Total(Receipts(debitedAt')) = Total(Receipts(debitedAt)) + Budget[r]
    BY <1>2, <2>1, <2>2, ReceiptAdds
  <2>4. balance' + Total(Receipts(debitedAt')) = given + Total(Receipts(refundedAt))
    BY <1>2, <1>3, <1>4, <2>1, <2>3, BudgetType
  <2>5. Balanced(balance', debitedAt', refundedAt', given')
    BY <2>1, <2>4, Zenon DEF Balanced
  <2>6. QED
    BY <2>1, <2>5, SaveBalanced
<1>10. ASSUME NEW r \in Runs, Engine(r) \/ PaymentLands(r)
       PROVE  BooksInv'
  BY <1>1, <1>9, <1>10
     DEF Engine, Reserve, ReserveRejected, PostTask, PostTaskThrows, AssertGasSufficiency,
         GasShort, AgentPaymentThrows, CommitNotFound, LedgerSaveThrows, PaymentLands
<1>11. CASE Tick \/ UNCHANGED vars
  BY <1>1, <1>11 DEF Tick, vars
<1>12. CASE Restart
  BY <1>12 DEF Restart, BooksInv, Balanced
<1>13. QED
  BY <1>6, <1>7, <1>8, <1>10, <1>11, <1>12 DEF Next, Operator

(* The receipts explain the balance to the coin: top-ups, settings edits,   *)
(* refunds, failed saves and restarts included.                             *)
THEOREM BooksAlwaysBalance == Spec => []BooksBalance
<1>1. Init => BooksInv /\ BackedInv
  <2> SUFFICES ASSUME Init PROVE BooksInv /\ BackedInv
    OBVIOUS
  <2>1. BackedInv
    BY DEF Init, BackedInv, DebitOf, NoTx, OnChain
  <2>2. Receipts(debitedAt) = {} /\ Receipts(refundedAt) = {}
        /\ Receipts(file.debitedAt) = {} /\ Receipts(file.refundedAt) = {}
    BY DEF Init, Receipts
  <2>3. balance = given /\ file.balance = file.given
    BY DEF Init
  <2>4. BooksInv
    BY <2>2, <2>3, Zenon DEF BooksInv, Balanced
  <2>5. QED
    BY <2>1, <2>4
<1>2. TypeOK /\ BooksInv /\ BackedInv /\ [Next]_vars => (BooksInv /\ BackedInv)'
  BY BooksStep, BackedStep
<1>3. BooksInv => BooksBalance
  BY DEF BooksInv, Balanced, BooksBalance, Receipts
<1>4. QED
  BY <1>1, <1>2, <1>3, TypeCorrect, PTL DEF Spec

-----------------------------------------------------------------------------
(* OkMeansBooked: no assumption on the constants, and inductive as it is    *)
(* stated.  A receipt never goes from the books, and the file never holds   *)
(* less of a dispatched run than the books do.                              *)

(* No step takes a dispatched run off the books. *)
LEMMA BookedStep ==
  ASSUME TypeOK, OkMeansBooked, [Next]_vars
  PROVE  OkMeansBooked'
<1> DEFINE Booked(r) == /\ debitedAt[r] # Never /\ file.debitedAt[r] # Never
                        /\ task[r] = [status |-> "in_progress", txHash |-> TxHash(r)]
<1>0. \A r \in Runs : stage[r] = "ok" => Booked(r)
  BY DEF OkMeansBooked
<1>1. SUFFICES ASSUME NEW q \in Runs, stage'[q] = "ok"
               PROVE  Booked(q)'
  BY DEF OkMeansBooked
<1> HIDE DEF Booked
<1>2. ASSUME UNCHANGED <<debitedAt, task, stage>>,
             file'.debitedAt = debitedAt' \/ file'.debitedAt = file.debitedAt
      PROVE  Booked(q)'
  BY <1>0, <1>1, <1>2 DEF Booked, TxHash
<1>3. ASSUME NEW r \in Runs, stage[r] # "ok", stage'[r] # "ok",
             \A p \in Runs \ {r} : task'[p] = task[p] /\ stage'[p] = stage[p],
             UNCHANGED <<debitedAt, file>>
      PROVE  Booked(q)'
  BY <1>0, <1>1, <1>3 DEF Booked, TxHash
<1>4. ASSUME NEW r \in Runs, Engine(r) \/ PaymentLands(r)
      PROVE  Booked(q)'
  <2>1. CASE Reserve(r) \/ ReserveRejected(r) \/ AssertGasSufficiency(r)
    BY <1>3, <2>1 DEF Reserve, ReserveRejected, AssertGasSufficiency, books, TypeOK
  <2>2. CASE PostTask(r) \/ PostTaskThrows(r)
    BY <1>3, <2>2 DEF PostTask, PostTaskThrows, books, TypeOK
  <2>3. CASE GasShort(r) \/ AgentPaymentThrows(r) \/ CommitNotFound(r) \/ LedgerSaveThrows(r)
    <3>1. PICK tx : Fail(r, tx)
      BY <2>3 DEF GasShort, AgentPaymentThrows, CommitNotFound, LedgerSaveThrows
    <3>2. stage[r] # "ok" /\ UNCHANGED <<debitedAt, file>>
      BY <2>3 DEF GasShort, AgentPaymentThrows, CommitNotFound, LedgerSaveThrows,
                  Answered, books
    <3>3. QED
      BY <1>3, <3>1, <3>2 DEF Fail, TypeOK
  <2>4. CASE CommitReservation(r)
    <3>1. /\ debitedAt' = [debitedAt EXCEPT ![r] = now] /\ now # Never
          /\ stage[r] # "ok"
      BY <2>4 DEF CommitReservation, Debit, Answered, TypeOK, Never
    <3>2. CASE SaveOk /\ q = r
      <4>1. file'.debitedAt = debitedAt'
        BY <3>2 DEF SaveOk
      <4>2. task'[r] = [status |-> "in_progress", txHash |-> TxHash(r)]
        BY <1>1, <2>4, <3>2 DEF CommitReservation, TypeOK
      <4>3. QED
        BY <3>1, <3>2, <4>1, <4>2 DEF Booked, TypeOK, TxHash
    <3>3. CASE SaveThrows /\ q = r
      BY <1>1, <2>4, <3>3 DEF CommitReservation, TypeOK, SaveOk, SaveThrows, faults
    <3>4. CASE q # r
      <4>1. stage[q] = "ok" /\ task'[q] = task[q] /\ debitedAt'[q] = debitedAt[q]
        BY <1>1, <2>4, <3>1, <3>4 DEF CommitReservation, TypeOK
      <4>2. file'.debitedAt = debitedAt' \/ file'.debitedAt = file.debitedAt
        BY <2>4, SaveDebits DEF CommitReservation
      <4>3. QED
        BY <1>0, <4>1, <4>2 DEF Booked, TxHash
    <3>5. QED
      BY <2>4, <3>2, <3>3, <3>4 DEF CommitReservation
  <2>5. CASE PaymentLands(r)
    BY <1>2, <2>5 DEF PaymentLands, books, run
  <2>6. QED
    BY <1>4, <2>1, <2>2, <2>3, <2>4, <2>5 DEF Engine
<1>5. CASE Operator
  <2>1. UNCHANGED <<debitedAt, task, stage>> /\ (SaveOk \/ SaveThrows)
    BY <1>5 DEF Operator, Deposit, SetBalance, RefundTask, run
  <2>2. QED
    BY <1>2, <2>1, SaveDebits
<1>6. CASE Tick \/ UNCHANGED vars
  BY <1>2, <1>6 DEF Tick, vars, books, run
<1>7. CASE Restart
  <2>1. /\ UNCHANGED file /\ debitedAt' = file.debitedAt
        /\ stage'[q] = "ok" => stage[q] = "ok"
    BY <1>7 DEF Restart, InFlight
  <2>2. stage[q] = "ok" => task'[q] = task[q]
    BY <1>7, LeftBehindTasks DEF Restart, Answered
  <2>3. QED
    BY <1>0, <1>1, <2>1, <2>2 DEF Booked, TxHash
<1>8. QED
  BY <1>4, <1>5, <1>6, <1>7 DEF Next

(* A run reported as dispatched is on the books and in the file, with its   *)
(* hash, through every later failure to save and every restart.             *)
THEOREM OkRunsAreBooked == Spec => []OkMeansBooked
<1>1. Init => OkMeansBooked
  BY DEF Init, OkMeansBooked
<1>2. TypeOK /\ OkMeansBooked /\ [Next]_vars => OkMeansBooked'
  BY BookedStep
<1>3. QED
  BY <1>1, <1>2, TypeCorrect, PTL DEF Spec

-----------------------------------------------------------------------------
(* NoDoubleSpend, where routines run one at a time: nothing takes a run its *)
(* reservation before it commits.  While every save succeeds the file has   *)
(* the debits of memory, and a hash the engine was told of is debited: a    *)
(* payment without a debit would need a commit that finds no reservation.   *)

Hashed == {r \in Runs \ torn : task[r].txHash # NoTx}

HashInv ==
  saveFailures = 0 =>
    /\ file.debitedAt = debitedAt
    /\ Hashed \subseteq Receipts(debitedAt)

(* A save that succeeds is the only one that leaves the count at zero. *)
LEMMA SavedWhileCounting ==
  ASSUME TypeOK, SaveOk \/ SaveThrows, saveFailures' = 0
  PROVE  saveFailures = 0 /\ file'.debitedAt = debitedAt'
BY DEF TypeOK, SaveOk, SaveThrows, faults

(* Every step keeps the payments known within the debits. *)
LEMMA HashStep ==
  ASSUME TypeOK, RunsKeepTheirReservation, HashInv, [Next]_vars
  PROVE  HashInv'
<1>1. SUFFICES ASSUME saveFailures' = 0
               PROVE  /\ file'.debitedAt = debitedAt'
                      /\ Hashed' \subseteq Receipts(debitedAt')
  BY DEF HashInv
<1> DEFINE Goal == file'.debitedAt = debitedAt' /\ Hashed' \subseteq Receipts(debitedAt')
<1>2. ASSUME saveFailures = 0
      PROVE  file.debitedAt = debitedAt /\ Hashed \subseteq Receipts(debitedAt)
  BY <1>2 DEF HashInv
<1>3. ASSUME saveFailures' = saveFailures, UNCHANGED <<debitedAt, file>>,
             Hashed' \subseteq Hashed
      PROVE  Goal
  BY <1>1, <1>2, <1>3 DEF Receipts
<1>4. ASSUME NEW r \in Runs, Engine(r) \/ PaymentLands(r)
      PROVE  Goal
  <2>1. CASE Reserve(r) \/ ReserveRejected(r) \/ AssertGasSufficiency(r) \/ PaymentLands(r)
    BY <1>3, <2>1 DEF Reserve, ReserveRejected, AssertGasSufficiency, PaymentLands,
                      books, run, faults, Hashed
  <2>2. CASE PostTask(r) \/ PostTaskThrows(r)
    <3>1. /\ task \in [Runs -> Tasks] /\ task' = [task EXCEPT ![r].status = "created"]
          /\ UNCHANGED <<books, file, faults>>
      BY <2>2 DEF PostTask, PostTaskThrows, TypeOK
    <3>2. PICK s, x : task[r] = [status |-> s, txHash |-> x]
      BY <3>1 DEF Tasks
    <3>3. \A q \in Runs : task'[q].txHash = task[q].txHash
      BY <3>1, <3>2
    <3>4. QED
      BY <1>3, <3>1, <3>3 DEF Hashed, books, faults
  <2>3. CASE GasShort(r) \/ AgentPaymentThrows(r)
    <3>1. /\ task' = [task EXCEPT ![r] = [status |-> "failed", txHash |-> NoTx]]
          /\ UNCHANGED <<books, file, faults>>
      BY <2>3 DEF GasShort, AgentPaymentThrows, Fail
    <3>2. Hashed' \subseteq Hashed
      BY <3>1 DEF Hashed, TypeOK, faults
    <3>3. QED
      BY <1>3, <3>1, <3>2 DEF books, faults
  <2>4. ~CommitNotFound(r) /\ ~LedgerSaveThrows(r)
    BY <1>1 DEF CommitNotFound, LedgerSaveThrows, Answered, RunsKeepTheirReservation,
                InFlight, Held, TypeOK
  <2>5. CASE CommitReservation(r)
    <3>1. saveFailures = 0 /\ file'.debitedAt = debitedAt'
      BY <1>1, <2>5, SavedWhileCounting DEF CommitReservation
    <3>2. debitedAt' = [debitedAt EXCEPT ![r] = now] /\ now # Never
      BY <2>5 DEF CommitReservation, Debit, TypeOK, Never
    <3>3. torn' = torn /\ \A q \in Runs \ {r} : task'[q] = task[q]
      BY <2>5 DEF CommitReservation, SaveOk, SaveThrows, TypeOK, faults
    <3>4. Hashed' \subseteq Hashed \cup {r}
      BY <3>3 DEF Hashed
    <3>5. QED
      BY <1>2, <3>1, <3>2, <3>4 DEF Receipts, TypeOK
  <2>6. QED
    BY <1>4, <2>1, <2>2, <2>3, <2>4, <2>5 DEF Engine
<1>5. CASE Operator
  <2>1. UNCHANGED <<debitedAt, task, torn>> /\ (SaveOk \/ SaveThrows)
    BY <1>5 DEF Operator, Deposit, SetBalance, RefundTask, SaveOk, SaveThrows, run, faults
  <2>2. QED
    BY <1>1, <1>2, <2>1, SavedWhileCounting DEF Hashed, Receipts
<1>6. CASE Tick \/ UNCHANGED vars
  BY <1>3, <1>6 DEF Tick, vars, books, run, faults, Hashed
<1>7. CASE Restart
  <2>1. Hashed' \subseteq Hashed
    BY <1>7, LeftBehindTasks DEF Restart, Hashed
  <2>2. QED
    BY <1>1, <1>2, <1>7, <2>1 DEF Restart, Receipts
<1>8. QED
  BY <1>4, <1>5, <1>6, <1>7 DEF Next

(* README.md's promise of no double spend: with routines that run one at a  *)
(* time and saves that succeed, the payments the engine was told of have    *)
(* left the balance, whatever the operator sets it to in between, but for   *)
(* runs whose process died before a debit.                                  *)
THEOREM NeverSpentTwice ==
  ASSUME MaxInFlight <= 1
  PROVE  Spec => []NoDoubleSpend
<1>1. Init => HashInv
  BY DEF Init, HashInv, Hashed
<1>2. TypeOK /\ RunsKeepTheirReservation /\ HashInv /\ [Next]_vars => HashInv'
  BY HashStep
<1>3. TypeOK /\ BooksBalance /\ HashInv => NoDoubleSpend
  <2> SUFFICES ASSUME TypeOK, BooksBalance, HashInv, saveFailures = 0
               PROVE  Total(Hashed) + balance <= given + Total(Receipts(refundedAt))
    BY DEF NoDoubleSpend, Hashed, Receipts
  <2>1. balance + Total(Receipts(debitedAt)) = given + Total(Receipts(refundedAt))
    BY Zenon DEF BooksBalance, Receipts
  <2>2. Hashed \subseteq Receipts(debitedAt) /\ Receipts(debitedAt) \subseteq Runs
    BY DEF HashInv, Receipts
  <2>3. Total(Hashed) <= Total(Receipts(debitedAt))
    BY <2>2, TotalDrop
  <2>4. /\ Total(Hashed) \in Nat /\ Total(Receipts(debitedAt)) \in Nat
        /\ Total(Receipts(refundedAt)) \in Nat /\ balance \in Int /\ given \in Int
    BY <2>2, TotalType DEF TypeOK, Receipts
  <2>5. QED
    BY <2>1, <2>3, <2>4
<1>4. QED
  BY <1>1, <1>2, <1>3, TypeCorrect, SerialRunsKeepTheirReservation,
     BooksAlwaysBalance, PTL DEF Spec

-----------------------------------------------------------------------------
(* ImplementsAccount: reserve-then-commit refines the atomic check-and-debit *)
(* of SpendAccount.  The step that spends is the commit; everything before   *)
(* it, a sweep and a restart included, changes nothing the operator sees.    *)
(* The commit looks at nothing again, so what the atomic check would ask has *)
(* to be kept by the reservation from the moment it was taken.               *)

(* What reserve() asked of the budget itself stays true of what is held.     *)
HeldAllowed == \A r \in Held : Budget[r] \in 1 .. MaxPerRunSpend

(* A restart finds the books as they were, if no save was ever lost.         *)
RestartKeepsBooks ==
  MaxRestarts = 0 \/ (file.balance = balance /\ file.debitedAt = debitedAt)

AccountInv ==
  /\ CoveredInv
  /\ CapInv
  /\ BackedInv
  /\ HeldAllowed
  /\ RestartKeepsBooks

(* The sums and the window of the account are those of the treasury. *)
LEMMA AccountSums ==
  /\ Account!InWindow(now) = Debited
  /\ \A S : Account!Total(S) = Total(S)
<1>1. Account!InWindow(now) = Debited
  BY DEF Account!InWindow, Debited, Within, Account!Never, Never
<1>2. ASSUME NEW S
      PROVE  Account!Total(S) = Total(S)
  BY Zenon DEF Account!Total, Account!Coins, Total, Coins, Account!Cardinality, Cardinality
<1>3. QED
  BY <1>1, <1>2

(* Only reserve() adds to what is held. *)
LEMMA HeldOnlyByReserve ==
  ASSUME TypeOK, [Next]_vars
  PROVE  Held' \subseteq Held \/ \E r \in Runs : Reserve(r)
<1>1. ASSUME NEW r \in Runs, Engine(r) \/ PaymentLands(r), ~Reserve(r)
      PROVE  Held' \subseteq Held
  <2>1. CASE ReserveRejected(r)
    BY <2>1 DEF ReserveRejected, Held, Fresh, Never
  <2>2. CASE PostTask(r) \/ AssertGasSufficiency(r) \/ PaymentLands(r)
    BY <2>2, HeldUnchanged
  <2>3. CASE \/ GasShort(r) \/ AgentPaymentThrows(r) \/ CommitNotFound(r)
             \/ LedgerSaveThrows(r) \/ PostTaskThrows(r)
    BY <2>3, HeldAfterRelease
  <2>4. CASE CommitReservation(r)
    BY <2>4, HeldAfterCommit
  <2>5. QED
    BY <1>1, <2>1, <2>2, <2>3, <2>4 DEF Engine
<1>2. CASE Operator \/ Tick \/ Restart \/ UNCHANGED vars
  BY <1>2 DEF Operator, Deposit, SetBalance, RefundTask, Tick, Restart, vars, Held, Never
<1>3. QED
  BY <1>1, <1>2 DEF Next

(* What is held was allowed when it was taken. *)
LEMMA HeldAllowedStep ==
  ASSUME TypeOK, HeldAllowed, [Next]_vars
  PROVE  HeldAllowed'
<1>1. CASE Held' \subseteq Held
  BY <1>1 DEF HeldAllowed
<1>2. ASSUME NEW r \in Runs, Reserve(r)
      PROVE  HeldAllowed'
  <2>1. Held' = Fresh \cup {r} /\ Fresh \subseteq Held
    BY <1>2, HeldAfterReserve, HeldInRuns
  <2>2. Budget[r] \in 1 .. MaxPerRunSpend
    BY <1>2, BudgetType, TreasuryAssumption DEF Reserve, CanSpend
  <2>3. QED
    BY <2>1, <2>2 DEF HeldAllowed
<1>3. QED
  BY <1>1, <1>2, HeldOnlyByReserve

(* A save that cannot fail leaves the books of memory in the file. *)
LEMMA SaveKeepsBooks ==
  ASSUME TypeOK, MaxSaveFailures = 0, SaveOk \/ SaveThrows
  PROVE  file'.balance = balance' /\ file'.debitedAt = debitedAt'
BY DEF TypeOK, SaveOk, SaveThrows

(* Every change of the books is saved, or nothing ever reads the file.      *)
LEMMA RestartKeepsBooksStep ==
  ASSUME MaxSaveFailures = 0 \/ MaxRestarts = 0,
         TypeOK, RestartKeepsBooks, [Next]_vars
  PROVE  RestartKeepsBooks'
<1>1. CASE MaxRestarts = 0
  BY <1>1 DEF RestartKeepsBooks
<1>2. CASE MaxSaveFailures = 0 /\ MaxRestarts # 0
  <2>1. file.balance = balance /\ file.debitedAt = debitedAt
    BY <1>2 DEF RestartKeepsBooks
  <2>2. CASE Operator
    BY <1>2, <2>2, SaveKeepsBooks DEF Operator, Deposit, SetBalance, RefundTask,
                                      RestartKeepsBooks
  <2>3. ASSUME NEW r \in Runs, CommitReservation(r)
        PROVE  RestartKeepsBooks'
    BY <1>2, <2>3, SaveKeepsBooks DEF CommitReservation, RestartKeepsBooks
  <2>4. ASSUME NEW r \in Runs, Engine(r) \/ PaymentLands(r), ~CommitReservation(r)
        PROVE  UNCHANGED <<books, file>>
    BY <2>4 DEF Engine, Reserve, ReserveRejected, PostTask, PostTaskThrows,
                AssertGasSufficiency, GasShort, AgentPaymentThrows, CommitNotFound,
                LedgerSaveThrows, PaymentLands
  <2>5. CASE Tick \/ Restart \/ UNCHANGED vars
    BY <2>1, <2>5 DEF Tick, Restart, vars, books, RestartKeepsBooks
  <2>6. QED
    BY <2>1, <2>2, <2>3, <2>4, <2>5 DEF Next, RestartKeepsBooks, books
<1>3. QED
  BY <1>1, <1>2

(* The commit is a spend the account would have allowed at that moment. *)
LEMMA CommitIsSpend ==
  ASSUME AccountInv, NEW r \in Runs, CommitReservation(r)
  PROVE  Account!Spend(r)
<1>1. TypeOK
  BY DEF AccountInv, CoveredInv
<1>2. /\ r \in Held
      /\ balance' = balance - Budget[r]
      /\ debitedAt' = [debitedAt EXCEPT ![r] = now]
      /\ now' = now
  BY <1>1, HeldAfterCommit
<1>3. debitedAt[r] = Never
  BY DEF CommitReservation, Answered, AccountInv, BackedInv, DebitOf
<1>4. Budget[r] \in 1 .. MaxPerRunSpend
  BY <1>2 DEF AccountInv, HeldAllowed
<1>5. Budget[r] <= Total(Held) /\ Total(Held) \in Nat /\ Total(Debited) \in Nat
  <2>1. Held \subseteq Runs /\ Debited \subseteq Runs
    BY DEF Held, Debited, Within
  <2>2. QED
    BY <1>2, <2>1, TotalRemove, TotalType
<1>6. Budget[r] <= balance
  BY <1>1, <1>4, <1>5 DEF AccountInv, CoveredInv, ReservedCovered, TypeOK
<1>7. Total(Debited) + Budget[r] <= MonthlyBudgetCap
  BY <1>4, <1>5, TreasuryAssumption DEF AccountInv, CapInv
<1>8. Account!Total(Account!InWindow(now)) + Budget[r] <= MonthlyBudgetCap
  <2>1. Account!Total(Account!InWindow(now)) = Total(Debited)
    BY AccountSums, Zenon
  <2>2. QED
    BY <1>7, <2>1
<1>9. QED
  BY <1>2, <1>3, <1>4, <1>6, <1>8 DEF Account!Spend, Account!Never, Never

(* Every step of the treasury is a step of the account or changes nothing   *)
(* the account shows.                                                       *)
LEMMA AccountStep ==
  ASSUME SettableBalances = {}, RefundsEnabled = FALSE, AccountInv, [Next]_vars
  PROVE  [Account!Next]_(Account!vars)
<1> USE DEF Account!vars
<1>1. TypeOK
  BY DEF AccountInv, CoveredInv
<1>2. ASSUME NEW a \in Deposits, Deposit(a)
      PROVE  Account!TopUp(a)
  BY <1>2 DEF Deposit, Account!TopUp
<1>3. ASSUME NEW r \in Runs, Engine(r) \/ PaymentLands(r), ~CommitReservation(r)
      PROVE  UNCHANGED Account!vars
  BY <1>3 DEF Engine, Reserve, ReserveRejected, PostTask, PostTaskThrows,
              AssertGasSufficiency, GasShort, AgentPaymentThrows, CommitNotFound,
              LedgerSaveThrows, PaymentLands, books
<1>4. CASE Tick
  BY <1>4 DEF Tick, books, Account!Pass, Account!Next
<1>5. CASE Restart
  <2>1. MaxRestarts # 0
    BY <1>1, <1>5 DEF Restart, TypeOK
  <2>2. QED
    BY <1>5, <2>1 DEF Restart, AccountInv, RestartKeepsBooks
<1>6. CASE UNCHANGED vars
  BY <1>6 DEF vars, books
<1>7. ~\E r \in Runs : RefundTask(r)
  BY DEF RefundTask
<1>8. QED
  BY <1>2, <1>3, <1>4, <1>5, <1>6, <1>7, CommitIsSpend DEF Next, Operator, Account!Next

(* The treasury implements the account: with reservations, awaits, sweeps   *)
(* and restarts in between, every debit is one that an atomic check-and-    *)
(* debit would have allowed when it happened.  Assumed is what the          *)
(* refinement needs: nobody edits the balance or refunds, and no restart    *)
(* reads a file that a failed save left behind.                             *)
THEOREM TreasuryImplementsAccount ==
  ASSUME SettableBalances = {}, RefundsEnabled = FALSE,
         MaxSaveFailures = 0 \/ MaxRestarts = 0
  PROVE  Spec => ImplementsAccount
<1>1. Init => AccountInv /\ Account!Init
  <2> SUFFICES ASSUME Init PROVE AccountInv /\ Account!Init
    OBVIOUS
  <2>1. CoveredInv
    BY CoveredInit
  <2>2. CapInv
    BY CapInit
  <2>3. BackedInv
    BY DEF Init, BackedInv, DebitOf, NoTx, OnChain
  <2>4. HeldAllowed /\ RestartKeepsBooks
    BY DEF Init, HeldAllowed, Held, RestartKeepsBooks
  <2>5. Account!Init
    BY DEF Init, Account!Init, Account!Never, Never
  <2>6. QED
    BY <2>1, <2>2, <2>3, <2>4, <2>5 DEF AccountInv
<1>2. AccountInv /\ TypeOK' /\ [Next]_vars => AccountInv'
  <2> SUFFICES ASSUME AccountInv, TypeOK', [Next]_vars PROVE AccountInv'
    OBVIOUS
  <2> USE DEF AccountInv
  <2>1. TypeOK
    BY DEF CoveredInv
  <2>2. CoveredInv' /\ CapInv' /\ BackedInv'
    BY <2>1, CoveredStep, CapStep, BackedStep
  <2>3. HeldAllowed' /\ RestartKeepsBooks'
    BY <2>1, HeldAllowedStep, RestartKeepsBooksStep
  <2>4. QED
    BY <2>2, <2>3
<1>3. AccountInv /\ [Next]_vars => [Account!Next]_(Account!vars)
  BY AccountStep
<1>4. QED
  BY <1>1, <1>2, <1>3, TypeCorrect, PTL DEF Spec, ImplementsAccount, Account!Spec

=============================================================================
