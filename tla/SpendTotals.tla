---------------------------- MODULE SpendTotals ----------------------------
(***************************************************************************)
(* The sums of server/okx/scheduler.ts: what a set of runs adds up to.     *)
(*                                                                         *)
(* The treasury never stores a total: getReservedAmount, getMonthlySpend   *)
(* and canSpend walk a map or a list and add amounts.  Here a run stands   *)
(* for its amount, Budget[r], and the sum over a set of runs is counted    *)
(* coin by coin: a run r of budget n owns the coins <<r, 1>> .. <<r, n>>.  *)
(* No recursion is needed, so the laws of the sum (Treasury_proofs)        *)
(* hold for every finite set.                                              *)
(***************************************************************************)
EXTENDS Integers, FiniteSets

CONSTANTS
  Runs,     \* the scheduled runs, one executeScheduledRun call each
  Budget,   \* Budget[r]: the amount parseTaskPrompt reads from r's prompt
  LargestBudget  \* a bound on every budget

ASSUME RunsAssumption ==
  /\ IsFiniteSet(Runs)
  /\ LargestBudget \in Nat
  /\ Budget \in [Runs -> 0 .. LargestBudget]   \* "budget: 0" parses too

(* The coins of the runs in S. *)
Coins(S) == {c \in S \X (1 .. LargestBudget) : c[2] <= Budget[c[1]]}

(* The sum of the budgets of the runs in S. *)
Total(S) == Cardinality(Coins(S))

=============================================================================
