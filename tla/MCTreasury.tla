----------------------------- MODULE MCTreasury -----------------------------
(* Treasury with concrete runs and amounts, for TLC. *)
EXTENDS Treasury, TLC

CONSTANTS r1, r2, r3

(* Two runs that together exceed every account below, and a small third. *)
MCBudget == r1 :> 2 @@ r2 :> 2 @@ r3 :> 1

(* Two runs of different amounts, where the operator does as much as they. *)
MCBudgetTwo == r1 :> 2 @@ r3 :> 1

=============================================================================
