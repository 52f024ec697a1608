--------------------------- MODULE MCRoutineRuns ---------------------------
(* RoutineRuns with concrete routines, for TLC. *)
EXTENDS RoutineRuns, TLC

CONSTANTS t1, t2, a1, a2

MCBotAndGoal      == t1 :> "bot" @@ t2 :> "room-goal"
MCBotAndOkx       == t1 :> "bot" @@ t2 :> "okx-task"
MCSameAgent       == t1 :> a1 @@ t2 :> a1
MCTwoAgents       == t1 :> a1 @@ t2 :> a2
MCOrder           == <<t1, t2>>

(* A constraint of the run that asks of failed saves and of everything else *)
(* but not of both at once: where a save has failed, the rest of the world  *)
(* (limits, turns of the user, deleted agents, pauses of the recurring      *)
(* routine) keeps still.                                                    *)
WorldKeepsStill ==
  overdue = {} /\ visits = 0 /\ gone = {} /\ Recurring \subseteq enabled

OneWorld == saveFailures = 0 \/ WorldKeepsStill

=============================================================================
