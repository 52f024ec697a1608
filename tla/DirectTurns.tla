---------------------------- MODULE DirectTurns -----------------------------
(***************************************************************************)
(* Turns of one bot in one direct thread: the claim that startTurn takes   *)
(* (server/index.ts), the quarantine of cancelled handshakes, the          *)
(* tombstones of retired turns and the registry that ties a provider's     *)
(* turn to the generation it serves (server/turn-dispatch-guard.ts), and   *)
(* what the stall watchdog watches (server/turn-watchdog.ts).              *)
(*                                                                         *)
(* A generation is one call of startTurn that took the claim; the id of    *)
(* the provider's turn is the generation that asked for it.  All of this   *)
(* is memory.  The operators take and return the record turn.              *)
(***************************************************************************)
EXTENDS Naturals

CONSTANT MaxTurns    \* bound on the turns that start

ASSUME MaxTurnsAssumption == MaxTurns \in Nat

VARIABLES
  turn,       \* the bookkeeping of the thread's turns
  provider    \* per generation: the provider's process

Gens == 1 .. MaxTurns
NoClaim == [of |-> 0, phase |-> "setup"]

Idle(gen, stages) ==
  [gen |-> gen,               \* directTurnGenerationByThread
   busy |-> FALSE,            \* the task's busy flag
   claim |-> NoClaim,         \* directTurnDispatchClaims
   stage |-> stages,          \* how far each dispatch function has come
   quarantine |-> {},         \* pendingCancelledProviderHandshakes
   retired |-> {},            \* retiredProviderTurns
   bound |-> {},              \* ProviderTurnGenerationRegistry: owners
   completed |-> {},          \*   and completed
   settlers |-> {},           \* directFollowupSettlers
   watched |-> FALSE,         \* the watchdog's entry
   grace |-> {},              \* stalled turns in their grace period
   frame |-> {}]              \* turns whose last screen frame is awaited

TurnsInit ==
  /\ turn = Idle(0, [g \in Gens |-> "new"])
  /\ provider = [g \in Gens |-> "none"]

(* Nothing of a turn survives the process; a dispatch is not resumed. *)
TurnsLost(t) ==
  Idle(t.gen, [g \in Gens |-> IF g <= t.gen THEN "ended" ELSE "new"])

-----------------------------------------------------------------------------
ThreadBusy(t) == t.busy \/ t.claim # NoClaim

(* startTurn: claim, generation, settler and busy, before any await. *)
Claimed(t) ==
  LET g == t.gen + 1
  IN [t EXCEPT !.gen = g, !.busy = TRUE, !.stage[g] = "setup",
               !.claim = [of |-> g, phase |-> "setup"],
               !.settlers = @ \union {g}]

(* Unclaimed as it would be without the quarantine. *)
UnclaimedUnguarded(t) == [t EXCEPT !.claim = NoClaim]

(* cancelDirectTurnDispatch: in the setup there is no handshake to guard. *)
Unclaimed(t) ==
  IF t.claim.phase = "setup"
  THEN [t EXCEPT !.claim = NoClaim]
  ELSE [t EXCEPT !.claim = NoClaim, !.quarantine = @ \union {t.claim.of}]

(* directTurnClaimIsCurrent *)
ClaimIsCurrent(t, g) == t.claim.of = g /\ t.busy

(* markDirectTurnDispatching and watchdog.watch *)
Dispatching(t, g) ==
  [t EXCEPT !.claim.phase = "dispatching", !.stage[g] = "dispatching",
            !.watched = TRUE]

(* settleDirectFollowup: the settler runs once, and a turn that is still   *)
(* bound is never heard again.                                             *)
FollowupSettled(t, g) ==
  IF g \notin t.settlers THEN t
  ELSE [t EXCEPT !.settlers = @ \ {g}, !.bound = @ \ {g},
                 !.completed = @ \union (t.bound \intersect {g}),
                 !.retired = @ \union (t.bound \intersect {g})]

(* The dispatch function ends in its catch: it settles its own generation, *)
(* and frees the thread if no newer one has it.                            *)
Abandoned(t, g) ==
  [FollowupSettled(t, g) EXCEPT
     !.stage[g] = "ended",
     !.quarantine = @ \ {g},
     !.claim = IF @.of = g THEN NoClaim ELSE @,
     !.watched = @ /\ t.gen # g,
     !.busy = @ /\ t.gen # g]

(* ProviderTurnGenerationRegistry.bind: a turn that has completed already  *)
(* is settled here, with the result that came early.                       *)
Acknowledged(t, g) ==
  LET bound == IF g \notin t.settlers THEN t
               ELSE IF g \in t.completed THEN FollowupSettled(t, g)
               ELSE [t EXCEPT !.bound = @ \union {g}]
  IN [bound EXCEPT !.stage[g] = "ended",
                   !.claim = IF @.of = g THEN NoClaim ELSE @]

-----------------------------------------------------------------------------
(* isTurnEventQuarantined, and what it does to the turn it quarantines. *)
Quarantined(t, g) == g \in t.retired \/ t.quarantine # {}
Ignored(t, g) == [t EXCEPT !.retired = @ \union {g}]

(* turn.completed: the watchdog lets go, the registry finds the generation *)
(* and settles it, and the fold frees the thread, unless a last screen     *)
(* frame is to be taken first.                                             *)
Completed(t, g, framed) ==
  LET settled == IF g \in t.bound
                 THEN FollowupSettled([t EXCEPT !.bound = @ \ {g}], g)
                 ELSE t
  IN [settled EXCEPT !.watched = FALSE,
                     !.completed = @ \union {g},
                     !.busy = @ /\ framed,
                     !.frame = IF framed THEN @ \union {t.gen} ELSE @]

(* settleDirectTurn after the frame *)
FrameTaken(t, g) ==
  [t EXCEPT !.frame = @ \ {g}, !.busy = @ /\ t.gen # g]

(* onStall: the dispatch is cancelled, the follow-up settled and a grace   *)
(* period begins.                                                          *)
Stalled(t) ==
  FollowupSettled([(IF t.claim = NoClaim THEN t ELSE Unclaimed(t)) EXCEPT
                     !.watched = FALSE, !.grace = @ \union {t.gen}], t.gen)

(* releaseOwnership, when the generation is still the thread's *)
Released(t, g) == [t EXCEPT !.grace = @ \ {g}, !.busy = @ /\ t.gen # g]

=============================================================================
