----------------------------- MODULE Okx_proofs -----------------------------
(***************************************************************************)
(* Proofs about Okx, for every set of tasks, disputes, deliverables and    *)
(* calls, and for every bound.                                             *)
(*                                                                         *)
(* A crash reads the files back, so every invariant has two halves: one    *)
(* for the memory and one for the file.  The two sides of the module share *)
(* no state but the count of faults, and each is proved from its own.      *)
(***************************************************************************)
EXTENDS Okx, Rubric, FiniteSetTheorems, TLAPS

-----------------------------------------------------------------------------
(* What the rubric's rebalancing computes, for all scores and all totals.  *)

(* One dimension after the first pass: a number within its maximum. *)
LEMMA ClampBounds ==
  ASSUME NEW x \in Int, NEW high \in Nat
  PROVE  Clamp(x, 0, high) \in 0..high
BY DEF Clamp, Least

(* A dimension moves by a whole number of points. *)
LEMMA StepInt ==
  ASSUME NEW delta \in Int, NEW d \in Dims
  PROVE  Step(delta, d) \in Int
BY DEF Step, Dims, Share

(* One pass leaves every dimension within its maximum. *)
LEMMA SpreadScores ==
  ASSUME NEW v \in Scores, NEW delta \in Int
  PROVE  Spread(v, delta) \in Scores
<1>1. \A d \in Dims : Spread(v, delta)[d] \in 0..Most[d]
  <2> TAKE d \in Dims
  <2>1. v[d] + Step(delta, d) \in Int
    BY StepInt DEF Scores
  <2>2. Most[d] \in Nat
    BY DEF Dims, Most
  <2> QED
    BY <2>1, <2>2, ClampBounds DEF Spread
<1>2. \A d \in Dims : Spread(v, delta)[d] \in 0..30 /\ Spread(v, delta)[d] <= Most[d]
  <2> TAKE d \in Dims
  <2>1. Most[d] \in 0..30
    BY DEF Dims, Most
  <2> QED
    BY <1>1, <2>1
<1>3. Spread(v, delta) \in [Dims -> 0..30]
  BY <1>2 DEF Spread
<1> QED
  BY <1>2, <1>3 DEF Scores

(* A dimension of value x with this maximum takes r of what is left.       *)
Takes(x, most, left, r) ==
  /\ r \in Int
  /\ 0 <= x + r /\ x + r <= most
  /\ left >= 0 => left - r >= 0 /\ (left - r > 0 => x + r = most)
  /\ left <= 0 => left - r <= 0 /\ (left - r < 0 => x + r = 0)

(* What one dimension takes of what is left never leaves its range, and    *)
(* never turns the sign of what is left.                                   *)
LEMMA RoomBounds ==
  ASSUME NEW v \in Scores, NEW d \in Dims, NEW left \in Int
  PROVE  Takes(v[d], Most[d], left, Room(v, d, left))
<1>1. v[d] \in Int /\ Most[d] \in Int /\ 0 <= v[d] /\ v[d] <= Most[d]
  BY DEF Scores, Dims, Most
<1> QED
  BY <1>1 DEF Room, Least, Takes

(* The second pass: the dimensions have room for all of what is left as    *)
(* long as the total asked for is one the rubric can express.              *)
LEMMA TopUpAddsUp ==
  ASSUME NEW v \in Scores, NEW target \in 0..100
  PROVE  /\ TopUp(v, target - Total(v)) \in Scores
         /\ Total(TopUp(v, target - Total(v))) = target
<1> DEFINE left == target - Total(v)
           r1 == Room(v, 1, left)
           r2 == Room(v, 2, left - r1)
           r3 == Room(v, 3, left - r1 - r2)
           r4 == Room(v, 4, left - r1 - r2 - r3)
<1>1. 1 \in Dims /\ 2 \in Dims /\ 3 \in Dims /\ 4 \in Dims
  BY DEF Dims
<1>2. /\ v[1] \in Int /\ v[2] \in Int /\ v[3] \in Int /\ v[4] \in Int
      /\ Most[1] = 30 /\ Most[2] = 30 /\ Most[3] = 20 /\ Most[4] = 20
  BY <1>1 DEF Scores, Most
<1>3. left \in Int /\ left = target - (v[1] + v[2] + v[3] + v[4])
  BY <1>2 DEF Total
<1> HIDE DEF left
<1>4. Takes(v[1], Most[1], left, r1)
  BY <1>1, <1>3, RoomBounds
<1>5. Takes(v[2], Most[2], left - r1, r2)
  <2>1. left - r1 \in Int
    BY <1>3, <1>4 DEF Takes
  <2> QED
    BY <2>1, <1>1, RoomBounds
<1>6. Takes(v[3], Most[3], left - r1 - r2, r3)
  <2>1. left - r1 - r2 \in Int
    BY <1>3, <1>4, <1>5 DEF Takes
  <2> QED
    BY <2>1, <1>1, RoomBounds
<1>7. Takes(v[4], Most[4], left - r1 - r2 - r3, r4)
  <2>1. left - r1 - r2 - r3 \in Int
    BY <1>3, <1>4, <1>5, <1>6 DEF Takes
  <2> QED
    BY <2>1, <1>1, RoomBounds
<1> HIDE DEF r1, r2, r3, r4
<1>8. left - r1 - r2 - r3 - r4 = 0
  BY <1>2, <1>3, <1>4, <1>5, <1>6, <1>7 DEF Takes
<1>9. TopUp(v, left) = <<v[1] + r1, v[2] + r2, v[3] + r3, v[4] + r4>>
  BY DEF TopUp, r1, r2, r3, r4
<1>10. Total(TopUp(v, left)) = target
  <2>1. Total(TopUp(v, left)) = (v[1] + r1) + (v[2] + r2) + (v[3] + r3) + (v[4] + r4)
    BY <1>9 DEF Total
  <2>2. r1 \in Int /\ r2 \in Int /\ r3 \in Int /\ r4 \in Int
    BY <1>4, <1>5, <1>6, <1>7 DEF Takes
  <2> QED
    BY <2>1, <2>2, <1>2, <1>3, <1>8
<1>11. TopUp(v, left) \in Scores
  BY <1>2, <1>4, <1>5, <1>6, <1>7, <1>9 DEF Scores, Dims, Most, Takes
<1> QED
  BY <1>10, <1>11 DEF left

(* Rebalanced dimensions keep within their maxima and add up exactly to    *)
(* the total that was asked for, which evaluateChiefArbiter relies on when *)
(* it decides the verdict from their sum.                                  *)
THEOREM RebalanceAddsUp ==
  ASSUME NEW v \in Scores, NEW target \in 0..100
  PROVE  /\ Rebalance(v, target) \in Scores
         /\ Total(Rebalance(v, target)) = target
<1>1. Total(v) \in Int
  BY DEF Total, Scores, Dims
<1>2. Spread(v, target - Total(v)) \in Scores
  BY <1>1, SpreadScores
<1> QED
  BY <1>2, TopUpAddsUp DEF Rebalance

-----------------------------------------------------------------------------
(* The dispute evaluator.  Its state is a record of three maps; only fees   *)
(* and deliberations matter here.                                          *)

FeeStates == {"none", "owed", "claimed"}

Ruled(r) == r.rubric \in Scores /\ Total(r.rubric) = r.target

(* The evaluator's state, in memory or in its file: every ruling adds up. *)
Sound(x) ==
  /\ x = [deliberations |-> x.deliberations, fees |-> x.fees,
          commitments |-> x.commitments]
  /\ x.fees \in [Disputes -> FeeStates]
  /\ DOMAIN x.deliberations = Disputes
  /\ \A d \in Disputes : x.deliberations[d] # Nothing => Ruled(x.deliberations[d])

EvaluatorInv ==
  /\ Sound(evaluator)
  /\ Sound(evaluatorFile)
  /\ \A j \in Juries : jury[j] # Idle => jury[j].dispute \in Disputes /\ jury[j].case \in Cases
  /\ DOMAIN jury = Juries
  /\ \A r \in Revealers : reveal[r] # Idle => reveal[r].dispute \in Disputes
  /\ DOMAIN reveal = Revealers

(* A claim that was answered is in the file, and what the file has claimed  *)
(* the memory has.                                                         *)
FeeInv ==
  /\ claims \in [Disputes -> {0, 1}]
  /\ \A d \in Disputes :
       /\ claims[d] = 1 => evaluatorFile.fees[d] = "claimed"
       /\ evaluatorFile.fees[d] = "claimed" => evaluator.fees[d] = "claimed"

(* What the jury saw always scores within the maxima of the dimensions.    *)
LEMMA RawScoresType ==
  ASSUME NEW case \in Cases
  PROVE  RawScores(case) \in Scores
<1>1. /\ case.missing \in Nat /\ case.short \in BOOLEAN
      /\ case.bug \in BOOLEAN /\ case.praised \in BOOLEAN
  BY CasesAssumption
<1>2. CASE case.short
  BY <1>2 DEF RawScores, Scores, Dims, Most
<1>3. CASE ~case.short
  <2> DEFINE c1 == CASE case.missing > 3 -> 12 [] case.missing = 0 -> 28 [] OTHER -> 20
             c2 == CASE case.bug -> 14 [] ~case.bug /\ case.missing > 1 -> 18
                     [] ~case.bug /\ case.missing = 1 -> 22 [] OTHER -> 27
             c3 == CASE case.missing > 2 -> 10 [] case.missing = 0 -> 19 [] OTHER -> 14
             c4 == CASE ~case.praised -> 8 [] case.praised /\ case.missing > 1 -> 14
                     [] OTHER -> 19
  <2>1. c1 \in {12, 20, 28} /\ c2 \in {14, 18, 22, 27} /\ c3 \in {10, 14, 19} /\ c4 \in {8, 14, 19}
    BY <1>1
  <2>2. RawScores(case) = <<c1, c2, c3, c4>>
    BY <1>3 DEF RawScores
  <2> HIDE DEF c1, c2, c3, c4
  <2>3. QED
    BY <2>1, <2>2 DEF Scores, Dims, Most
<1>4. QED
  BY <1>1, <1>2, <1>3

(* The blended total is a total of the scale. *)
LEMMA TargetsType ==
  ASSUME NEW case \in Cases
  PROVE  Targets(Total(RawScores(case)), case.buyer, case.seller) \subseteq 0 .. 100
<1>1. case.buyer \in Int /\ case.seller \in Int
  BY CasesAssumption
<1>2. Total(RawScores(case)) \in Int
  BY RawScoresType DEF Total, Scores, Dims
<1>3. ASSUME NEW tie \in {9, 10}
      PROVE  Clamp((14 * Total(RawScores(case)) + 3 * (case.buyer + case.seller) + tie) \div 20,
                   0, 100) \in 0 .. 100
  <2>1. (14 * Total(RawScores(case)) + 3 * (case.buyer + case.seller) + tie) \div 20 \in Int
    BY <1>1, <1>2
  <2>2. QED
    BY <2>1, ClampBounds
<1>4. QED
  BY <1>3 DEF Targets

(* What a jury rules has dimensions that add up. *)
LEMMA RulingRuled ==
  ASSUME NEW case \in Cases,
         NEW target \in Targets(Total(RawScores(case)), case.buyer, case.seller)
  PROVE  Ruled(Ruling(case, target))
<1>1. RawScores(case) \in Scores /\ target \in 0 .. 100
  BY RawScoresType, TargetsType
<1>2. /\ Ruling(case, target).rubric = Rebalance(RawScores(case), target)
      /\ Ruling(case, target).target = target
  BY DEF Ruling
<1>3. QED
  BY <1>1, <1>2, RebalanceAddsUp DEF Ruled

(* A step that leaves the file as it was, or writes the memory to it. *)
LEMMA SaveSound ==
  ASSUME Sound(evaluator'), Sound(evaluatorFile), Saved \/ NotSaved
  PROVE  Sound(evaluatorFile')
BY DEF Saved, NotSaved

(* Every step of the evaluator, and every crash, keeps the rulings sound. *)
LEMMA EvaluatorStep ==
  ASSUME EvaluatorInv, [Next]_vars
  PROVE  EvaluatorInv'
<1> USE DEF EvaluatorInv
<1>1. ASSUME UNCHANGED disputeVars
      PROVE  EvaluatorInv'
  BY <1>1 DEF disputeVars, Sound
<1>2. ASSUME NEW j \in Juries, NEW d \in Disputes, NEW case \in Cases,
             StartDeliberation(j, d, case)
      PROVE  EvaluatorInv'
  <2>1. /\ UNCHANGED <<evaluator, evaluatorFile, reveal>>
        /\ jury' = [jury EXCEPT ![j] = [dispute |-> d, case |-> case]]
    BY <1>2 DEF StartDeliberation
  <2>2. QED
    BY <2>1 DEF Sound
<1>3. ASSUME NEW j \in Juries, FinishDeliberation(j)
      PROVE  EvaluatorInv'
  <2> DEFINE d == jury[j].dispute
             case == jury[j].case
  <2>1. d \in Disputes /\ case \in Cases
    BY <1>3 DEF FinishDeliberation
  <2>2. PICK target \in Targets(Total(RawScores(case)), case.buyer, case.seller) :
          evaluator' = [evaluator EXCEPT
                          !.deliberations[d] = Ruling(case, target),
                          !.fees[d] = FeeAfter(d)]
    BY <1>3 DEF FinishDeliberation
  <2> HIDE DEF d, case
  <2>3. /\ evaluator'.deliberations = [evaluator.deliberations EXCEPT ![d] = Ruling(case, target)]
        /\ evaluator'.fees = [evaluator.fees EXCEPT ![d] = FeeAfter(d)]
        /\ evaluator' = [deliberations |-> evaluator'.deliberations,
                         fees |-> evaluator'.fees,
                         commitments |-> evaluator'.commitments]
    BY <2>2 DEF Sound
  <2>4. FeeAfter(d) \in FeeStates
    BY DEF FeeAfter, FeeStates
  <2>5. Ruled(Ruling(case, target))
    BY <2>1, RulingRuled
  <2>6. Sound(evaluator')
    BY <2>1, <2>3, <2>4, <2>5 DEF Sound
  <2>7. /\ Saved \/ NotSaved
        /\ jury' = [jury EXCEPT ![j] = Idle] /\ reveal' = reveal
    BY <1>3 DEF FinishDeliberation
  <2>8. QED
    BY <2>6, <2>7, SaveSound
<1>4. ASSUME NEW d \in Disputes, ClaimFee(d)
      PROVE  EvaluatorInv'
  <2>1. /\ evaluator' = [evaluator EXCEPT !.fees[d] = "claimed"]
        /\ Saved \/ NotSaved
        /\ UNCHANGED <<jury, reveal>>
    BY <1>4 DEF ClaimFee
  <2>2. /\ evaluator'.deliberations = evaluator.deliberations
        /\ evaluator'.fees = [evaluator.fees EXCEPT ![d] = "claimed"]
        /\ evaluator' = [deliberations |-> evaluator'.deliberations,
                         fees |-> evaluator'.fees,
                         commitments |-> evaluator'.commitments]
    BY <2>1 DEF Sound
  <2>3. Sound(evaluator')
    BY <2>2 DEF Sound, FeeStates
  <2>4. QED
    BY <2>1, <2>3, SaveSound
<1>5. ASSUME NEW d \in Disputes, NEW verdict, CommitVote(d, verdict)
      PROVE  EvaluatorInv'
  <2>1. /\ evaluator' = [evaluator EXCEPT !.commitments[d] =
                           [number |-> made.commits, verdict |-> verdict, revealed |-> FALSE]]
        /\ Saved \/ NotSaved
        /\ UNCHANGED <<jury, reveal>>
    BY <1>5 DEF CommitVote
  <2>2. Sound(evaluator')
    BY <2>1 DEF Sound
  <2>3. QED
    BY <2>1, <2>2, SaveSound
<1>6. ASSUME NEW r \in Revealers, NEW d \in Disputes, StartReveal(r, d)
      PROVE  EvaluatorInv'
  BY <1>6 DEF StartReveal, Sound
<1>7. ASSUME NEW r \in Revealers, FinishReveal(r)
      PROVE  EvaluatorInv'
  <2>1. /\ \/ evaluator' = [evaluator EXCEPT !.commitments[reveal[r].dispute].revealed = TRUE]
           \/ evaluator' = evaluator
        /\ Saved \/ NotSaved
        /\ reveal' = [reveal EXCEPT ![r] = Idle] /\ jury' = jury
    BY <1>7 DEF FinishReveal
  <2>2. Sound(evaluator')
    BY <2>1 DEF Sound
  <2>3. QED
    BY <2>1, <2>2, SaveSound
<1>8. ASSUME NEW d \in Disputes, NEW bypass, SubmitVote(d, bypass)
      PROVE  EvaluatorInv'
  BY <1>8 DEF SubmitVote, Sound
<1>9. CASE DisputesCrash
  BY <1>9 DEF DisputesCrash, Sound
<1>10. QED
  BY <1>1, <1>2, <1>3, <1>4, <1>5, <1>6, <1>7, <1>8, <1>9
     DEF Next, Crash, DisputesNext, vars

(* The evaluator that a first start finds. *)
LEMMA EvaluatorInit == Init => EvaluatorInv /\ FeeInv
BY DEF Init, DisputesInit, NoRecords, EvaluatorInv, FeeInv, Sound, FeeStates

(* Every ruling the evaluator holds, wherever it read it from, has          *)
(* dimensions within their maxima that add up to the total it was asked for *)
(* -- whatever score the advocates' models answered with.                   *)
THEOREM RulingsAddUp == Spec => []RubricAddsUp
<1>1. Init => EvaluatorInv
  BY EvaluatorInit
<1>2. EvaluatorInv /\ [Next]_vars => EvaluatorInv'
  BY EvaluatorStep
<1>3. EvaluatorInv => RubricAddsUp
  BY DEF EvaluatorInv, Sound, Ruled, RubricAddsUp
<1>4. QED
  BY <1>1, <1>2, <1>3, PTL DEF Spec

(* A claim is saved before it is answered, and nothing takes it back. *)
LEMMA FeeStep ==
  ASSUME EvaluatorInv, FeeInv, [Next]_vars
  PROVE  FeeInv'
<1> USE DEF FeeInv
<1>1. ASSUME UNCHANGED <<claims, evaluatorFile>>,
             \A d \in Disputes :
               evaluator.fees[d] = "claimed" => evaluator'.fees[d] = "claimed"
      PROVE  FeeInv'
  BY <1>1
<1>2. ASSUME UNCHANGED claims, Saved \/ NotSaved,
             \A d \in Disputes :
               evaluator.fees[d] = "claimed" => evaluator'.fees[d] = "claimed"
      PROVE  FeeInv'
  BY <1>2 DEF Saved, NotSaved
<1>3. ASSUME NEW j \in Juries, FinishDeliberation(j)
      PROVE  FeeInv'
  <2> DEFINE d == jury[j].dispute
             case == jury[j].case
  <2>1. d \in Disputes
    BY <1>3 DEF FinishDeliberation, EvaluatorInv
  <2>2. PICK target \in Targets(Total(RawScores(case)), case.buyer, case.seller) :
          evaluator' = [evaluator EXCEPT
                          !.deliberations[d] = Ruling(case, target),
                          !.fees[d] = FeeAfter(d)]
    BY <1>3 DEF FinishDeliberation
  <2> HIDE DEF d, case
  <2>3. evaluator'.fees = [evaluator.fees EXCEPT ![d] = FeeAfter(d)]
    BY <2>2 DEF EvaluatorInv, Sound
  <2>4. \A e \in Disputes : evaluator.fees[e] = "claimed" => evaluator'.fees[e] = "claimed"
    BY <2>1, <2>3 DEF EvaluatorInv, Sound, FeeAfter
  <2>5. QED
    BY <1>2, <1>3, <2>4 DEF FinishDeliberation
<1>4. ASSUME NEW d \in Disputes, ClaimFee(d)
      PROVE  FeeInv'
  <2>1. evaluator.fees[d] = "owed" /\ evaluator' = [evaluator EXCEPT !.fees[d] = "claimed"]
    BY <1>4 DEF ClaimFee
  <2>2. evaluator'.fees = [evaluator.fees EXCEPT ![d] = "claimed"]
    BY <2>1 DEF EvaluatorInv, Sound
  <2>3. /\ evaluator'.fees[d] = "claimed"
        /\ \A e \in Disputes : evaluator.fees[e] = "claimed" => evaluator'.fees[e] = "claimed"
    BY <2>2 DEF EvaluatorInv, Sound
  <2>4. CASE Saved /\ claims' = [claims EXCEPT ![d] = @ + 1]
    <3>1. claims[d] = 0
      BY <2>1
    <3>2. claims' = [claims EXCEPT ![d] = 1]
      BY <2>4, <3>1
    <3>3. QED
      BY <2>3, <2>4, <3>2 DEF Saved
  <2>5. CASE NotSaved /\ UNCHANGED claims
    BY <1>2, <2>3, <2>5
  <2>6. QED
    BY <1>4, <2>4, <2>5 DEF ClaimFee
<1>5. ASSUME NEW d \in Disputes, NEW verdict, CommitVote(d, verdict)
      PROVE  FeeInv'
  <2>1. evaluator'.fees = evaluator.fees
    BY <1>5 DEF CommitVote, EvaluatorInv, Sound
  <2>2. QED
    BY <1>2, <1>5, <2>1 DEF CommitVote
<1>6. ASSUME NEW r \in Revealers, FinishReveal(r)
      PROVE  FeeInv'
  <2>1. /\ \/ evaluator' = [evaluator EXCEPT !.commitments[reveal[r].dispute].revealed = TRUE]
           \/ evaluator' = evaluator
    BY <1>6 DEF FinishReveal
  <2>2. evaluator'.fees = evaluator.fees
    BY <2>1 DEF EvaluatorInv, Sound
  <2>3. QED
    BY <1>2, <1>6, <2>2 DEF FinishReveal
<1>7. ASSUME UNCHANGED <<evaluator, evaluatorFile, claims>>
      PROVE  FeeInv'
  BY <1>1, <1>7
<1>8. CASE DisputesCrash
  BY <1>8 DEF DisputesCrash
<1>9. QED
  BY <1>3, <1>4, <1>5, <1>6, <1>7, <1>8
     DEF Next, Crash, DisputesNext, vars, disputeVars, StartDeliberation, SubmitVote, StartReveal

(* No fee is claimed twice: not by re-deliberation, not by a claim whose    *)
(* save failed and is repeated, not after a crash.                          *)
THEOREM FeesAreClaimedOnce == Spec => []FeeClaimedOnce
<1>1. Init => EvaluatorInv /\ FeeInv
  BY EvaluatorInit
<1>2. EvaluatorInv /\ FeeInv /\ [Next]_vars => (EvaluatorInv /\ FeeInv)'
  BY EvaluatorStep, FeeStep
<1>3. FeeInv => FeeClaimedOnce
  BY DEF FeeInv, FeeClaimedOnce
<1>4. QED
  BY <1>1, <1>2, <1>3, PTL DEF Spec

-----------------------------------------------------------------------------
(* The task ledger.                                                        *)

LedgerStatuses == {"created", "in_progress", "delivered", "rejected", "disputed", "completed",
                   "failed"}
MarketStatuses == {"none", "open", "in_progress", "delivered", "rejected", "disputed",
                   "completed"}
Goods   == Deliverables \cup {"none"}
Records == [status : LedgerStatuses, goods : Goods, at : Nat, linked : BOOLEAN,
            seen : SUBSET Nat]
Types   == {"task_accepted", "delivery_submitted", "delivery_rejected",
            "dispute_initiated", "escrow_released"}
Events  == [id : Nat, task : Tasks, type : Types, goods : Goods, at : Nat]
Ledgers == [Tasks -> Records \cup {Absent}]
Market  == [status : MarketStatuses, been : SUBSET MarketStatuses, goods : Goods]
PostingSteps == {"no", "answered", "unanswered", "unpaid", "paid", "done"}
Steps   == {"evaluating", "accepting", "rejecting", "accepted", "refused"}

TasksTypeOK ==
  /\ now \in Nat
  /\ market \in [Tasks -> Market]
  /\ events \in SUBSET Events /\ IsFiniteSet(events)
  /\ posting \in [Tasks -> PostingSteps]
  /\ ledger \in Ledgers /\ ledgerFile \in Ledgers
  /\ answered \subseteq events
  /\ check \in [Checks -> {Free} \cup [task : Tasks, goods : Goods, step : Steps]]

(* What the marketplace has made of a task when it sends a webhook. *)
StatusOf(type) ==
  CASE type = "task_accepted"      -> "in_progress"
    [] type = "delivery_submitted" -> "delivered"
    [] type = "delivery_rejected"  -> "rejected"
    [] type = "dispute_initiated"  -> "disputed"
    [] type = "escrow_released"    -> "completed"

Truthful(record, t) ==
  record # Absent =>
    \/ record.status = "created"
    \/ record.status \in market[t].been
    \/ record.status = "in_progress" /\ t \in paid
    \/ record.status = "failed" /\ posting[t] = "done"

(* A memory m and a file f of the ledger: both truthful, and the memory     *)
(* reflects every webhook that the file reflects.                          *)
Consistent(m, f) ==
  \A t \in Tasks :
    /\ Truthful(m[t], t) /\ Truthful(f[t], t)
    /\ f[t] # Absent => m[t] # Absent /\ f[t].seen \subseteq m[t].seen

(* A ledger that reflects every answered webhook it had to. *)
Keeps(f) ==
  \A e \in answered \ ignored : f[e.task] # Absent /\ e.id \in f[e.task].seen

(* The marketplace has not heard of a task before it is posted, and the     *)
(* ledger not before the post has returned; a hire under way has its task  *)
(* in the ledger.                                                          *)
Unposted ==
  \A t \in Tasks :
    /\ posting[t] = "no" => market[t].status = "none" /\ market[t].been = {}
    /\ posting[t] \in {"no", "answered", "unanswered"} =>
         ledger[t] = Absent /\ ledgerFile[t] = Absent
    /\ posting[t] \in {"unpaid", "paid"} => ledger[t] # Absent
    /\ posting[t] = "paid" => t \in paid

(* No webhook says what the marketplace did not do. *)
EventsTrue == \A e \in events : StatusOf(e.type) \in market[e.task].been

(* A check works on a task of the ledger, and writes a verdict that landed. *)
ChecksTrue ==
  \A c \in Checks : check[c] # Free =>
    /\ ledger[check[c].task] # Absent
    /\ check[c].step = "accepted" => "completed" \in market[check[c].task].been
    /\ check[c].step = "refused" => "rejected" \in market[check[c].task].been

TasksInv ==
  /\ TasksTypeOK
  /\ Consistent(ledger, ledgerFile)
  /\ Keeps(ledgerFile)
  /\ Unposted
  /\ EventsTrue
  /\ ChecksTrue

(* A record of the ledger is never mistaken for a missing one. *)
LEMMA RecordPresent == Absent \notin Records /\ Free \notin [task : Tasks, goods : Goods, step : Steps]
BY DEF Absent, Free, Records, LedgerStatuses, Steps

(* What a webhook makes of a record: a record that says what it says. *)
LEMMA ReflectedRecord ==
  ASSUME NEW r \in Records, NEW e \in Events
  PROVE  /\ Reflected(r, e) \in Records
         /\ Reflected(r, e).status = StatusOf(e.type)
         /\ Reflected(r, e).seen = r.seen \cup {e.id}
         /\ Reflected(r, e).linked = r.linked
<1> DEFINE s == [r EXCEPT !.seen = @ \cup {e.id}]
<1>1. s \in Records /\ s.seen = r.seen \cup {e.id} /\ s.linked = r.linked
  BY DEF Records, Events
<1>2. Reflected(r, e) =
        CASE e.type = "task_accepted"      -> [s EXCEPT !.status = "in_progress"]
          [] e.type = "delivery_submitted" -> [s EXCEPT !.status = "delivered",
                                                        !.goods = e.goods, !.at = e.at]
          [] e.type = "delivery_rejected"  -> [s EXCEPT !.status = "rejected"]
          [] e.type = "dispute_initiated"  -> [s EXCEPT !.status = "disputed"]
          [] e.type = "escrow_released"    -> [s EXCEPT !.status = "completed"]
  BY DEF Reflected
<1> HIDE DEF s
<1>3. CASE e.type = "delivery_submitted"
  <2>1. Reflected(r, e) = [s EXCEPT !.status = "delivered", !.goods = e.goods, !.at = e.at]
    BY <1>2, <1>3
  <2>2. e.goods \in Goods /\ e.at \in Nat
    BY DEF Events
  <2>3. QED
    BY <1>1, <1>3, <2>1, <2>2 DEF Records, StatusOf, LedgerStatuses
<1>4. CASE e.type # "delivery_submitted"
  <2>1. e.type \in Types
    BY DEF Events
  <2>2. Reflected(r, e) = [s EXCEPT !.status = StatusOf(e.type)]
    BY <1>2, <1>4, <2>1 DEF Types, StatusOf
  <2>3. StatusOf(e.type) \in LedgerStatuses
    BY <2>1 DEF Types, StatusOf, LedgerStatuses
  <2>4. QED
    BY <1>1, <2>2, <2>3 DEF Records
<1>5. QED
  BY <1>3, <1>4

(* The memory after a webhook: as truthful as before, and ahead of the file. *)
LEMMA LedgerWithConsistent ==
  ASSUME TasksInv, NEW e \in events
  PROVE  /\ LedgerWith(e) \in Ledgers
         /\ Consistent(LedgerWith(e), ledgerFile)
         /\ \A t \in Tasks : ledger[t] = Absent <=> LedgerWith(e)[t] = Absent
         /\ Known(e) => e.id \in LedgerWith(e)[e.task].seen
<1>1. e \in Events /\ e.task \in Tasks
  BY DEF TasksInv, TasksTypeOK, Events
<1>2. CASE ~Known(e)
  BY <1>2 DEF LedgerWith, TasksInv, TasksTypeOK
<1>3. CASE Known(e)
  <2> DEFINE r == ledger[e.task]
  <2>1. r \in Records
    BY <1>1, <1>3 DEF Known, TasksInv, TasksTypeOK, Ledgers
  <2>2. LedgerWith(e) = [ledger EXCEPT ![e.task] = Reflected(r, e)]
    BY <1>3 DEF LedgerWith
  <2>3. /\ Reflected(r, e) \in Records
        /\ Reflected(r, e).status = StatusOf(e.type)
        /\ Reflected(r, e).seen = r.seen \cup {e.id}
    BY <1>1, <2>1, ReflectedRecord
  <2>4. Reflected(r, e) # Absent /\ r # Absent
    BY <2>1, <2>3, RecordPresent
  <2>5. ledger \in [Tasks -> Records \cup {Absent}]
    BY DEF TasksInv, TasksTypeOK, Ledgers
  <2>6. LedgerWith(e) \in Ledgers
    BY <2>2, <2>3, <2>5 DEF Ledgers
  <2>7. ASSUME NEW t \in Tasks
        PROVE  /\ Truthful(LedgerWith(e)[t], t) /\ Truthful(ledgerFile[t], t)
               /\ ledgerFile[t] # Absent =>
                    /\ LedgerWith(e)[t] # Absent
                    /\ ledgerFile[t].seen \subseteq LedgerWith(e)[t].seen
    <3>1. Truthful(ledger[t], t) /\ Truthful(ledgerFile[t], t)
      BY DEF TasksInv, Consistent
    <3>2. ledgerFile[t] # Absent => ledgerFile[t].seen \subseteq ledger[t].seen /\ ledger[t] # Absent
      BY DEF TasksInv, Consistent
    <3>3. CASE t = e.task
      <4>1. LedgerWith(e)[t] = Reflected(r, e)
        BY <1>1, <2>2, <2>5, <3>3
      <4>2. StatusOf(e.type) \in market[t].been
        BY <3>3 DEF TasksInv, EventsTrue
      <4>3. QED
        BY <2>3, <2>4, <3>1, <3>2, <3>3, <4>1, <4>2 DEF Truthful
    <3>4. CASE t # e.task
      <4>1. LedgerWith(e)[t] = ledger[t]
        BY <2>2, <2>5, <3>4
      <4>2. QED
        BY <3>1, <3>2, <4>1
    <3>5. QED
      BY <3>3, <3>4
  <2>8. \A t \in Tasks : ledger[t] = Absent <=> LedgerWith(e)[t] = Absent
    BY <1>1, <2>2, <2>4, <2>5
  <2>9. e.id \in LedgerWith(e)[e.task].seen
    BY <1>1, <2>2, <2>3, <2>5
  <2>10. QED
    BY <2>6, <2>7, <2>8, <2>9 DEF Consistent
<1>4. QED
  BY <1>2, <1>3

(* The file after a webhook, whose write is of the whole memory: it loses   *)
(* nothing that was answered.                                              *)
LEMMA FileWithConsistent ==
  ASSUME TasksInv, NEW e \in events
  PROVE  /\ FileWith(e) \in Ledgers
         /\ Consistent(LedgerWith(e), FileWith(e))
         /\ Keeps(FileWith(e))
         /\ \A t \in Tasks : ledger[t] = Absent => FileWith(e)[t] = Absent
         /\ Known(e) => FileWith(e)[e.task] # Absent /\ e.id \in FileWith(e)[e.task].seen
<1>1. /\ LedgerWith(e) \in Ledgers /\ Consistent(LedgerWith(e), ledgerFile)
      /\ \A t \in Tasks : ledger[t] = Absent <=> LedgerWith(e)[t] = Absent
      /\ Known(e) => e.id \in LedgerWith(e)[e.task].seen
  BY LedgerWithConsistent
<1>2. \A f \in answered : f.task \in Tasks
  BY DEF TasksInv, TasksTypeOK, Events
<1>3. e.task \in Tasks
  BY DEF TasksInv, TasksTypeOK, Events
<1>4. CASE Known(e)
  <2>1. FileWith(e) = LedgerWith(e)
    BY <1>4 DEF FileWith
  <2>2. Consistent(LedgerWith(e), LedgerWith(e))
    BY <1>1 DEF Consistent
  <2>3. Keeps(LedgerWith(e))
    BY <1>1, <1>2 DEF Consistent, Keeps, TasksInv
  <2>4. QED
    BY <1>1, <1>3, <1>4, <2>1, <2>2, <2>3 DEF Known
<1>5. CASE ~Known(e)
  BY <1>1, <1>5 DEF FileWith, TasksInv, TasksTypeOK, Consistent
<1>6. QED
  BY <1>4, <1>5

(* A step that changes neither ledger nor answers. *)
LEMMA LedgerKept ==
  ASSUME TasksInv,
         UNCHANGED <<paid, ledger, ledgerFile, answered, ignored>>,
         \A t \in Tasks : /\ market[t].been \subseteq market'[t].been
                          /\ posting[t] = "done" => posting'[t] = "done"
  PROVE  Consistent(ledger, ledgerFile)' /\ Keeps(ledgerFile)'
<1>1. ASSUME NEW t \in Tasks
      PROVE  Truthful(ledger[t], t)' /\ Truthful(ledgerFile[t], t)'
  BY DEF TasksInv, Consistent, Truthful
<1>2. QED
  BY <1>1 DEF TasksInv, Consistent, Keeps

(* A task moves at the marketplace, after it was posted: a new webhook      *)
(* announces the status it now has, and every status it had stays.         *)
LEMMA MovedStep ==
  ASSUME TasksInv, NEW t \in Tasks, NEW goods \in Goods, NEW type \in Types,
         market[t].status # "none", Moved(t, StatusOf(type), goods, type)
  PROVE  /\ market' \in [Tasks -> Market]
         /\ events' \in SUBSET Events /\ IsFiniteSet(events') /\ events \subseteq events'
         /\ \A u \in Tasks : market[u].been \subseteq market'[u].been
         /\ StatusOf(type) \in market'[t].been
         /\ EventsTrue'
         /\ \A u \in Tasks : posting[u] = "no" => market'[u] = market[u]
<1> DEFINE moved == [status |-> StatusOf(type), goods |-> goods,
                     been |-> market[t].been \cup {StatusOf(type)}]
           said  == [id |-> Cardinality(events), task |-> t, type |-> type,
                     goods |-> goods, at |-> now]
<1>1. market' = [market EXCEPT ![t] = moved] /\ events' = events \cup {said}
  BY DEF Moved
<1>2. market \in [Tasks -> Market] /\ events \in SUBSET Events /\ IsFiniteSet(events)
      /\ now \in Nat
  BY DEF TasksInv, TasksTypeOK
<1>3. StatusOf(type) \in MarketStatuses
  BY DEF StatusOf, Types, MarketStatuses
<1>4. moved \in Market
  BY <1>2, <1>3 DEF Market
<1>5. Cardinality(events) \in Nat
  BY <1>2, FS_CardinalityType
<1>6. said \in Events
  BY <1>2, <1>5 DEF Events
<1>7. said.task = t /\ said.type = type /\ moved.been = market[t].been \cup {StatusOf(type)}
  OBVIOUS
<1> HIDE DEF moved, said
<1>8. /\ market' \in [Tasks -> Market]
      /\ \A u \in Tasks : market[u].been \subseteq market'[u].been
      /\ StatusOf(type) \in market'[t].been
  BY <1>1, <1>2, <1>4, <1>7
<1>9. events' \in SUBSET Events /\ IsFiniteSet(events') /\ events \subseteq events'
  BY <1>1, <1>2, <1>6, FS_AddElement
<1>10. ASSUME NEW e \in events'
       PROVE  StatusOf(e.type) \in market'[e.task].been
  <2>1. CASE e = said
    BY <1>7, <1>8, <2>1
  <2>2. CASE e \in events
    BY <1>2, <1>8, <2>2 DEF TasksInv, EventsTrue, Events
  <2>3. QED
    BY <1>1, <1>10, <2>1, <2>2
<1>11. ASSUME NEW u \in Tasks, posting[u] = "no"
       PROVE  market'[u] = market[u]
  BY <1>1, <1>2, <1>11 DEF TasksInv, Unposted
<1>12. QED
  BY <1>8, <1>9, <1>10, <1>11 DEF EventsTrue

(* The invariant after a move, given what the move does to the checks. *)
LEMMA AfterMove ==
  ASSUME TasksInv, NEW t \in Tasks, NEW goods \in Goods, NEW type \in Types,
         market[t].status # "none", Moved(t, StatusOf(type), goods, type),
         UNCHANGED <<now, posting, paid, ledger, ledgerFile, answered, ignored>>,
         check' \in [Checks -> {Free} \cup [task : Tasks, goods : Goods, step : Steps]],
         ChecksTrue'
  PROVE  TasksInv'
<1>1. /\ market' \in [Tasks -> Market]
      /\ events' \in SUBSET Events /\ IsFiniteSet(events') /\ events \subseteq events'
      /\ \A u \in Tasks : market[u].been \subseteq market'[u].been
      /\ EventsTrue'
      /\ \A u \in Tasks : posting[u] = "no" => market'[u] = market[u]
  BY MovedStep
<1>2. TasksTypeOK'
  BY <1>1 DEF TasksInv, TasksTypeOK
<1>3. Consistent(ledger, ledgerFile)' /\ Keeps(ledgerFile)'
  BY <1>1, LedgerKept
<1>4. Unposted'
  BY <1>1 DEF TasksInv, Unposted
<1>5. QED
  BY <1>1, <1>2, <1>3, <1>4 DEF TasksInv

(* A check in its place: of which task, and how far. *)
LEMMA CheckShape ==
  ASSUME TasksInv, NEW c \in Checks, check[c] # Free
  PROVE  /\ check[c] \in [task : Tasks, goods : Goods, step : Steps]
         /\ check[c].task \in Tasks
         /\ ledger[check[c].task] # Absent
BY DEF TasksInv, TasksTypeOK, ChecksTrue

(* The marketplace moves by itself, or a verdict of the watcher lands. *)
LEMMA MarketStep ==
  ASSUME TasksInv,
         \/ \E t \in Tasks : MarketMoves(t)
         \/ \E c \in Checks : VerdictLands(c)
  PROVE  TasksInv'
<1>1. \A t \in Tasks : market[t].goods \in Goods /\ market[t].been \subseteq MarketStatuses
  BY DEF TasksInv, TasksTypeOK, Market
<1>2. ASSUME NEW t \in Tasks, MarketMoves(t)
      PROVE  TasksInv'
  <2>1. UNCHANGED <<now, posting, paid, ledger, ledgerFile, answered, ignored, check>>
    BY <1>2 DEF MarketMoves
  <2>2. PICK goods \in Goods, type \in Types :
          market[t].status # "none" /\ Moved(t, StatusOf(type), goods, type)
    <3>1. Deliverables \subseteq Goods
      BY DEF Goods
    <3>2. /\ StatusOf("task_accepted") = "in_progress"
          /\ StatusOf("delivery_submitted") = "delivered"
          /\ StatusOf("dispute_initiated") = "disputed"
          /\ StatusOf("escrow_released") = "completed"
          /\ {"task_accepted", "delivery_submitted", "dispute_initiated",
              "escrow_released"} \subseteq Types
      BY DEF StatusOf, Types
    <3>3. QED
      BY <1>1, <1>2, <3>1, <3>2 DEF MarketMoves
  <2>3. \A u \in Tasks : market[u].been \subseteq market'[u].been
    BY <2>2, MovedStep
  <2>4. check' \in [Checks -> {Free} \cup [task : Tasks, goods : Goods, step : Steps]]
    BY <2>1 DEF TasksInv, TasksTypeOK
  <2>5. ChecksTrue'
    <3>1. UNCHANGED <<check, ledger>>
      BY <2>1
    <3>2. \A c \in Checks : check[c] # Free => check[c].task \in Tasks
      BY CheckShape
    <3>3. QED
      BY <2>3, <3>1, <3>2 DEF TasksInv, ChecksTrue
  <2>6. QED
    BY <2>1, <2>2, <2>4, <2>5, AfterMove
<1>3. ASSUME NEW c \in Checks, VerdictLands(c)
      PROVE  TasksInv'
  <2> DEFINE t == check[c].task
  <2>1. /\ check[c] # Free /\ market[t].status = "delivered"
        /\ UNCHANGED <<now, posting, paid, ledger, ledgerFile, answered, ignored>>
    BY <1>3 DEF VerdictLands
  <2>2. t \in Tasks /\ check[c] \in [task : Tasks, goods : Goods, step : Steps]
    BY <2>1, CheckShape
  <2>3. PICK type \in {"escrow_released", "delivery_rejected"},
             step \in {"accepted", "refused"} :
          /\ Moved(t, StatusOf(type), market[t].goods, type)
          /\ check' = [check EXCEPT ![c].step = step]
          /\ step = "accepted" => StatusOf(type) = "completed"
          /\ step = "refused" => StatusOf(type) = "rejected"
    BY <1>3 DEF VerdictLands, StatusOf
  <2>4. type \in Types /\ market[t].status # "none" /\ market[t].goods \in Goods
    BY <1>1, <2>1, <2>2 DEF Types
  <2>5. PICK g : check[c] = [task |-> t, goods |-> g, step |-> check[c].step] /\ g \in Goods
    BY <2>2
  <2>6. check \in [Checks -> {Free} \cup [task : Tasks, goods : Goods, step : Steps]]
    BY DEF TasksInv, TasksTypeOK
  <2>7. check' = [check EXCEPT ![c] = [task |-> t, goods |-> g, step |-> step]]
    <3>1. check' = [check EXCEPT ![c] = [check[c] EXCEPT !.step = step]]
      BY <2>3
    <3>2. [check[c] EXCEPT !.step = step] = [task |-> t, goods |-> g, step |-> step]
      BY <2>5
    <3>3. QED
      BY <3>1, <3>2
  <2> HIDE DEF t
  <2>8. check' \in [Checks -> {Free} \cup [task : Tasks, goods : Goods, step : Steps]]
    BY <2>2, <2>5, <2>6, <2>7 DEF Steps
  <2>9. /\ \A u \in Tasks : market[u].been \subseteq market'[u].been
        /\ StatusOf(type) \in market'[t].been
    BY <2>2, <2>3, <2>4, MovedStep
  <2>10. ASSUME NEW b \in Checks, check'[b] # Free
         PROVE  /\ ledger[check'[b].task] # Absent
                /\ check'[b].step = "accepted" => "completed" \in market'[check'[b].task].been
                /\ check'[b].step = "refused" => "rejected" \in market'[check'[b].task].been
    <3>1. CASE b = c
      <4>1. check'[b].task = t /\ check'[b].step = step
        BY <2>6, <2>7, <3>1
      <4>2. ledger[t] # Absent
        BY <2>1, CheckShape DEF t
      <4>3. QED
        BY <2>3, <2>9, <4>1, <4>2
    <3>2. CASE b # c
      <4>1. check'[b] = check[b]
        BY <2>6, <2>7, <3>2
      <4>2. QED
        BY <2>9, <2>10, <4>1, CheckShape DEF TasksInv, ChecksTrue
    <3>3. QED
      BY <3>1, <3>2
  <2>11. ChecksTrue'
    BY <2>1, <2>10 DEF ChecksTrue
  <2>12. QED
    BY <2>1, <2>2, <2>3, <2>4, <2>8, <2>11, AfterMove
<1>4. QED
  BY <1>2, <1>3

-----------------------------------------------------------------------------
(* Steps that leave the marketplace alone. *)

CheckStates == {Free} \cup [task : Tasks, goods : Goods, step : Steps]

(* A check that starts reads a record of the ledger. *)
LEMMA CheckStarts ==
  ASSUME TasksInv, NEW c \in Checks, NEW t \in Tasks, NEW r \in Records,
         StartsCheck(c, t, r)
  PROVE  /\ check' \in [Checks -> CheckStates]
         /\ \A b \in Checks : \/ check'[b] = check[b]
                              \/ check'[b].task = t /\ check'[b].step = "evaluating"
<1>1. check' = [check EXCEPT ![c] = [task |-> t, goods |-> r.goods, step |-> "evaluating"]]
  BY DEF StartsCheck
<1>2. r.goods \in Goods /\ "evaluating" \in Steps
  BY DEF Records, Steps
<1>3. check \in [Checks -> CheckStates]
  BY DEF TasksInv, TasksTypeOK, CheckStates
<1>4. QED
  BY <1>1, <1>2, <1>3 DEF CheckStates

(* The invariant after a step that moves nothing but the checks. *)
LEMMA AfterCheck ==
  ASSUME TasksInv,
         UNCHANGED <<now, market, events, posting, paid, ledger, ledgerFile, answered, ignored>>,
         check' \in [Checks -> CheckStates],
         \A b \in Checks : \/ check'[b] \in {check[b], Free}
                           \/ /\ ledger[check'[b].task] # Absent
                              /\ check'[b].step \notin {"accepted", "refused"}
  PROVE  TasksInv'
<1>1. TasksTypeOK'
  BY DEF TasksInv, TasksTypeOK, CheckStates
<1>2. Consistent(ledger, ledgerFile)' /\ Keeps(ledgerFile)'
  BY LedgerKept
<1>3. Unposted' /\ EventsTrue'
  BY DEF TasksInv, Unposted, EventsTrue
<1>4. ASSUME NEW b \in Checks, check'[b] # Free
      PROVE  /\ ledger[check'[b].task] # Absent
             /\ check'[b].step = "accepted" => "completed" \in market[check'[b].task].been
             /\ check'[b].step = "refused" => "rejected" \in market[check'[b].task].been
  <2>1. CASE check'[b] = check[b]
    BY <1>4, <2>1 DEF TasksInv, ChecksTrue
  <2>2. CASE check'[b] # check[b]
    BY <1>4, <2>2
  <2>3. QED
    BY <2>1, <2>2
<1>5. ChecksTrue'
  BY <1>4 DEF ChecksTrue
<1>6. QED
  BY <1>1, <1>2, <1>3, <1>5 DEF TasksInv

(* The watcher's own steps. *)
LEMMA CheckStep ==
  ASSUME TasksInv, NEW c \in Checks,
         \/ \E t \in Tasks : PollChecks(c, t)
         \/ Evaluates(c) \/ VerdictFails(c)
  PROVE  TasksInv'
<1>1. check \in [Checks -> CheckStates]
  BY DEF TasksInv, TasksTypeOK, CheckStates
<1>2. ASSUME NEW t \in Tasks, PollChecks(c, t)
      PROVE  TasksInv'
  <2>1. ledger[t] \in Records /\ ledger[t] # Absent
    BY <1>2 DEF PollChecks, TasksInv, TasksTypeOK, Ledgers
  <2>2. /\ check' \in [Checks -> CheckStates]
        /\ \A b \in Checks : \/ check'[b] = check[b]
                             \/ check'[b].task = t /\ check'[b].step = "evaluating"
    BY <1>2, <2>1, CheckStarts DEF PollChecks
  <2>3. UNCHANGED <<now, market, events, posting, paid, ledger, ledgerFile, answered, ignored>>
    BY <1>2 DEF PollChecks
  <2>4. QED
    BY <2>1, <2>2, <2>3, AfterCheck
<1>3. CASE Evaluates(c) \/ VerdictFails(c)
  <2>1. UNCHANGED <<now, market, events, posting, paid, ledger, ledgerFile, answered, ignored>>
    BY <1>3 DEF Evaluates, VerdictFails
  <2>2. check[c] # Free
    BY <1>3 DEF Evaluates, VerdictFails
  <2>3. /\ check[c].task \in Tasks /\ ledger[check[c].task] # Absent
        /\ check[c] \in [task : Tasks, goods : Goods, step : Steps]
    BY <2>2, CheckShape
  <2>4. CASE check' = [check EXCEPT ![c] = Free]
    <3>1. check' \in [Checks -> CheckStates]
      BY <1>1, <2>4 DEF CheckStates
    <3>2. \A b \in Checks : check'[b] \in {check[b], Free}
      BY <1>1, <2>4
    <3>3. QED
      BY <2>1, <3>1, <3>2, AfterCheck
  <2>5. ASSUME NEW step \in {"accepting", "rejecting"},
               check' = [check EXCEPT ![c].step = step]
        PROVE  TasksInv'
    <3>1. PICK t \in Tasks, g \in Goods :
             \E s : check[c] = [task |-> t, goods |-> g, step |-> s]
      BY <2>3
    <3>2. check' = [check EXCEPT ![c] = [check[c] EXCEPT !.step = step]]
      BY <2>5
    <3>3. check' = [check EXCEPT ![c] = [task |-> t, goods |-> g, step |-> step]]
      <4>1. [check[c] EXCEPT !.step = step] = [task |-> t, goods |-> g, step |-> step]
        BY <3>1
      <4>2. QED
        BY <3>2, <4>1
    <3>4. step \in Steps /\ check[c].task = t
      BY <3>1 DEF Steps
    <3>5. check' \in [Checks -> CheckStates]
      BY <1>1, <3>3, <3>4 DEF CheckStates
    <3>6. \A b \in Checks : check'[b] = check[b] \/ (check'[b].task = t /\ check'[b].step = step)
      BY <1>1, <3>3
    <3>7. \A b \in Checks : \/ check'[b] \in {check[b], Free}
                            \/ /\ ledger[check'[b].task] # Absent
                               /\ check'[b].step \notin {"accepted", "refused"}
      BY <2>3, <3>4, <3>6
    <3>8. QED
      BY <2>1, <3>5, <3>7, AfterCheck
  <2>6. QED
    BY <1>3, <2>4, <2>5 DEF Evaluates, VerdictFails
<1>4. QED
  BY <1>2, <1>3

(* The invariant after a step that rewrites the ledger or its file. *)
LEMMA AfterLedger ==
  ASSUME TasksInv, UNCHANGED <<now, market, events, paid>>,
         \A t \in Tasks : posting[t] = "done" => posting'[t] = "done",
         posting' \in [Tasks -> PostingSteps],
         ledger' \in Ledgers, ledgerFile' \in Ledgers,
         Consistent(ledger', ledgerFile'), Keeps(ledgerFile)',
         answered' \subseteq events, Unposted',
         check' \in [Checks -> CheckStates], ChecksTrue'
  PROVE  TasksInv'
<1>1. TasksTypeOK'
  BY DEF TasksInv, TasksTypeOK, CheckStates
<1>2. Consistent(ledger, ledgerFile)'
  BY DEF Consistent, Truthful
<1>3. EventsTrue'
  BY DEF TasksInv, EventsTrue
<1>4. QED
  BY <1>1, <1>2, <1>3 DEF TasksInv

(* A file that replaces, or fails to replace, the one there was. *)
LEMMA WritesLedger ==
  ASSUME TasksInv, ledger' \in Ledgers, Consistent(ledger', ledgerFile),
         \A e \in answered \ ignored : ledger'[e.task] # Absent /\ e.id \in ledger'[e.task].seen,
         Writes(ledgerFile, ledger')
  PROVE  ledgerFile' \in Ledgers /\ Consistent(ledger', ledgerFile') /\ Keeps(ledgerFile')
<1>1. ledgerFile \in Ledgers /\ Keeps(ledgerFile)
  BY DEF TasksInv, TasksTypeOK
<1>2. CASE ledgerFile' = ledger'
  <2>1. Consistent(ledger', ledger')
    BY DEF Consistent
  <2>2. Keeps(ledger')
    BY DEF Keeps
  <2>3. QED
    BY <1>2, <2>1, <2>2
<1>3. CASE ledgerFile' = ledgerFile
  BY <1>1, <1>3
<1>4. QED
  BY <1>2, <1>3 DEF Writes

-----------------------------------------------------------------------------
(* Posting. *)

(* A task is asked of the marketplace, which answers or does not. *)
LEMMA PostStep ==
  ASSUME TasksInv, NEW t \in Tasks, PostTask(t)
  PROVE  TasksInv'
<1>1. /\ posting[t] = "no"
      /\ UNCHANGED <<now, events, paid, ledger, ledgerFile, answered, ignored, check>>
  BY DEF PostTask
<1>2. market[t].been = {} /\ market \in [Tasks -> Market]
  BY <1>1 DEF TasksInv, Unposted, TasksTypeOK
<1>3. PICK step \in {"answered", "unanswered"} :
        /\ posting' = [posting EXCEPT ![t] = step]
        /\ \/ market' = [market EXCEPT ![t] = [status |-> "open", been |-> {"open"},
                                               goods |-> "none"]]
           \/ market' = market
  BY DEF PostTask
<1>4. /\ market' \in [Tasks -> Market]
      /\ \A u \in Tasks : market[u].been \subseteq market'[u].been
      /\ \A u \in Tasks \ {t} : market'[u] = market[u]
  <2>1. [status |-> "open", been |-> {"open"}, goods |-> "none"] \in Market
    BY DEF Market, MarketStatuses, Goods
  <2>2. QED
    BY <1>2, <1>3, <2>1
<1>5. TasksTypeOK'
  BY <1>1, <1>3, <1>4 DEF TasksInv, TasksTypeOK, PostingSteps
<1>6. Consistent(ledger, ledgerFile)' /\ Keeps(ledgerFile)'
  <2>1. \A u \in Tasks : posting[u] = "done" => posting'[u] = "done"
    BY <1>1, <1>3 DEF TasksInv, TasksTypeOK
  <2>2. QED
    BY <1>1, <1>4, <2>1, LedgerKept
<1>7. Unposted'
  BY <1>1, <1>3, <1>4 DEF TasksInv, TasksTypeOK, Unposted
<1>8. EventsTrue'
  BY <1>1, <1>4 DEF TasksInv, TasksTypeOK, EventsTrue, Events
<1>9. ChecksTrue'
  <2>1. UNCHANGED <<check, ledger>>
    BY <1>1
  <2>2. \A c \in Checks : check[c] # Free => check[c].task \in Tasks
    BY CheckShape
  <2>3. QED
    BY <1>4, <2>1, <2>2 DEF TasksInv, ChecksTrue
<1>10. QED
  BY <1>5, <1>6, <1>7, <1>8, <1>9 DEF TasksInv

(* The post returns and the task enters the ledger, whose file may fail to  *)
(* be written.  No webhook was answered for a task not in the ledger.      *)
LEMMA PostReturnsStep ==
  ASSUME TasksInv, NEW t \in Tasks, PostReturns(t)
  PROVE  TasksInv'
<1> DEFINE r == [status |-> "created", goods |-> "none", at |-> now,
                 linked |-> posting[t] = "answered", seen |-> {}]
<1>1. /\ posting[t] \in {"answered", "unanswered"}
      /\ ledger' = [ledger EXCEPT ![t] = r]
      /\ Writes(ledgerFile, ledger')
      /\ \E next \in {"unpaid", "done"} : posting' = [posting EXCEPT ![t] = next]
      /\ UNCHANGED <<now, market, events, paid, answered, ignored, check>>
  BY DEF PostReturns, Writes
<1>2. r \in Records /\ r.status = "created"
  BY DEF TasksInv, TasksTypeOK, Records, LedgerStatuses, Goods
<1>3. r # Absent
  BY <1>2, RecordPresent
<1> HIDE DEF r
<1>4. ledger \in Ledgers /\ posting \in [Tasks -> PostingSteps]
  BY DEF TasksInv, TasksTypeOK
<1>5. ledger[t] = Absent /\ ledgerFile[t] = Absent
  BY <1>1 DEF TasksInv, Unposted
<1>6. ledger' \in Ledgers /\ ledger'[t] = r /\ \A u \in Tasks \ {t} : ledger'[u] = ledger[u]
  BY <1>1, <1>2, <1>4 DEF Ledgers
<1>7. Consistent(ledger', ledgerFile)
  BY <1>2, <1>5, <1>6 DEF TasksInv, Consistent, Truthful
<1>8. \A e \in answered \ ignored : ledger'[e.task] # Absent /\ e.id \in ledger'[e.task].seen
  <2>1. \A e \in answered \ ignored : ledgerFile[e.task] # Absent /\ e.id \in ledgerFile[e.task].seen
    BY DEF TasksInv, Keeps
  <2>2. \A e \in answered : e.task \in Tasks
    BY DEF TasksInv, TasksTypeOK, Events
  <2>3. QED
    BY <1>5, <1>7, <2>1, <2>2 DEF Consistent
<1>9. ledgerFile' \in Ledgers /\ Consistent(ledger', ledgerFile') /\ Keeps(ledgerFile')
  BY <1>1, <1>6, <1>7, <1>8, WritesLedger
<1>10. Keeps(ledgerFile)'
  BY <1>1, <1>9 DEF Keeps
<1>11. Unposted'
  <2>1. \A u \in Tasks \ {t} : posting'[u] = posting[u]
    BY <1>1, <1>4
  <2>2. posting'[t] \in {"unpaid", "done"}
    BY <1>1, <1>4
  <2>3. \A u \in Tasks \ {t} : ledgerFile[u] = Absent /\ ledger[u] = Absent => ledgerFile'[u] = Absent
    BY <1>1, <1>6 DEF Writes
  <2>4. QED
    BY <1>1, <1>3, <1>6, <2>1, <2>2, <2>3 DEF TasksInv, Unposted
<1>12. ChecksTrue'
  <2>1. \A c \in Checks : check[c] # Free => check[c].task # t /\ check[c].task \in Tasks
    BY <1>5, CheckShape
  <2>2. QED
    BY <1>1, <1>6, <2>1 DEF TasksInv, ChecksTrue
<1>13. check' \in [Checks -> CheckStates] /\ answered' \subseteq events
  BY <1>1 DEF TasksInv, TasksTypeOK, CheckStates
<1>14. posting' \in [Tasks -> PostingSteps]
  BY <1>1, <1>4 DEF PostingSteps
<1>15. QED
  BY <1>1, <1>6, <1>9, <1>10, <1>11, <1>12, <1>13, <1>14, AfterLedger

-----------------------------------------------------------------------------
(* The hire behind a post. *)

(* The payment lands at the CLI, and neither ledger nor file says so yet. *)
LEMMA PaymentStep ==
  ASSUME TasksInv, NEW t \in Tasks, PaymentLands(t)
  PROVE  TasksInv'
<1>1. /\ posting[t] = "unpaid" /\ posting' = [posting EXCEPT ![t] = "paid"]
      /\ paid' = paid \union {t}
      /\ UNCHANGED <<now, market, events, ledger, ledgerFile, answered, ignored, check>>
  BY DEF PaymentLands
<1>2. posting \in [Tasks -> PostingSteps]
  BY DEF TasksInv, TasksTypeOK
<1>3. TasksTypeOK'
  BY <1>1 DEF TasksInv, TasksTypeOK, PostingSteps
<1>4. ASSUME NEW u \in Tasks
      PROVE  Truthful(ledger[u], u)' /\ Truthful(ledgerFile[u], u)'
  BY <1>1, <1>2 DEF TasksInv, Consistent, Truthful
<1>5. Consistent(ledger, ledgerFile)' /\ Keeps(ledgerFile)'
  BY <1>1, <1>4 DEF TasksInv, Consistent, Keeps
<1>6. Unposted' /\ EventsTrue' /\ ChecksTrue'
  BY <1>1, <1>2 DEF TasksInv, Unposted, EventsTrue, ChecksTrue
<1>7. QED
  BY <1>3, <1>5, <1>6 DEF TasksInv

(* A ledger with another status for a task that it knows. *)
LEMMA SaidLedger ==
  ASSUME TasksInv, NEW t \in Tasks, ledger[t] # Absent, NEW status \in LedgerStatuses
  PROVE  /\ LedgerSaying(t, status) \in Ledgers
         /\ LedgerSaying(t, status)[t] # Absent
         /\ LedgerSaying(t, status)[t].status = status
         /\ LedgerSaying(t, status)[t].seen = ledger[t].seen
         /\ \A u \in Tasks \ {t} : LedgerSaying(t, status)[u] = ledger[u]
<1>1. ledger \in [Tasks -> Records \cup {Absent}]
  BY DEF TasksInv, TasksTypeOK, Ledgers
<1>2. PICK s \in LedgerStatuses, g \in Goods, a \in Nat, l \in BOOLEAN, n \in SUBSET Nat :
        ledger[t] = [status |-> s, goods |-> g, at |-> a, linked |-> l, seen |-> n]
  BY <1>1 DEF Records
<1> DEFINE r == [status |-> status, goods |-> g, at |-> a, linked |-> l, seen |-> n]
<1>3. r \in Records /\ r.status = status /\ r.seen = ledger[t].seen
  BY <1>2 DEF Records
<1>4. r # Absent
  BY <1>3, RecordPresent
<1>5. LedgerSaying(t, status) = [ledger EXCEPT ![t] = r]
  <2>1. LedgerSaying(t, status) = [ledger EXCEPT ![t] = [ledger[t] EXCEPT !.status = status]]
    BY DEF LedgerSaying
  <2>2. [ledger[t] EXCEPT !.status = status] = r
    BY <1>2
  <2>3. QED
    BY <2>1, <2>2
<1> HIDE DEF r
<1>6. QED
  BY <1>1, <1>3, <1>4, <1>5 DEF Ledgers

(* The ledger as it is, but for what the hire of t has come to. *)
Told(l, t) ==
  /\ l \in Ledgers /\ l[t] # Absent /\ l[t].seen = ledger[t].seen
  /\ l[t].status = "failed" \/ (l[t].status = "in_progress" /\ t \in paid)
  /\ \A u \in Tasks \ {t} : l[u] = ledger[u]

(* The hire ends and says so of its task, in memory and perhaps in the     *)
(* file: a task in progress is one it has paid for, a failed one is given  *)
(* up.  What the record had taken in stays.                                *)
LEMMA HireStep ==
  ASSUME TasksInv, NEW t \in Tasks, HireSucceeds(t) \/ HireFails(t)
  PROVE  TasksInv'
<1>1. PICK said \in {"in_progress", "failed"} :
        /\ ledger' = LedgerSaying(t, said)
        /\ said = "in_progress" => posting[t] = "paid"
        /\ \/ ledgerFile' \in {ledger', ledgerFile}
           \/ posting[t] = "paid" /\ ledgerFile' = LedgerSaying(t, "in_progress")
  BY DEF HireSucceeds, HireFails, Writes
<1>2. /\ posting[t] \in {"unpaid", "paid"}
      /\ posting' = [posting EXCEPT ![t] = "done"]
      /\ UNCHANGED <<now, market, events, paid, answered, ignored, check>>
  BY DEF HireSucceeds, HireFails
<1>3. /\ posting \in [Tasks -> PostingSteps] /\ ledger \in Ledgers /\ ledgerFile \in Ledgers
      /\ ledger[t] # Absent
      /\ posting[t] = "paid" => t \in paid
  BY <1>2 DEF TasksInv, TasksTypeOK, Unposted
<1>4. posting' \in [Tasks -> PostingSteps] /\ posting'[t] = "done"
      /\ \A u \in Tasks \ {t} : posting'[u] = posting[u]
  BY <1>2, <1>3 DEF PostingSteps
<1>5. Told(ledger', t) /\ (Told(ledgerFile', t) \/ ledgerFile' = ledgerFile)
  <2>1. Told(ledger', t)
    BY <1>1, <1>3, SaidLedger DEF LedgerStatuses, Told
  <2>2. posting[t] = "paid" => Told(LedgerSaying(t, "in_progress"), t)
    BY <1>3, SaidLedger DEF LedgerStatuses, Told
  <2>3. QED
    BY <1>1, <2>1, <2>2
<1>6. \A u \in Tasks :
        /\ Truthful(ledger[u], u) /\ Truthful(ledgerFile[u], u)
        /\ ledgerFile[u] # Absent =>
             ledger[u] # Absent /\ ledgerFile[u].seen \subseteq ledger[u].seen
  BY DEF TasksInv, Consistent
<1>7. ASSUME NEW u \in Tasks
      PROVE  /\ Truthful(ledger[u], u)' /\ Truthful(ledgerFile[u], u)'
             /\ ledgerFile'[u] # Absent =>
                  ledger'[u] # Absent /\ ledgerFile'[u].seen \subseteq ledger'[u].seen
  <2>1. ASSUME NEW l, Told(l, t)
        PROVE  l[u] # Absent =>
                 \/ l[u].status = "created"
                 \/ l[u].status \in market'[u].been
                 \/ l[u].status = "in_progress" /\ u \in paid'
                 \/ l[u].status = "failed" /\ posting'[u] = "done"
    <3>1. CASE u = t
      BY <1>2, <1>4, <2>1, <3>1 DEF Told
    <3>2. CASE u # t
      BY <1>2, <1>4, <1>6, <2>1, <3>2 DEF Told, Truthful
    <3>3. QED
      BY <3>1, <3>2
  <2>2. Truthful(ledger[u], u)'
    BY <1>5, <2>1 DEF Truthful
  <2>3. Truthful(ledgerFile[u], u)'
    <3>1. CASE Told(ledgerFile', t)
      BY <2>1, <3>1 DEF Truthful
    <3>2. CASE ledgerFile' = ledgerFile
      BY <1>2, <1>4, <1>6, <3>2 DEF Truthful
    <3>3. QED
      BY <1>5, <3>1, <3>2
  <2>4. ledgerFile'[u] # Absent =>
          ledger'[u] # Absent /\ ledgerFile'[u].seen \subseteq ledger'[u].seen
    <3>1. CASE u = t
      BY <1>5, <1>6, <3>1 DEF Told
    <3>2. CASE u # t
      BY <1>5, <1>6, <3>2 DEF Told
    <3>3. QED
      BY <3>1, <3>2
  <2>5. QED
    BY <2>2, <2>3, <2>4
<1>8. Consistent(ledger, ledgerFile)'
  BY <1>7 DEF Consistent
<1>9. Keeps(ledgerFile)'
  <2>1. \A e \in answered : e.task \in Tasks
    BY DEF TasksInv, TasksTypeOK, Events
  <2>2. QED
    BY <1>2, <1>5, <1>6, <2>1 DEF Told, TasksInv, Keeps
<1>10. TasksTypeOK'
  BY <1>2, <1>3, <1>4, <1>5 DEF Told, TasksInv, TasksTypeOK
<1>11. Unposted'
  BY <1>2, <1>4, <1>5 DEF Told, TasksInv, Unposted
<1>12. EventsTrue'
  BY <1>2 DEF TasksInv, EventsTrue
<1>13. ChecksTrue'
  <2>1. \A c \in Checks : check[c] # Free => check[c].task \in Tasks
    BY CheckShape
  <2>2. QED
    BY <1>2, <1>5, <2>1 DEF Told, TasksInv, ChecksTrue
<1>14. QED
  BY <1>8, <1>9, <1>10, <1>11, <1>12, <1>13 DEF TasksInv

-----------------------------------------------------------------------------
(* Webhooks. *)

(* A webhook moves memory and file; a delivery may start a check of the     *)
(* record it has just written.                                             *)
LEMMA AnnouncedChecks ==
  ASSUME TasksInv, NEW e \in events, Announced(e), ledger' = LedgerWith(e), UNCHANGED market
  PROVE  check' \in [Checks -> CheckStates] /\ ChecksTrue'
<1>1. /\ LedgerWith(e) \in Ledgers
      /\ \A t \in Tasks : ledger[t] = Absent <=> LedgerWith(e)[t] = Absent
  BY LedgerWithConsistent
<1>2. check \in [Checks -> CheckStates] /\ e \in Events /\ e.task \in Tasks
  BY DEF TasksInv, TasksTypeOK, CheckStates, Events
<1>3. \A c \in Checks : check[c] # Free => check[c].task \in Tasks
  BY CheckShape
<1>4. CASE UNCHANGED check
  BY <1>1, <1>2, <1>3, <1>4 DEF TasksInv, ChecksTrue
<1>5. ASSUME NEW c \in Checks, Known(e),
             StartsCheck(c, e.task, Reflected(ledger[e.task], e))
      PROVE  check' \in [Checks -> CheckStates] /\ ChecksTrue'
  <2>1. ledger[e.task] \in Records /\ ledger[e.task] # Absent
    BY <1>2, <1>5 DEF Known, TasksInv, TasksTypeOK, Ledgers
  <2>2. Reflected(ledger[e.task], e) \in Records
    BY <1>2, <2>1, ReflectedRecord
  <2>3. /\ check' \in [Checks -> CheckStates]
        /\ \A b \in Checks : \/ check'[b] = check[b]
                             \/ check'[b].task = e.task /\ check'[b].step = "evaluating"
    BY <1>2, <1>5, <2>2, CheckStarts
  <2>4. ASSUME NEW b \in Checks, check'[b] # Free
        PROVE  /\ ledger'[check'[b].task] # Absent
               /\ check'[b].step = "accepted" => "completed" \in market[check'[b].task].been
               /\ check'[b].step = "refused" => "rejected" \in market[check'[b].task].been
    <3>1. CASE check'[b] = check[b]
      BY <1>1, <1>3, <2>4, <3>1 DEF TasksInv, ChecksTrue
    <3>2. CASE check'[b].task = e.task /\ check'[b].step = "evaluating"
      BY <1>1, <1>2, <2>1, <3>2
    <3>3. QED
      BY <2>3, <3>1, <3>2
  <2>5. QED
    BY <2>3, <2>4 DEF ChecksTrue
<1>6. QED
  BY <1>4, <1>5 DEF Announced

(* The webhook route: whatever becomes of the journal, what is answered is  *)
(* in the ledger's file before it is answered.                             *)
LEMMA WebhookStep ==
  ASSUME TasksInv, NEW e \in events, Webhook(e) \/ WebhookUnsaved(e)
  PROVE  TasksInv'
<1>1. ledger' = LedgerWith(e) /\ UNCHANGED <<now, market, events, posting, paid>>
  BY DEF Webhook, WebhookUnsaved
<1>2. /\ LedgerWith(e) \in Ledgers
      /\ Consistent(LedgerWith(e), ledgerFile)
      /\ \A t \in Tasks : ledger[t] = Absent <=> LedgerWith(e)[t] = Absent
  BY LedgerWithConsistent
<1>3. /\ FileWith(e) \in Ledgers
      /\ Consistent(LedgerWith(e), FileWith(e))
      /\ Keeps(FileWith(e))
      /\ \A t \in Tasks : ledger[t] = Absent => FileWith(e)[t] = Absent
      /\ Known(e) => FileWith(e)[e.task] # Absent /\ e.id \in FileWith(e)[e.task].seen
  BY FileWithConsistent
<1>4. posting' \in [Tasks -> PostingSteps]
  BY <1>1 DEF TasksInv, TasksTypeOK
<1>5. answered \subseteq events /\ ledgerFile \in Ledgers
  BY DEF TasksInv, TasksTypeOK
<1>6. CASE Webhook(e)
  <2>1. /\ ledgerFile' = FileWith(e) /\ Announced(e)
        /\ ignored' = IF Known(e) THEN ignored ELSE ignored \cup {e}
        /\ answered' \in {answered, answered \cup {e}}
    BY <1>6 DEF Webhook, Ignoring
  <2>2. \A f \in answered' \ ignored' : f \in answered \ ignored \/ (f = e /\ Known(e))
    BY <2>1
  <2>3. Keeps(ledgerFile)'
    BY <1>3, <2>1, <2>2 DEF Keeps
  <2>4. Unposted'
    BY <1>1, <1>2, <1>3, <2>1 DEF TasksInv, Unposted
  <2>5. check' \in [Checks -> CheckStates] /\ ChecksTrue'
    BY <1>1, <2>1, AnnouncedChecks
  <2>6. answered' \subseteq events
    BY <1>5, <2>1
  <2>7. QED
    BY <1>1, <1>2, <1>3, <1>4, <2>1, <2>3, <2>4, <2>5, <2>6, AfterLedger
<1>7. CASE WebhookUnsaved(e)
  <2>1. UNCHANGED <<ledgerFile, answered, ignored, check>>
    BY <1>7 DEF WebhookUnsaved
  <2>2. Keeps(ledgerFile)'
    BY <2>1 DEF TasksInv, Keeps
  <2>3. Unposted'
    BY <1>1, <1>2, <2>1 DEF TasksInv, Unposted
  <2>4. \A c \in Checks : check[c] # Free => check[c].task \in Tasks
    BY CheckShape
  <2>5. check' \in [Checks -> CheckStates] /\ ChecksTrue'
    BY <1>1, <1>2, <2>1, <2>4 DEF TasksInv, TasksTypeOK, CheckStates, ChecksTrue
  <2>6. QED
    BY <1>1, <1>2, <1>4, <1>5, <2>1, <2>2, <2>3, <2>5, AfterLedger
<1>8. QED
  BY <1>6, <1>7

-----------------------------------------------------------------------------
(* A verdict comes back, and the process dies. *)

(* The verdict written over whatever the record has become is one that      *)
(* landed; the webhooks the record reflects stay.                          *)
LEMMA VerdictStep ==
  ASSUME TasksInv, NEW c \in Checks, VerdictReturns(c)
  PROVE  TasksInv'
<1> DEFINE t == check[c].task
           v == IF check[c].step = "accepted" THEN "completed" ELSE "rejected"
<1>1. /\ check[c] # Free /\ check[c].step \in {"accepted", "refused"}
      /\ ledger' = [ledger EXCEPT ![t].status = v]
      /\ Writes(ledgerFile, ledger')
      /\ check' = [check EXCEPT ![c] = Free]
      /\ UNCHANGED <<now, market, events, posting, paid, answered, ignored>>
  BY DEF VerdictReturns
<1>2. t \in Tasks /\ ledger[t] # Absent
  BY <1>1, CheckShape
<1>3. v \in market[t].been /\ v \in LedgerStatuses
  BY <1>1 DEF TasksInv, ChecksTrue, LedgerStatuses
<1> HIDE DEF t, v
<1>4. ledger \in Ledgers /\ check \in [Checks -> CheckStates]
  BY DEF TasksInv, TasksTypeOK, CheckStates
<1>5. PICK r \in Records : /\ ledger' = [ledger EXCEPT ![t] = r]
                           /\ r.status = v /\ r.seen = ledger[t].seen
  <2>1. ledger[t] \in Records
    BY <1>2, <1>4 DEF Ledgers
  <2>2. PICK s \in LedgerStatuses, g \in Goods, a \in Nat, l \in BOOLEAN, n \in SUBSET Nat :
          ledger[t] = [status |-> s, goods |-> g, at |-> a, linked |-> l, seen |-> n]
    BY <2>1 DEF Records
  <2>3. ledger' = [ledger EXCEPT ![t] = [ledger[t] EXCEPT !.status = v]]
    BY <1>1
  <2>4. [ledger[t] EXCEPT !.status = v]
          = [status |-> v, goods |-> g, at |-> a, linked |-> l, seen |-> n]
    BY <2>2
  <2>5. [status |-> v, goods |-> g, at |-> a, linked |-> l, seen |-> n] \in Records
    BY <1>3 DEF Records
  <2>6. QED
    BY <2>2, <2>3, <2>4, <2>5
<1>6. /\ ledger' \in Ledgers /\ ledger'[t] = r /\ r # Absent
      /\ \A u \in Tasks \ {t} : ledger'[u] = ledger[u]
  BY <1>2, <1>4, <1>5, RecordPresent DEF Ledgers
<1>7. Consistent(ledger', ledgerFile)
  BY <1>2, <1>3, <1>5, <1>6 DEF TasksInv, Consistent, Truthful
<1>8. \A e \in answered \ ignored : ledger'[e.task] # Absent /\ e.id \in ledger'[e.task].seen
  <2>1. \A e \in answered \ ignored : ledgerFile[e.task] # Absent /\ e.id \in ledgerFile[e.task].seen
    BY DEF TasksInv, Keeps
  <2>2. \A e \in answered : e.task \in Tasks
    BY DEF TasksInv, TasksTypeOK, Events
  <2>3. QED
    BY <1>7, <2>1, <2>2 DEF Consistent
<1>9. ledgerFile' \in Ledgers /\ Consistent(ledger', ledgerFile') /\ Keeps(ledgerFile')
  BY <1>1, <1>6, <1>7, <1>8, WritesLedger
<1>10. Keeps(ledgerFile)'
  BY <1>1, <1>9 DEF Keeps
<1>11. \A u \in Tasks : ledger[u] = Absent <=> ledger'[u] = Absent
  BY <1>2, <1>6
<1>12. Unposted'
  BY <1>1, <1>11 DEF TasksInv, Unposted, Writes
<1>13. check' \in [Checks -> CheckStates] /\ \A b \in Checks : check'[b] \in {check[b], Free}
  BY <1>1, <1>4 DEF CheckStates
<1>14. \A b \in Checks : check[b] # Free => check[b].task \in Tasks
  BY CheckShape
<1>15. ChecksTrue'
  BY <1>1, <1>11, <1>13, <1>14 DEF TasksInv, ChecksTrue
<1>16. /\ answered' \subseteq events
       /\ posting' \in [Tasks -> PostingSteps]
  BY <1>1 DEF TasksInv, TasksTypeOK
<1>17. QED
  BY <1>1, <1>6, <1>9, <1>10, <1>12, <1>13, <1>15, <1>16, AfterLedger

(* The process dies, perhaps between the ledger's write and the journal's:  *)
(* the memory is the file now, and no post or check is under way.          *)
LEMMA CrashStep ==
  ASSUME TasksInv, TasksCrash \/ \E e \in events : CrashInWebhook(e)
  PROVE  TasksInv'
<1>1. /\ UNCHANGED <<now, market, events, paid, answered>>
      /\ check' = [c \in Checks |-> Free]
      /\ posting' = [t \in Tasks |-> IF posting[t] = "no" THEN "no" ELSE "done"]
      /\ ledger' = ledgerFile' /\ ignored \subseteq ignored'
  BY DEF TasksCrash, CrashInWebhook, Ignoring
<1>2. /\ ledgerFile' \in Ledgers
      /\ Consistent(ledgerFile', ledgerFile')
      /\ Keeps(ledgerFile')
      /\ \A t \in Tasks : ledger[t] = Absent => ledgerFile'[t] = Absent
  <2>1. CASE TasksCrash
    BY <2>1 DEF TasksCrash, TasksInv, TasksTypeOK, Consistent
  <2>2. ASSUME NEW e \in events, CrashInWebhook(e)
        PROVE  /\ ledgerFile' \in Ledgers
               /\ Consistent(ledgerFile', ledgerFile')
               /\ Keeps(ledgerFile')
               /\ \A t \in Tasks : ledger[t] = Absent => ledgerFile'[t] = Absent
    <3>1. ledgerFile' = FileWith(e)
      BY <2>2 DEF CrashInWebhook
    <3>2. /\ FileWith(e) \in Ledgers
          /\ Consistent(LedgerWith(e), FileWith(e))
          /\ Keeps(FileWith(e))
          /\ \A t \in Tasks : ledger[t] = Absent => FileWith(e)[t] = Absent
      BY FileWithConsistent
    <3>3. Consistent(FileWith(e), FileWith(e))
      BY <3>2 DEF Consistent
    <3>4. QED
      BY <3>1, <3>2, <3>3
  <2>3. QED
    BY <2>1, <2>2
<1>3. Keeps(ledgerFile)'
  BY <1>1, <1>2 DEF Keeps
<1>4. posting' \in [Tasks -> PostingSteps]
  BY <1>1 DEF PostingSteps
<1>5. Unposted'
  BY <1>1, <1>2 DEF TasksInv, Unposted
<1>6. check' \in [Checks -> CheckStates] /\ ChecksTrue'
  BY <1>1 DEF CheckStates, ChecksTrue
<1>7. answered' \subseteq events
  BY <1>1 DEF TasksInv, TasksTypeOK
<1>8. QED
  BY <1>1, <1>2, <1>3, <1>4, <1>5, <1>6, <1>7, AfterLedger

(* Nothing but the clock moves, or the dispute evaluator. *)
LEMMA IdleStep ==
  ASSUME TasksInv, now' \in Nat,
         UNCHANGED <<market, events, posting, paid, ledger, ledgerFile, answered, ignored, check>>
  PROVE  TasksInv'
BY DEF TasksInv, TasksTypeOK, Consistent, Truthful, Keeps, Unposted, EventsTrue, ChecksTrue

(* Every step keeps the ledger truthful and what was answered. *)
LEMMA TasksStep ==
  ASSUME TasksInv, [Next]_vars
  PROVE  TasksInv'
<1>1. CASE TasksNext
  <2>1. CASE Tick
    BY <2>1, IdleStep DEF Tick, TasksInv, TasksTypeOK
  <2>2. CASE \E t \in Tasks : \/ MarketMoves(t) \/ PostTask(t) \/ PostReturns(t)
                             \/ PaymentLands(t) \/ HireSucceeds(t) \/ HireFails(t)
    BY <2>2, MarketStep, PostStep, PostReturnsStep, PaymentStep, HireStep
  <2>3. CASE \E e \in events : Webhook(e) \/ WebhookUnsaved(e)
    BY <2>3, WebhookStep
  <2>4. ASSUME NEW c \in Checks,
               \/ \E t \in Tasks : PollChecks(c, t)
               \/ Evaluates(c) \/ VerdictLands(c)
               \/ VerdictFails(c) \/ VerdictReturns(c)
        PROVE  TasksInv'
    BY <2>4, CheckStep, MarketStep, VerdictStep
  <2>5. QED
    BY <1>1, <2>1, <2>2, <2>3, <2>4 DEF TasksNext
<1>2. CASE Crash
  BY <1>2, CrashStep DEF Crash
<1>3. CASE UNCHANGED taskVars
  <2>1. now' \in Nat
    BY <1>3 DEF taskVars, TasksInv, TasksTypeOK
  <2>2. QED
    BY <1>3, <2>1, IdleStep DEF taskVars
<1>4. QED
  BY <1>1, <1>2, <1>3 DEF Next, vars

(* A workspace that has posted nothing. *)
LEMMA TasksStart == Init => TasksInv
<1> SUFFICES ASSUME Init PROVE TasksInv
  OBVIOUS
<1> USE DEF Init, TasksInit
<1>1. TasksTypeOK
  BY FS_EmptySet DEF TasksTypeOK, Market, MarketStatuses, Goods, Ledgers, PostingSteps
<1>2. Consistent(ledger, ledgerFile) /\ Keeps(ledgerFile)
  BY DEF Consistent, Truthful, Keeps
<1>3. Unposted /\ EventsTrue /\ ChecksTrue
  BY DEF Unposted, EventsTrue, ChecksTrue
<1>4. QED
  BY <1>1, <1>2, <1>3 DEF TasksInv

(* A webhook answered with 200 about a task the ledger knew is reflected by *)
(* the ledger's file for good: no failed save, overwriting verdict or crash *)
(* loses it, however often and in whatever order webhooks come.            *)
THEOREM AnsweredWebhooksAreKept == Spec => []AnsweredKept
<1>1. Init => TasksInv
  BY TasksStart
<1>2. TasksInv /\ [Next]_vars => TasksInv'
  BY TasksStep
<1>3. TasksInv => AnsweredKept
  BY DEF TasksInv, Keeps, AnsweredKept
<1>4. QED
  BY <1>1, <1>2, <1>3, PTL DEF Spec

(* Neither the ledger nor its file ever says of a task what neither the    *)
(* marketplace nor the hire that posted it has made of it: the verdicts    *)
(* and the hire's writes come after what they report, and no webhook says  *)
(* what did not happen.                                                    *)
THEOREM LedgerIsTruthful == Spec => []LedgerTruthful
<1>1. Init => TasksInv
  BY TasksStart
<1>2. TasksInv /\ [Next]_vars => TasksInv'
  BY TasksStep
<1>3. TasksInv => LedgerTruthful
  BY DEF TasksInv, Consistent, Truthful, LedgerTruthful
<1>4. QED
  BY <1>1, <1>2, <1>3, PTL DEF Spec

=============================================================================
