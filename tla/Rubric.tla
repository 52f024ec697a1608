------------------------------- MODULE Rubric -------------------------------
(***************************************************************************)
(* The scoring of a dispute by the chief arbiter (evaluateChiefArbiter) in *)
(* server/okx/evaluator.ts: four dimensions are scored from the            *)
(* deliverable, the total is blended with the advocates' scores, and the   *)
(* dimensions are then rebalanced to add up to the blended total.          *)
(*                                                                         *)
(* Scores are integers.  The source blends with floating point: at an      *)
(* exact tie its Math.round may fall on either side, and both are allowed. *)
(***************************************************************************)
EXTENDS Integers

Dims == 1..4            \* completeness, correctness, specAlignment, goodFaith
Most == <<30, 30, 20, 20>>
Share == <<3, 3, 2, 2>> \* the weights 0.3, 0.3, 0.2 and 0.2, in tenths

Scores == {v \in [Dims -> 0..30] : \A d \in Dims : v[d] <= Most[d]}
Total(v) == v[1] + v[2] + v[3] + v[4]

Least(a, b) == IF a <= b THEN a ELSE b
Clamp(x, low, high) == IF x < low THEN low ELSE Least(x, high)

(* What the jury saw: the length of the deliverable (short is under 60     *)
(* characters), how many requirements are missing, whether the rejection   *)
(* speaks of a bug, and whether the seller's advocate found anything good. *)
RawScores(case) ==
  IF case.short THEN <<5, 5, 4, 5>>
  ELSE << CASE case.missing > 3 -> 12 [] case.missing = 0 -> 28 [] OTHER -> 20,
          CASE case.bug -> 14 [] ~case.bug /\ case.missing > 1 -> 18
            [] ~case.bug /\ case.missing = 1 -> 22 [] OTHER -> 27,
          CASE case.missing > 2 -> 10 [] case.missing = 0 -> 19 [] OTHER -> 14,
          CASE ~case.praised -> 8 [] case.praised /\ case.missing > 1 -> 14
            [] OTHER -> 19 >>

(* 0.7 of the raw sum plus 0.3 of the advocates' mean, rounded (a half may *)
(* go either way) and clamped: an advocate's score is whatever number its  *)
(* model answered with.                                                    *)
Targets(raw, buyer, seller) ==
  LET twentieths == 14 * raw + 3 * (buyer + seller)
  IN {Clamp((twentieths + tie) \div 20, 0, 100) : tie \in {9, 10}}

(* Math.round(delta * weight): halves round up. *)
Step(delta, d) == (2 * delta * Share[d] + 10) \div 20

(* The first pass moves every dimension by its share of the difference.    *)
Spread(v, delta) ==
  [d \in Dims |-> Clamp(v[d] + Step(delta, d), 0, Most[d])]

(* The second pass gives what is left to the dimensions in turn.           *)
Room(v, d, left) == IF left > 0 THEN Least(left, Most[d] - v[d])
                    ELSE -Least(-left, v[d])
TopUp(v, left) ==
  LET r1 == Room(v, 1, left)
      r2 == Room(v, 2, left - r1)
      r3 == Room(v, 3, left - r1 - r2)
      r4 == Room(v, 4, left - r1 - r2 - r3)
  IN <<v[1] + r1, v[2] + r2, v[3] + r3, v[4] + r4>>

(* Seeded fault: it leaves the clamped part of the difference unassigned. *)
RebalanceOnePass(v, target) == Spread(v, target - Total(v))

Rebalance(v, target) ==
  LET spread == Spread(v, target - Total(v))
  IN TopUp(spread, target - Total(spread))

Deadband(score) == score \in 38..42 \/ score \in 73..77

Abs(x) == IF x < 0 THEN -x ELSE x

(* 100 times the jury's confidence: 0.4 of the advocates' alignment and    *)
(* 0.6 of the margin to the tipping points 40 and 75, rounded.             *)
Confidence(score, buyer, seller) ==
  LET apart  == Abs(seller - buyer)
      margin == Least(Abs(score - 40), Abs(score - 75))
      weight == IF Deadband(score) THEN 12 ELSE Least(60, 24 + 6 * margin)
  IN (400 - 4 * Least(apart, 100) + 10 * weight + 5) \div 10

Verdict(score) == CASE score >= 75 -> "PASS"
                    [] score >= 40 /\ score < 75 -> "PARTIAL_REFUND"
                    [] OTHER -> "FULL_REFUND"

=============================================================================
