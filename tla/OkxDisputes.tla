---------------------------- MODULE OkxDisputes -----------------------------
(***************************************************************************)
(* OkxDisputeEvaluator of server/okx/evaluator.ts: deliberations, the      *)
(* arbitration fee they earn, votes, and two-phase (commit and reveal)     *)
(* votes.  Juries and revealers are the calls under way: each awaits       *)
(* between reading the evaluator's state and writing it.                   *)
(*                                                                         *)
(* Transaction hashes, rationales and salts are left out; a commitment has *)
(* a number instead of its salt.  The process and its crashes belong to    *)
(* the module that composes this one (Okx).                                *)
(***************************************************************************)
EXTENDS Rubric, Faults

CONSTANTS
  Disputes,     \* dispute ids
  Juries,       \* deliberations that may be under way at once
  Revealers,    \* reveals that may be under way at once
  Cases,        \* what a jury may find, see RawScores
  Threshold,    \* confidenceThreshold, in hundredths
  MaxCommits,   \* bound: commitments made in a behaviour
  MaxDeliberations \* bound: deliberations started in a behaviour

ASSUME CasesAssumption ==
  Cases \subseteq [short : BOOLEAN, missing : Nat, bug : BOOLEAN, praised : BOOLEAN,
                   buyer : Int, seller : Int]

VARIABLES
  evaluator,    \* memory: deliberations, fees and commitments per dispute
  evaluatorFile,\* what the storage file holds
  jury,         \* per jury: what it deliberates, or Idle
  reveal,       \* per revealer: the commitment record it read, or Idle
  claims,       \* history: how often a claim of the fee succeeded
  votes,        \* history: the votes that reached the gateway
  made          \* counts commitments and deliberations, for the bounds

disputeVars == <<evaluator, evaluatorFile, jury, reveal, claims, votes, made>>

Idle == [call |-> "none"]
Nothing == [record |-> "none"]

NoRecords == [deliberations |-> [d \in Disputes |-> Nothing],
              fees          |-> [d \in Disputes |-> "none"],
              commitments   |-> [d \in Disputes |-> Nothing]]

DisputesInit ==
  /\ evaluator = NoRecords
  /\ evaluatorFile = NoRecords
  /\ jury = [j \in Juries |-> Idle]
  /\ reveal = [r \in Revealers |-> Idle]
  /\ claims = [d \in Disputes |-> 0]
  /\ votes = {}
  /\ made = [commits |-> 0, deliberations |-> 0]

(* save(): a whole-file write, which may fail and then throws at the caller. *)
Saved == evaluatorFile' = evaluator' /\ NoFault
NotSaved == UNCHANGED evaluatorFile /\ Fault

-----------------------------------------------------------------------------
(* Deliberation: the advocates answer across awaits, then one step scores. *)

StartDeliberation(j, d, case) ==
  /\ jury[j] = Idle
  /\ made.deliberations < MaxDeliberations
  /\ jury' = [jury EXCEPT ![j] = [dispute |-> d, case |-> case]]
  /\ made' = [made EXCEPT !.deliberations = @ + 1]
  /\ NoFault
  /\ UNCHANGED <<evaluator, evaluatorFile, reveal, claims, votes>>

(* The result of a jury for a blended total. *)
Ruling(case, target) ==
  LET raw    == RawScores(case)
      rubric == Rebalance(raw, target)
      score  == Total(rubric)
      sure   == Confidence(score, case.buyer, case.seller)
  IN [target |-> target, rubric |-> rubric, verdict |-> Verdict(score),
      safe |-> ~Deadband(score) /\ sure >= Threshold]

(* Seeded fault: re-deliberation starts the fee afresh. *)
FeeAfterFresh(d) == "owed"

(* Re-deliberation keeps a fee that has been claimed. *)
FeeAfter(d) == IF evaluator.fees[d] = "claimed" THEN "claimed" ELSE "owed"

FinishDeliberation(j) ==
  /\ jury[j] # Idle
  /\ LET d == jury[j].dispute
         case == jury[j].case
     IN \E target \in Targets(Total(RawScores(case)), case.buyer, case.seller) :
          evaluator' = [evaluator EXCEPT
                          !.deliberations[d] = Ruling(case, target),
                          !.fees[d] = FeeAfter(d)]
  /\ Saved \/ NotSaved
  /\ jury' = [jury EXCEPT ![j] = Idle]
  /\ UNCHANGED <<reveal, claims, votes, made>>

(* claimFee: throws without a record or when already claimed. *)
ClaimFee(d) ==
  /\ evaluator.fees[d] = "owed"
  /\ evaluator' = [evaluator EXCEPT !.fees[d] = "claimed"]
  /\ \/ Saved /\ claims' = [claims EXCEPT ![d] = @ + 1]
     \/ NotSaved /\ UNCHANGED claims
  /\ UNCHANGED <<jury, reveal, votes, made>>

-----------------------------------------------------------------------------
(* Votes. *)

(* submitVote: withheld by the stake protection unless bypassed; a gateway *)
(* that fails is ignored.                                                   *)
SubmitVote(d, bypass) ==
  /\ evaluator.deliberations[d] # Nothing
  /\ evaluator.deliberations[d].safe \/ bypass
  /\ votes' = votes \union {[dispute |-> d, via |-> "submit",
                             verdict |-> evaluator.deliberations[d].verdict]}
  /\ NoFault
  /\ UNCHANGED <<evaluator, evaluatorFile, jury, reveal, claims, made>>

(* commitVote replaces any commitment of the dispute, revealed or not. *)
CommitVote(d, verdict) ==
  /\ made.commits < MaxCommits
  /\ made' = [made EXCEPT !.commits = @ + 1]
  /\ evaluator' = [evaluator EXCEPT !.commitments[d] =
                     [number |-> made.commits, verdict |-> verdict,
                      revealed |-> FALSE]]
  /\ Saved \/ NotSaved
  /\ UNCHANGED <<jury, reveal, claims, votes>>

StartReveal(r, d) ==
  /\ reveal[r] = Idle
  /\ evaluator.commitments[d] # Nothing
  /\ ~evaluator.commitments[d].revealed
  /\ reveal' = [reveal EXCEPT ![r] =
                  [dispute |-> d, number |-> evaluator.commitments[d].number,
                   verdict |-> evaluator.commitments[d].verdict]]
  /\ NoFault
  /\ UNCHANGED <<evaluator, evaluatorFile, jury, claims, votes, made>>

(* The gateway answers, or fails and is ignored; the record that was read  *)
(* is marked revealed, though the map may hold another one by now.         *)
FinishReveal(r) ==
  /\ reveal[r] # Idle
  /\ LET d == reveal[r].dispute
         vote == [dispute |-> d, via |-> "reveal", verdict |-> reveal[r].verdict]
     IN /\ votes' \in {votes, votes \union {vote}}
        /\ evaluator' =
             IF /\ evaluator.commitments[d] # Nothing
                /\ evaluator.commitments[d].number = reveal[r].number
             THEN [evaluator EXCEPT !.commitments[d].revealed = TRUE]
             ELSE evaluator
  /\ Saved \/ NotSaved
  /\ reveal' = [reveal EXCEPT ![r] = Idle]
  /\ UNCHANGED <<jury, claims, made>>

DisputesNext ==
  \/ \E j \in Juries : \/ \E d \in Disputes, case \in Cases :
                            StartDeliberation(j, d, case)
                       \/ FinishDeliberation(j)
  \/ \E d \in Disputes :
       \/ ClaimFee(d)
       \/ \E bypass \in BOOLEAN : SubmitVote(d, bypass)
       \/ \E verdict \in {"PASS", "FULL_REFUND"} : CommitVote(d, verdict)
  \/ \E r \in Revealers : \/ \E d \in Disputes : StartReveal(r, d)
                          \/ FinishReveal(r)

(* The process dies: the calls are gone and the file is read again. *)
DisputesCrash ==
  /\ evaluator' = evaluatorFile
  /\ jury' = [j \in Juries |-> Idle]
  /\ reveal' = [r \in Revealers |-> Idle]
  /\ UNCHANGED <<evaluatorFile, claims, votes, made>>

=============================================================================
