-------------------------------- MODULE Okx ---------------------------------
(***************************************************************************)
(* The OKX side of the server: the marketplace's tasks (OkxTasks) and the  *)
(* dispute evaluator (OkxDisputes) in one process, with the properties of  *)
(* both.  What they share is the process: a crash takes the memory and the *)
(* calls under way of both, and each comes back from its own files.        *)
(***************************************************************************)
EXTENDS OkxTasks, OkxDisputes

vars == <<taskVars, disputeVars, faults>>

Init ==
  /\ TasksInit
  /\ DisputesInit
  /\ faults = 0

Crash ==
  /\ Fault
  /\ TasksCrash \/ \E e \in events : CrashInWebhook(e)
  /\ DisputesCrash

Next ==
  \/ TasksNext /\ UNCHANGED disputeVars
  \/ DisputesNext /\ UNCHANGED taskVars
  \/ Crash

Spec == Init /\ [][Next]_vars

-----------------------------------------------------------------------------
(* An answered webhook is never lost: unless the ledger did not know its   *)
(* task, the record in the ledger's file has taken it in, whatever was     *)
(* saved, failed to be saved or crashed since -- although a later webhook, *)
(* a verdict or the hire may have written over the status it brought.  The *)
(* marketplace does not send it again.                                     *)
AnsweredKept ==
  \A e \in answered \ ignored :
    /\ ledgerFile[e.task] # Absent
    /\ e.id \in ledgerFile[e.task].seen

(* The ledger never says of a task what nobody made of it.  What only the  *)
(* marketplace decides -- delivered, rejected, disputed, completed -- it   *)
(* has decided there, however webhooks repeat and overtake each other, and *)
(* a verdict of the watcher is written only once it has landed.  A task in *)
(* progress was accepted there, or this side has paid for it.  "failed" is *)
(* this side's own word for a hire that it has given up.                   *)
LedgerTruthful ==
  \A t \in Tasks : \A record \in {ledger[t], ledgerFile[t]} \ {Absent} :
    \/ record.status = "created"
    \/ record.status \in market[t].been
    \/ record.status = "in_progress" /\ t \in paid
    \/ record.status = "failed" /\ posting[t] = "done"

(* A fee is claimed at most once, and for good: whatever deliberates or    *)
(* commits meanwhile and wherever the process dies, the claim is in the    *)
(* file that a restart reads.                                              *)
FeeClaimedOnce ==
  \A d \in Disputes :
    /\ claims[d] <= 1
    /\ claims[d] = 1 => evaluatorFile.fees[d] = "claimed"

(* A ruling's dimensions stay within their maxima and add up to its total. *)
RubricAddsUp ==
  \A d \in Disputes :
    evaluator.deliberations[d] # Nothing =>
      LET ruling == evaluator.deliberations[d]
      IN ruling.rubric \in Scores /\ Total(ruling.rubric) = ruling.target

=============================================================================
