------------------------------- MODULE MCOkx --------------------------------
(* Okx with concrete deliverables and jury findings, for TLC. *)
EXTENDS Okx, TLC

Finding(short, missing, bug, praised, buyer, seller) ==
  [short |-> short, missing |-> missing, bug |-> bug, praised |-> praised,
   buyer |-> buyer, seller |-> seller]

(* A clean delivery, a middling one, one with advocates far apart and an   *)
(* empty one whose advocates score it beyond the scale.                    *)
MCCases == { Finding(FALSE, 0, FALSE, TRUE, 90, 95),
             Finding(FALSE, 2, TRUE, FALSE, 25, 80),
             Finding(TRUE, 0, FALSE, FALSE, 300, 100) }

(* The calls of checkTask are interchangeable. *)
CheckSymmetry == Permutations(Checks)

(* The two sides share nothing but their crashes, so that each is explored  *)
(* alone: a state of the one next to every state of the other would show    *)
(* nothing more.  The tasks have at most MaxTaskFaults faults, the disputes *)
(* MaxFaults; and two calls of checkTask are under way at once while the    *)
(* market has had less than MaxEvents events.                               *)
MaxTaskFaults == 1
Overlapping == \A c \in Checks : check[c] # Free

TasksAlone ==
  /\ DisputesInit /\ UNCHANGED disputeVars
  /\ TasksNext \/ Crash
  /\ faults' <= MaxTaskFaults
  /\ Overlapping' => Cardinality(events') < MaxEvents

DisputesAlone ==
  /\ TasksInit /\ UNCHANGED taskVars
  /\ DisputesNext \/ Crash

SidesSpec == Init /\ [][TasksAlone \/ DisputesAlone]_vars

=============================================================================
