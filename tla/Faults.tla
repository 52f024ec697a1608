------------------------------- MODULE Faults -------------------------------
(* The faults of a process: writes that fail and crashes, bounded together. *)
EXTENDS Naturals

CONSTANT MaxFaults    \* bound on the faults of a behaviour
VARIABLE faults

Fault == faults < MaxFaults /\ faults' = faults + 1
NoFault == UNCHANGED faults

=============================================================================
