--------------------------- MODULE MCDataDirLease ---------------------------
(* DataDirLease with concrete processes, for TLC. *)
EXTENDS DataDirLease, TLC

(* Processes of a kind are interchangeable. *)
LeaseSymmetry == Permutations(Owners) \union Permutations(Children)

=============================================================================
