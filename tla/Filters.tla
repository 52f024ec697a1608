------------------------------- MODULE Filters -------------------------------
(* Array.prototype.filter, as the queues and lists of the server use it. *)
EXTENDS Integers, Sequences

(* The items of q that are in S, in their order. *)
Filter(q, S) ==
  LET kept[i \in 0 .. Len(q)] ==
        IF i = 0 THEN <<>>
        ELSE kept[i - 1] \o (IF q[i] \in S THEN <<q[i]>> ELSE <<>>)
  IN  kept[Len(q)]

=============================================================================
