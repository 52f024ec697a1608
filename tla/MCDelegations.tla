--------------------------- MODULE MCDelegations ---------------------------
(* Delegations with concrete bots and handoffs, for TLC. *)
EXTENDS Delegations

CONSTANTS b1, b2, b3, h1, h2, h3

(* b1 and b2 hand work to the same third bot; b1 hands over to b2 as well. *)
MCSource == [h \in Handoffs |-> IF h = h2 THEN b2 ELSE b1]
MCTarget == [h \in Handoffs |-> IF h = h3 THEN b2 ELSE b3]

=============================================================================
