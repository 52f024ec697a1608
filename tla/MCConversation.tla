--------------------------- MODULE MCConversation ---------------------------
(* Conversation for model checking. *)
EXTENDS Conversation, TLC

SendSymmetry == Permutations(Sends)

=============================================================================
