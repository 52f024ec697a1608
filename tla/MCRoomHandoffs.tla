-------------------------- MODULE MCRoomHandoffs ---------------------------
(* RoomHandoffs with concrete threads, for TLC. *)
EXTENDS RoomHandoffs

CONSTANTS a, b, c

(* A user speaks to a. *)
MCSpoken == {<<a, User>>}

(* The server was stopped while a turn of a waited for b. *)
MCSaved ==
  LET source == [status |-> "failed", at |-> <<a, User>>, bot |-> a, parent |-> 0,
                 root |-> 1, reported |-> TRUE, spent |-> 1, kind |-> "work"]
  IN << source, [source EXCEPT !.at = <<b, a>>, !.bot = b, !.parent = 1,
                               !.reported = FALSE, !.spent = 0] >>

=============================================================================
