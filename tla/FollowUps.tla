----------------------------- MODULE FollowUps ------------------------------
(***************************************************************************)
(* What becomes of a message that a user sends to a bot: the transcript,   *)
(* the queue of messages for a busy bot (server/steer-queue.ts), the rows  *)
(* that make the queue durable (server/message-db.ts) and the recognition  *)
(* of retries by their sendId (server/send-idempotency.ts).                *)
(*                                                                         *)
(* Rows and transcript are in one database.  A row is written with full    *)
(* synchronisation, which flushes what was written before it; the          *)
(* transcript is not, and a power failure takes a suffix of what has not   *)
(* been flushed.  The queue holds one thread's messages; they are handed   *)
(* over all together, so their order is left out.                          *)
(***************************************************************************)
EXTENDS SequencesExt

CONSTANT Sends       \* the sendIds of a thread's messages

VARIABLE chat

ChatInit ==
  chat = [queue |-> {},                        \* memory: queues
          rows |-> [s \in Sends |-> "none"],   \* chat_followups: status
          log |-> <<>>,                        \* the transcript
          synced |-> 0,                        \* how much of it is flushed
          owned |-> TRUE]                      \* the bot has the thread

Words == {"sent", "steered", "queued"}         \* kinds of a user's message

(* acceptedSendMatch *)
InTranscript(c, s) == \E i \in DOMAIN c.log : c.log[i].send = s /\ c.log[i].kind \in Words
HasEntry(c, s, kind) == \E i \in DOMAIN c.log : c.log[i] = [send |-> s, kind |-> kind]

(* store.appendMessage, for each of a set of messages *)
Appended(c, sends, kind) ==
  [c EXCEPT !.log = @ \o SetToSeq({[send |-> s, kind |-> kind] : s \in sends})]

(* RowsSet as it would be without full synchronisation. *)
RowsSetUnflushed(c, sends, status) ==
  [c EXCEPT !.rows = [s \in Sends |-> IF s \in sends THEN status ELSE @[s]]]

(* settleChatFollowups: the rows change, and everything before is flushed. *)
RowsSet(c, sends, status) ==
  IF sends = {} THEN c
  ELSE [c EXCEPT !.rows = [s \in Sends |-> IF s \in sends THEN status ELSE @[s]],
                 !.synced = Len(c.log)]

(* queueSteeredMessage: the row is on the disk before the queue has it. *)
Queued(c, s) == [RowsSet(c, {s}, "pending") EXCEPT !.queue = @ \union {s}]

(* Cancelled as it would be without a tombstone. *)
CancelledSilently(c, s) == [RowsSet(c, {s}, "none") EXCEPT !.queue = @ \ {s}]

(* cancelSteeredMessage: a tombstone remains. *)
Cancelled(c, s) == [RowsSet(c, {s}, "cancelled") EXCEPT !.queue = @ \ {s}]

(* Taken as it would be with the claim in memory only. *)
TakenInMemory(c) == Appended([c EXCEPT !.queue = {}], c.queue, "queued")

(* drainSteeredMessages takes the whole queue: the claim is on the disk    *)
(* before the words are in the transcript.                                 *)
Taken(c) ==
  Appended([RowsSet(c, c.queue, "dispatching") EXCEPT !.queue = {}],
           c.queue, "queued")

(* The bot or its thread is gone while messages wait. *)
Discarded(c) == [RowsSet(c, c.queue, "cancelled") EXCEPT !.queue = {}]

(* The turn that carries these messages has settled. *)
Retired(c, sends) ==
  RowsSet(c, {s \in sends : c.rows[s] = "dispatching"}, "none")

-----------------------------------------------------------------------------
(* The recovery when the server starts, which may itself be cut short. *)

Interrupted(c) == {s \in Sends : c.rows[s] \in {"dispatching", "interrupted"}}

(* A row whose thread is gone is cancelled, another one marked. *)
RowMarked(c, s) == RowsSet(c, {s}, IF c.owned THEN "interrupted" ELSE "cancelled")

(* The words and a notice are appended where they are missing. *)
RowTold(c, s) ==
  LET words == IF HasEntry(c, s, "queued") THEN c ELSE Appended(c, {s}, "queued")
  IN IF HasEntry(c, s, "notice") THEN words ELSE Appended(words, {s}, "notice")

(* restoreSteeredMessages *)
Restored(c) == [c EXCEPT !.queue = {s \in Sends : c.rows[s] = "pending"}]

=============================================================================
