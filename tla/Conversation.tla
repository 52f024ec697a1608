---------------------------- MODULE Conversation ----------------------------
(***************************************************************************)
(* One thread of one bot: what its user sends, queues, cancels and stops   *)
(* (the routes in server/index.ts), the turns that carry the words         *)
(* (DirectTurns), the durable queue (FollowUps), the stall watchdog, and   *)
(* the restart that recovers what a crash cut short.                       *)
(*                                                                         *)
(* Code between two awaits is one step: an event of a provider reaches     *)
(* every subscriber of the bus in the step that publishes it, the drain of *)
(* the queue last.  The bot's other work appears as other: its other       *)
(* threads fill its capacity, or it has an operation in a channel.         *)
(*                                                                         *)
(* Two promises of the adapters are relied on: an interrupted process is   *)
(* gone within the grace period of 6 s ("ACP interruption settles within   *)
(* five seconds; other adapters settle sooner"), and a handshake that is   *)
(* still to answer does so within the 30 s of its quarantine.  One that    *)
(* never answers is a provider that hangs.                                 *)
(***************************************************************************)
EXTENDS DirectTurns, FollowUps, Faults, FiniteSets

CONSTANT Attempts    \* requests for one message that may be open at once

ASSUME SendsAssumption == IsFiniteSet(Sends)

VARIABLES
  up,         \* the server listens (followupsReady)
  asking,     \* requests that await adapter.steer
  other,      \* the bot's other work: "none", "threads", "channel"
  carries,    \* history: the messages each generation was started with
  promised,   \* history: messages answered as queued
  forgot,     \* history: messages whose words a power failure took unqueued
  withdrawn   \* history: messages that their user cancelled

vars == <<turn, provider, chat, up, asking, other, carries, promised, forgot,
          withdrawn, faults>>
history == <<carries, promised, forgot, withdrawn>>

Init ==
  /\ TurnsInit /\ ChatInit
  /\ up = TRUE /\ asking = {} /\ other = "none"
  /\ carries = [g \in Gens |-> {}] /\ promised = {} /\ forgot = {} /\ withdrawn = {}
  /\ faults = 0

-----------------------------------------------------------------------------
(* drainQueuedSends on this turn and chat: nothing while the bot is not    *)
(* free, else the whole queue as one turn, which startTurn may refuse      *)
(* (a spend limit, no such provider): an error then says so.               *)
Drain(t, c, free) ==
  \/ /\ ~c.owned
     /\ turn' = t /\ chat' = Discarded(c) /\ UNCHANGED carries
  \/ /\ c.owned
     /\ c.queue = {} \/ ThreadBusy(t) \/ ~free \/ t.gen = MaxTurns
     /\ turn' = t /\ chat' = c /\ UNCHANGED carries
  \/ /\ c.owned /\ c.queue # {} /\ ~ThreadBusy(t) /\ free /\ t.gen < MaxTurns
     /\ \/ /\ turn' = Claimed(t)
           /\ chat' = Taken(c)
           /\ carries' = [carries EXCEPT ![t.gen + 1] = c.queue]
        \/ /\ turn' = t
           /\ chat' = Retired(Appended(Taken(c), c.queue, "error"), c.queue)
           /\ UNCHANGED carries

(* The rows of the follow-ups that are settled on the way from turn to t. *)
Settling(t) ==
  Retired(chat, UNION {carries[g] : g \in turn.settlers \ t.settlers})

Then(t) == Drain(t, Settling(t), other = "none")
Only(t) == turn' = t /\ chat' = Settling(t) /\ UNCHANGED carries

-----------------------------------------------------------------------------
(* POST /api/bots/:id/messages *)

Queue(s) ==
  /\ chat' = Queued(chat, s)
  /\ promised' = promised \union {s}
  /\ UNCHANGED <<turn, carries>>

Refuse == UNCHANGED <<turn, chat, carries, promised>>

(* startOrQueueDirectMessage *)
StartOrQueue(s) ==
  IF other = "threads" \/ ThreadBusy(turn) THEN Queue(s)
  ELSE \/ Refuse
       \/ /\ other = "none" /\ turn.gen < MaxTurns
          /\ turn' = Claimed(turn)
          /\ chat' = Appended(chat, {s}, "sent")
          /\ carries' = [carries EXCEPT ![turn.gen + 1] = {s}]
          /\ UNCHANGED promised

(* A message not seen before; a retry of one that was is told what became  *)
(* of it.  A second request while one is open waits for the first's answer *)
(* (SendSequencer).                                                        *)
Fresh(s) ==
  /\ chat.owned
  /\ chat.rows[s] # "cancelled"
  /\ ~InTranscript(chat, s)
  /\ s \notin chat.queue

(* Without the sequencer, a request minds only itself. *)
Unsequenced(s, a) == \A q \in asking : q.send # s \/ q.by # a

Sequenced(s, a) == \A q \in asking : q.send # s

Send(s, a) ==
  /\ up /\ Fresh(s) /\ Sequenced(s, a)
  /\ IF turn.busy
     THEN \/ Queue(s) /\ UNCHANGED asking
          \/ /\ asking' = asking \union {[send |-> s, by |-> a, taken |-> FALSE]}
             /\ Refuse
     ELSE StartOrQueue(s) /\ UNCHANGED asking
  /\ UNCHANGED <<provider, up, other, forgot, withdrawn, faults>>

(* The provider takes the words into its live turn ... *)
SteerTaken(q) ==
  /\ ~q.taken
  /\ \E g \in Gens : provider[g] = "live"
  /\ asking' = (asking \ {q}) \union {[q EXCEPT !.taken = TRUE]}
  /\ UNCHANGED <<turn, provider, chat, up, other, history, faults>>

(* ... and the request goes on with what is true then. *)
SteerReturns(q) ==
  /\ asking' = asking \ {q}
  /\ IF ~chat.owned \/ (q.taken /\ ~turn.busy) THEN Refuse
     ELSE IF q.taken
     THEN chat' = Appended(chat, {q.send}, "steered") /\ UNCHANGED <<turn, carries, promised>>
     ELSE IF turn.busy THEN Queue(q.send) ELSE StartOrQueue(q.send)
  /\ UNCHANGED <<provider, up, other, forgot, withdrawn, faults>>

(* DELETE /api/bots/:id/queue/:id *)
CancelQueued(s) ==
  /\ up /\ s \in chat.queue /\ chat.owned
  /\ chat' = Cancelled(chat, s)
  /\ withdrawn' = withdrawn \union {s}
  /\ UNCHANGED <<turn, provider, up, asking, other, carries, promised, forgot, faults>>

(* DELETE of the task: not while it runs. *)
DeleteTask ==
  /\ up /\ chat.owned /\ ~ThreadBusy(turn)
  /\ LET t == FollowupSettled(turn, turn.gen)
     IN /\ turn' = t
        /\ chat' = [Settling(t) EXCEPT !.owned = FALSE, !.log = <<>>, !.synced = 0]
  /\ UNCHANGED <<provider, up, asking, other, history, faults>>

-----------------------------------------------------------------------------
(* Turns. *)

InterruptTurn(p) == IF p \in {"live", "wedged"} THEN "dying" ELSE p

(* interruptDirectThread: a handshake that is under way may not hear it. *)
Stop ==
  /\ ThreadBusy(turn)
  /\ turn' = IF turn.claim = NoClaim THEN turn ELSE Unclaimed(turn)
  /\ \/ provider' = [provider EXCEPT ![turn.gen] = InterruptTurn(@)]
     \/ turn.stage[turn.gen] = "dispatching" /\ UNCHANGED provider
  /\ UNCHANGED <<chat, up, asking, other, history, faults>>

(* Abandon as it would be if only turn.completed drained the queue. *)
AbandonQuietly(t, g) == Only(Abandoned(t, g))

(* The catch of the dispatch function; it drains only for the latest. *)
Abandon(t, g) == IF turn.gen = g THEN Then(Abandoned(t, g)) ELSE Only(Abandoned(t, g))

(* waitForClear, then the claim is checked once more. *)
SetupEnds(g) ==
  /\ turn.stage[g] = "setup" /\ turn.quarantine = {}
  /\ IF ClaimIsCurrent(turn, g)
     THEN /\ turn' = Dispatching(turn, g)
          /\ provider' = [provider EXCEPT ![g] = "asked"]
          /\ UNCHANGED <<chat, carries>>
     ELSE Abandon(turn, g) /\ UNCHANGED provider
  /\ UNCHANGED <<up, asking, other, promised, forgot, withdrawn, faults>>

SetupFails(g) ==
  /\ turn.stage[g] = "setup"
  /\ Abandon(turn, g)
  /\ UNCHANGED <<provider, up, asking, other, promised, forgot, withdrawn, faults>>

(* sendTurn: the process starts, or the call hangs, or it is rejected. *)
ProviderStarts(g, as) ==
  /\ provider[g] = "asked"
  /\ provider' = [provider EXCEPT ![g] = as]
  /\ UNCHANGED <<turn, chat, up, asking, other, history, faults>>

ProviderRefuses(g) ==
  /\ provider[g] = "asked"
  /\ provider' = [provider EXCEPT ![g] = "over"]
  /\ Abandon(turn, g)
  /\ UNCHANGED <<up, asking, other, promised, forgot, withdrawn, faults>>

(* sendTurn resolves (guardTurnDispatch): the turn is bound, or it was     *)
(* stopped meanwhile and is interrupted again.                             *)
Answers(g) ==
  /\ turn.stage[g] = "dispatching"
  /\ provider[g] \in {"live", "wedged", "dying", "over"}
  /\ IF turn.claim.of = g
     THEN LET t == Acknowledged(turn, g)
          IN /\ IF turn.gen = g /\ ~ThreadBusy(t) THEN Then(t) ELSE Only(t)
             /\ UNCHANGED provider
     ELSE /\ turn' = [turn EXCEPT !.stage[g] = "stopping"]
          /\ provider' = [provider EXCEPT ![g] = InterruptTurn(@)]
          /\ UNCHANGED <<chat, carries>>
  /\ UNCHANGED <<up, asking, other, promised, forgot, withdrawn, faults>>

(* The second interrupt has settled: retireProviderTurn and the catch. *)
StopSettles(g) ==
  /\ turn.stage[g] = "stopping" /\ provider[g] = "over"
  /\ Abandon(Ignored(turn, g), g)
  /\ UNCHANGED <<provider, up, asking, other, promised, forgot, withdrawn, faults>>

(* turn.completed, from a turn that ends or an interrupted one *)
Completes(g, framed) ==
  /\ provider[g] \in {"live", "dying"}
  /\ provider' = [provider EXCEPT ![g] = "over"]
  /\ IF Quarantined(turn, g) THEN Only(Ignored(turn, g)) ELSE Then(Completed(turn, g, framed))
  /\ UNCHANGED <<up, asking, other, promised, forgot, withdrawn, faults>>

(* The last frame is there, or its timeout: whoever has the thread keeps it. *)
FrameArrives(g) ==
  /\ g \in turn.frame
  /\ IF turn.gen = g THEN Then(FrameTaken(turn, g)) ELSE Only(FrameTaken(turn, g))
  /\ UNCHANGED <<provider, up, asking, other, promised, forgot, withdrawn, faults>>

(* A provider falls silent; an interrupted one is gone without a word. *)
Wedges(g) ==
  /\ provider[g] \in {"live", "dying"}
  /\ provider' = [provider EXCEPT ![g] = IF @ = "live" THEN "wedged" ELSE "over"]
  /\ UNCHANGED <<turn, chat, up, asking, other, history, faults>>

(* onStall: no event for the stall limit; an interrupt settles sooner. *)
Stall ==
  /\ turn.watched /\ provider[turn.gen] \notin {"live", "dying"}
  /\ Only(Stalled(turn))
  /\ provider' = [provider EXCEPT ![turn.gen] = InterruptTurn(@)]
  /\ UNCHANGED <<up, asking, other, promised, forgot, withdrawn, faults>>

GraceEnds(g) ==
  /\ g \in turn.grace /\ provider[g] # "dying"
  /\ IF turn.gen = g /\ turn.busy THEN Then(Released(turn, g)) ELSE Only(Released(turn, g))
  /\ UNCHANGED <<provider, up, asking, other, promised, forgot, withdrawn, faults>>

(* PendingTurnCancellations: the handshake of a provider that hangs is     *)
(* waited for no longer.                                                   *)
QuarantineExpires(g) ==
  /\ g \in turn.quarantine /\ provider[g] = "hung"
  /\ turn' = [turn EXCEPT !.quarantine = @ \ {g}]
  /\ UNCHANGED <<provider, chat, up, asking, other, history, faults>>

-----------------------------------------------------------------------------
(* The bot's other work. *)

(* A channel operation takes all its members when it is registered, busy   *)
(* or not, and may first let others of them speak.                         *)
OtherBegins(kind) ==
  /\ up /\ other = "none"
  /\ kind = "threads" => ~ThreadBusy(turn)
  /\ other' = kind
  /\ UNCHANGED <<turn, provider, chat, up, asking, history, faults>>

(* The operation comes to this bot while the thread has it, and waits: a   *)
(* bot that is waited for is not part of the operation (until it is free,  *)
(* and the operation takes it again).                                      *)
ChannelWaits ==
  /\ other = "channel" /\ ThreadBusy(turn)
  /\ other' = "none"
  /\ UNCHANGED <<turn, provider, chat, up, asking, history, faults>>

(* The turn of another thread completes, or a channel operation is stopped: *)
(* the queue is drained.                                                    *)
OtherEnds ==
  /\ other # "none"
  /\ other' = "none"
  /\ Drain(turn, chat, TRUE)
  /\ UNCHANGED <<provider, up, asking, promised, forgot, withdrawn, faults>>

(* A channel operation is over: its turns completed while it was still     *)
(* registered, and finishGroupTurnOperation drains channels only.          *)
ChannelEnds ==
  /\ other = "channel"
  /\ other' = "none"
  /\ UNCHANGED <<turn, provider, chat, up, asking, history, faults>>

-----------------------------------------------------------------------------
(* Crash and restart. *)

Unsynced(n) == {chat.log[i].send : i \in {j \in (n + 1) .. Len(chat.log) : chat.log[j].kind \in {"sent", "steered"}}}

Crash ==
  /\ Fault
  /\ up' = FALSE /\ asking' = {} /\ other' = "none"
  /\ turn' = TurnsLost(turn)
  /\ provider' = [g \in Gens |-> "none"]
  /\ \E n \in chat.synced .. Len(chat.log) :
       /\ chat' = [chat EXCEPT !.queue = {}, !.log = SubSeq(@, 1, n), !.synced = n]
       /\ forgot' = forgot \union Unsynced(n)
  /\ UNCHANGED <<carries, promised, withdrawn>>

(* The recovery loop, row by row. *)
RecoverRow(s) ==
  /\ ~up /\ s \in Interrupted(chat)
  /\ chat' = CASE chat.rows[s] = "dispatching" \/ ~chat.owned -> RowMarked(chat, s)
               [] OTHER -> IF RowTold(chat, s) # chat THEN RowTold(chat, s)
                                                      ELSE RowsSet(chat, {s}, "none")
  /\ UNCHANGED <<turn, provider, up, asking, other, history, faults>>

Listen ==
  /\ ~up /\ Interrupted(chat) = {}
  /\ up' = TRUE
  /\ Drain(turn, Restored(chat), TRUE)
  /\ UNCHANGED <<provider, asking, other, promised, forgot, withdrawn, faults>>

-----------------------------------------------------------------------------
ProviderSteps(g) ==
  \/ \E as \in {"live", "hung"} : ProviderStarts(g, as)
  \/ ProviderRefuses(g)
  \/ \E framed \in BOOLEAN : Completes(g, framed)

ServerSteps(g) ==
  \/ SetupEnds(g) \/ Answers(g) \/ StopSettles(g)
  \/ FrameArrives(g) \/ GraceEnds(g) \/ QuarantineExpires(g)

Next ==
  \/ \E s \in Sends : \/ \E a \in Attempts : Send(s, a)
                      \/ CancelQueued(s) \/ RecoverRow(s)
  \/ \E q \in asking : SteerTaken(q) \/ SteerReturns(q)
  \/ DeleteTask \/ Stop \/ Stall
  \/ \E g \in Gens : ProviderSteps(g) \/ ServerSteps(g) \/ SetupFails(g) \/ Wedges(g)
  \/ \E kind \in {"threads", "channel"} : OtherBegins(kind)
  \/ ChannelWaits \/ OtherEnds \/ ChannelEnds
  \/ Crash \/ Listen

Spec == Init /\ [][Next]_vars

(* Setups and screen frames end (each has a timeout), providers answer,    *)
(* end or fall silent, timers fire, and so does the watchdog.  The user    *)
(* owes nothing.                                                           *)
Fairness ==
  /\ \A g \in Gens : WF_vars(ProviderSteps(g)) /\ WF_vars(ServerSteps(g))
  /\ WF_vars(Stall)
  /\ WF_vars(OtherEnds \/ ChannelEnds)
  /\ \A s \in Sends : WF_vars(RecoverRow(s))
  /\ WF_vars(Listen)

FairSpec == Spec /\ Fairness

-----------------------------------------------------------------------------
(* A message is in the transcript at most once, however often it is        *)
(* retried, steered, queued, restored or recovered.                        *)
SaidOnce ==
  \A s \in Sends :
    Cardinality({i \in DOMAIN chat.log :
                   chat.log[i].send = s /\ chat.log[i].kind \in Words}) <= 1

(* No turn runs words that another has run: not after a restart, not after *)
(* a retry.  (Words that a power failure took from the transcript before   *)
(* they were flushed, and that were never queued, are new again.)          *)
RunOnce ==
  \A s \in Sends \ forgot : Cardinality({g \in Gens : s \in carries[g]}) <= 1

(* A message answered as queued is never lost: it waits on the disk, or    *)
(* was cancelled, or its words are in the transcript and either a turn ran *)
(* them or the user is told that none did.                                 *)
PromisesKept ==
  chat.owned => \A s \in promised :
    \/ chat.rows[s] # "none"
    \/ /\ HasEntry(chat, s, "queued")
       /\ \/ \E g \in Gens : s \in carries[g]
          \/ HasEntry(chat, s, "error")

(* A cancelled message stays out of the conversation, retried or not. *)
CancelledStaysOut ==
  \A s \in withdrawn : s \notin chat.queue /\ ~InTranscript(chat, s)

(* The thread never has two provider processes at work at once: a turn     *)
(* starts only when the one before it is over, stopped, or hangs for good. *)
OneProviderTurn ==
  Cardinality({g \in Gens : provider[g] \in {"asked", "live", "wedged", "dying"}}) <= 1

(* The thread is freed only when the provider of its latest turn is at     *)
(* rest, or its events are quarantined: nothing that belongs to an older,  *)
(* a stopped or a stalled turn frees it under a newer one.                 *)
ThreadKeptByItsTurn ==
  [][/\ ThreadBusy(turn) /\ ~ThreadBusy(turn')
     => \/ provider'[turn.gen] \notin {"live", "wedged", "dying"}
        \/ turn.gen \in turn'.quarantine]_vars

(* A queued message is eventually taken up (or cancelled), whatever        *)
(* happens to the turns before it, if no channel ever needs the bot.       *)
TakenUp(s) ==
  s \in chat.queue ~> s \notin chat.queue \/ ~chat.owned \/ turn.gen = MaxTurns

FollowUpsRun == [](other # "channel") => \A s \in Sends : TakenUp(s)

(* The same of a bot that works in channels too.                           *)
FollowUpsRunDespiteChannels == \A s \in Sends : TakenUp(s)

=============================================================================
