----------------------------- MODULE Delegations -----------------------------
(***************************************************************************)
(* server/delegations.ts with its wiring in server/index.ts: a bot's turn  *)
(* hands work to other bots.                                               *)
(*                                                                         *)
(* A handoff waits in its source thread's queue.  A drain walks a snapshot *)
(* of the queue: it drops what may no longer run, leaves what finds its    *)
(* target busy, awaits the user where the sender needs approval, and       *)
(* starts the rest as turns of the target.  A watch on the target's thread *)
(* writes the receipt when that turn settles and wakes the source.         *)
(*                                                                         *)
(* Code between two awaits runs unbroken, and an await of a promise that   *)
(* is already settled goes on before any other event: active lists the     *)
(* drains to run right now, and events wait until the server is Quiet.     *)
(* A crash falls between two events.  Each bot has one thread, its active  *)
(* one; queue and receipts are files and every save of them succeeds.      *)
(***************************************************************************)
EXTENDS Integers, FiniteSets, SequencesExt, Filters

CONSTANTS
  Bots, Handoffs, NoHandoff,
  Source, Target,      \* of each handoff: the bot that hands over, its peer
  NeedsApproval,       \* handoffs of senders with approvePeerComms
  MaxQueued,           \* MAX_QUEUED_PER_THREAD
  Barrable,            \* bots that the user may put out of their peers' reach
  Unavailable,         \* bots whose provider comes and goes
  EndsUnheard,         \* whether a stalled turn may end without turn.completed
  MaxTurns, MaxRestarts    \* bounds of the model: turns of users, restarts

ASSUME DelegationsAssumption ==
  /\ IsFiniteSet(Bots)
  /\ (Handoffs \cup {NoHandoff}) \cap {"idle", "user", "wake", "stalled"} = {}
  /\ NoHandoff \notin Handoffs
  /\ Source \in [Handoffs -> Bots] /\ Target \in [Handoffs -> Bots]
  /\ \A h \in Handoffs : Source[h] # Target[h]   \* queueDelegation: "self"
  /\ NeedsApproval \subseteq Handoffs
  /\ Barrable \subseteq Bots /\ Unavailable \subseteq Bots
  /\ EndsUnheard \in BOOLEAN
  /\ MaxQueued \in Nat /\ MaxTurns \in Nat /\ MaxRestarts \in Nat

VARIABLES
  queue,        \* pendingDelegations, per source thread
  waiting,      \* handoffs parked on their target's busy period
  granted,      \* handoffs the user has approved
  receipt,      \* the terminal record of each handoff, or "none"
  drain,        \* what the drain of each thread is doing
  active,       \* the threads whose drain code is to run now
  retry,        \* delegationRetryBots: microtasks asked for
  turn,         \* what each bot is working on
  watch,        \* delegationWatch, per target thread
  owed,         \* pendingDelegationWakes: threads to be woken when idle
  old,          \* queued handoffs past their 24 hours
  barred,       \* bots out of their peers' reach
  offline,      \* bots whose turns are refused
  issued, starts,      \* history: handoffs accepted; how often each started
  fresh,        \* history: handoffs whose turn has not ended well yet
  unheard,      \* history: outcomes since which the source had no turn
  turns, restarts

ledger  == <<queue, waiting, granted, receipt>>
work    == <<turn, watch, owed>>
world   == <<old, barred, offline>>
history == <<issued, starts, fresh, unheard>>
bounds  == <<turns, restarts>>
vars == <<ledger, drain, active, retry, work, world, history, bounds>>

Outcomes == {"done", "failed", "denied", "expired", "dropped"}
NoDrain  == [pc |-> "idle", todo |-> <<>>, seen |-> {}, again |-> FALSE]
Drains   == [pc : {"idle", "ready", "approval", "starting"}, todo : Seq(Handoffs),
             seen : SUBSET Handoffs, again : BOOLEAN]

Queued(h) == h \in Range(queue[Source[h]])
Busy(b)   == turn[b] # "idle"

(* Nothing is left to run before the next event. *)
Quiet == active = <<>> /\ retry = {} /\ \A t \in Bots : drain[t].pc # "starting"

Init ==
  /\ queue = [t \in Bots |-> <<>>]
  /\ waiting = {} /\ granted = {}
  /\ receipt = [h \in Handoffs |-> "none"]
  /\ drain = [t \in Bots |-> NoDrain]
  /\ active = <<>> /\ retry = {}
  /\ turn = [b \in Bots |-> "idle"]
  /\ watch = [b \in Bots |-> NoHandoff]
  /\ owed = {}
  /\ old = {} /\ barred = {} /\ offline = {}
  /\ issued = {} /\ starts = [h \in Handoffs |-> 0]
  /\ fresh = {} /\ unheard = {}
  /\ turns = 0 /\ restarts = 0

-----------------------------------------------------------------------------
(* The ledger. *)

Without(S) == [t \in Bots |-> Filter(queue[t], Handoffs \ S)]

(* The handoffs of S end with an outcome and leave the queue. *)
Settle(S, outcome) ==
  /\ queue' = Without(S)
  /\ waiting' = waiting \ S
  /\ receipt' = [h \in Handoffs |-> IF h \in S THEN outcome ELSE receipt[h]]

(* Seeded fault: a source that works is not woken afterwards. *)
WakeIdleOnly(S, busy) ==
  LET up == {t \in Bots \ offline : busy[t] = "idle" /\ \E h \in S : Source[h] = t}
  IN  /\ turn' = [t \in Bots |-> IF t \in up THEN "wake" ELSE busy[t]]
      /\ unheard' = {h \in unheard \cup S : Source[h] \notin up}
      /\ UNCHANGED owed

(* wakeDelegationSource for the sources of S, when the turns are busy: one  *)
(* that is idle starts a turn at once, one that works is woken afterwards; *)
(* a turn that is refused is a chip in the chat, and nobody is woken.      *)
Wake(S, busy) ==
  LET n(t)  == Cardinality({h \in S : Source[h] = t})
      up    == {t \in Bots \ offline : n(t) > 0 /\ busy[t] = "idle"}
  IN  /\ turn' = [t \in Bots |-> IF t \in up THEN "wake" ELSE busy[t]]
      /\ owed' = owed \cup {t \in Bots : /\ n(t) > 0
                                         /\ busy[t] # "idle" \/ (t \in up /\ n(t) > 1)}
      /\ unheard' = {h \in unheard \cup S : Source[h] \notin up}

(* A drain starts with a snapshot of its queue; one under way is told to    *)
(* look again.                                                              *)
Snapshot(items) ==
  [pc |-> "ready", todo |-> items, seen |-> Range(items), again |-> FALSE]

Drain(ts, q) ==
  LET begun == {t \in ts : drain[t].pc = "idle" /\ q[t] # <<>>} IN
  /\ drain' = [t \in Bots |->
       IF t \in begun
       THEN Snapshot(q[t])
       ELSE [drain[t] EXCEPT !.again = @ \/ (t \in ts /\ drain[t].pc # "idle")]]
  /\ active' \in SetToSeqs(begun)

-----------------------------------------------------------------------------
(* drainDelegations and processOne, item by item. *)

Now(t)  == active # <<>> /\ t = Head(active)
Item(t) == Head(drain[t].todo)

(* The drain of t goes on to its next item, in the same breath. *)
GoesOn(t) ==
  /\ drain' = [drain EXCEPT ![t].todo = Tail(@), ![t].pc = "ready"]
  /\ active' = IF active = <<>> THEN <<t>> ELSE active

(* The drain of t awaits something, the next one has its turn. *)
Awaits(t, pc) ==
  /\ drain' = [drain EXCEPT ![t].pc = pc]
  /\ active' = IF active = <<>> THEN <<>> ELSE Tail(active)

Settled(t, h, outcome) ==
  /\ Settle({h}, outcome)
  /\ Wake({h}, turn)
  /\ GoesOn(t)
  /\ UNCHANGED <<watch, starts>>

Held(t, h) ==
  /\ waiting' = waiting \cup {h}
  /\ GoesOn(t)
  /\ UNCHANGED <<queue, receipt, work, starts, unheard>>

(* runDelegatedTurn: the watch is set, then the turn claims its bot, or is *)
(* refused; the drain learns which a moment later.                         *)
Start(t, h) ==
  LET b == Target[h] IN
  /\ waiting' = waiting \ {h}
  /\ watch' = [watch EXCEPT ![b] = h]
  /\ IF b \in offline
     THEN UNCHANGED <<turn, starts, unheard>>
     ELSE /\ turn' = [turn EXCEPT ![b] = h]
          /\ starts' = [starts EXCEPT ![h] = @ + 1]
          /\ unheard' = {g \in unheard : Source[g] # b}
  /\ Awaits(t, "starting")
  /\ UNCHANGED <<queue, receipt, owed>>

(* What becomes of a handoff that may be processed, apart from approval. *)
Reachable(h) == Target[h] \notin barred

Judge(t, h) ==
  LET b == Target[h] IN
  \/ ~Reachable(h) /\ Settled(t, h, "dropped")
  \/ Reachable(h) /\ Busy(b) /\ h \in old /\ Settled(t, h, "expired")
  \/ Reachable(h) /\ Busy(b) /\ h \notin old /\ Held(t, h)

(* processOne. *)
Process(t) ==
  /\ LET h       == Item(t)
         consent == h \notin NeedsApproval \/ h \in granted
         free    == Reachable(h) /\ ~Busy(Target[h])
     IN  \/ Judge(t, h)
         \/ /\ free /\ ~consent
            /\ waiting' = waiting \ {h}
            /\ Awaits(t, "approval")
            /\ UNCHANGED <<queue, receipt, work, starts, unheard>>
         \/ free /\ consent /\ Start(t, h)
  /\ UNCHANGED <<granted, retry, world, issued, fresh, bounds>>

(* What was taken from the queue since the snapshot is left alone. *)
DrainSkips(t) ==
  /\ Now(t) /\ drain[t].todo # <<>>
  /\ ~Queued(Item(t))
  /\ GoesOn(t)
  /\ UNCHANGED <<ledger, retry, work, world, history, bounds>>

(* Seeded fault: a snapshot is authority enough. *)
DrainItemFromSnapshot(t) == Now(t) /\ drain[t].todo # <<>> /\ Process(t)

DrainItem(t) ==
  /\ Now(t) /\ drain[t].todo # <<>>
  /\ Queued(Item(t))
  /\ Process(t)

(* The drain is over, unless it was told to look again or finds handoffs   *)
(* that were queued after its snapshot.                                    *)
DrainEnds(t) ==
  LET more == queue[t] # <<>> /\ (drain[t].again \/ ~(Range(queue[t]) \subseteq drain[t].seen)) IN
  /\ Now(t) /\ drain[t].todo = <<>>
  /\ IF more
     THEN /\ drain' = [drain EXCEPT ![t] = Snapshot(queue[t])]
          /\ UNCHANGED active
     ELSE /\ drain' = [drain EXCEPT ![t] = NoDrain]
          /\ active' = Tail(active)
  /\ UNCHANGED <<ledger, retry, work, world, history, bounds>>

(* finalizeDelegationWatch of the thread of b: the receipt of the handoff   *)
(* that is watched there, and the wake of its source.                       *)
Watched(b) == {watch[b]} \ {NoHandoff}
Outcome(b, ok) == IF ok /\ b \notin barred THEN "done" ELSE "failed"

(* Seeded fault: a started handoff is not acknowledged. *)
StartAnsweredUnacknowledged(t) ==
  LET h == Item(t) IN
  /\ active = <<>> /\ drain[t].pc = "starting"
  /\ turn[Target[h]] = h
  /\ GoesOn(t)
  /\ UNCHANGED <<ledger, retry, work, world, history, bounds>>

(* The await of runTarget.  A refused turn settles whatever is watched on   *)
(* the target's thread by now; the handoff leaves its queue either way.     *)
StartAnswered(t) ==
  LET h == Item(t)
      b == Target[h]
      S == IF turn[b] = h THEN {} ELSE Watched(b)
  IN
  /\ active = <<>> /\ drain[t].pc = "starting"
  /\ queue' = Without({h})
  /\ receipt' = [g \in Handoffs |-> IF g \in S THEN "failed" ELSE receipt[g]]
  /\ Wake(S, turn)
  /\ watch' = IF S = {} THEN watch ELSE [watch EXCEPT ![b] = NoHandoff]
  /\ GoesOn(t)
  /\ UNCHANGED <<waiting, granted, retry, world, issued, starts, fresh, bounds>>

(* Seeded fault: a drain under way is not told to look again. *)
RetryDropped(b) ==
  LET freed    == {h \in waiting : Target[h] = b /\ Queued(h) /\ ~Busy(b)}
      released == {Source[h] : h \in freed}
  IN
  /\ active = <<>> /\ b \in retry
  /\ retry' = retry \ {b}
  /\ waiting' = waiting \ freed
  /\ Drain({t \in released : drain[t].pc = "idle"}, queue)
  /\ UNCHANGED <<queue, granted, receipt, work, world, history, bounds>>

(* retryDelegationsWaitingOn: b has come free, those that wait for it are   *)
(* drained again.                                                           *)
Retry(b) ==
  LET freed    == {h \in waiting : Target[h] = b /\ Queued(h) /\ ~Busy(b)}
      released == {Source[h] : h \in freed}
  IN
  /\ active = <<>> /\ b \in retry
  /\ retry' = retry \ {b}
  /\ waiting' = waiting \ freed
  /\ Drain(released, queue)
  /\ UNCHANGED <<queue, granted, receipt, work, world, history, bounds>>

Microtask == \E t \in Bots : \/ DrainSkips(t) \/ DrainItem(t) \/ DrainEnds(t)
                             \/ StartAnswered(t) \/ Retry(t)

-----------------------------------------------------------------------------
(* Approvals. *)

(* Seeded fault: the answer is acted on without a second look at the peer.  *)
ApprovedUnchecked(t) ==
  LET h == Item(t) IN
  /\ Quiet /\ drain[t].pc = "approval" /\ Queued(h)
  /\ granted' = granted \cup {h}
  /\ ~Busy(Target[h]) /\ Start(t, h)
  /\ UNCHANGED <<retry, world, issued, fresh, bounds>>

(* The user allows the handoff: it is looked at again in full. *)
Approved(t) ==
  LET h == Item(t) IN
  /\ Quiet /\ drain[t].pc = "approval" /\ Queued(h)
  /\ granted' = granted \cup {h}
  /\ Judge(t, h) \/ (Reachable(h) /\ ~Busy(Target[h]) /\ Start(t, h))
  /\ UNCHANGED <<retry, world, issued, fresh, bounds>>

(* The user denies it, the thread is stopped, or 15 minutes have passed. *)
Denied(t) ==
  /\ Quiet /\ drain[t].pc = "approval" /\ Queued(Item(t))
  /\ Settled(t, Item(t), "denied")
  /\ UNCHANGED <<granted, retry, world, issued, fresh, bounds>>

(* Any answer, for a handoff that was discarded while it was asked about. *)
AnsweredTooLate(t) ==
  /\ Quiet /\ drain[t].pc = "approval" /\ ~Queued(Item(t))
  /\ GoesOn(t)
  /\ UNCHANGED <<ledger, retry, work, world, history, bounds>>

ApprovalAnswered(t) == Approved(t) \/ Denied(t) \/ AnsweredTooLate(t)

-----------------------------------------------------------------------------
(* Turns. *)

UserTurn(b) ==
  /\ Quiet /\ ~Busy(b) /\ b \notin offline
  /\ turns < MaxTurns /\ turns' = turns + 1
  /\ turn' = [turn EXCEPT ![b] = "user"]
  /\ unheard' = {h \in unheard : Source[h] # b}
  /\ UNCHANGED <<ledger, drain, active, retry, watch, owed, world, issued, starts, fresh, restarts>>

(* queueDelegation.  A delegated turn has no tool for it (MAX_COMMS_DEPTH). *)
QueueDelegation(h) ==
  LET t == Source[h] IN
  /\ Quiet /\ turn[t] \in {"user", "wake"}
  /\ h \notin issued /\ Reachable(h)
  /\ Len(queue[t]) < MaxQueued
  /\ queue' = [queue EXCEPT ![t] = Append(@, h)]
  /\ issued' = issued \cup {h}
  /\ fresh' = fresh \cup {h}
  /\ UNCHANGED <<waiting, granted, receipt, drain, active, retry, work, world, starts, unheard, bounds>>

(* b is idle again: its watch is settled, its source woken, and b itself if *)
(* a wake is owed to it; then whoever waits for b is looked after.          *)
ComesFree(b) ==
  LET S     == Watched(b)
      after == [turn EXCEPT ![b] = IF b \in owed \ offline THEN "wake" ELSE "idle"]
      n(t)  == \E h \in S : Source[h] = t
      up    == {t \in Bots \ offline : n(t) /\ turn[t] = "idle"}
      awake == up \cup ({b} \cap (owed \ offline))
  IN
  /\ turn' = [t \in Bots |-> IF t \in up THEN "wake" ELSE after[t]]
  /\ owed' = (owed \ {b}) \cup {t \in Bots : n(t) /\ turn[t] # "idle"}
  /\ unheard' = {h \in unheard \cup S : Source[h] \notin awake}
  /\ watch' = [watch EXCEPT ![b] = NoHandoff]
  /\ retry' = retry \cup {b}

(* turn.completed, ok: the handoffs of the turn are drained. *)
TurnCompletes(b) ==
  /\ Quiet /\ Busy(b)
  /\ ComesFree(b)
  /\ receipt' = [h \in Handoffs |-> IF h \in Watched(b) THEN Outcome(b, TRUE) ELSE receipt[h]]
  /\ fresh' = {h \in fresh : Source[h] # b}
  /\ Drain({b}, queue)
  /\ UNCHANGED <<queue, waiting, granted, world, issued, starts, bounds>>

(* turn.completed, not ok: discardDelegations drops the whole queue.  The   *)
(* user stopped the turn or saw it fail, and the source is not woken.       *)
TurnFails(b) ==
  LET dropped == Range(queue[b]) IN
  /\ Quiet /\ Busy(b)
  /\ ComesFree(b)
  /\ queue' = [queue EXCEPT ![b] = <<>>]
  /\ waiting' = waiting \ dropped
  /\ receipt' = [h \in Handoffs |-> IF h \in Watched(b) THEN "failed"
                                    ELSE IF h \in dropped THEN "dropped" ELSE receipt[h]]
  /\ fresh' = fresh \ dropped
  /\ UNCHANGED <<granted, drain, active, world, issued, starts, bounds>>

(* Seeded fault: the watch is left behind. *)
SetupFailsUnwatched(b) ==
  /\ Quiet /\ Busy(b) /\ turn[b] # "stalled"
  /\ \A h \in fresh : Source[h] # b
  /\ turn' = [turn EXCEPT ![b] = "idle"]
  /\ retry' = retry \cup {b}
  /\ UNCHANGED <<ledger, drain, active, watch, owed, world, history, bounds>>

(* The turn fails before its provider has it: no turn.completed, but the    *)
(* watch is told.  Such a turn has queued nothing.                          *)
SetupFails(b) ==
  /\ Quiet /\ Busy(b) /\ turn[b] # "stalled"
  /\ \A h \in fresh : Source[h] # b
  /\ ComesFree(b)
  /\ receipt' = [h \in Handoffs |-> IF h \in Watched(b) THEN "failed" ELSE receipt[h]]
  /\ UNCHANGED <<queue, waiting, granted, drain, active, world, issued, starts, fresh, bounds>>

(* The watchdog stops a silent turn: its handoff has failed, the bot stays  *)
(* busy until the provider confirms ...                                     *)
TurnStalls(b) ==
  LET S == Watched(b) IN
  /\ Quiet /\ Busy(b) /\ turn[b] # "stalled"
  /\ receipt' = [h \in Handoffs |-> IF h \in S THEN "failed" ELSE receipt[h]]
  /\ Wake(S, [turn EXCEPT ![b] = "stalled"])
  /\ watch' = [watch EXCEPT ![b] = NoHandoff]
  /\ UNCHANGED <<queue, waiting, granted, drain, active, retry, world, issued, starts, fresh, bounds>>

(* ... or its grace period is over. *)
ReleaseOwnership(b) ==
  /\ Quiet /\ turn[b] = "stalled" /\ EndsUnheard
  /\ ComesFree(b)
  /\ UNCHANGED <<ledger, drain, active, world, issued, starts, fresh, bounds>>

Turns(b) == \/ UserTurn(b) \/ TurnCompletes(b) \/ TurnFails(b)
            \/ SetupFails(b) \/ TurnStalls(b) \/ ReleaseOwnership(b)

-----------------------------------------------------------------------------
(* The clock, the settings, the process. *)

WindowElapses(h) ==
  /\ Quiet /\ Queued(h) /\ h \notin old
  /\ old' = old \cup {h}
  /\ UNCHANGED <<ledger, drain, active, retry, work, barred, offline, history, bounds>>

(* Seeded fault: what is parked is left to the release of its target. *)
StuckUnparked == {h \in old \ waiting : /\ Queued(h) /\ Busy(Target[h])
                                        /\ drain[Source[h]].pc = "idle"}

(* What expireStaleDelegations removes: a thread mid-drain is left to its  *)
(* drain, and a handoff whose target could take it to the next drain.      *)
Stuck == {h \in old : Queued(h) /\ Busy(Target[h]) /\ drain[Source[h]].pc = "idle"}

ExpireStale ==
  /\ Quiet /\ Stuck # {}
  /\ Settle(Stuck, "expired")
  /\ Wake(Stuck, turn)
  /\ UNCHANGED <<granted, drain, active, retry, watch, world, issued, starts, fresh, bounds>>

Bar(b) ==
  /\ Quiet /\ b \notin barred
  /\ barred' = barred \cup {b}
  /\ UNCHANGED <<ledger, drain, active, retry, work, old, offline, history, bounds>>

ProviderComesOrGoes(b) ==
  /\ Quiet
  /\ offline' = IF b \in offline THEN offline \ {b} ELSE offline \cup {b}
  /\ UNCHANGED <<ledger, drain, active, retry, work, old, barred, history, bounds>>

World ==
  \/ \E h \in Handoffs : WindowElapses(h)
  \/ \E b \in Barrable : Bar(b)
  \/ \E b \in Unavailable : ProviderComesOrGoes(b)

(* The server restarts: queues and receipts are read back, elapsed windows  *)
(* are renewed, and every queue is drained.                                 *)
Restart ==
  LET left == {t \in Bots : queue[t] # <<>>} IN
  /\ Quiet /\ restarts < MaxRestarts
  /\ restarts' = restarts + 1
  /\ turn' = [b \in Bots |-> "idle"]
  /\ watch' = [b \in Bots |-> NoHandoff]
  /\ owed' = {} /\ retry' = {} /\ old' = {}
  /\ drain' = [t \in Bots |-> IF t \in left THEN Snapshot(queue[t]) ELSE NoDrain]
  /\ active' \in SetToSeqs(left)
  /\ fresh' = {}
  /\ UNCHANGED <<ledger, barred, offline, issued, starts, unheard, turns>>

Next ==
  \/ Microtask
  \/ \E t \in Bots : ApprovalAnswered(t) \/ Turns(t)
  \/ \E h \in Handoffs : QueueDelegation(h)
  \/ ExpireStale
  \/ World
  \/ Restart

Spec == Init /\ [][Next]_vars

(* Timers fire: a handoff's 24 hours pass, the hourly sweep runs, an        *)
(* approval is answered or times out after 15 minutes.  Nothing is assumed  *)
(* of how long a bot works.                                                 *)
Fairness ==
  /\ WF_vars(Microtask)
  /\ \A t \in Bots : WF_vars(ApprovalAnswered(t))
  /\ WF_vars(ExpireStale)
  /\ \A h \in Handoffs : WF_vars(WindowElapses(h))

FairSpec == Spec /\ Fairness

-----------------------------------------------------------------------------
(* Properties. *)

TypeOK ==
  /\ queue \in [Bots -> Seq(Handoffs)]
  /\ waiting \subseteq Handoffs /\ granted \subseteq NeedsApproval
  /\ receipt \in [Handoffs -> Outcomes \cup {"none"}]
  /\ drain \in [Bots -> Drains]
  /\ active \in Seq(Bots) /\ retry \subseteq Bots
  /\ turn \in [Bots -> {"idle", "user", "wake", "stalled"} \cup Handoffs]
  /\ watch \in [Bots -> Handoffs \cup {NoHandoff}]
  /\ owed \subseteq Bots
  /\ old \cup fresh \cup unheard \subseteq issued /\ issued \subseteq Handoffs
  /\ starts \in [Handoffs -> Nat]

(* A handoff becomes a turn at most once, however often its queue is        *)
(* drained, its approval asked, its thread stopped or the server restarted. *)
StartedOnce == \A h \in Handoffs : starts[h] <= 1

(* A receipt is final: work that was denied, dropped or expired never runs  *)
(* afterwards, and no late event rewrites an outcome.                       *)
VerdictsStand ==
  [][\A h \in Handoffs : receipt[h] # "none" =>
       receipt'[h] = receipt[h] /\ starts'[h] = starts[h]]_vars

(* Access revoked while a handoff waits for its turn, its target or the     *)
(* user holds: it does not start.                                           *)
RevokedIsRevoked ==
  [][\A h \in Handoffs : starts'[h] > starts[h] => Target[h] \notin barred]_vars

(* A watch belongs to the turn under way: no other turn of the bot is ever  *)
(* reported as the answer to a handoff.                                     *)
RightReply == Quiet => \A b \in Bots : watch[b] \in {NoHandoff, turn[b]}

(* No lost wake-up: a queued handoff waits for the turn that queued it, for *)
(* a target that is busy, or for a drain that will come to it.              *)
NoStrandedHandoff ==
  Quiet => \A h \in Handoffs : Queued(h) =>
    \/ h \in fresh
    \/ h \in waiting /\ Busy(Target[h])
    \/ LET d == drain[Source[h]] IN
         d.pc # "idle" /\ (h \in Range(d.todo) \/ d.again \/ h \notin d.seen)

(* index.ts:4340 and delegations.ts:72: every handoff that left the queue   *)
(* runs under a watch or has its terminal record.                           *)
HandoffsAccounted ==
  Quiet /\ restarts = 0 =>
    \A h \in issued : \/ Queued(h) \/ receipt[h] # "none"
                      \/ watch[Target[h]] = h

(* Handed-over work starts or is given up, even if its target never comes   *)
(* free, as long as its source's own turns end.                             *)
Delivered ==
  \A h \in Handoffs : []<>~Busy(Source[h]) => (Queued(h) ~> ~Queued(h))

(* The source of a settled handoff hears of it in a turn of its own.        *)
Heard ==
  \A h \in Handoffs : []<>~Busy(Source[h]) =>
    (h \in unheard ~> h \notin unheard \/ restarts # 0)

=============================================================================
