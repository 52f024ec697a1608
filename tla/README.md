# kind-meitner: models and proofs

TLA+ modules, TLC runs and TLAPS proofs about the server of kind-meitner, a
workspace in which bots take turns for their user, hand work to each other,
run routines and buy services on the OKX marketplace. The program is a single
Node process with JSON files as its storage. Its hard parts are therefore not
threads but **awaits**: everything that was read before one may be stale
after it, while timers, provider events, HTTP requests, failing writes and
restarts interleave. Each module below gives one component's state, one action
per handler or per stretch of code between two awaits, and the properties that
should survive every interleaving.

Contents: [inventory](#inventory) · [plan](#plan) · [modules](#modules-and-how-they-correspond-to-the-code) ·
[runs](#runs) · [proofs](#proofs) · [findings](#findings) · [not modelled](#what-is-not-modelled)

## Inventory

| Component (sources) | State it keeps | Operations | Interacts with | What is hard | What makes it correct |
|---|---|---|---|---|---|
| OKX treasury and engine (`server/okx/scheduler.ts`) | balance, receipts (file), reservations (memory) | deposit, setBalance, reserve, commit, release, stale sweep, refund; executeScheduledRun | gateway (post, pay), settings form, routines | runs overlap across three awaits; payment lands before the CLI answers; failing saves; restart forgets reservations | promised money is covered, the monthly cap holds, no double spend, books balance |
| Routine runs (`server/routines.ts`) | routines and runs (file), tick under way | tick, runNow, update, cancelRun, disableForBot, provider events, finishGoalRun, finishOkxRun | turns (index.ts), OKX engine, delegations, webhooks | tick awaits while runs are cancelled, replaced by a rollback, or answered late | one scheduled run at a time, started once, settled once, reported once, no run spins for ever |
| Delegations (`server/delegations.ts`, `peer-approval.ts`, wiring in `index.ts`) | queue and receipts (files), drains, watches, owed wakes | queue, drain, approve, start, finalize, expire, discard, release, boot | turns of both bots, watchdog, settings | snapshot walked across approvals of minutes; releases arriving mid-drain; starts refused late; restart | started once, verdicts final, the right reply to the right request, nothing stranded, the source hears |
| OKX gateway and ledger (`server/okx/gateway.ts`, `journal.ts`) | task records and event ids (files) | postTask, agentPayment, webhooks, accept, reject | treasury, watcher, evaluator | webhooks late, repeated, out of order; two files written one after the other | what was acknowledged is kept; the ledger says what the market has said |
| Delivery watcher, evaluator (`watcher.ts`, `evaluator.ts`) | deliberations, fees, commitments (file) | checkTask, deliberate, claimFee, submitVote, commitVote, revealVote | gateway, CLI | the task read before an await is settled by a webhook meanwhile; deliberating again after a claim | a fee is claimed once; the rubric's parts add up to the total that decides |
| Webhook triggers (`webhooks.ts`) | delivery receipts | receive, enqueue | routines | redelivery, crash between enqueue and receipt | each delivery runs once |
| Steer and channel queues (`steer-queue.ts`, `channel-queue.ts`, `send-idempotency.ts`) | follow-ups (files) | queue, dispatch, settle, restore | turns | crash between dispatch and settle; retried sends | the user's words are neither lost nor sent twice, in order |
| Room handoffs (`room-handoffs.ts`) | trees of requests (file), a turn per running request | enqueue, sourceSettled, cancelTree, cancelRoom, cancelDirect, stopAwaitingDirect, tick | direct turns, room turns, the Stop button | late answers, a failed save in the middle of a tick, waiting for each other | ends are final, who asked goes on with all answers, nobody waits for ever |
| Turn dispatch and watchdog (`turn-dispatch-guard.ts`, `turn-resources.ts`, `turn-watchdog.ts`) | claims, generations, retired turns | claim, bind, retire, settle | every turn | late events of a retired turn | at most one owner of a thread; no event crosses generations |
| Computer control (`computer-control.ts`, `shared-computer-control.ts`) | leases | acquire, renew, release | turns | expiry against late release | one controller at a time |
| Data directory lease (`electron/data-dir-lease.mjs`) | lease and election records (files) | acquire, delegate, elect, retire, release | other processes | death at any step, races to retire a dead owner, pids used again | one holder; a dead holder does not lock the directory |
| Supervisor, updater (`electron/server-supervisor.mjs`, `updater-coordinator.mjs`) | child, budget, phase | start, exit, restart, stop | server process | exit during stop, update during restart | bounded restarts, never two children |
| Server (`server/index.ts`) | maps of turns, watches, wakes | HTTP routes, event fold | everything | 16,000 lines of wiring | the callbacks of the components above |
| Stores (`store.ts`, `message-db.ts`, `atomic.ts`) | messages, bots | read, write | everything | whole-file atomic writes | a reader sees an old or a new file, never a mix |
| Memory, checkpoints, backups | files | journal, restore | store | little control flow | - |
| Providers (`server/harness`) | sessions | sendTurn, interrupt | turns | external programs, silent or late | the environment of the models |
| Market intelligence, desktop shell, companions, cloud | - | - | - | user interface, hosting, statistics | - |

The hazards this code is exposed to, each at its line and with the property
that would notice, are listed in `PROJECT.json` under `hazards`.

## Plan

In order of what would hurt most; **done** marks what is here.

1. **Treasury**, with **SpendAccount** as its abstract specification and
   **SpendTotals** for the sums: **done**, checked, and every property of its runs
   proved, the refinement of SpendAccount included.
2. **RoutineRuns**: **done**, checked and every safety property proved.
3. **Delegations** with approvals: **done** for handoffs between threads of bots, checked and
   every safety property proved.
4. **OkxTasks** (ledger, webhooks, watcher), **OkxDisputes** (evaluator) and **Rubric**, composed in
   **Okx**: **done**, checked and every property proved.
5. **DataDirLease**: **done**, checked; mutual exclusion and the success of recoveries proved.
6. **DirectTurns** (claims, handshakes, watchdog) and **FollowUps** (the durable queue), composed in
   **Conversation**: **done** for one direct thread, checked and every safety property proved.
7. **RoomHandoffs**: **done**, checked and every safety property proved.
8. Not begun: webhook receipts in front of RoutineRuns' queue, the channel queue, turn
   resources, computer control, the server's supervisor.

Abstract specifications worth stating beyond SpendAccount: a run as a one-way
life cycle (queued, under way, over) that RoutineRuns implements; a handoff as
"queued, then at most one turn, then one receipt" that Delegations implements.

## Modules and how they correspond to the code

### SpendTotals, SpendAccount, Treasury (`server/okx/scheduler.ts`)

`SpendTotals` gives the sum over a set of runs without recursion: a run owns
`Budget[r]` coins and a total counts coins. `SpendAccount` is what an operator
is promised: a spend is one atomic check (per-run limit, balance, 30-day cap)
and debit. `Treasury` is the code:

| Code | Model |
|---|---|
| `balance`, `receipts` | `balance`, `debitedAt`, `refundedAt` (a receipt per run, by time) |
| `reservations` | `heldAt`: when each run's reservation was taken |
| `okx-treasury.json` | `file`, rewritten by `SaveOk`, left behind by `SaveThrows` |
| `executeScheduledRun` | `stage`: `posting`, `gas`, `paying` are its three awaits; one action per continuation (`Reserve`, `PostTask`, `GasShort`, `CommitReservation`, ...) |
| `canSpend` with its sweep of stale reservations | `CanSpend`, `Fresh` |
| the task record of gateway.ts | `task`: its status and transaction hash |
| the chain | `paid`: a payment lands (`PaymentLands`) before the CLI answers, and may be reported as an error |
| a process that dies between the hash (scheduler.ts:508) and the debit (scheduler.ts:533) | `LeftBehind` in `Restart`; `torn` remembers whose debit was lost |

Amounts are naturals where the code uses floating point. `MockMode` is the test
and development fallback that invents a hash when no CLI is configured.
`refundTask` has no production caller; it is modelled as it is, for any task and whether or not that was
debited, and switched by a constant. A run has one refund receipt in the model, so a second refund of the
same task is beyond its bounds; it would do what the first does.
The ledger file of gateway.ts is not reloaded at a restart here, but for the hash that a torn run leaves.

### RoutineRuns (`server/routines.ts`)

`runs` is `this.runs` and `file` what was last saved. `tick` holds where the
one tick under way stands: awaiting an interrupt (`stopping`) or a start
(`starting`), with the run objects it iterates; a failed definition write
replaces `this.runs` by copies, and the tick goes on with the old ones
(`tick.copy`). A schedule is reduced to whether the next occurrence is ahead,
due or stale (12 hours), a limit to whether it has passed. Provider events
(`TurnCompletes`, `TurnFails`, `RequestOpened`, ...), goal ends, the OKX engine's
answer, delegated work, the operator's cancels, pauses, resumes, deletions and
the restart are actions. A save that fails inside tick() rejects with nobody to
catch it and ends the process: that is `Restart` from the state before. The saves
behind the reports of providers, goals, wakes and the OKX engine run outside the
tick, where their caller catches what they throw: `ReportUnsaved` changes the run in memory
only and leaves out what the code would have done next, one disjunct per handler. A handler that
changes no run may or may not write the file (`Save`): after a lost write that decides what a restart finds.

Delegated work comes back (`DelegationReturns`), cannot wake the run (`DelegationWakeFails`), or is never heard
of: `DelegationLost` is the overwritten watch of [finding 1](#findings), seen from the run that waits. `lost` is the
history of those runs. Nothing but their limit or a person ends them.

### Delegations (`server/delegations.ts`, `server/peer-approval.ts`, `server/index.ts`)

| Code | Model |
|---|---|
| `pendingDelegations`, `waitingOnBusy`, `approvalAlreadyGranted` | `queue`, `waiting`, `granted` |
| receipts | `receipt` |
| `drainingThreads`, the snapshot, `queuedRedrains` | `drain[t]`: `pc`, `todo`, `seen`, `again` |
| `delegationRetryBots` and its microtask | `retry`, action `Retry` |
| `delegationWatch`, `pendingDelegationWakes` | `watch`, `owed` |
| a bot's busy thread | `turn`: idle, a user's turn, a wake, stalled, or a handoff |

An await of a promise that is already settled continues before any other
event, and so does a microtask. `active` and the `starting` drains are what is
left to run in that breath; events (`Turns`, `QueueDelegation`, answers of the
user, `World`, `Restart`) need `Quiet`. The await of the user's approval is the
one long await of a drain: everything may happen during it.
`DrainItem`/`Process`/`Judge` are `processOne`, `Approved` repeats its checks
after the answer, `Start` and `StartAnswered` are the two sides of
`await runTarget`, `ComesFree` is what every end of a turn shares
(`finalizeDelegationWatch`, the owed wake, the retry microtask), and
`TurnCompletes`, `TurnFails`, `SetupFails`, `TurnStalls`, `ReleaseOwnership` are
the ways a turn ends. Within one event the model wakes a bot before its queue is
drained where the code wakes it after; a drain never looks at its own
source's turn, so the outcome is the same.

`fresh` and `unheard` are history: handoffs whose source turn has not ended
well, and outcomes after which the source has had no turn. `Filters` gives
`Array.prototype.filter`, with which the code takes items out of its queues, as a recursive
function that can be reasoned about; RoutineRuns uses it for the due routines and the run list.

### Rubric, OkxDisputes, OkxTasks, Okx (`server/okx/gateway.ts`, `journal.ts`, `watcher.ts`, `evaluator.ts`)

| Code | Model |
|---|---|
| `OkxLedger.tasks` and its file | `ledger`, `ledgerFile`; a record has its status, its delivery, whether the marketplace knows it, and as history the webhooks it reflects (`seen`) |
| `OkxWebhookJournal` and its file | `journal`, `journalFile` |
| `POST /api/okx/webhook` | `Webhook`: the ledger moves and is saved, listeners run, then the journal is asked and written. `WebhookUnsaved`, `CrashInWebhook`: it goes wrong in between |
| `executeScheduledRun` beyond `postTask`, as far as it writes the ledger | `posting`: `unpaid`, `paid`, `done`; `PaymentLands`, `HireSucceeds` ("in_progress"), `HireFails` ("failed"). They write over whatever webhooks have made of the record meanwhile. `paid` is history |
| `checkTask` | `check[c]`: `evaluating`, `accepting`/`rejecting`, `accepted`/`refused` are its awaits |
| deliberate, claimFee, submitVote, commitVote, revealVote | the actions of OkxDisputes, cut at their awaits |
| `Math.round`, the clamps and the second pass of the rubric | `Rubric`: scores in tenths and hundredths, so that roundings are exact |

The marketplace is external: it moves a task, announces it with a webhook that
may arrive at any later time, any number of times and in any order, and refuses a
verdict on a task that does not stand delivered. What advocates read out of a
deliverable is a choice among the scores they can give. `Faults` is one budget
for everything that goes wrong: `Fault` spends one, `NoFault` none. Tasks and disputes
share no variable but the budget and the crash, and their interleavings show nothing: `MCOkx` explores
the one or the other while its counterpart rests (`TasksAlone`, `DisputesAlone`).

`LedgerTruthful` speaks of the marketplace and of the hire, because both write: "in_progress" is said of a task that the
market has in progress or whose payment landed, "failed" of one whose hire is over. A hire that ends after a
delivery was announced replaces "delivered" by its own status; the webhook's own check of
the delivery is under way by then, but the poll no longer looks at the task.

### DataDirLease (`electron/data-dir-lease.mjs`)

Every file operation is a step of its own: `Link`, `ReadOwner`, `Elect` (the
election record of one generation), `ReadReaper`, `Recheck`, `Unlink`, `Confirm`,
`CheckOwn`, `UnlinkOwn`. A file's contents are who wrote it. A process is one
acquisition with its token: a program that starts again is another process.
`Die` may strike between any two steps, and the pid of the dead may be in use
again (`reused`), whereupon its records look alive. `Former` is an owner that
died before the behaviour begins. Desktops are `Owners`, and give the servers they
start (`Children`) their capability (`boss`).

### DirectTurns, FollowUps, Conversation (`server/index.ts`, `steer-queue.ts`, `send-idempotency.ts`, `turn-dispatch-guard.ts`, `turn-watchdog.ts`)

`DirectTurns` holds operators on one record, the thread's turn: the dispatch
claim, its phase, the turn ids that are bound or retired, the quarantine of a
cancelled handshake, the watchdog. `FollowUps` holds operators on the messages:
the transcript, the rows of the durable queue, the queue in memory. `Conversation`
has the variables and one action per handler, and is where they meet: a handler
that ends a turn drains the queue in the same step.

| Code | Model |
|---|---|
| `directTurnDispatchClaims`, `PendingTurnCancellations`, `RetiredTurnRegistry` | `turn.claim`, the quarantine and the retired generations of `turn` |
| `chat_followups` (FULL sync), transcript (NORMAL sync) | rows of `chat`, `chat.log`; a power failure drops an unflushed end of the log (`Unsynced`), a FULL write flushes it |
| `SendSequencer` | `Sequenced`: a repeated send waits for the one in flight |
| the steer of a busy turn | `Send`, `SteerTaken` (in the provider), `SteerReturns` |
| recovery at boot | `RecoverRow`, row by row with crashes in between, then `Listen` |
| a room's turn and the bot's other threads | `other`: `threads` (the limit of parallel threads) or `channel`; `ChannelWaits` is the operation that comes to the busy bot and waits for it, during which it is not part of the operation (index.ts:2889) |

One thread of one bot; a provider's turn id is the generation of its claim.
Left out: the order within a queue, capabilities, resources of a turn, coordinated turns.
Writes of rows succeed. A steer that was accepted and then answered with an error
may be sent again by the user: steered words are not counted as a run. A
process that is interrupted is gone within the grace of 6 seconds; a handshake
that answers does so within the quarantine of 30 seconds, one that hangs never
answers. After a stall `settleDirectFollowup` retires the bound turn, so its
`turn.completed` is ignored and only the grace frees the thread.

### RoomHandoffs (`server/room-handoffs.ts`, hooks in `server/index.ts`)

`node[i]` is a request or, at a root, the turn of a user that asked for
something; the numbers are the order of creation, in which the code's maps are
walked. `turn[p]` is the turn under way at a place: a bot's thread with whoever opened it, or the room. The
handlers compute with the pair of both (`Now`, `Becomes`), in the order of the code: `Tick`
is `tick()` over all nodes, `Visited` what it does with one of them (`Expires`,
`Reports`, `Resumes`, `Launches`), `CancelledTrees` is `cancelTree` with the aborts it causes,
`StoppedDirect` is `stopAwaitingDirect`, `Asks` is `enqueue` with its limits and the pruning of the history, `Asking` the node that asks.

An abort stops a direct thread for good: its capability is revoked and its process told to end. In the room it
marks the operation only (`CalledOff`), which the turn looks at until its provider has been asked (`SetupEnds`) and not
after (see the disagreements below). Only a Stop pressed in the room interrupts that turn. So `WorkHasItsTurn` says of both that
a running request has its turn, and of direct threads that a request that has ended has none that may act.

A direct turn makes its bot busy as it starts, a turn in the room only when its setup is over (`Claimed`, `AtWork`).
In between `activeGroupTurnForBot` has the bot (`InRoom`): a tick takes the bot for free and starts a direct request, `startTurn` refuses
it (`FirstStep`, "refused"), and the request fails. A room turn whose setup ends waits for a bot at work elsewhere.

One room, one thread per pair of bots: the extra threads opened for parallel work
are out of bounds. Texts, approvals, the rework flag and repeated requests with a known
key are left out, and so is a request whose own tree is evicted as it is made (see the disagreements). A start that is refused at once is a setup that fails. The
save just before a start may fail (`TickFails`), others succeed. A room turn looks
at its route again when it begins, which is the tick's own check.

Operators commented as "Seeded fault" are mutated versions of one definition,
each the shape of a plausible bug; the definitions in use are the others. They
show for every property that some mistake in the code would break it.

## Runs

`tlc -workers 2 -config <run>.cfg <module>.tla` repeats a run. Deadlock is not
checked in any of them: the bounds end every behaviour, and a server that
nobody uses may stay idle.

| Run | Properties | What it shows |
|---|---|---|
| `treasury_concurrent` (MCTreasury) | `ReservedCovered`, `MonthlyCapHeld`, `NoOrphanReservation`, `ImplementsAccount` | three overlapping runs, sweeps, a top-up, a restart: reserve-then-commit is as good as an atomic check and debit |
| `treasury_serial` (MCTreasury) | `NoDoubleSpend`, `RunsKeepTheirReservation`, `BooksBalance`, `OkMeansBooked` | production: one run at a time and a real CLI; payments that land and are reported as errors, the settings form, refunds, a failed save and two restarts, also between hash and debit |
| `routines_mixed` (MCRoutineRuns) | `OneScheduledRun`, `StartedOnce`, `RunsHaveAnOwner`, `FailuresReportedOnce`, `OverIsOver` | a bot routine and a room goal under everything that can happen to them, a lost watch and a restart included; and again without limits, when the save of a report, a cancellation or a definition fails |
| `routines_fair` (MCRoutineRuns) | `LimitedRunsEnd`, `QueueDrains` | a bot routine and an OKX routine of one bot; silent providers, a failed write |
| `delegations_safety` (MCDelegations) | `StartedOnce`, `RightReply`, `NoStrandedHandoff`, `VerdictsStand`, `RevokedIsRevoked` | three handoffs of two sources; approvals, refused starts, revoked access, stalls, unheard ends, expiry, a restart |
| `delegations_fair` (MCDelegations) | `Delivered`, `Heard` | the same handoffs and fair timers |
| `okx` (MCOkx) | `AnsweredKept`, `LedgerTruthful`, `FeeClaimedOnce`, `RubricAddsUp` | a task posted, paid for by its hire, moved by webhooks in any order and number, polled, judged and expired, with a failed write or a crash; two juries, three deliberations, claims, two commitments and reveals, with two |
| `lease_recovery` (MCDataDirLease) | `HoldersKeepTheirLease`, `NotAllRefused` | three desktops and two servers race for a dead owner's directory and die themselves; while nobody else dies and no pid is reused, not all are refused |
| `conversation` (MCConversation) | `SaidOnce`, `RunOnce`, `PromisesKept`, `CancelledStaysOut`, `OneProviderTurn`, `ThreadKeptByItsTurn`, `FollowUpsRun` | two messages, one of them sent twice, to a bot at work: steers, stops, stalls, hung and late handshakes, deletion, crashes between any two writes |
| `room_handoffs` (MCRoomHandoffs) | `ResumedWithAllAnswers`, `WorkHasItsTurn`, `EndsStand`, `TeamsFinish`, `LifetimeEndsAll` | a tree of requests between three bots and a room next to an older tree, with a restart, a failed save or a turn that hangs |
| `delegations_lost_receipt` (violation) | `HandoffsAccounted` | finding 1 |
| `followups_stranded` (violation) | `FollowUpsRunDespiteChannels` | finding 2 |

The passing runs reach between 87,000 and 3.2 million distinct states.

The type invariants are proved and cost no run.

### Bounds, and why they are enough

- Treasury: three runs with budgets 2, 2 and 1 and an account of 3: any two of
  the larger exceed it, one of each fits exactly. The cap of 4 is hit by three
  runs only, so balance and cap are both at their edge. A reservation is stale
  after more than 1 tick and the window is 2 ticks long, so that with times up to 3 or 4
  reservations go stale during a payment and debits leave the window.
  `treasury_serial` has the runs of 2 and of 1, which together use the account up, and two restarts, so that
  the books read back after a torn run are spent from and read back again. The settings form may set the balance to 1,
  below what a run under way holds. A real CLI is the wider choice: a mock build (`MockMode`) invents its
  hashes, and no payment of it can land unnoticed; the theorems are about both. `NoDoubleSpend` counts payments that the engine was told
  of. It excepts torn runs and what follows a failed save, where the code loses the debit.
  `BooksBalance` and `OkMeansBooked` do not depend on one run at a time; of runs that overlap their theorems speak.
- Routine runs: two routines (one recurring, one that occurs once), `MaxRuns = 2`
  run records, one restart, one turn of a user. Two is what the hazards need: a tick
  that awaits one run while the other changes, an old and a new run of one
  routine, two routines of one bot. `routines_mixed` explores two worlds (`OneWorld`). In one every save
  succeeds, agents are deleted, the recurring routine is paused and resumed, and limits pass. In the other a save fails and
  the restart reads what was written before, while the rest of the world keeps still (`WorldKeepsStill`); no limit passes in it, because a failed definition write during
  the timeout scan leaves copies (see the disagreements). `routines_fair` has a failed write, and nobody pauses or deletes.
- Delegations: two sources of one target (`h1`, `h2` to `b3`), and a source
  with handoffs to two targets (`h1` to `b3`, `h3` to `b2`), one of whose
  targets is itself a source. That gives contention, a drain under way when another
  target comes free, and a chain. Two turns of users besides all wakes. `h1` needs approval. In
  `delegations_safety` the target `b3` loses its provider at any time and its
  peers' access once; `delegations_fair` leaves both out, because a refused
  wake is told to the user and not to the bot.
- OKX: one task with two deliverables, one that passes and one that does not, two checks at
  once, four events at the marketplace (acceptance, delivery, rejection or
  release, and what follows it), one fault, a lost write or a crash. The fourth event comes while at most
  one of the checks is under way (`Overlapping` in `MCOkx`). They
  are interchangeable, which the symmetry uses. The hire may end at any of these moments. A dispute has two faults, one to
  lose a write and one to crash on it, two juries and a commitment more than it needs. The rubric is evaluated for every
  combination of raw scores the code can give (`MCCases`), and proved for all.
- Lease: three desktops and two servers, two generations of reapers where the code has a
  constant larger number, two deaths: one of the elected reaper and one of a holder or of the
  reaper's successor. Owners are interchangeable and so are children.
- Conversation: two messages, the first possibly repeated, three provider turns, two faults
  (crashes, hung handshakes, silent providers). Three messages with one fault were run once without liveness.
- Room handoffs: three bots (chains of depth two and a fan of two), three new nodes beside an
  older tree of two, so that the history reaches its cap and is pruned; one turn of a user, one fault. The
  budgets are at their edge: two requests, three executions, depth two. Two turns of users, and
  users in the threads between bots, were run once for safety alone.

### Fairness

- `RoutineRuns`: the timer calls tick() every 10 seconds and time passes
  (`WF` of `Scheduler` and `LimitPasses`); a start is answered because the
  portal and tools of the OKX engine have timeouts and a turn's start is
  acknowledged at once (`WF` of `StartAnswered`); an interrupt is answered
  (`WF` of `Interrupted`). Nothing is assumed of providers or people.
- `Delegations`: microtasks run; an approval is answered or denied after 15
  minutes; 24 hours pass; the hourly sweep runs. Nothing is assumed of how
  long a bot works: `Delivered` and `Heard` only ask that the *source's* turns
  end again and again, and the target may work for ever.
- `Conversation`: setups end, answers of the provider arrive or the quarantine ends, frames are delivered, the watchdog
  and its grace fire, turns in other threads end, queues are drained after a
  boot. A provider that was stopped or went silent owes nothing.
- `RoomHandoffs`: the timer ticks while a tick would change something, and of
  the turns that do not hang one goes on. This is weak fairness of both actions with their ENABLED
  written out, which TLC evaluates much faster. A turn hangs only by a
  fault; `TeamsFinish` excuses it, `LifetimeEndsAll` does not.

## Proofs

`tlapm <module>.tla` checks `Treasury_proofs`, `Okx_proofs`, `DataDirLease_proofs`,
`Filters_proofs`, `Delegations_proofs`, `Conversation_proofs`, `RoutineRuns_proofs` and
`RoomHandoffs_proofs`. They hold for every set of routines, runs, processes, tasks, bots, handoffs or
messages and every value of budgets, windows and bounds; what a theorem assumes beyond the
assumptions of its module is named here.

- `Treasury_proofs` begins with the laws of the sum over a set of runs (`TotalDisjoint`,
  `TotalAdd`, `TotalRemove`, `TotalAtMost`, ...), from the cardinality theorems
  of the library.
- `TypeCorrect`: `Spec => []TypeOK`, no assumption.
- `ReservationsCovered`: what is reserved is covered, **if the settings form
  is not used** (`SettableBalances = {}`): `setBalance` does not look at
  reservations, and `ReservedCovered` fails with it. `ReservedCovered` alone is not
  inductive: a restart replaces the balance by the one in the file. `CoveredInv`
  adds that the file's balance is not negative; the reservations are gone then.
- `MonthlyCapKept`: spend plus promises stay under the cap, **without refunds**
  (`RefundsEnabled = FALSE`): a refund of a debit that has left the window frees cap that was
  never used. The strengthening `CapInv` adds the same bound for the
  receipts in the file. It relies on the window only losing receipts while time
  passes, and on a commit moving a budget from "reserved" to "spent".
- `NoOrphans`: a reservation always belongs to a run under way; inductive
  with `TypeOK`.
- `DebitsAreBacked`: debits carry a hash. `BackedInv` adds that a run with a debit,
  in memory or in the file, is over: otherwise a later failure could clear its hash.
- `SerialRunsKeepTheirReservation`: **if one run is under way at a time**
  (`MaxInFlight <= 1`), the stale sweep never takes the reservation of a run
  under way; with two, it does (see the disagreements below).
- `BooksAlwaysBalance`: balance and debits add up to deposits and refunds, no assumption.
  `BooksInv` says it of the file too, which a restart reads back.
- `OkRunsAreBooked`: a run that ended well is debited with its hash, in memory and in
  the file, no assumption.
- `NeverSpentTwice`: what the engine was told was paid has left the balance, whatever the settings form makes of
  it, **with one run at a time** (`MaxInFlight <= 1`); the property itself speaks of the time before a save fails,
  and not of torn runs. The argument: every hash is a debit or
  torn (`HashInv`), because a payment without one needs a commit that finds no reservation, which
  `SerialRunsKeepTheirReservation` excludes; and the books balance.
- `TreasuryImplementsAccount`: reserve, pay, commit and release implement the atomic check and debit
  of SpendAccount, **without balances set by hand, refunds, and with no failed save before a restart**
  (`SettableBalances = {}`, `RefundsEnabled = FALSE`, `MaxSaveFailures = 0 \/ MaxRestarts = 0`). SpendAccount
  has neither the settings form nor refunds; a restart after a lost save brings back older books, which
  no account does. The commit is the step that
  spends, and it checks nothing: `AccountInv` adds to `CoveredInv` and `CapInv` that what
  `reserve` asked of the budget stays true of what is held (`HeldAllowed`), and that a restart finds the books as they were.

- `RebalanceAddsUp` (`Okx_proofs`): for every scoring, every rounding of a step and every target between 0 and the
  maximum, the rebalanced dimensions add up to the target and stay within
  their limits. The argument: the spread moves a sum by what it did not clamp, and the
  room left in all dimensions together is at least what is still missing; one
  top-up after the other then uses up the room or the remainder.
- `RulingsAddUp` (`Okx_proofs`): so does every deliberation on the books and in the file (`EvaluatorInv`),
  whatever the juries read: the target is clamped to 0..100 before the rebalancing, a tie
  rounded either way.
- `FeesAreClaimedOnce`: `FeeInv` says that a claim is in the file before it is answered, and
  that memory knows of every claim in the file; deliberating, committing and a crash keep both.
- `AnsweredWebhooksAreKept`, `LedgerIsTruthful`: from `TasksInv`, in two halves because a crash reads the file
  back: memory and file are truthful, and memory reflects every webhook the file reflects (`Consistent`).
  `Keeps` says of the file what an answered webhook promised: its record has taken the webhook in. (A verdict or a hire may write
  another status over it afterwards.) `EventsTrue` and `ChecksTrue` say that no webhook and no
  verdict under way says what the market did not do; `Unposted` that neither side knows of a task before it is
  posted, and that a hire under way has its task in the ledger. A hire's "in_progress" is
  true because its payment landed (`HireStep`, `SaidLedger`), its "failed" because it is the hire's last word.
- `TypesHold`, `LeaseIsExclusive` (`DataDirLease_proofs`): whoever holds the directory is named by its lease, for any number
  of processes, generations and deaths. `HoldersKeepTheirLease` is not inductive: a process about
  to unlink a lease has to be the only one that may. `IInv` adds `Elections` (a process that got past an election of
  generation `g` is on record there, and the records of the generations before it name
  dead processes: at most one live reaper per owner) and `Retiring` (who is about to unlink found
  there the dead owner it was elected for). Nothing is assumed of the scheduling.
- `RecoverySucceeds`: while nobody has died and no pid is used again, not all desktops are refused. `Progress`: until an
  owner wins, the lease is as the dead one left it, or one owner is recovering it (`NobodyYet`).

- `Filters_proofs`: what filtering a queue keeps, drops and leaves in order; that a function defined by
  its value at 0 and by a step is that loop; that a set of naturals has a least member.
- `HandoffsStartOnce`, `VerdictsAreFinal`, `RevokedStaysOut`, `RightTurnAnswers`, `NobodyStranded`,
  `TypesAreKept` (`Delegations_proofs`): every safety property of Delegations, for any number of bots, handoffs,
  approvals and restarts. The argument rests on one moment: what was started, refused or settled has left
  its queue, except while the drain of its source is at the await of `runTarget` (`At`), and no event of the world
  falls there (`OnceInv`, `StartingInv`, `WatchInv`). Nothing is stranded because somebody minds every queued
  handoff (`CoveredInv`): the turn that queued it, its busy target and the retry when that comes free, or a drain
  that has it in its snapshot or will take another one.
- `NoTwoProvidersAtWork`, `TurnsKeepTheirThread`, `WordsAreSaidOnce`, `WordsRunOnce`, `PromisesAreKept`,
  `CancelledStaysCancelled` (`Conversation_proofs`): every safety property of
  Conversation, for any number of messages, requests, turns and faults. The two halves have an invariant each.
  `TurnsOK`: the claim is the latest generation's; a process at work is quarantined or is the latest turn's,
  which is then busy; frames and grace periods wait only for processes that are over or quarantined.
  `MessagesOK`: the words of a message are in the transcript once and not while its row is
  pending; a claim names the turn that carries it, and its row is not settled before its words
  are flushed (`ClaimedOK`), which is what a power failure cannot undo; what was carried is claimed or said, so
  that it is not taken for new (`CarriedOK`); an open request is for words that are nowhere yet (`AskingOK`).
  Each operation of FollowUps keeps it given what its handler has checked, and a step is a turn's move
  followed by such an operation. `DownInv` says that nothing is under way until the server listens.

- `StartsOnce`, `SchedulesOne`, `TypeCorrect` (`RoutineRuns_proofs`): no assumption. What is on record is a list of
  runs in memory and another in the file, which differ after a failed save and which a restart exchanges; `IInv`
  therefore says the same of both (`Listed`): runs are numbered as they were queued, a recurring routine has one
  scheduled run that is not over, and a queued run was never started. The last holds of the file because the
  save that takes a run out of the queue comes before its start, and ends the process when it throws.
- `NoRunIsLost`: **if no run has a limit or no write fails** (`NoCopies`: `Limited = {} \/
  MaxSaveFailures = 0`). Otherwise a failed definition write during the timeout scan replaces the run objects
  (routines.ts:1320), the scan goes on with the old ones, and what it fails is still under way in the list:
  see the disagreements. `Owned` names who has a run under way (its provider, a delegation, an
  open request, the OKX start that is awaited) and says that a start that is awaited has not failed. A waiting run whose
  watch was overwritten is not excluded by an assumption: the property names it (`lost`).
- `ReportsOnce`: **if every write succeeds** (`AllSaved`: `MaxSaveFailures = 0`). A report whose save throws is not told, and the
  restart that finds its run still under way tells it instead; a second failure may come before.
- `ReceiptsStand`: what is over stays as it ended, **without OKX routines, and with no failed save before a restart**
  (`MaxSaveFailures = 0 \/ MaxRestarts = 0`). A late answer of the OKX engine completes a cancelled run
  (routines.ts:1602), and a cancellation whose save threw is undone by the restart (routines.ts:1270).
- `HandoffsFine`, `WorkIsTurned`, `AnswersFirst`, `EndsAreFinal` (`RoomHandoffs_proofs`): every safety property of room
  handoffs, for any bots, rooms, limits and saved trees, any number of stops, deletions and restarts.
  `WorkHasItsTurn` is not inductive. `IInv` adds that nodes are numbered as they were created (`Numbered`) and
  come after their parents (`Grown`); that only what has ended is reported, and who is about to be
  resumed has all its answers; that a turn is where its node is and, in a direct thread, may act only while that runs or was
  evicted (`Taken`); that a running node has its turn, but for those whose tick failed before the start (`Worked`).
  The handlers compute with records of nodes and turns, so each is proved to keep `Fine` of a record.
  `tick()` is a loop of such computations over the nodes in their order (`Passed`). That children come after
  their parent is what makes it right: a parent resumed in a tick has answers from before that tick, not from
  children that the same tick has yet to look at.

The proofs changed the modules where these could not be reasoned about or said too little: constants that are sets of
bots and messages are finite (`DelegationsAssumption`, `SendsAssumption`), names of handoffs differ from the other things a thread can be at, the
cases of OkxDisputes have the shape the jury produces (`CasesAssumption`), and queues and run lists are filtered with `Filter`.
The order of routines has no repetition (`RoutinesAssumption`), as `this.routines` has none. The file of room
handoffs holds whole trees, parents first, in which what was active has failed (`HandoffsAssumption`), as the loader leaves it. And
a proof found a mistake in `Asks`: a turn of a user whose root had been evicted asked under the evicted root; the code
looks its generation up, finds nothing and makes a new root (room-handoffs.ts:80), as `Asking` now does.

Only model-checked, because liveness and ENABLED are out of the prover's reach: `LimitedRunsEnd`, `QueueDrains`, `Delivered`,
`Heard`, `FollowUpsRun`, `TeamsFinish`, `LifetimeEndsAll`. Every other property of a passing run has a theorem.
Induction over data and recursive operators are avoided: sums count coins instead of recursing, and a loop is followed
over the interval of its counter.

## Findings

1. `delegations_lost_receipt`: two handoffs released at once to a bot whose turns are refused share one
   watch (index.ts:4541); one keeps no receipt and its source is never woken.
2. `followups_stranded`: a message queued while its bot speaks in a room waits for the room's
   turn.completed. When that comes, the channel operation is still registered and the bot counts as blocked
   (index.ts:4693); the end of the operation (index.ts:2748) drains the
   channel queues only. The message stays queued until some later turn completes, against index.ts:4650 and steer-queue.ts:4.

Further disagreements, met while modelling and not kept as runs:

- The lifetime of a tree passes while one of its requests runs in a room. The tick fails the
  tree, and for the room its abort only marks the operation (index.ts:2698), which nothing looks at once
  the provider is at work: it is not interrupted, keeps its capability, and its result is dropped.
  docs/verification/room-coordination.md:148 says that cancelling a request stops its descendants, except a
  teammate already at work when a person stopped the conversation above. `CancelledTrees` does what the code does,
  and the second half of `WorkHasItsTurn` is false of the room.
- Pruning the history (room-handoffs.ts:112) looks at roots only. A stop ends a root and leaves its running
  request, which is then evicted with the tree, against "without evicting active requests"
  (room-handoffs.ts:109). `Pruned` does the same, and `EndsStand` and `WorkHasItsTurn` allow for it ("gone").
- The sweep in `canSpend` (scheduler.ts:213) drops reservations older than five minutes, also of a run whose payment is on its
  way; with two overlapping runs both payments land, although README.md:94 of the
  repository excludes that "during concurrent executions". `NoDoubleSpend` under the constants of
  `treasury_concurrent` shows it. One at a time, as the scheduler does it, the promise holds.
- An OKX run cancelled during its start becomes "completed" when the engine answers
  (routines.ts:1602). `OverIsOver` with an OKX routine shows it.
- A failed definition write during the timeout scan replaces the run objects; the
  same runs fail and are reported twice (routines.ts:1320). `FailuresReportedOnce` therefore speaks of
  behaviours whose saves succeed; without its condition, and with limits, a run with `MaxSaveFailures = 1` shows it.
- A parked handoff's release drains its source's whole queue, the handoffs of the turn under way
  included (delegations.ts:180), against the comment at delegations.ts:164.
- A webhook moves the ledger before the journal is asked whether it is a duplicate (index.ts:9522): a
  repeated one answered with "duplicate" has moved the ledger once more (gateway.ts:748).
- A desktop looks for a live child before it links its lease (data-dir-lease.mjs:372). A
  child of a former desktop that passes its first check in between is left running under another owner until its second check.
- If the tree that is evicted is the one of the turn that asks, `enqueue` has read its parent before the pruning (room-handoffs.ts:80) and
  leaves a node without its root: every later tick throws at room-handoffs.ts:193, and a restart rejects the file
  (room-handoffs.ts:47). The model leaves this step out.
- A direct request started while its bot's room turn is still being set up is refused and fails, where any other
  busy moment of the bot makes it wait (index.ts:4974, index.ts:6866).
- A payment that lands while the CLI reports an error releases its reservation (scheduler.ts:545); nothing reconciles the two.
- `cancelTree` of a running request stops the direct thread it runs in (index.ts:2676), and
  `stopAwaitingDirect` then cancels whatever other trees wait for in that thread, recorded as
  "Stopped by user" (room-handoffs.ts:166), although "Stop belongs to the conversation it was pressed in" (index.ts:908).

## What is not modelled

- Treasury: the task ledger across restarts, floats.
- Routine runs: pruning of the history, the alignment of interval windows, webhook and
  request receipts, threads of results, continuity.
- Delegations: handoffs that open a fresh thread (slots instead of the busy
  flag), shared channels as sources, deletion of bots and threads, `ask_bot`
  with its timeout and its fallback, the wake budget (three in five minutes: with three handoffs it cannot bite), the discard of
  the queues of finished routine runs at boot, provider reload. Saves are
  assumed to succeed: a failed write of the queue is logged and ignored, and a
  restart would then bring back what has run. A crash falls between events,
  not between the two files written by one. A restart forgets the watch of a
  running delegated turn, so `HandoffsAccounted` speaks of the time before one.
- OKX: quotes, gas, portal requests and balances of the gateway, expiry of journal
  entries, stakes and slashing, the text rules of the advocates.
- Conversations: the channel queue, the order of a queue, room turns and their timeout,
  turn resources (computers, browsers), steers into rooms.
- Room handoffs: see the abstractions named with the module.
- The channel queue, webhooks of routines, computer control and the supervisor have control worth a
  model; they come next, after closer reading. Stores, memory, checkpoints and backups are
  file access with little control. The route table of `index.ts`, the user interface, drivers, companions and cloud
  services make up most of the repository's lines; they translate and
  display, and a state machine of them would say nothing that their code does not.
- The other components: see the inventory and the plan; `PROJECT.json` gives
  the reason for each.
