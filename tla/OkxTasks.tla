------------------------------ MODULE OkxTasks ------------------------------
(***************************************************************************)
(* The marketplace side of the OKX integration: the task ledger            *)
(* (OkxLedger and postTask in server/okx/gateway.ts), the webhooks that    *)
(* move it (handleWebhook and the route in server/index.ts), the journal   *)
(* of processed webhooks (server/okx/journal.ts), the delivery watcher     *)
(* (server/okx/watcher.ts) and what a scheduled run writes to the ledger   *)
(* while it pays for the task it has posted (executeScheduledRun in        *)
(* server/okx/scheduler.ts, whose money is the treasury's).  Every file is *)
(* written whole.                                                          *)
(*                                                                         *)
(* The marketplace itself is not in the repository: it is modelled by the  *)
(* moves a task may make there, each announced by a webhook that arrives   *)
(* any number of times, in any order, from then on.                        *)
(***************************************************************************)
EXTENDS Faults, FiniteSets

CONSTANTS
  Tasks,          \* tasks this workspace posts
  Checks,         \* calls of checkTask that may be under way at once
  Deliverables,   \* what a seller may submit
  Passing,        \* the deliverables that meet the criteria
  Window,         \* the 72-hour escrow window
  MaxTime,        \* bound on the clock
  MaxEvents       \* bound on what happens at the marketplace

VARIABLES
  now,
  market,         \* per task: what the marketplace holds, and has been
  events,         \* webhooks announced so far
  posting,        \* per task: where postTask, and the hire behind it, stands
  paid,           \* history: tasks whose escrow payment landed
  ledger,         \* memory: OkxLedger.tasks
  ledgerFile,
  journal,        \* memory: ids of processed webhooks
  journalFile,
  answered,       \* history: webhooks answered with 200
  ignored,        \* history: webhooks about a task the ledger did not know
  check           \* per check: what it has read and where it stands

taskVars == <<now, market, events, posting, paid, ledger, ledgerFile, journal,
              journalFile, answered, ignored, check>>

Absent == [status |-> "absent"]
Free == [step |-> "free"]

TasksInit ==
  /\ now = 0
  /\ market = [t \in Tasks |-> [status |-> "none", been |-> {}, goods |-> "none"]]
  /\ events = {}
  /\ posting = [t \in Tasks |-> "no"]
  /\ paid = {}
  /\ ledger = [t \in Tasks |-> Absent]
  /\ ledgerFile = ledger
  /\ journal = {}
  /\ journalFile = {}
  /\ answered = {}
  /\ ignored = {}
  /\ check = [c \in Checks |-> Free]

(* save(): the file is replaced by what it should hold, or its write fails. *)
Writes(file, new) == (file' = new /\ NoFault) \/ (file' = file /\ Fault)

-----------------------------------------------------------------------------
(* The marketplace. *)

(* A task at the marketplace moves on, and a webhook of this type says so. *)
Moved(t, status, goods, type) ==
  /\ Cardinality(events) < MaxEvents
  /\ market' = [market EXCEPT ![t] =
                  [status |-> status, goods |-> goods,
                   been |-> @.been \union {status}]]
  /\ events' = events \union {[id |-> Cardinality(events), task |-> t,
                               type |-> type, goods |-> goods, at |-> now]}

MarketMoves(t) ==
  /\ LET m == market[t] IN
     \/ m.status = "open" /\ Moved(t, "in_progress", m.goods, "task_accepted")
     \/ /\ m.status \in {"in_progress", "rejected"}
        /\ \E g \in Deliverables : Moved(t, "delivered", g, "delivery_submitted")
     \/ m.status = "rejected" /\ Moved(t, "disputed", m.goods, "dispute_initiated")
     \/ /\ m.status \in {"delivered", "disputed"}
        /\ Moved(t, "completed", m.goods, "escrow_released")
  /\ NoFault
  /\ UNCHANGED <<now, posting, paid, ledger, ledgerFile, journal, journalFile,
                 answered, ignored, check>>

Tick ==
  /\ now < MaxTime
  /\ now' = now + 1
  /\ NoFault
  /\ UNCHANGED <<market, events, posting, paid, ledger, ledgerFile, journal,
                 journalFile, answered, ignored, check>>

-----------------------------------------------------------------------------
(* postTask: asks the marketplace, falls back to a local record when it    *)
(* does not answer, and records the task in either case.                   *)

PostTask(t) ==
  /\ posting[t] = "no"
  /\ \/ /\ posting' = [posting EXCEPT ![t] = "answered"]
        /\ market' = [market EXCEPT ![t] =
                        [status |-> "open", been |-> {"open"}, goods |-> "none"]]
     \/ posting' = [posting EXCEPT ![t] = "unanswered"] /\ UNCHANGED market
  /\ NoFault
  /\ UNCHANGED <<now, events, paid, ledger, ledgerFile, journal, journalFile,
                 answered, ignored, check>>

(* A local record has no external id, and no webhook finds it.  The hire of *)
(* a scheduled run goes on from here, unless the save threw; one asked for  *)
(* in a chat ends here.                                                    *)
PostReturns(t) ==
  /\ posting[t] \in {"answered", "unanswered"}
  /\ ledger' = [ledger EXCEPT ![t] =
                  [status |-> "created", goods |-> "none", at |-> now,
                   linked |-> posting[t] = "answered", seen |-> {}]]
  /\ \/ /\ ledgerFile' = ledger'
        /\ \E next \in {"unpaid", "done"} : posting' = [posting EXCEPT ![t] = next]
        /\ NoFault
     \/ /\ UNCHANGED ledgerFile
        /\ posting' = [posting EXCEPT ![t] = "done"]
        /\ Fault
  /\ UNCHANGED <<now, market, events, paid, journal, journalFile, answered,
                 ignored, check>>

(* The escrow payment lands while executeScheduledRun awaits the CLI, or a  *)
(* mock engine without a CLI takes it as landed.                           *)
PaymentLands(t) ==
  /\ posting[t] = "unpaid"
  /\ posting' = [posting EXCEPT ![t] = "paid"]
  /\ paid' = paid \union {t}
  /\ NoFault
  /\ UNCHANGED <<now, market, events, ledger, ledgerFile, journal, journalFile,
                 answered, ignored, check>>

(* What the hire says of its task is written over whatever the record has  *)
(* become meanwhile.                                                       *)
LedgerSaying(t, status) == [ledger EXCEPT ![t].status = status]

(* Seeded fault: the ledger says so before the CLI has answered. *)
HireSucceedsUnpaid(t) ==
  /\ posting[t] \in {"unpaid", "paid"}
  /\ ledger' = LedgerSaying(t, "in_progress")
  /\ ledgerFile' = ledger'
  /\ posting' = [posting EXCEPT ![t] = "done"]
  /\ NoFault
  /\ UNCHANGED <<now, market, events, paid, journal, journalFile, answered,
                 ignored, check>>

(* The hire ends: paid, and committed by the treasury in the same breath.  *)
HireSucceeds(t) ==
  /\ posting[t] = "paid"
  /\ ledger' = LedgerSaying(t, "in_progress")
  /\ ledgerFile' = ledger'
  /\ posting' = [posting EXCEPT ![t] = "done"]
  /\ NoFault
  /\ UNCHANGED <<now, market, events, paid, journal, journalFile, answered,
                 ignored, check>>

(* ... or given up: no gas, a CLI that answers with an error whether or not *)
(* the payment landed, a save or a commit that throws.  Of a paid task the  *)
(* file may already have been told that it is in progress when the last    *)
(* write fails.                                                            *)
HireFails(t) ==
  /\ posting[t] \in {"unpaid", "paid"}
  /\ ledger' = LedgerSaying(t, "failed")
  /\ \/ Writes(ledgerFile, ledger')
     \/ posting[t] = "paid" /\ ledgerFile' = LedgerSaying(t, "in_progress") /\ Fault
  /\ posting' = [posting EXCEPT ![t] = "done"]
  /\ UNCHANGED <<now, market, events, paid, journal, journalFile, answered,
                 ignored, check>>

-----------------------------------------------------------------------------
(* Webhooks. *)

Known(e) == ledger[e.task] # Absent /\ ledger[e.task].linked

(* What handleWebhook makes of a task's record; "seen" is a history of the *)
(* webhooks a record reflects.                                             *)
Reflected(r, e) ==
  LET s == [r EXCEPT !.seen = @ \union {e.id}] IN
  CASE e.type = "task_accepted"      -> [s EXCEPT !.status = "in_progress"]
    [] e.type = "delivery_submitted" -> [s EXCEPT !.status = "delivered",
                                                  !.goods = e.goods, !.at = e.at]
    [] e.type = "delivery_rejected"  -> [s EXCEPT !.status = "rejected"]
    [] e.type = "dispute_initiated"  -> [s EXCEPT !.status = "disputed"]
    [] e.type = "escrow_released"    -> [s EXCEPT !.status = "completed"]

LedgerWith(e) == IF Known(e)
                 THEN [ledger EXCEPT ![e.task] = Reflected(@, e)]
                 ELSE ledger

(* Only a webhook about a known task writes the file, and then all of it. *)
FileWith(e) == IF Known(e) THEN LedgerWith(e) ELSE ledgerFile

Expired(r) == r.at + Window <= now

(* checkTask, up to its first await: only an unexpired delivery is looked  *)
(* at, and what the check read it keeps.                                   *)
StartsCheck(c, t, record) ==
  /\ check[c] = Free
  /\ check' = [check EXCEPT ![c] = [task |-> t, goods |-> record.goods,
                                    step |-> "evaluating"]]

Checkable(record) == record.status = "delivered" /\ ~Expired(record)

(* emit("delivery_submitted") runs the watcher's listener at once. *)
Announced(e) ==
  IF e.type = "delivery_submitted" /\ Known(e)
       /\ Checkable(Reflected(ledger[e.task], e))
  THEN \E c \in Checks : StartsCheck(c, e.task, Reflected(ledger[e.task], e))
  ELSE UNCHANGED check

Ignoring(e) == ignored' = IF Known(e) THEN ignored ELSE ignored \union {e}

(* Seeded fault: the journal first, as it would be to keep duplicates out. *)
WebhookJournalFirst(e) ==
  /\ e \in events
  /\ e.id \notin journal
  /\ journal' = journal \union {e.id}
  /\ journalFile' = journal'
  /\ ledger' = LedgerWith(e)
  /\ Writes(ledgerFile, FileWith(e))
  /\ answered' = answered \union {e}
  /\ Announced(e)
  /\ Ignoring(e)
  /\ UNCHANGED <<now, market, events, posting, paid>>

(* The route: the ledger is moved and saved first, then the journal is     *)
(* asked whether the webhook is a duplicate.  Its write may fail, and the  *)
(* webhook is then answered with 500 although the memory has it.           *)
Webhook(e) ==
  /\ e \in events
  /\ ledger' = LedgerWith(e)
  /\ ledgerFile' = FileWith(e)
  /\ Announced(e)
  /\ Ignoring(e)
  /\ \/ /\ e.id \in journal
        /\ answered' = answered \union {e}
        /\ UNCHANGED <<journal, journalFile>>
        /\ NoFault
     \/ /\ e.id \notin journal
        /\ journal' = journal \union {e.id}
        /\ \/ journalFile' = journal' /\ answered' = answered \union {e} /\ NoFault
           \/ UNCHANGED <<journalFile, answered>> /\ Fault
  /\ UNCHANGED <<now, market, events, posting, paid>>

(* The ledger's file cannot be written: 500, and nothing else happens.     *)
WebhookUnsaved(e) ==
  /\ e \in events
  /\ Known(e)
  /\ ledger' = LedgerWith(e)
  /\ Fault
  /\ UNCHANGED <<now, market, events, posting, paid, ledgerFile, journal,
                 journalFile, answered, ignored, check>>

-----------------------------------------------------------------------------
(* The delivery watcher. *)

(* reviewPendingDeliveries, one task of the list at a time. *)
PollChecks(c, t) ==
  /\ ledger[t] # Absent
  /\ Checkable(ledger[t])
  /\ StartsCheck(c, t, ledger[t])
  /\ NoFault
  /\ UNCHANGED <<now, market, events, posting, paid, ledger, ledgerFile, journal,
                 journalFile, answered, ignored>>

(* evaluateDeliverable: a custom evaluator may throw. *)
Evaluates(c) ==
  /\ check[c] # Free /\ check[c].step = "evaluating"
  /\ \/ check' = [check EXCEPT ![c].step =
                    IF check[c].goods \in Passing THEN "accepting" ELSE "rejecting"]
     \/ check' = [check EXCEPT ![c] = Free]
  /\ NoFault
  /\ UNCHANGED <<now, market, events, posting, paid, ledger, ledgerFile, journal,
                 journalFile, answered, ignored>>

(* The CLI's verdict reaches the marketplace, which refuses it unless the  *)
(* task stands delivered.                                                  *)
VerdictLands(c) ==
  /\ check[c] # Free /\ check[c].step \in {"accepting", "rejecting"}
  /\ market[check[c].task].status = "delivered"
  /\ LET t == check[c].task
         m == market[t]
     IN IF check[c].step = "accepting"
        THEN /\ Moved(t, "completed", m.goods, "escrow_released")
             /\ check' = [check EXCEPT ![c].step = "accepted"]
        ELSE /\ Moved(t, "rejected", m.goods, "delivery_rejected")
             /\ check' = [check EXCEPT ![c].step = "refused"]
  /\ NoFault
  /\ UNCHANGED <<now, posting, paid, ledger, ledgerFile, journal, journalFile,
                 answered, ignored>>

(* The CLI exits with an error, whether or not its verdict landed. *)
VerdictFails(c) ==
  /\ check[c] # Free /\ check[c].step # "evaluating"
  /\ check' = [check EXCEPT ![c] = Free]
  /\ NoFault
  /\ UNCHANGED <<now, market, events, posting, paid, ledger, ledgerFile, journal,
                 journalFile, answered, ignored>>

(* Seeded fault: the ledger says so before the CLI has answered. *)
VerdictReturnsEarly(c) ==
  /\ check[c] # Free /\ check[c].step \in {"accepting", "rejecting"}
  /\ ledger' = [ledger EXCEPT ![check[c].task].status =
                  IF check[c].step = "accepting" THEN "completed" ELSE "rejected"]
  /\ ledgerFile' = ledger'
  /\ check' = [check EXCEPT ![c] = Free]
  /\ NoFault
  /\ UNCHANGED <<now, market, events, posting, paid, journal, journalFile,
                 answered, ignored>>

(* The verdict is written over whatever the record has become meanwhile. *)
VerdictReturns(c) ==
  /\ check[c] # Free /\ check[c].step \in {"accepted", "refused"}
  /\ ledger' = [ledger EXCEPT ![check[c].task].status =
                  IF check[c].step = "accepted" THEN "completed" ELSE "rejected"]
  /\ Writes(ledgerFile, ledger')
  /\ check' = [check EXCEPT ![c] = Free]
  /\ UNCHANGED <<now, market, events, posting, paid, journal, journalFile,
                 answered, ignored>>

TasksNext ==
  \/ Tick
  \/ \E t \in Tasks : \/ MarketMoves(t) \/ PostTask(t) \/ PostReturns(t)
                       \/ PaymentLands(t) \/ HireSucceeds(t) \/ HireFails(t)
  \/ \E e \in events : Webhook(e) \/ WebhookUnsaved(e)
  \/ \E c \in Checks : \/ \E t \in Tasks : PollChecks(c, t)
                       \/ Evaluates(c) \/ VerdictLands(c)
                       \/ VerdictFails(c) \/ VerdictReturns(c)

(* The process dies between two steps. *)
TasksCrash ==
  /\ ledger' = ledgerFile
  /\ journal' = journalFile
  /\ check' = [c \in Checks |-> Free]
  /\ posting' = [t \in Tasks |-> IF posting[t] = "no" THEN "no" ELSE "done"]
  /\ UNCHANGED <<now, market, events, paid, ledgerFile, journalFile, answered,
                 ignored>>

(* ... or inside the route, between the ledger's write and the journal's.  *)
CrashInWebhook(e) ==
  /\ e \in events
  /\ ledgerFile' = FileWith(e)
  /\ ledger' = ledgerFile'
  /\ journal' = journalFile
  /\ check' = [c \in Checks |-> Free]
  /\ posting' = [t \in Tasks |-> IF posting[t] = "no" THEN "no" ELSE "done"]
  /\ Ignoring(e)
  /\ UNCHANGED <<now, market, events, paid, journalFile, answered>>

=============================================================================
