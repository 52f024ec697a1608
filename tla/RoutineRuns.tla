---------------------------- MODULE RoutineRuns ----------------------------
(***************************************************************************)
(* server/routines.ts: RoutineManager, the life of a routine run from the  *)
(* occurrence or the click that queues it to its final status.             *)
(*                                                                         *)
(* One tick() at a time walks the runs: it fails those past their limit    *)
(* and awaits each interrupt, queues what became due, and starts what is   *)
(* queued, oldest first, awaiting each start.  At every await the operator *)
(* cancels, pauses and deletes, providers report events, and definitions   *)
(* are written; a write that fails replaces every run object by a copy.    *)
(* What tick() does between two awaits is one action here.                 *)
(*                                                                         *)
(* A schedule is abstracted to whether its next occurrence lies ahead, is  *)
(* due or is more than 12 hours old, and a run's limit to whether it has   *)
(* passed.  A save that fails inside tick() ends the server (nothing       *)
(* catches the rejection), which is Restart from the state before it.  The *)
(* saves after what a provider reports run outside the tick: one that      *)
(* throws leaves the change in memory only (ReportUnsaved), as the one of  *)
(* a cancellation does (CancelRunThrows).                                  *)
(***************************************************************************)
EXTENDS Filters, FiniteSets, SequencesExt

CONSTANTS
  RoutineOrder,    \* the routines, in the order of this.routines
  Target,          \* Target[t]: "bot", "room-goal" or "okx-task"
  Agent,           \* Agent[t]: the bot or the room that does t's work
  Once,            \* routines that occur once
  Recurring,       \* interval and cron routines: occurrences do not pile up
  Limited,         \* routines with timeoutMinutes
  InterruptsFail,  \* whether a provider may fail to interrupt a turn
  Paused,          \* routines the operator pauses and resumes, and
  Deleted,         \* agents that are deleted: all of them, or a bound of the model
  MaxRuns, MaxRestarts, MaxSaveFailures, MaxVisits     \* bounds of the model

Routines == Range(RoutineOrder)
Agents   == {Agent[t] : t \in Routines}

ASSUME RoutinesAssumption ==
  /\ RoutineOrder \in Seq(Routines) /\ IsInjective(RoutineOrder)
  /\ Target \in [Routines -> {"bot", "room-goal", "okx-task"}]
  /\ DOMAIN Agent = Routines
  /\ Once \subseteq Routines /\ Recurring \subseteq Routines \ Once
  /\ Limited \subseteq Routines
  /\ InterruptsFail \in BOOLEAN
  /\ Paused \subseteq Routines /\ Deleted \subseteq Agents
  /\ MaxRuns \in Nat /\ MaxRestarts \in Nat
  /\ MaxSaveFailures \in Nat /\ MaxVisits \in Nat

VARIABLES
  runs,        \* this.runs, oldest first
  file,        \* routines.json: the runs as last saved
  enabled,     \* the routines that are on
  next,        \* where each routine's nextRunAt lies
  gone,        \* deleted agents
  tick,        \* what the tick under way is doing
  live,        \* runs whose turn or goal a provider is working on
  delegated,   \* runs with delegated work pending
  parked,      \* room goals that ended by asking the human
  stopping,    \* runs whose turn was asked to stop
  overdue,     \* runs past their limit
  visited,     \* agents busy with a turn of their user
  lost,        \* history: runs whose delegated work will not be heard of
  starts, reports,                  \* history: per run, how often
  created, restarts, saveFailures, visits

definitions == <<enabled, next, gone>>
provider    == <<live, delegated, parked, stopping>>
history     == <<starts, reports>>
counters    == <<lost, created, restarts, saveFailures, visits>>
vars == <<runs, file, definitions, tick, provider, overdue, visited, history, counters>>

Ids      == 1 .. MaxRuns
Underway == {"running", "waiting"}
Active   == {"queued"} \cup Underway
Terminal == {"completed", "failed", "missed", "cancelled"}
Record   == [id : Ids, routine : Routines, manual : BOOLEAN, status : Active \cup Terminal]

-----------------------------------------------------------------------------
(* The run list. *)

IdsOf(rs)     == {rs[i].id : i \in DOMAIN rs}
Found(rs, id) == CHOOSE r \in Range(rs) : r.id = id
Is(id, S)     == \E r \in Range(runs) : r.id = id /\ r.status \in S
RoutineOf(id) == Found(runs, id).routine
TargetOf(id)  == Target[RoutineOf(id)]

With(rs, S, status) ==
  [i \in DOMAIN rs |-> IF rs[i].id \in S THEN [rs[i] EXCEPT !.status = status] ELSE rs[i]]

ActiveOf(t) == {r \in Range(runs) : r.routine = t /\ r.status \in Active}

(* Every change of a run is followed by a save of them all; a handler that *)
(* changes none may or may not save.                                       *)
Save(rs) == runs' = rs /\ (file' = rs \/ (rs = runs /\ UNCHANGED file))

Count(h, S) == [id \in Ids |-> IF id \in S THEN h[id] + 1 ELSE h[id]]

(* failRun, for each run of S: saved, and reported once each. *)
FailRuns(rs, S) ==
  /\ Save(With(rs, S, "failed"))
  /\ reports' = Count(reports, S)

(* Seeded fault: failThread that does not look at the status. *)
FailingAnyStatus(id) == {id}

(* failThread: only a run still under way. *)
Failing(id) == IF Is(id, Underway) THEN {id} ELSE {}

-----------------------------------------------------------------------------
NoCopy == <<>>     \* the timeout scan walks this.runs itself
Idle   == [pc |-> "idle", at |-> 1, copy |-> NoCopy, late |-> {}, due |-> {},
           run |-> 0, todo |-> <<>>]

Init ==
  /\ runs = <<>> /\ file = <<>>
  /\ enabled = Routines
  /\ next = [t \in Routines |-> "ahead"]
  /\ gone = {}
  /\ tick = Idle
  /\ live = {} /\ delegated = {} /\ parked = {} /\ stopping = {}
  /\ overdue = {}
  /\ visited = {} /\ lost = {}
  /\ starts = [id \in Ids |-> 0] /\ reports = [id \in Ids |-> 0]
  /\ created = 0 /\ restarts = 0 /\ saveFailures = 0 /\ visits = 0

(* Room for one run more, besides those the due routines will take. *)
Due     == {t \in enabled : next[t] # "ahead"}
HasRoom == created + Cardinality(Due) < MaxRuns

-----------------------------------------------------------------------------
(* The operator. *)

NewRun(id, t, isManual, status) ==
  [id |-> id, routine |-> t, manual |-> isManual, status |-> status]

RunNow(t) ==
  /\ HasRoom
  /\ Save(Append(runs, NewRun(created + 1, t, TRUE, "queued")))
  /\ created' = created + 1
  /\ UNCHANGED <<definitions, tick, provider, overdue, visited, history,
                 lost, restarts, saveFailures, visits>>

(* update(enabled: false) also cancels what is queued. *)
Pause(t) ==
  /\ Agent[t] \notin gone
  /\ enabled' = enabled \ {t}
  /\ next' = [next EXCEPT ![t] = "ahead"]
  /\ Save(With(runs, {r.id : r \in {r \in ActiveOf(t) : r.status = "queued"}}, "cancelled"))
  /\ UNCHANGED <<gone, tick, provider, overdue, visited, history, counters>>

Resume(t) ==
  /\ t \notin enabled /\ Agent[t] \notin gone
  /\ enabled' = enabled \cup {t}
  /\ next' = [next EXCEPT ![t] = "ahead"]
  /\ UNCHANGED <<runs, file, gone, tick, provider, overdue, visited, history, counters>>

(* A definition is written and the write fails: commitMutation puts copies *)
(* of all runs in this.runs.  A timeout scan that waits for an interrupt   *)
(* goes on over the objects it started with.                               *)
CommitRollsBack ==
  /\ saveFailures < MaxSaveFailures
  /\ saveFailures' = saveFailures + 1
  /\ tick' = IF tick.pc = "stopping" /\ tick.copy = NoCopy
             THEN [tick EXCEPT !.copy = runs] ELSE tick
  /\ UNCHANGED <<runs, file, definitions, provider, overdue, visited, history,
                 lost, created, restarts, visits>>

(* The runs of S that have a provider to interrupt: an OKX run has none. *)
Interruptible(S) == {id \in S : Is(id, Underway) /\ TargetOf(id) # "okx-task"}

CancelRun(id) ==
  /\ Is(id, Active)
  /\ Save(With(runs, {id}, "cancelled"))
  /\ stopping' = stopping \cup Interruptible({id})
  /\ delegated' = delegated \ {id}
  /\ UNCHANGED <<definitions, tick, live, parked, overdue, visited, history, counters>>

(* A save that throws: the run has changed in memory only. *)
Unsaved(id, status) ==
  /\ saveFailures < MaxSaveFailures
  /\ saveFailures' = saveFailures + 1
  /\ runs' = With(runs, {id}, status)
  /\ UNCHANGED <<file, definitions, tick, overdue, visited, history,
                 lost, created, restarts, visits>>

(* cancelRun when save throws: the provider is not interrupted. *)
CancelRunThrows(id) ==
  /\ Is(id, Active)
  /\ Unsaved(id, "cancelled")
  /\ UNCHANGED provider

(* The bot or the room is deleted: disableForBot, disableForGroup. *)
DeleteAgent(a) ==
  LET doomed == {r.id : r \in {r \in Range(runs) : Agent[r.routine] = a /\ r.status \in Active}} IN
  /\ a \notin gone
  /\ gone' = gone \cup {a}
  /\ enabled' = {t \in enabled : Agent[t] # a}
  /\ next' = [t \in Routines |-> IF Agent[t] = a THEN "ahead" ELSE next[t]]
  /\ Save(With(runs, doomed, "cancelled"))
  /\ stopping' = stopping \cup Interruptible(doomed)
  /\ delegated' = delegated \ doomed
  /\ visited' = visited \ {a}
  /\ UNCHANGED <<tick, live, parked, overdue, history, counters>>

Operator ==
  \/ \E t \in Routines : RunNow(t)
  \/ \E t \in Paused : Pause(t) \/ Resume(t)
  \/ \E id \in Ids : CancelRun(id) \/ CancelRunThrows(id)
  \/ \E a \in Deleted : DeleteAgent(a)
  \/ CommitRollsBack

-----------------------------------------------------------------------------
(* The clock, and turns of the user. *)

OccurrenceDue(t) ==
  /\ t \in enabled /\ next[t] = "ahead"
  /\ HasRoom
  /\ next' = [next EXCEPT ![t] = "due"]
  /\ UNCHANGED <<runs, file, enabled, gone, tick, provider, overdue, visited, history, counters>>

(* The computer was off for more than CATCH_UP_MS. *)
OccurrenceStale(t) ==
  /\ t \in enabled /\ next[t] = "due"
  /\ next' = [next EXCEPT ![t] = "stale"]
  /\ UNCHANGED <<runs, file, enabled, gone, tick, provider, overdue, visited, history, counters>>

LimitPasses(id) ==
  /\ Is(id, Underway) /\ RoutineOf(id) \in Limited /\ id \notin overdue
  /\ overdue' = overdue \cup {id}
  /\ UNCHANGED <<runs, file, definitions, tick, provider, visited, history, counters>>

BusyAgent(a) ==
  \/ a \in visited
  \/ \E id \in live : Agent[RoutineOf(id)] = a

UserTurn(a) ==
  /\ visits < MaxVisits /\ a \notin gone /\ ~BusyAgent(a)
  /\ visits' = visits + 1
  /\ visited' = visited \cup {a}
  /\ UNCHANGED <<runs, file, definitions, tick, provider, overdue, history,
                 lost, created, restarts, saveFailures>>

UserTurnEnds(a) ==
  /\ a \in visited
  /\ visited' = visited \ {a}
  /\ UNCHANGED <<runs, file, definitions, tick, provider, overdue, history, counters>>

World ==
  \/ \E t \in Routines : OccurrenceDue(t) \/ OccurrenceStale(t)
  \/ \E a \in Agents : UserTurn(a) \/ UserTurnEnds(a)

-----------------------------------------------------------------------------
(* tick(): the timeouts. *)

(* The pass under way, or the one a timer or a finished run starts now.    *)
(* Its clock reading (what is late, what is due) is the one of its start.  *)
Pass == IF tick.pc = "idle" THEN [Idle EXCEPT !.late = overdue, !.due = Due] ELSE tick

(* Between two awaits of the timeout scan. *)
Scanning == tick.pc = "idle" \/ (tick.pc = "stopping" /\ tick.run \notin stopping)

(* The objects the scan walks, and the positions it still has to stop at. *)
Walked   == IF Pass.copy = NoCopy THEN runs ELSE Pass.copy

(* Seeded fault: a waiting run is not timed. *)
TimedOutRunning == {i \in Pass.at .. Len(Walked) :
                      Walked[i].status = "running" /\ Walked[i].id \in Pass.late}

TimedOut == {i \in Pass.at .. Len(Walked) :
               Walked[i].status \in Underway /\ Walked[i].id \in Pass.late}

(* Seeded fault: the run fails and its turn is left alone. *)
TickTimesOutQuietly ==
  /\ Scanning /\ TimedOut # {}
  /\ LET i  == Min(TimedOut)
         id == Walked[i].id
     IN  /\ Save(With(runs, {id}, "failed"))
         /\ tick' = [Pass EXCEPT !.pc = "stopping", !.at = i + 1, !.run = id]
         /\ reports' = Count(reports, {id})
         /\ delegated' = delegated \ {id}
  /\ UNCHANGED <<definitions, live, parked, stopping, overdue, visited, starts, counters>>

(* The next run past its limit fails and its interrupt is awaited.  When   *)
(* the scan walks old objects, it is an old object that fails: the run in  *)
(* this.runs keeps its status and is saved with it.                        *)
TickTimesOut ==
  /\ Scanning /\ TimedOut # {}
  /\ LET i  == Min(TimedOut)
         id == Walked[i].id
     IN  /\ IF Pass.copy = NoCopy
            THEN Save(With(runs, {id}, "failed"))
            ELSE Save(runs)
         /\ tick' = [Pass EXCEPT !.pc = "stopping", !.at = i + 1, !.run = id,
                       !.copy = IF @ = NoCopy THEN NoCopy ELSE With(@, {id}, "failed")]
         /\ reports' = Count(reports, {id})
         /\ stopping' = stopping \cup {id}
         /\ delegated' = delegated \ {id}
  /\ UNCHANGED <<definitions, live, parked, overdue, visited, starts, counters>>

-----------------------------------------------------------------------------
(* tick(): what became due, and the dispatch. *)

(* Seeded fault: a waiting run does not count as under way. *)
OverlappingUnlessWaiting(t) ==
  t \in Recurring /\ \E r \in ActiveOf(t) : r.status # "waiting"

Overlapping(t) == t \in Recurring /\ ActiveOf(t) # {}

(* One run per due routine, "missed" right away when it is too old; a      *)
(* recurring routine whose last run is not over yet gets none.             *)
DueRoutines == Filter(RoutineOrder, Pass.due \cap Due)
NewRuns ==
  LET ts == Filter(DueRoutines, {t \in Routines : ~Overlapping(t)})
  IN  [i \in DOMAIN ts |-> NewRun(created + i, ts[i], FALSE,
         IF next[ts[i]] = "stale" THEN "missed" ELSE "queued")]

ScheduleDue ==
  /\ next' = [t \in Routines |-> IF t \in Range(DueRoutines) THEN "ahead" ELSE next[t]]
  /\ enabled' = enabled \ (Once \cap Range(DueRoutines))
  /\ created' = created + Len(NewRuns)

(* targetState: an OKX run never waits for its bot. *)
Ready(t) ==
  /\ Agent[t] \notin gone
  /\ Target[t] = "okx-task" \/ ~BusyAgent(Agent[t])

(* The dispatch goes on with the runs rs, of which todo are left: those    *)
(* whose agent is gone fail, those whose agent is busy stay queued, the    *)
(* first that is ready is saved as running and its start is awaited.       *)
(* failed and missed are the runs that this segment has failed or missed   *)
(* before, told to the operator with the rest.                             *)
Dispatch(rs, todo, failed, missed) ==
  LET queued == {k \in DOMAIN todo : \E r \in Range(rs) : r.id = todo[k] /\ r.status = "queued"}
      t(k)   == Found(rs, todo[k]).routine
      ready  == {k \in queued : Ready(t(k))}
      orphans(ks) == {todo[k] : k \in {k \in ks : Agent[t(k)] \in gone}} \cup failed
  IN \/ /\ ready = {}
        /\ Save(With(rs, orphans(queued), "failed"))
        /\ reports' = Count(reports, orphans(queued) \cup missed)
        /\ tick' = Idle
        /\ UNCHANGED starts
     \/ /\ ready # {}
        /\ LET k  == Min(ready)
               id == todo[k]
               ls == orphans({j \in queued : j < k})
           IN  /\ runs' = With(With(rs, ls, "failed"), {id}, "running") /\ file' = runs'
               /\ reports' = Count(reports, ls \cup missed)
               /\ tick' = [Idle EXCEPT !.pc = "starting", !.run = id,
                             !.todo = SubSeq(todo, k + 1, Len(todo))]
               /\ starts' = Count(starts, {id})

(* The turn or goal that the dispatch has just claimed its agent for. *)
Claim(kept) ==
  live' = kept \cup IF tick'.pc = "starting" /\ Target[Found(runs', tick'.run).routine] # "okx-task"
                    THEN {tick'.run} ELSE {}

TickDispatches ==
  \E rs \in {runs \o NewRuns} :
    /\ Scanning /\ TimedOut = {}
    /\ ScheduleDue
    /\ Dispatch(rs, [i \in DOMAIN rs |-> rs[i].id], {},
                {r.id : r \in {r \in Range(NewRuns) : r.status = "missed"}})
    /\ Claim(live)
    /\ UNCHANGED <<gone, delegated, parked, stopping, overdue, visited,
                   lost, restarts, saveFailures, visits>>

(* The start is answered and the dispatch goes on.  A bot's turn or a      *)
(* room's goal is on its way ...                                           *)
StartReturns ==
  /\ tick.pc = "starting" /\ TargetOf(tick.run) # "okx-task"
  /\ Dispatch(runs, tick.todo, {}, {})
  /\ Claim(live)
  /\ UNCHANGED <<definitions, delegated, parked, stopping, overdue, visited, counters>>

(* ... or could not be started, or the OKX engine reports an error.        *)
StartThrows ==
  /\ tick.pc = "starting"
  /\ Dispatch(runs, tick.todo, Failing(tick.run), {})
  /\ Claim(live \ {tick.run})
  /\ delegated' = delegated \ Failing(tick.run)
  /\ UNCHANGED <<definitions, parked, stopping, overdue, visited, counters>>

(* startOkxTask is done: finishOkxRun, whatever became of the run.         *)
OkxRunFinishes ==
  /\ tick.pc = "starting" /\ TargetOf(tick.run) = "okx-task"
  /\ Dispatch(With(runs, {tick.run}, "completed"), tick.todo, {}, {})
  /\ Claim(live)
  /\ UNCHANGED <<definitions, delegated, parked, stopping, overdue, visited, counters>>

StartAnswered == StartReturns \/ StartThrows \/ OkxRunFinishes
Scheduler     == TickTimesOut \/ TickDispatches

-----------------------------------------------------------------------------
(* What providers report.  A run that is over ignores it. *)

(* Seeded fault: a late turn.completed settles a run that is over. *)
TurnCompletesAnyRun(id) ==
  LET over == IF id \in delegated THEN "waiting" ELSE "completed" IN
  /\ id \in live /\ TargetOf(id) = "bot"
  /\ live' = live \ {id}
  /\ Save(With(runs, {id}, over))
  /\ UNCHANGED <<definitions, tick, delegated, parked, stopping, overdue, visited, history, counters>>

(* turn.completed; a turn with delegated work leaves its run waiting.      *)
TurnCompletes(id) ==
  LET over == IF id \in delegated THEN "waiting" ELSE "completed" IN
  /\ id \in live /\ TargetOf(id) = "bot"
  /\ live' = live \ {id}
  /\ Save(With(runs, Failing(id), over))
  /\ UNCHANGED <<definitions, tick, delegated, parked, stopping, overdue, visited, history, counters>>

(* turn.completed with ok = false, a late dispatch error, or the stall      *)
(* watchdog, which also asks the provider to stop.                          *)
TurnFails(id) ==
  /\ id \in live /\ TargetOf(id) = "bot"
  /\ \/ live' = live \ {id} /\ UNCHANGED stopping
     \/ stopping' = stopping \cup {id} /\ UNCHANGED live
  /\ FailRuns(runs, Failing(id))
  /\ delegated' = delegated \ {id}
  /\ UNCHANGED <<definitions, tick, parked, overdue, visited, starts, counters>>

(* request.opened, request.resolved and turn.started. *)
Reported(id, status) ==
  /\ id \in live /\ Is(id, Underway) /\ id \notin parked
  /\ Save(With(runs, {id}, status))
  /\ UNCHANGED <<definitions, tick, provider, overdue, visited, history, counters>>

RequestOpened(id) == Reported(id, "waiting")
TurnStarted(id)   == Reported(id, "running")

(* The turn hands work to another bot. *)
Delegates(id) ==
  /\ id \in live \ stopping /\ id \notin delegated
  /\ TargetOf(id) = "bot" /\ Is(id, Underway)
  /\ delegated' = delegated \cup {id}
  /\ UNCHANGED <<runs, file, definitions, tick, live, parked, stopping, overdue,
                 visited, history, counters>>

(* Seeded fault: the answer is noted and nobody is woken. *)
DelegationReturnsUnheard(id) ==
  /\ id \in delegated \ live
  /\ delegated' = delegated \ {id}
  /\ UNCHANGED <<runs, file, definitions, tick, live, parked, stopping, overdue, visited,
                 history, counters>>

(* Another handoff's watch takes the place of the one of the run's          *)
(* delegated work before that work has started (Delegations): when the run  *)
(* already waits for it, nothing wakes it any more.                         *)
DelegationLost(id) ==
  /\ id \in delegated
  /\ delegated' = delegated \ {id}
  /\ lost' = lost \cup (Failing(id) \ live)
  /\ UNCHANGED <<runs, file, definitions, tick, live, parked, stopping, overdue, visited,
                 history, created, restarts, saveFailures, visits>>

(* The answer is in: dispatchDelegationWake starts the run's next turn once *)
(* its thread is idle ...                                                   *)
DelegationReturns(id) ==
  /\ id \in delegated \ live
  /\ delegated' = delegated \ {id}
  /\ live' = live \cup Failing(id)
  /\ UNCHANGED <<runs, file, definitions, tick, parked, stopping, overdue, visited,
                 history, counters>>

(* ... or cannot, or the wake budget is used up. *)
DelegationWakeFails(id) ==
  /\ id \in delegated \ live
  /\ delegated' = delegated \ {id}
  /\ FailRuns(runs, Failing(id))
  /\ UNCHANGED <<definitions, tick, live, parked, stopping, overdue, visited, starts, counters>>

(* finishGoalRun: the room's orchestrator reports how the goal ended.      *)
GoalEnds(id) ==
  /\ id \in live /\ TargetOf(id) = "room-goal"
  /\ live' = live \ {id}
  /\ \/ /\ \E status \in {"completed", "cancelled"} : Save(With(runs, Failing(id), status))
        /\ UNCHANGED <<parked, reports>>
     \/ /\ FailRuns(runs, Failing(id))
        /\ UNCHANGED parked
     \/ /\ Save(With(runs, Failing(id), "waiting"))
        /\ parked' = parked \cup Failing(id)
        /\ UNCHANGED reports
  /\ UNCHANGED <<definitions, tick, delegated, stopping, overdue, visited, starts, counters>>

(* The reports above, and finishOkxRun's, when the save throws.  The bus or *)
(* the caller catches it, and what was to follow is not done: a failure is  *)
(* not told, and the bot stays busy with the turn that is over.             *)

(* A turn: one that could not be dispatched has freed its bot before, and   *)
(* the stall watchdog asked the provider to stop.                           *)
TurnUnsaved(id) ==
  /\ id \in live /\ Is(id, Underway) /\ TargetOf(id) = "bot"
  /\ \/ /\ \E status \in {"running", "waiting"} : Unsaved(id, status)
        /\ UNCHANGED <<live, stopping>>
     \/ /\ id \notin delegated /\ Unsaved(id, "completed")
        /\ UNCHANGED <<live, stopping>>
     \/ /\ Unsaved(id, "failed")
        /\ live' \in {live, live \ {id}} /\ stopping' \in {stopping, stopping \cup {id}}
  /\ UNCHANGED <<delegated, parked>>

WakeFailureUnsaved(id) ==
  /\ id \in delegated \ live /\ Is(id, Underway)
  /\ Unsaved(id, "failed")
  /\ delegated' = delegated \ {id}
  /\ UNCHANGED <<live, parked, stopping>>

(* Seeded fault: the failed save undoes the change of the run. *)
GoalUnsavedRolledBack(id) ==
  /\ id \in live /\ Is(id, Underway) /\ TargetOf(id) = "room-goal"
  /\ Unsaved(id, Found(runs, id).status)
  /\ live' = live \ {id}
  /\ UNCHANGED <<delegated, parked, stopping>>

(* finishGroupGoalRun has marked the goal as finished before. *)
GoalUnsaved(id) ==
  /\ id \in live /\ Is(id, Underway) /\ TargetOf(id) = "room-goal"
  /\ \/ /\ \E status \in {"running", "waiting"} : Unsaved(id, status)
        /\ UNCHANGED <<live, parked>>
     \/ /\ \E status \in {"completed", "cancelled", "failed"} : Unsaved(id, status)
        /\ live' = live \ {id} /\ UNCHANGED parked
     \/ /\ Unsaved(id, "waiting")
        /\ live' = live \ {id} /\ parked' = parked \cup {id}
  /\ UNCHANGED <<delegated, stopping>>

(* The tick that awaits the run catches this one: StartThrows, which finds  *)
(* the run over.                                                            *)
OkxUnsaved(id) ==
  /\ tick.pc = "starting" /\ tick.run = id /\ TargetOf(id) = "okx-task"
  /\ \/ Unsaved(id, "completed")
     \/ Is(id, Underway) /\ Unsaved(id, "failed")
  /\ UNCHANGED provider

ReportUnsaved(id) ==
  TurnUnsaved(id) \/ WakeFailureUnsaved(id) \/ GoalUnsaved(id) \/ OkxUnsaved(id)

(* An interrupt lands, or the adapter rejects it and the turn goes on.     *)
Interrupted(id) ==
  /\ id \in stopping
  /\ stopping' = stopping \ {id}
  /\ \/ live' = live \ {id}
     \/ InterruptsFail /\ UNCHANGED live
  /\ UNCHANGED <<runs, file, definitions, tick, delegated, parked, overdue, visited,
                 history, counters>>

Provider(id) ==
  \/ TurnCompletes(id) \/ TurnFails(id)
  \/ RequestOpened(id) \/ TurnStarted(id)
  \/ Delegates(id) \/ DelegationReturns(id) \/ DelegationWakeFails(id)
  \/ DelegationLost(id)
  \/ GoalEnds(id) \/ ReportUnsaved(id)

-----------------------------------------------------------------------------
(* Seeded fault: what was under way is queued again. *)
RestartResumes ==
  /\ restarts < MaxRestarts
  /\ restarts' = restarts + 1
  /\ Save(With(file, {r.id : r \in {r \in Range(file) : r.status \in Underway}}, "queued"))
  /\ tick' = Idle
  /\ live' = {} /\ delegated' = {} /\ parked' = {} /\ stopping' = {}
  /\ overdue' = {} /\ visited' = {}
  /\ UNCHANGED <<definitions, history, lost, created, saveFailures, visits>>

(* The server restarts: the constructor reads the runs back and fails, and *)
(* reports, those that were under way.                                     *)
Restart ==
  LET left == {r.id : r \in {r \in Range(file) : r.status \in Underway}} IN
  /\ restarts < MaxRestarts
  /\ restarts' = restarts + 1
  /\ runs' = With(file, left, "failed") /\ file' = runs'
  /\ reports' = Count(reports, left)
  /\ tick' = Idle
  /\ live' = {} /\ delegated' = {} /\ parked' = {} /\ stopping' = {}
  /\ overdue' = {} /\ visited' = {}
  /\ UNCHANGED <<definitions, starts, lost, created, saveFailures, visits>>

Next ==
  \/ Operator
  \/ World
  \/ Scheduler
  \/ StartAnswered
  \/ \E id \in Ids : Provider(id) \/ Interrupted(id) \/ LimitPasses(id)
  \/ Restart

Spec == Init /\ [][Next]_vars

(* The timer calls tick() every 10 seconds and time goes on; a start and an *)
(* interrupt are answered.  Nothing is assumed of operators or of what a    *)
(* provider makes of a turn.                                                *)
Fairness ==
  /\ WF_vars(Scheduler)
  /\ WF_vars(StartAnswered)
  /\ WF_vars(\E id \in Ids : Interrupted(id))
  /\ WF_vars(\E id \in Ids : LimitPasses(id))

FairSpec == Spec /\ Fairness

-----------------------------------------------------------------------------
(* Properties. *)

TypeOK ==
  /\ runs \in Seq(Record) /\ file \in Seq(Record)
  /\ enabled \subseteq Routines /\ gone \subseteq Agents /\ visited \subseteq Agents
  /\ next \in [Routines -> {"ahead", "due", "stale"}]
  /\ tick \in [pc : {"idle", "stopping", "starting"}, at : Nat \ {0}, copy : Seq(Record),
              late : SUBSET Ids, due : SUBSET Routines, run : Ids \cup {0}, todo : Seq(Ids)]
  /\ live \cup delegated \cup parked \cup stopping \cup overdue \cup lost \subseteq IdsOf(runs)
  /\ starts \in [Ids -> Nat] /\ reports \in [Ids -> Nat]

(* A recurring routine never has two scheduled runs at once, whatever is    *)
(* cancelled, restarted or delegated in between ("must not build an         *)
(* unbounded queue of stale copies").                                       *)
OneScheduledRun ==
  \A t \in Recurring : Cardinality({r \in ActiveOf(t) : ~r.manual}) <= 1

(* A run's work is started at most once in its life: it is saved as running *)
(* before it starts, so a restart fails it instead of starting it again.    *)
StartedOnce == \A id \in Ids : starts[id] <= 1

(* Every run under way has someone working on it: the tick that starts it,  *)
(* a provider, delegated work that is watched, or the human a room goal     *)
(* asked.  Nothing leaves a run spinning but the watch that is overwritten  *)
(* under a waiting run (index.ts:4541, DelegationLost).                     *)
RunsHaveAnOwner ==
  \A r \in Range(runs) : r.status \in Underway =>
    \/ r.id \in live \cup delegated \cup parked \cup lost
    \/ tick.pc = "starting" /\ tick.run = r.id

(* routines.test.ts:2247, "reports a failed run once": while saves succeed, *)
(* a failed or missed run is reported exactly once, every other run never.  *)
FailuresReportedOnce ==
  saveFailures = 0 =>
    \A r \in Range(runs) :
      reports[r.id] = IF r.status \in {"failed", "missed"} THEN 1 ELSE 0

(* A run that is over stays as it ended: no late event, answer or restart   *)
(* rewrites its receipt, except a restart after a save that failed, which   *)
(* reads back what was saved before.                                        *)
OverIsOver ==
  [][saveFailures = 0 \/ restarts' = restarts =>
       \A r \in Range(runs) : r.status \in Terminal => r \in Range(runs')]_vars

(* A run with a limit ends, even if its provider never says another word.   *)
LimitedRunsEnd ==
  \A id \in Ids : (Is(id, Underway) /\ RoutineOf(id) \in Limited) ~> ~Is(id, Underway)

(* With limits on every run, a queued run is eventually started or settled: *)
(* no turn that hangs blocks its agent's queue for good.  (A failed write   *)
(* can: the run it cancels in memory keeps its turn, CancelRunThrows.)      *)
QueueDrains ==
  \A id \in Ids : Is(id, {"queued"}) ~> ~Is(id, {"queued"}) \/ saveFailures # 0

=============================================================================
