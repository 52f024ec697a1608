-------------------------- MODULE RoutineRuns_proofs -------------------------
(***************************************************************************)
(* Proofs about RoutineRuns, for every list of routines, every kind of     *)
(* target, every assignment to agents and every bound.                     *)
(*                                                                         *)
(* this.runs and the file are two lists of the same runs that may differ   *)
(* in what became of a run, and a restart reads the file back: so what is  *)
(* proved of the one is proved of the other (Listed).                      *)
(***************************************************************************)
EXTENDS RoutineRuns, Filters_proofs

-----------------------------------------------------------------------------
(* The inductive invariant. *)

Statuses == Active \cup Terminal

(* No timeout scan ever walks copies: no definition is written while one   *)
(* waits (no run has a limit), or every write succeeds.                    *)
NoCopies == Limited = {} \/ MaxSaveFailures = 0

(* Every write succeeds. *)
AllSaved == MaxSaveFailures = 0

Scheduled(r, t) == r.routine = t /\ r.status \in Active /\ ~r.manual

(* A list of n runs, numbered from 1, with the numbers of their starts and *)
(* reports.                                                                *)
Listed(rs, n, st, rp) ==
  /\ rs \in Seq(Record) /\ Len(rs) = n
  /\ \A i \in 1 .. n : rs[i].id = i
  /\ \A t \in Recurring : \A i, j \in 1 .. n :
       Scheduled(rs[i], t) /\ Scheduled(rs[j], t) => i = j
  /\ \A i \in 1 .. n : rs[i].status = "queued" => st[i] = 0
  /\ AllSaved => \A i \in 1 .. n :
       rp[i] = IF rs[i].status \in {"failed", "missed"} THEN 1 ELSE 0

(* What tick is, and the types of all that is not a run. *)
Tick == [pc : {"idle", "stopping", "starting"}, at : Nat \ {0}, copy : Seq(Record),
         late : SUBSET Ids, due : SUBSET Routines, run : Ids \cup {0}, todo : Seq(Ids)]

Types ==
  /\ enabled \subseteq Routines /\ gone \subseteq Agents /\ visited \subseteq Agents
  /\ next \in [Routines -> {"ahead", "due", "stale"}]
  /\ tick \in Tick
  /\ starts \in [Ids -> Nat] /\ reports \in [Ids -> Nat]
  /\ created \in Nat /\ saveFailures \in Nat

(* The number of runs is within its bound, also when all that is due has   *)
(* been queued; runs to come have no history.                              *)
Counted ==
  /\ created + Cardinality(Due) <= MaxRuns
  /\ \A i \in Ids : starts[i] <= 1
  /\ \A i \in Ids : i > created => starts[i] = 0 /\ reports[i] = 0

IsOkx(i) == Target[runs[i].routine] = "okx-task"

(* Only bots and rooms have providers, which work on runs that have been   *)
(* started; the run whose start is awaited is one of the list, and so are  *)
(* the copies that a scan walks.                                           *)
Working ==
  /\ live \cup delegated \cup parked \cup stopping \cup overdue \cup lost \subseteq 1 .. created
  /\ \A i \in live \cup delegated : ~IsOkx(i)
  /\ \A i \in live : runs[i].status # "queued"
  /\ tick.pc = "starting" => tick.run \in 1 .. created
  /\ \A i \in 1 .. Len(tick.copy) : tick.copy[i].id \in 1 .. created

(* Without copies: the scan walks the runs themselves, what was asked to   *)
(* stop is over, and what is under way has an owner or was lost; an OKX    *)
(* run that is being started cannot have failed.                           *)
Owned ==
  NoCopies =>
    /\ tick.copy = NoCopy
    /\ Limited = {} => overdue = {} /\ tick.late = {} /\ tick.pc # "stopping"
    /\ \A i \in stopping : runs[i].status \in Terminal
    /\ \A i \in 1 .. created : runs[i].status \in Underway =>
         \/ i \in live \cup delegated \cup parked \cup lost
         \/ tick.pc = "starting" /\ tick.run = i /\ IsOkx(i)
    /\ AllSaved /\ tick.pc = "starting" /\ IsOkx(tick.run) =>
         runs[tick.run].status \notin {"failed", "missed"}

(* With nothing but successful writes, the file is what is in memory.      *)
Saved == AllSaved => file = runs

IInv ==
  /\ Types /\ Counted /\ Working /\ Owned /\ Saved
  /\ Listed(runs, created, starts, reports)
  /\ Listed(file, created, starts, reports)


-----------------------------------------------------------------------------
(* The run list. *)

(* The least position of a set of positions is in it. *)
LEMMA MinIsIn ==
  ASSUME NEW n \in Nat, NEW S \in SUBSET (0 .. n), S # {}
  PROVE  Min(S) \in S
<1>1. PICK m \in S : \A y \in S : m <= y
  BY LeastExists
<1> QED
  BY <1>1 DEF Min

(* The runs of a list are found by their numbers. *)
LEMMA ListedRuns ==
  ASSUME NEW rs, NEW n, NEW st, NEW rp, Listed(rs, n, st, rp)
  PROVE  /\ n \in Nat /\ DOMAIN rs = 1 .. n
         /\ \A i \in 1 .. n : rs[i] \in Record /\ rs[i].id = i
         /\ Range(rs) = {rs[i] : i \in 1 .. n}
         /\ IdsOf(rs) = 1 .. n
         /\ \A i \in 1 .. n : Found(rs, i) = rs[i]
<1>1. /\ n \in Nat /\ DOMAIN rs = 1 .. n
      /\ \A i \in 1 .. n : rs[i] \in Record /\ rs[i].id = i
  BY DEF Listed
<1>2. Range(rs) = {rs[i] : i \in 1 .. n}
  BY <1>1 DEF Range
<1>3. IdsOf(rs) = 1 .. n
  BY <1>1 DEF IdsOf
<1>4. ASSUME NEW i \in 1 .. n
      PROVE  Found(rs, i) = rs[i]
  <2>1. rs[i] \in Range(rs) /\ rs[i].id = i
    BY <1>1, <1>2
  <2>2. \A r \in Range(rs) : r.id = i => r = rs[i]
    BY <1>1, <1>2
  <2> QED
    BY <2>1, <2>2 DEF Found
<1> QED
  BY <1>1, <1>2, <1>3, <1>4

(* The runs of a list that satisfy a condition, by their numbers. *)
LEMMA ListedIds ==
  ASSUME NEW rs, NEW n, NEW st, NEW rp, Listed(rs, n, st, rp), NEW S
  PROVE  {r.id : r \in {r \in Range(rs) : r \in S}} = {i \in 1 .. n : rs[i] \in S}
BY ListedRuns

(* What With changes: nothing but the status of the runs named. *)
LEMMA WithRuns ==
  ASSUME NEW rs, NEW n, NEW st, NEW rp, Listed(rs, n, st, rp),
         NEW S, NEW status \in Statuses
  PROVE  /\ With(rs, S, status) \in Seq(Record) /\ Len(With(rs, S, status)) = n
         /\ \A i \in 1 .. n :
              /\ With(rs, S, status)[i].id = i
              /\ With(rs, S, status)[i].routine = rs[i].routine
              /\ With(rs, S, status)[i].manual = rs[i].manual
              /\ With(rs, S, status)[i].status = IF i \in S THEN status ELSE rs[i].status
              /\ i \notin S => With(rs, S, status)[i] = rs[i]
<1> DEFINE ws == With(rs, S, status)
<1>1. n \in Nat /\ DOMAIN rs = 1 .. n /\ \A i \in 1 .. n : rs[i] \in Record /\ rs[i].id = i
  BY ListedRuns
<1>2. ws = [i \in 1 .. n |-> IF i \in S THEN [rs[i] EXCEPT !.status = status] ELSE rs[i]]
  BY <1>1 DEF With
<1> HIDE DEF ws
<1>3. ASSUME NEW i \in 1 .. n
      PROVE  /\ ws[i] \in Record /\ ws[i].id = i
             /\ ws[i].routine = rs[i].routine
             /\ ws[i].manual = rs[i].manual
             /\ ws[i].status = IF i \in S THEN status ELSE rs[i].status
             /\ i \notin S => ws[i] = rs[i]
  <2>1. rs[i] \in Record /\ rs[i].id = i
    BY <1>1
  <2>2. CASE i \in S
    BY <1>2, <2>1, <2>2 DEF Record, Statuses
  <2>3. CASE i \notin S
    BY <1>2, <2>1, <2>3
  <2> QED
    BY <2>2, <2>3
<1>4. ws \in Seq(Record) /\ Len(ws) = n
  BY <1>1, <1>2, <1>3, IsASeq
<1> QED
  BY <1>3, <1>4 DEF ws

(* Runs get another status: the list stays one if that revives none of     *)
(* them and, when reports are counted, has not to do with failures.        *)
LEMMA ListedWith ==
  ASSUME NEW rs, NEW n, NEW st, NEW rp, Listed(rs, n, st, rp),
         NEW S, NEW status \in Statuses \ {"queued"},
         AllSaved => status \notin {"failed", "missed"},
         \A i \in 1 .. n : i \in S =>
           /\ status \in Underway => rs[i].status \in Underway
           /\ AllSaved => rs[i].status \notin {"failed", "missed"}
  PROVE  Listed(With(rs, S, status), n, st, rp)
<1> DEFINE ws == With(rs, S, status)
<1>1. /\ ws \in Seq(Record) /\ Len(ws) = n /\ n \in Nat
      /\ \A i \in 1 .. n :
           /\ ws[i].id = i /\ ws[i].routine = rs[i].routine /\ ws[i].manual = rs[i].manual
           /\ ws[i].status = IF i \in S THEN status ELSE rs[i].status
  BY WithRuns, ListedRuns
<1> HIDE DEF ws
<1>2. ASSUME NEW t, NEW i \in 1 .. n, Scheduled(ws[i], t)
      PROVE  Scheduled(rs[i], t)
  <2>1. i \in S => status \in Underway
    BY <1>1, <1>2 DEF Scheduled, Active, Statuses, Underway, Terminal
  <2> QED
    BY <1>1, <1>2, <2>1 DEF Scheduled, Active
<1>3. \A t \in Recurring : \A i, j \in 1 .. n :
        Scheduled(ws[i], t) /\ Scheduled(ws[j], t) => i = j
  BY <1>2 DEF Listed
<1>4. \A i \in 1 .. n : ws[i].status = "queued" => st[i] = 0
  BY <1>1 DEF Listed
<1>5. AllSaved => \A i \in 1 .. n :
        rp[i] = IF ws[i].status \in {"failed", "missed"} THEN 1 ELSE 0
  BY <1>1 DEF Listed
<1> QED
  BY <1>1, <1>3, <1>4, <1>5 DEF Listed, ws

(* Runs fail, and are reported, that had not failed before. *)
LEMMA ListedFailed ==
  ASSUME NEW rs, NEW n, NEW st, NEW rp \in [Ids -> Nat], Listed(rs, n, st, rp),
         n <= MaxRuns, NEW S, S \subseteq 1 .. n,
         AllSaved => \A i \in S : rs[i].status \notin {"failed", "missed"}
  PROVE  Listed(With(rs, S, "failed"), n, st, Count(rp, S))
<1> DEFINE ws == With(rs, S, "failed")
           cs == Count(rp, S)
<1>0. "failed" \in Statuses
  BY DEF Statuses, Terminal
<1>1. /\ ws \in Seq(Record) /\ Len(ws) = n /\ n \in Nat
      /\ \A i \in 1 .. n :
           /\ ws[i].id = i /\ ws[i].routine = rs[i].routine /\ ws[i].manual = rs[i].manual
           /\ ws[i].status = IF i \in S THEN "failed" ELSE rs[i].status
  BY <1>0, WithRuns, ListedRuns
<1>2. \A i \in 1 .. n : cs[i] = IF i \in S THEN rp[i] + 1 ELSE rp[i]
  BY <1>1, RoutinesAssumption DEF Count, Ids
<1> HIDE DEF ws, cs
<1>3. ASSUME NEW t, NEW i \in 1 .. n, Scheduled(ws[i], t)
      PROVE  Scheduled(rs[i], t)
  BY <1>1, <1>3 DEF Scheduled, Active, Underway
<1>4. \A t \in Recurring : \A i, j \in 1 .. n :
        Scheduled(ws[i], t) /\ Scheduled(ws[j], t) => i = j
  BY <1>3 DEF Listed
<1>5. \A i \in 1 .. n : ws[i].status = "queued" => st[i] = 0
  BY <1>1 DEF Listed
<1>6. AllSaved => \A i \in 1 .. n :
        cs[i] = IF ws[i].status \in {"failed", "missed"} THEN 1 ELSE 0
  BY <1>1, <1>2 DEF Listed
<1> QED
  BY <1>1, <1>4, <1>5, <1>6 DEF Listed, ws, cs

(* A queued run is started. *)
LEMMA ListedStarted ==
  ASSUME NEW rs, NEW n, NEW st \in [Ids -> Nat], NEW rp, Listed(rs, n, st, rp),
         n <= MaxRuns, NEW id \in 1 .. n, rs[id].status = "queued"
  PROVE  Listed(With(rs, {id}, "running"), n, Count(st, {id}), rp)
<1> DEFINE ws == With(rs, {id}, "running")
           cs == Count(st, {id})
<1>0. "running" \in Statuses
  BY DEF Statuses, Active, Underway
<1> DEFINE S == {id}
<1> HIDE DEF S
<1>1. /\ ws \in Seq(Record) /\ Len(ws) = n /\ n \in Nat
      /\ \A i \in 1 .. n :
           /\ ws[i].id = i /\ ws[i].routine = rs[i].routine /\ ws[i].manual = rs[i].manual
           /\ ws[i].status = IF i = id THEN "running" ELSE rs[i].status
  <2>1. /\ With(rs, S, "running") \in Seq(Record) /\ Len(With(rs, S, "running")) = n
        /\ \A i \in 1 .. n :
             /\ With(rs, S, "running")[i].id = i
             /\ With(rs, S, "running")[i].routine = rs[i].routine
             /\ With(rs, S, "running")[i].manual = rs[i].manual
             /\ With(rs, S, "running")[i].status = IF i \in S THEN "running" ELSE rs[i].status
    BY <1>0, WithRuns
  <2>2. n \in Nat
    BY ListedRuns
  <2> QED
    BY <2>1, <2>2 DEF S
<1>2. \A i \in 1 .. n : i # id => cs[i] = st[i]
  BY <1>1, RoutinesAssumption DEF Count, Ids
<1> HIDE DEF ws, cs
<1>3. ASSUME NEW t, NEW i \in 1 .. n, Scheduled(ws[i], t)
      PROVE  Scheduled(rs[i], t)
  BY <1>1, <1>3 DEF Scheduled, Active, Underway
<1>4. \A t \in Recurring : \A i, j \in 1 .. n :
        Scheduled(ws[i], t) /\ Scheduled(ws[j], t) => i = j
  BY <1>3 DEF Listed
<1>5. \A i \in 1 .. n : ws[i].status = "queued" => cs[i] = 0
  BY <1>1, <1>2 DEF Listed
<1>6. AllSaved => \A i \in 1 .. n :
        rp[i] = IF ws[i].status \in {"failed", "missed"} THEN 1 ELSE 0
  BY <1>1 DEF Listed
<1> QED
  BY <1>1, <1>4, <1>5, <1>6 DEF Listed, ws, cs


(* Runs are appended, none of them under way: the scheduled ones of        *)
(* recurring routines that have none, the missed ones reported.            *)
LEMMA ListedAppended ==
  ASSUME NEW rs, NEW n, NEW st, NEW rp \in [Ids -> Nat], Listed(rs, n, st, rp),
         NEW new \in Seq(Record), n + Len(new) <= MaxRuns, NEW missed,
         \A i \in Ids : i > n => st[i] = 0 /\ rp[i] = 0,
         \A j \in 1 .. Len(new) :
           /\ new[j].id = n + j /\ new[j].status \in {"queued", "missed"}
           /\ n + j \in missed <=> new[j].status = "missed",
         \A i \in missed : i > n,
         \A t \in Recurring : \A j \in 1 .. Len(new) : Scheduled(new[j], t) =>
             /\ \A i \in 1 .. n : ~Scheduled(rs[i], t)
             /\ \A k \in 1 .. Len(new) : Scheduled(new[k], t) => k = j
  PROVE  Listed(rs \o new, n + Len(new), st, Count(rp, missed))
<1> DEFINE m == Len(new)
           ws == rs \o new
           cs == Count(rp, missed)
<1>1. /\ n \in Nat /\ m \in Nat /\ rs \in Seq(Record) /\ Len(rs) = n
      /\ \A i \in 1 .. n : rs[i].id = i
  BY ListedRuns DEF Listed
<1>2. /\ ws \in Seq(Record) /\ Len(ws) = n + m
      /\ \A i \in 1 .. n : ws[i] = rs[i]
      /\ \A i \in n + 1 .. n + m : i - n \in 1 .. m /\ ws[i] = new[i - n] /\ n + (i - n) = i
  <2>1. /\ ws \in Seq(Record) /\ Len(ws) = n + m
        /\ \A i \in 1 .. n + m : ws[i] = IF i <= n THEN rs[i] ELSE new[i - n]
    BY <1>1, ConcatProperties
  <2> HIDE DEF ws, m
  <2> QED
    BY <1>1, <2>1
<1>3. \A i \in 1 .. n + m : i \in 1 .. n \/ i \in n + 1 .. n + m
  BY <1>1
<1>4. \A i \in 1 .. n + m : i \in Ids /\ cs[i] = IF i \in missed THEN rp[i] + 1 ELSE rp[i]
  BY <1>1, RoutinesAssumption DEF Count, Ids
<1> HIDE DEF ws, cs, m
<1>5. \A i \in 1 .. n + m : ws[i].id = i
  BY <1>1, <1>2, <1>3 DEF m
<1>6. ASSUME NEW t \in Recurring, NEW i \in 1 .. n + m, NEW j \in 1 .. n + m,
             Scheduled(ws[i], t), Scheduled(ws[j], t)
      PROVE  i = j
  <2>1. CASE i \in 1 .. n /\ j \in 1 .. n
    BY <1>2, <1>6, <2>1 DEF Listed
  <2>2. CASE i \in n + 1 .. n + m
    <3>1. i - n \in 1 .. m /\ Scheduled(new[i - n], t)
      BY <1>2, <1>6, <2>2
    <3>2. /\ \A k \in 1 .. n : ~Scheduled(rs[k], t)
          /\ \A k \in 1 .. m : Scheduled(new[k], t) => k = i - n
      BY <3>1 DEF m
    <3>3. j \in n + 1 .. n + m
      BY <1>2, <1>3, <1>6, <3>2
    <3>4. j - n = i - n
      BY <1>2, <1>6, <3>2, <3>3
    <3> QED
      BY <1>1, <2>2, <3>3, <3>4
  <2>3. CASE j \in n + 1 .. n + m
    <3>1. j - n \in 1 .. m /\ Scheduled(new[j - n], t)
      BY <1>2, <1>6, <2>3
    <3>2. /\ \A k \in 1 .. n : ~Scheduled(rs[k], t)
          /\ \A k \in 1 .. m : Scheduled(new[k], t) => k = j - n
      BY <3>1 DEF m
    <3>3. i \in n + 1 .. n + m
      BY <1>2, <1>3, <1>6, <3>2
    <3>4. i - n = j - n
      BY <1>2, <1>6, <3>2, <3>3
    <3> QED
      BY <1>1, <2>3, <3>3, <3>4
  <2> QED
    BY <1>3, <2>1, <2>2, <2>3
<1>7. \A i \in 1 .. n + m : ws[i].status = "queued" => st[i] = 0
  <2> SUFFICES ASSUME NEW i \in 1 .. n + m, ws[i].status = "queued" PROVE st[i] = 0
    OBVIOUS
  <2>1. CASE i \in 1 .. n
    BY <1>2, <2>1 DEF Listed
  <2>2. CASE i \in n + 1 .. n + m
    BY <1>1, <1>4, <2>2
  <2> QED
    BY <1>3, <2>1, <2>2
<1>8. ASSUME AllSaved, NEW i \in 1 .. n + m
      PROVE  cs[i] = IF ws[i].status \in {"failed", "missed"} THEN 1 ELSE 0
  <2>1. CASE i \in 1 .. n
    <3>1. i \notin missed
      BY <1>1, <2>1
    <3> QED
      BY <1>2, <1>4, <1>8, <2>1, <3>1 DEF Listed
  <2>2. CASE i \in n + 1 .. n + m
    <3>1. rp[i] = 0 /\ ws[i].status \in {"queued", "missed"} /\ (i \in missed <=> ws[i].status = "missed")
      <4>1. i \in Ids /\ i > n
        BY <1>1, <1>4, <2>2
      <4>2. i - n \in 1 .. m /\ ws[i] = new[i - n] /\ n + (i - n) = i
        BY <1>2, <2>2
      <4> QED
        BY <4>1, <4>2 DEF m
    <3> QED
      BY <1>4, <3>1
  <2> QED
    BY <1>3, <2>1, <2>2
<1> QED
  BY <1>1, <1>2, <1>5, <1>6, <1>7, <1>8 DEF Listed, ws, cs, m

(* What Count does to a history. *)
LEMMA CountType ==
  ASSUME NEW h \in [Ids -> Nat], NEW S
  PROVE  /\ Count(h, S) \in [Ids -> Nat]
         /\ \A i \in Ids : Count(h, S)[i] = IF i \in S THEN h[i] + 1 ELSE h[i]
BY DEF Count

(* A question about a run of this.runs is one about the run at its number. *)
LEMMA IsAt ==
  ASSUME IInv, NEW id, NEW S
  PROVE  Is(id, S) <=> id \in 1 .. created /\ runs[id].status \in S
<1>1. /\ Range(runs) = {runs[i] : i \in 1 .. created}
      /\ \A i \in 1 .. created : runs[i].id = i
  BY ListedRuns DEF IInv
<1> QED
  BY <1>1 DEF Is

(* So is one about its routine or its target. *)
LEMMA TargetAt ==
  ASSUME IInv, NEW id \in 1 .. created
  PROVE  RoutineOf(id) = runs[id].routine /\ (TargetOf(id) = "okx-task" <=> IsOkx(id))
<1>1. Found(runs, id) = runs[id]
  BY ListedRuns DEF IInv
<1> QED
  BY <1>1 DEF RoutineOf, TargetOf, IsOkx

(* A run is failed if it is under way. *)
LEMMA FailingAt ==
  ASSUME IInv, NEW id
  PROVE  /\ Failing(id) \subseteq 1 .. created
         /\ \A i \in Failing(id) : i = id /\ runs[i].status \in Underway
         /\ id \in 1 .. created /\ runs[id].status \in Underway => Failing(id) = {id}
BY IsAt DEF Failing


-----------------------------------------------------------------------------
(* The dispatch. *)

(* The states of tick that the dispatch leaves: at rest, or a start that   *)
(* is awaited.                                                             *)
LEMMA TickTypes ==
  /\ Idle \in Tick
  /\ \A id \in Ids, todo \in Seq(Ids) :
       [Idle EXCEPT !.pc = "starting", !.run = id, !.todo = todo] \in Tick
<1>1. NoCopy \in Seq(Record) /\ <<>> \in Seq(Ids) /\ 1 \in Nat /\ 0 \in Ids \cup {0}
  BY DEF NoCopy
<1>2. Idle \in Tick
  BY <1>1 DEF Idle, Tick
<1>3. ASSUME NEW id \in Ids, NEW todo \in Seq(Ids)
      PROVE  [Idle EXCEPT !.pc = "starting", !.run = id, !.todo = todo] \in Tick
  <2>1. id \in Ids \cup {0}
    OBVIOUS
  <2> QED
    BY <1>2, <1>3, <2>1 DEF Tick
<1> QED
  BY <1>2, <1>3

(* The file becomes what is in memory, or both stay as they are. *)
FileFollows == file' = runs' \/ (runs' = runs /\ file' = file /\ starts' = starts)

(* The dispatch of a list of runs, of which some have been missed before   *)
(* and some fail: nothing but queued runs and those that fail change; one  *)
(* at most is started, and the start is awaited.                           *)
LEMMA Dispatched ==
  ASSUME starts \in [Ids -> Nat], reports \in [Ids -> Nat], \A i \in Ids : starts[i] <= 1,
         NEW rs, NEW n \in Nat, n <= MaxRuns, NEW todo \in Seq(Ids),
         NEW failed \in SUBSET (1 .. n), NEW missed \in SUBSET (1 .. n),
         Listed(rs, n, starts, Count(reports, missed)),
         \A i \in failed : rs[i].status \in Underway,
         \A i \in missed : rs[i].status = "missed",
         Dispatch(rs, todo, failed, missed)
  PROVE  /\ FileFollows /\ Listed(runs', n, starts', reports')
         /\ starts' \in [Ids -> Nat] /\ reports' \in [Ids -> Nat]
         /\ \A i \in Ids : starts'[i] <= 1
         /\ \A i \in Ids : i > n => starts'[i] = starts[i] /\ reports'[i] = reports[i]
         /\ tick' \in Tick /\ tick'.pc # "stopping" /\ tick'.copy = NoCopy /\ tick'.late = {}
         /\ \A i \in 1 .. n :
              /\ runs'[i].routine = rs[i].routine
              /\ i \in failed => runs'[i].status = "failed"
              /\ i \notin failed /\ rs[i].status # "queued" => runs'[i] = rs[i]
              /\ runs'[i].status \in Underway /\ rs[i].status = "queued" =>
                   tick'.pc = "starting" /\ tick'.run = i
         /\ tick'.pc = "starting" => tick'.run \in 1 .. n /\ runs'[tick'.run].status = "running"
<1> DEFINE queued == {k \in DOMAIN todo : \E r \in Range(rs) : r.id = todo[k] /\ r.status = "queued"}
           t(k) == Found(rs, todo[k]).routine
           ready == {k \in queued : Ready(t(k))}
           orphans(ks) == {todo[k] : k \in {k \in ks : Agent[t(k)] \in gone}} \cup failed
<1> HIDE DEF queued, t, ready, orphans
<1>1. /\ \A i \in 1 .. n : rs[i] \in Record /\ rs[i].id = i
      /\ Range(rs) = {rs[i] : i \in 1 .. n}
  BY ListedRuns
<1>2. ASSUME NEW k \in queued
      PROVE  k \in DOMAIN todo /\ todo[k] \in 1 .. n /\ rs[todo[k]].status = "queued"
  <2>1. k \in DOMAIN todo /\ \E r \in Range(rs) : r.id = todo[k] /\ r.status = "queued"
    BY DEF queued
  <2>2. PICK i \in 1 .. n : rs[i].id = todo[k] /\ rs[i].status = "queued"
    BY <1>1, <2>1
  <2> QED
    BY <1>1, <2>1, <2>2
<1>3. ASSUME NEW ks \in SUBSET queued
      PROVE  /\ orphans(ks) \subseteq 1 .. n
             /\ \A i \in orphans(ks) : rs[i].status \in Active /\ i \notin missed
             /\ failed \subseteq orphans(ks)
             /\ \A i \in 1 .. n : rs[i].status # "queued" /\ i \notin failed => i \notin orphans(ks)
  BY <1>2 DEF orphans, Active, Underway
<1>4. ASSUME NEW ls \in SUBSET (1 .. n), \A i \in ls : rs[i].status \in Active /\ i \notin missed
      PROVE  /\ Listed(With(rs, ls, "failed"), n, starts, Count(reports, ls \cup missed))
             /\ \A i \in 1 .. n :
                  /\ With(rs, ls, "failed")[i].id = i
                  /\ With(rs, ls, "failed")[i].routine = rs[i].routine
                  /\ With(rs, ls, "failed")[i].status = IF i \in ls THEN "failed" ELSE rs[i].status
                  /\ i \notin ls => With(rs, ls, "failed")[i] = rs[i]
  <2> DEFINE cs == Count(reports, missed)
  <2>1. cs \in [Ids -> Nat]
    BY CountType
  <2>2. \A i \in ls : rs[i].status \notin {"failed", "missed"}
    BY <1>4 DEF Active, Underway
  <2>3. Listed(With(rs, ls, "failed"), n, starts, Count(cs, ls))
    <3> HIDE DEF cs
    <3>1. Listed(rs, n, starts, cs)
      BY DEF cs
    <3> QED
      BY <2>1, <2>2, <3>1, ListedFailed
  <2>4. Count(cs, ls) = Count(reports, ls \cup missed)
    <3> DEFINE ms == ls \cup missed
    <3>1. \A i \in Ids : /\ Count(cs, ls)[i] = IF i \in ls THEN cs[i] + 1 ELSE cs[i]
                         /\ cs[i] = IF i \in missed THEN reports[i] + 1 ELSE reports[i]
      <4>1. \A i \in Ids : cs[i] = IF i \in missed THEN reports[i] + 1 ELSE reports[i]
        BY DEF Count
      <4> HIDE DEF cs
      <4>2. \A i \in Ids : Count(cs, ls)[i] = IF i \in ls THEN cs[i] + 1 ELSE cs[i]
        BY DEF Count
      <4> QED
        BY <4>1, <4>2
    <3>2. \A i \in Ids : i \in ms <=> i \in ls \/ i \in missed
      OBVIOUS
    <3>3. \A i \in Ids : ~(i \in ls /\ i \in missed)
      BY <1>4
    <3> HIDE DEF ms, cs
    <3>4. \A i \in Ids : Count(cs, ls)[i] = IF i \in ms THEN reports[i] + 1 ELSE reports[i]
      BY <3>1, <3>2, <3>3
    <3>5. Count(cs, ls) = [i \in Ids |-> Count(cs, ls)[i]]
      BY DEF Count
    <3>6. Count(cs, ls) = Count(reports, ms)
      BY <3>4, <3>5 DEF Count
    <3> QED
      BY <3>6 DEF ms, cs
  <2>5. "failed" \in Statuses
    BY DEF Statuses, Terminal
  <2> QED
    BY <2>3, <2>4, <2>5, WithRuns
<1>5. CASE ready = {} /\ Save(With(rs, orphans(queued), "failed"))
           /\ reports' = Count(reports, orphans(queued) \cup missed) /\ tick' = Idle
           /\ starts' = starts
  <2> DEFINE ls == orphans(queued)
  <2>1. /\ ls \in SUBSET (1 .. n)
        /\ \A i \in ls : rs[i].status \in Active /\ i \notin missed
        /\ failed \subseteq ls
        /\ \A i \in 1 .. n : rs[i].status # "queued" /\ i \notin failed => i \notin ls
    BY <1>3
  <2>2. runs' = With(rs, ls, "failed") /\ FileFollows
    BY <1>5 DEF Save, FileFollows
  <2> HIDE DEF ls
  <2>3. /\ Listed(runs', n, starts', reports')
        /\ \A i \in 1 .. n :
             /\ runs'[i].routine = rs[i].routine
             /\ runs'[i].status = IF i \in ls THEN "failed" ELSE rs[i].status
             /\ i \notin ls => runs'[i] = rs[i]
    BY <1>4, <1>5, <2>1, <2>2 DEF ls
  <2>4. /\ reports' \in [Ids -> Nat]
        /\ \A i \in Ids : i > n => reports'[i] = reports[i]
    <3> DEFINE ms == ls \cup missed
    <3>1. \A i \in Ids : i > n => i \notin ms
      BY <2>1 DEF Ids
    <3> HIDE DEF ms
    <3>2. reports' = Count(reports, ms)
      BY <1>5 DEF ls, ms
    <3> QED
      BY <3>1, <3>2, CountType
  <2>5. tick' \in Tick /\ tick'.pc = "idle" /\ tick'.copy = NoCopy /\ tick'.late = {}
    BY <1>5, TickTypes DEF Idle
  <2>6. \A i \in 1 .. n : rs[i].status = "queued" => runs'[i].status \notin Underway
    BY <2>3 DEF Underway
  <2> QED
    BY <1>5, <2>1, <2>2, <2>3, <2>4, <2>5, <2>6
<1>6. ASSUME NEW k \in ready,
             runs' = With(With(rs, orphans({j \in queued : j < k}), "failed"), {todo[k]}, "running"),
             file' = runs',
             reports' = Count(reports, orphans({j \in queued : j < k}) \cup missed),
             tick' = [Idle EXCEPT !.pc = "starting", !.run = todo[k],
                        !.todo = SubSeq(todo, k + 1, Len(todo))],
             starts' = Count(starts, {todo[k]})
      PROVE  /\ FileFollows /\ Listed(runs', n, starts', reports')
             /\ starts' \in [Ids -> Nat] /\ reports' \in [Ids -> Nat]
             /\ \A i \in Ids : starts'[i] <= 1
             /\ \A i \in Ids : i > n => starts'[i] = starts[i] /\ reports'[i] = reports[i]
             /\ tick' \in Tick /\ tick'.pc = "starting" /\ tick'.copy = NoCopy /\ tick'.late = {}
             /\ \A i \in 1 .. n :
                  /\ runs'[i].routine = rs[i].routine
                  /\ i \in failed => runs'[i].status = "failed"
                  /\ i \notin failed /\ rs[i].status # "queued" => runs'[i] = rs[i]
                  /\ runs'[i].status \in Underway /\ rs[i].status = "queued" => tick'.run = i
             /\ tick'.run \in 1 .. n /\ runs'[tick'.run].status = "running"
  <2> DEFINE ls == orphans({j \in queued : j < k})
             id == todo[k]
             fs == With(rs, ls, "failed")
  <2>1. /\ ls \in SUBSET (1 .. n)
        /\ \A i \in ls : rs[i].status \in Active /\ i \notin missed
        /\ failed \subseteq ls
        /\ \A i \in 1 .. n : rs[i].status # "queued" /\ i \notin failed => i \notin ls
    <3>1. {j \in queued : j < k} \in SUBSET queued
      OBVIOUS
    <3> QED
      BY <1>3, <3>1
  <2>2. k \in queued /\ k \in DOMAIN todo /\ id \in 1 .. n /\ rs[id].status = "queued" /\ id \in Ids
    <3>1. k \in queued
      BY DEF ready
    <3>2. k \in DOMAIN todo /\ id \in 1 .. n /\ rs[id].status = "queued"
      BY <1>2, <3>1
    <3>3. id \in Ids
      BY <3>2, RoutinesAssumption DEF Ids
    <3> QED
      BY <3>1, <3>2, <3>3
  <2>3. id \notin ls
    <3>1. Agent[rs[id].routine] \notin gone
      <4>1. t(k) = rs[id].routine
        BY <2>2, ListedRuns DEF t
      <4> QED
        BY <4>1 DEF ready, Ready
    <3>2. \A j \in queued : t(j) = rs[todo[j]].routine
      BY <1>2, ListedRuns DEF t
    <3>3. id \notin failed
      BY <2>2 DEF Underway
    <3> QED
      BY <3>1, <3>2, <3>3 DEF orphans
  <2> HIDE DEF ls, id, fs
  <2>4. runs' = With(fs, {id}, "running") /\ file' = runs' /\ starts' = Count(starts, {id})
    BY <1>6 DEF ls, id, fs
  <2>5. /\ Listed(fs, n, starts, reports')
        /\ \A i \in 1 .. n :
             /\ fs[i].id = i /\ fs[i].routine = rs[i].routine
             /\ fs[i].status = IF i \in ls THEN "failed" ELSE rs[i].status
             /\ i \notin ls => fs[i] = rs[i]
    <3>1. reports' = Count(reports, ls \cup missed)
      BY <1>6 DEF ls
    <3>2. Listed(fs, n, starts, Count(reports, ls \cup missed))
      BY <1>4, <2>1 DEF fs
    <3>3. \A i \in 1 .. n :
            /\ fs[i].id = i /\ fs[i].routine = rs[i].routine
            /\ fs[i].status = IF i \in ls THEN "failed" ELSE rs[i].status
            /\ i \notin ls => fs[i] = rs[i]
      <4>1. "failed" \in Statuses
        BY DEF Statuses, Terminal
      <4>2. \A i \in 1 .. n :
              /\ fs[i].id = i /\ fs[i].routine = rs[i].routine
              /\ fs[i].status = IF i \in ls THEN "failed" ELSE rs[i].status
              /\ i \notin ls => fs[i] = rs[i]
        BY <4>1, WithRuns DEF fs
      <4> QED
        BY <4>2
    <3> QED
      BY <3>1, <3>2, <3>3
  <2>6. fs[id].status = "queued"
    BY <2>2, <2>3, <2>5
  <2>7. Listed(runs', n, starts', reports')
    BY <2>2, <2>4, <2>5, <2>6, ListedStarted
  <2>8. \A i \in 1 .. n :
          /\ runs'[i].routine = rs[i].routine
          /\ runs'[i].status = IF i = id THEN "running" ELSE fs[i].status
          /\ i # id => runs'[i] = fs[i]
    <3> DEFINE S == {id}
    <3>1. "running" \in Statuses
      BY DEF Statuses, Active, Underway
    <3> HIDE DEF S
    <3>2. \A i \in 1 .. n :
            /\ With(fs, S, "running")[i].routine = fs[i].routine
            /\ With(fs, S, "running")[i].status = IF i \in S THEN "running" ELSE fs[i].status
            /\ i \notin S => With(fs, S, "running")[i] = fs[i]
      BY <2>5, <3>1, WithRuns
    <3> QED
      BY <2>4, <2>5, <3>2 DEF S
  <2>9. /\ reports' \in [Ids -> Nat]
        /\ \A i \in Ids : i > n => reports'[i] = reports[i]
    <3> DEFINE ms == ls \cup missed
    <3>1. \A i \in Ids : i > n => i \notin ms
      BY <2>1 DEF Ids
    <3> HIDE DEF ms
    <3>2. reports' = Count(reports, ms)
      BY <1>6 DEF ls, ms
    <3>3. /\ reports' \in [Ids -> Nat]
          /\ \A i \in Ids : reports'[i] = IF i \in ms THEN reports[i] + 1 ELSE reports[i]
      BY <3>2, CountType
    <3> QED
      BY <3>1, <3>3
  <2>10. /\ starts' \in [Ids -> Nat] /\ \A i \in Ids : starts'[i] <= 1
         /\ \A i \in Ids : i > n => starts'[i] = starts[i]
    <3> DEFINE S == {id}
    <3>1. \A i \in Ids : i \in S <=> i = id
      OBVIOUS
    <3> HIDE DEF S
    <3>2. starts' = Count(starts, S)
      BY <2>4 DEF S
    <3>3. starts[id] = 0
      BY <2>2 DEF Listed
    <3>4. /\ starts' \in [Ids -> Nat]
          /\ \A i \in Ids : starts'[i] = IF i = id THEN starts[i] + 1 ELSE starts[i]
      BY <3>1, <3>2, CountType
    <3> QED
      BY <2>2, <3>3, <3>4 DEF Ids
  <2>11. /\ tick' \in Tick /\ tick'.pc = "starting" /\ tick'.copy = NoCopy /\ tick'.late = {}
         /\ tick'.run = id
    <3>1. SubSeq(todo, k + 1, Len(todo)) \in Seq(Ids)
      BY <2>2
    <3>2. tick' = [Idle EXCEPT !.pc = "starting", !.run = id, !.todo = SubSeq(todo, k + 1, Len(todo))]
      BY <1>6 DEF id
    <3> QED
      BY <2>2, <3>1, <3>2, TickTypes DEF Idle
  <2>12. \A i \in failed : i # id /\ i \in ls
    BY <2>1, <2>3
  <2>13. \A i \in 1 .. n : rs[i].status = "queued" /\ i # id => runs'[i].status \notin Underway
    BY <2>5, <2>8 DEF Underway
  <2>14. ASSUME NEW i \in 1 .. n
         PROVE  /\ i \in failed => runs'[i].status = "failed"
                /\ i \notin failed /\ rs[i].status # "queued" => runs'[i] = rs[i]
                /\ runs'[i].status \in Underway /\ rs[i].status = "queued" => i = id
    BY <2>1, <2>2, <2>5, <2>8, <2>12, <2>13
  <2>15. runs'[id].status = "running"
    BY <2>2, <2>8
  <2> QED
    BY <2>2, <2>4, <2>7, <2>8, <2>9, <2>10, <2>11, <2>14, <2>15 DEF FileFollows
<1>7. ready # {} => Min(ready) \in ready
  <2>1. Len(todo) \in Nat /\ ready \in SUBSET (0 .. Len(todo))
    BY <1>2 DEF ready
  <2> QED
    BY <2>1, MinIsIn
<1>8. \/ ready = {} /\ Save(With(rs, orphans(queued), "failed"))
         /\ reports' = Count(reports, orphans(queued) \cup missed) /\ tick' = Idle
         /\ starts' = starts
      \/ ready # {} /\ \E k \in {Min(ready)} :
           /\ runs' = With(With(rs, orphans({j \in queued : j < k}), "failed"), {todo[k]}, "running")
           /\ file' = runs'
           /\ reports' = Count(reports, orphans({j \in queued : j < k}) \cup missed)
           /\ tick' = [Idle EXCEPT !.pc = "starting", !.run = todo[k],
                        !.todo = SubSeq(todo, k + 1, Len(todo))]
           /\ starts' = Count(starts, {todo[k]})
  BY DEF Dispatch, queued, ready, orphans, t
<1> QED
  BY <1>5, <1>6, <1>7, <1>8


-----------------------------------------------------------------------------
(* What is due. *)

(* There are finitely many routines, so finitely many are due. *)
LEMMA DueFinite ==
  ASSUME IInv
  PROVE  /\ IsFiniteSet(Routines) /\ Due \in SUBSET Routines
         /\ IsFiniteSet(Due) /\ Cardinality(Due) \in Nat
<1>1. IsFiniteSet(Routines)
  <2> DEFINE n == Len(RoutineOrder)
  <2>1. n \in Nat /\ RoutineOrder \in Surjection(1 .. n, Routines)
    BY RoutinesAssumption DEF Surjection, Range, Routines
  <2>2. IsFiniteSet(1 .. n)
    BY <2>1, FS_Interval
  <2> QED
    BY <2>1, <2>2, FS_Surjection
<1>2. Due \in SUBSET Routines
  BY DEF Due, IInv, Types
<1> QED
  BY <1>1, <1>2, FS_Subset, FS_CardinalityType

(* The room for runs stays when no more becomes due. *)
LEMMA RoomStays ==
  ASSUME IInv, Due' \in SUBSET Due, created' = created
  PROVE  created' + Cardinality(Due') <= MaxRuns
<1>1. /\ IsFiniteSet(Due) /\ Cardinality(Due) \in Nat
      /\ Cardinality(Due') \in Nat /\ Cardinality(Due') <= Cardinality(Due)
  BY DueFinite, FS_Subset, FS_CardinalityType
<1> QED
  BY <1>1, RoutinesAssumption DEF IInv, Types, Counted

-----------------------------------------------------------------------------
(* Steps that change no run. *)

(* The books are those of before. *)
LEMMA BooksStay ==
  ASSUME IInv, UNCHANGED <<runs, file, starts, reports, created>>
  PROVE  /\ Listed(runs, created, starts, reports)' /\ Listed(file, created, starts, reports)'
         /\ Saved'
BY DEF IInv, Saved

(* The file stays a list of the same runs. *)
LEMMA FileStays ==
  ASSUME IInv, Listed(runs, created, starts, reports)', FileFollows
  PROVE  Listed(file, created, starts, reports)' /\ Saved'
<1>1. CASE file' = runs'
  BY <1>1 DEF Saved
<1>2. CASE AllSaved /\ runs' = runs /\ file' = file
  BY <1>2 DEF IInv, Saved
<1>3. CASE ~AllSaved /\ runs' = runs /\ file' = file /\ starts' = starts
  <2>1. created' = created
    BY <1>3 DEF IInv, Listed
  <2> QED
    BY <1>3, <2>1 DEF IInv, Listed, Saved
<1> QED
  BY <1>1, <1>2, <1>3 DEF FileFollows

(* A routine is resumed. *)
LEMMA ResumeStep ==
  ASSUME IInv, NEW t \in Paused, Resume(t)
  PROVE  IInv'
<1> USE DEF Resume, definitions, provider, history, counters
<1>1. t \in Routines
  BY RoutinesAssumption
<1>2. Types'
  BY <1>1 DEF IInv, Types
<1>3. Counted'
  <2>1. Due' \in SUBSET Due
    BY <1>1 DEF Due, IInv, Types
  <2> QED
    BY <2>1, RoomStays DEF IInv, Counted
<1>4. Working' /\ Owned'
  BY DEF IInv, Working, Owned, IsOkx
<1> QED
  BY <1>2, <1>3, <1>4, BooksStay DEF IInv

(* A definition cannot be written. *)
LEMMA CommitRollsBackStep ==
  ASSUME IInv, CommitRollsBack
  PROVE  IInv'
<1> USE DEF CommitRollsBack, definitions, provider, history, counters
<1>1. tick' = tick \/ tick' = [tick EXCEPT !.copy = runs]
  OBVIOUS
<1>2. runs \in Seq(Record) /\ tick \in Tick
  BY DEF IInv, Listed, Types
<1>3. tick' \in Tick /\ tick'.pc = tick.pc /\ tick'.run = tick.run /\ tick'.late = tick.late
  BY <1>1, <1>2 DEF Tick
<1>4. Types'
  BY <1>3 DEF IInv, Types
<1>5. Counted'
  <2>1. Due' = Due
    BY DEF Due
  <2> QED
    BY <2>1 DEF IInv, Counted
<1>6. Working'
  <2>1. \A i \in 1 .. Len(runs) : runs[i].id \in 1 .. created
    BY DEF IInv, Listed
  <2>2. tick'.copy = tick.copy \/ tick'.copy = runs
    BY <1>1, <1>2 DEF Tick
  <2>3. \A i \in 1 .. Len(tick'.copy) : tick'.copy[i].id \in 1 .. created
    BY <2>1, <2>2 DEF IInv, Working
  <2> QED
    BY <1>3, <2>3 DEF IInv, Working, IsOkx
<1>7. NoCopies => tick' = tick
  <2>1. saveFailures \in Nat /\ MaxSaveFailures \in Nat
    BY RoutinesAssumption DEF IInv, Types
  <2>2. NoCopies => Limited = {}
    BY <2>1 DEF NoCopies
  <2> QED
    BY <2>2 DEF IInv, Owned
<1>8. Owned'
  BY <1>7 DEF IInv, Owned, IsOkx
<1> QED
  BY <1>4, <1>5, <1>6, <1>8, BooksStay DEF IInv

(* An occurrence becomes due, when there is room for its run. *)
LEMMA OccurrenceDueStep ==
  ASSUME IInv, NEW t \in Routines, OccurrenceDue(t)
  PROVE  IInv'
<1> USE DEF OccurrenceDue, definitions, provider, history, counters
<1>1. Types'
  BY DEF IInv, Types
<1>2. Counted'
  <2>1. t \notin Due /\ Due' = Due \cup {t}
    BY DEF Due, IInv, Types
  <2>2. Cardinality(Due') = Cardinality(Due) + 1 /\ Cardinality(Due) \in Nat
    BY <2>1, DueFinite, FS_AddElement
  <2> QED
    BY <2>2, RoutinesAssumption DEF IInv, Types, Counted, HasRoom
<1>3. Working' /\ Owned'
  BY DEF IInv, Working, Owned, IsOkx
<1> QED
  BY <1>1, <1>2, <1>3, BooksStay DEF IInv

(* A due occurrence grows too old. *)
LEMMA OccurrenceStaleStep ==
  ASSUME IInv, NEW t \in Routines, OccurrenceStale(t)
  PROVE  IInv'
<1> USE DEF OccurrenceStale, definitions, provider, history, counters
<1>1. Types'
  BY DEF IInv, Types
<1>2. Counted'
  <2>1. Due' \in SUBSET Due
    BY DEF Due, IInv, Types
  <2> QED
    BY <2>1, RoomStays DEF IInv, Counted
<1>3. Working' /\ Owned'
  BY DEF IInv, Working, Owned, IsOkx
<1> QED
  BY <1>1, <1>2, <1>3, BooksStay DEF IInv

(* A run passes its limit. *)
LEMMA LimitPassesStep ==
  ASSUME IInv, NEW id \in Ids, LimitPasses(id)
  PROVE  IInv'
<1> USE DEF LimitPasses, definitions, provider, history, counters
<1>1. Types'
  BY DEF IInv, Types
<1>2. Counted'
  <2>1. Due' = Due
    BY DEF Due
  <2> QED
    BY <2>1 DEF IInv, Counted
<1>3. id \in 1 .. created /\ Limited # {}
  BY IsAt
<1>4. Working' /\ Owned'
  BY <1>3 DEF IInv, Working, Owned, IsOkx
<1> QED
  BY <1>1, <1>2, <1>4, BooksStay DEF IInv

(* A user talks to an agent, and is done. *)
LEMMA UserTurnStep ==
  ASSUME IInv, NEW a \in Agents, UserTurn(a) \/ UserTurnEnds(a)
  PROVE  IInv'
<1> USE DEF UserTurn, UserTurnEnds, definitions, provider, history, counters
<1>1. UNCHANGED <<runs, file, enabled, next, gone, tick, live, delegated, parked, stopping,
                  overdue, starts, reports, lost, created, saveFailures>>
      /\ visited' \subseteq Agents
  BY DEF IInv, Types
<1>2. Types'
  BY <1>1 DEF IInv, Types
<1>3. Counted'
  <2>1. Due' = Due
    BY <1>1 DEF Due
  <2> QED
    BY <1>1, <2>1 DEF IInv, Counted
<1>4. Working' /\ Owned'
  BY <1>1 DEF IInv, Working, Owned, IsOkx
<1> QED
  BY <1>1, <1>2, <1>3, <1>4, BooksStay DEF IInv

(* An interrupt is answered: what it was for is over already. *)
LEMMA InterruptedStep ==
  ASSUME IInv, NEW id \in Ids, Interrupted(id)
  PROVE  IInv'
<1> USE DEF Interrupted, definitions, provider, history, counters
<1>1. /\ UNCHANGED <<runs, file, enabled, next, gone, tick, delegated, parked, visited,
                     overdue, starts, reports, lost, created, saveFailures>>
      /\ id \in stopping /\ stopping' \subseteq stopping
      /\ live' \subseteq live /\ \A i \in live : i # id => i \in live'
  OBVIOUS
<1> HIDE DEF Interrupted
<1>2. Types'
  BY <1>1 DEF IInv, Types
<1>3. Counted'
  <2>1. Due' = Due
    BY <1>1 DEF Due
  <2> QED
    BY <1>1, <2>1 DEF IInv, Counted
<1>4. Working'
  BY <1>1 DEF IInv, Working, IsOkx
<1>5. Owned'
  BY <1>1 DEF IInv, Owned, IsOkx, Underway, Terminal
<1> QED
  BY <1>1, <1>2, <1>3, <1>4, <1>5, BooksStay DEF IInv

(* A turn hands work over, the watch of that work is lost, or its answer   *)
(* is in and wakes the run if it is still under way.                       *)
LEMMA DelegationStep ==
  ASSUME IInv, NEW id \in Ids, Delegates(id) \/ DelegationReturns(id) \/ DelegationLost(id)
  PROVE  IInv'
<1> USE DEF Delegates, DelegationReturns, DelegationLost, definitions, history, counters
<1>1. /\ UNCHANGED <<runs, file, enabled, next, gone, tick, parked, stopping, visited,
                     overdue, starts, reports, created, saveFailures>>
      /\ \/ /\ id \in live /\ delegated' = delegated \cup {id}
            /\ live' = live /\ lost' = lost
         \/ /\ id \in delegated /\ delegated' = delegated \ {id}
            /\ live' = live \cup Failing(id) /\ lost' = lost
         \/ /\ id \in delegated /\ delegated' = delegated \ {id}
            /\ live' = live /\ lost' = lost \cup (Failing(id) \ live)
  OBVIOUS
<1> HIDE DEF Delegates, DelegationReturns, DelegationLost
<1>2. Types'
  BY <1>1 DEF IInv, Types
<1>3. Counted'
  <2>1. Due' = Due
    BY <1>1 DEF Due
  <2> QED
    BY <1>1, <2>1 DEF IInv, Counted
<1>4. /\ Failing(id) \subseteq {id} /\ \A i \in Failing(id) : runs[i].status \in Underway
      /\ id \in 1 .. created /\ runs[id].status \in Underway => id \in Failing(id)
  BY FailingAt
<1>5. Working'
  BY <1>1, <1>4 DEF IInv, Working, IsOkx, Underway
<1>6. Owned'
  BY <1>1, <1>4 DEF IInv, Owned, IsOkx
<1> QED
  BY <1>1, <1>2, <1>3, <1>5, <1>6, BooksStay DEF IInv


-----------------------------------------------------------------------------
(* Steps that change what runs are. *)

(* A save of the runs in which some have another status that is no failure. *)
LEMMA Rewritten ==
  ASSUME IInv, NEW S \in SUBSET (1 .. created),
         NEW status \in {"running", "waiting", "completed", "cancelled"},
         \A i \in S : /\ status \in Underway => runs[i].status \in Underway
                      /\ AllSaved => runs[i].status \notin {"failed", "missed"},
         Save(With(runs, S, status)), UNCHANGED <<starts, reports, created>>
  PROVE  /\ Listed(runs, created, starts, reports)' /\ Listed(file, created, starts, reports)'
         /\ Saved'
         /\ \A i \in 1 .. created :
              /\ runs'[i].routine = runs[i].routine
              /\ runs'[i].status = IF i \in S THEN status ELSE runs[i].status
              /\ i \notin S => runs'[i] = runs[i]
<1>1. Listed(runs, created, starts, reports)
  BY DEF IInv
<1>2. status \in Statuses /\ status \in Statuses \ {"queued", "failed", "missed"}
  BY DEF Statuses, Active, Underway, Terminal
<1>3. Listed(With(runs, S, status), created, starts, reports)
  BY <1>1, <1>2, ListedWith
<1>4. runs' = With(runs, S, status) /\ FileFollows
  BY DEF Save, FileFollows
<1>5. Listed(runs, created, starts, reports)' /\ Listed(file, created, starts, reports)' /\ Saved'
  BY <1>3, <1>4, FileStays
<1>6. \A i \in 1 .. created :
        /\ With(runs, S, status)[i].routine = runs[i].routine
        /\ With(runs, S, status)[i].status = IF i \in S THEN status ELSE runs[i].status
        /\ i \notin S => With(runs, S, status)[i] = runs[i]
  BY <1>1, <1>2, WithRuns
<1> QED
  BY <1>4, <1>5, <1>6

(* A save of the runs in which some have failed, and are reported. *)
LEMMA Failed ==
  ASSUME IInv, NEW S \in SUBSET (1 .. created),
         AllSaved => \A i \in S : runs[i].status \notin {"failed", "missed"},
         FailRuns(runs, S), UNCHANGED <<starts, created>>
  PROVE  /\ Listed(runs, created, starts, reports)' /\ Listed(file, created, starts, reports)'
         /\ Saved'
         /\ reports' \in [Ids -> Nat] /\ \A i \in Ids : i > created => reports'[i] = reports[i]
         /\ \A i \in 1 .. created :
              /\ runs'[i].routine = runs[i].routine
              /\ runs'[i].status = IF i \in S THEN "failed" ELSE runs[i].status
              /\ i \notin S => runs'[i] = runs[i]
<1>1. /\ Listed(runs, created, starts, reports) /\ reports \in [Ids -> Nat]
      /\ created \in Nat /\ created <= MaxRuns
  <2>1. Cardinality(Due) \in Nat
    BY DueFinite
  <2> QED
    BY <2>1, RoutinesAssumption DEF IInv, Types, Counted
<1>2. "failed" \in Statuses
  BY DEF Statuses, Terminal
<1>3. Listed(With(runs, S, "failed"), created, starts, Count(reports, S))
  BY <1>1, ListedFailed
<1>4. /\ runs' = With(runs, S, "failed") /\ FileFollows
      /\ reports' = Count(reports, S)
  BY DEF FailRuns, Save, FileFollows
<1>5. Listed(runs, created, starts, reports)' /\ Listed(file, created, starts, reports)' /\ Saved'
  BY <1>3, <1>4, FileStays
<1>6. \A i \in 1 .. created :
        /\ With(runs, S, "failed")[i].routine = runs[i].routine
        /\ With(runs, S, "failed")[i].status = IF i \in S THEN "failed" ELSE runs[i].status
        /\ i \notin S => With(runs, S, "failed")[i] = runs[i]
  BY <1>1, <1>2, WithRuns
<1>7. reports' \in [Ids -> Nat] /\ \A i \in Ids : i > created => reports'[i] = reports[i]
  <2>1. \A i \in Ids : i > created => i \notin S
    BY <1>1 DEF Ids
  <2>2. /\ reports' \in [Ids -> Nat]
        /\ \A i \in Ids : reports'[i] = IF i \in S THEN reports[i] + 1 ELSE reports[i]
    BY <1>1, <1>4, CountType
  <2> QED
    BY <2>1, <2>2
<1> QED
  BY <1>4, <1>5, <1>6, <1>7

(* The runs of this.runs with a status, by their numbers. *)
LEMMA IdsWith ==
  ASSUME IInv
  PROVE  /\ \A t : {r.id : r \in {r \in ActiveOf(t) : r.status = "queued"}}
                     = {i \in 1 .. created : runs[i].routine = t /\ runs[i].status = "queued"}
         /\ \A a : {r.id : r \in {r \in Range(runs) : Agent[r.routine] = a /\ r.status \in Active}}
                     = {i \in 1 .. created : Agent[runs[i].routine] = a /\ runs[i].status \in Active}
<1>1. /\ Range(runs) = {runs[i] : i \in 1 .. created}
      /\ \A i \in 1 .. created : runs[i].id = i
  BY ListedRuns DEF IInv
<1>2. ASSUME NEW t
      PROVE  {r.id : r \in {r \in ActiveOf(t) : r.status = "queued"}}
               = {i \in 1 .. created : runs[i].routine = t /\ runs[i].status = "queued"}
  BY <1>1 DEF ActiveOf, Active
<1>3. ASSUME NEW a
      PROVE  {r.id : r \in {r \in Range(runs) : Agent[r.routine] = a /\ r.status \in Active}}
               = {i \in 1 .. created : Agent[runs[i].routine] = a /\ runs[i].status \in Active}
  BY <1>1
<1> QED
  BY <1>2, <1>3

(* What is interrupted is under way and has a provider. *)
LEMMA InterruptibleAt ==
  ASSUME IInv, NEW S
  PROVE  \A i \in Interruptible(S) : i \in S /\ i \in 1 .. created /\ runs[i].status \in Underway
BY IsAt DEF Interruptible

(* A routine is switched off, and what it has queued is cancelled. *)
LEMMA PauseStep ==
  ASSUME IInv, NEW t \in Paused, Pause(t)
  PROVE  IInv'
<1> USE DEF Pause, definitions, provider, history, counters
<1> DEFINE S == {i \in 1 .. created : runs[i].routine = t /\ runs[i].status = "queued"}
<1>1. S \in SUBSET (1 .. created) /\ \A i \in S : runs[i].status = "queued"
  OBVIOUS
<1>2. Save(With(runs, S, "cancelled"))
  BY IdsWith
<1> HIDE DEF S
<1>3. /\ Listed(runs, created, starts, reports)' /\ Listed(file, created, starts, reports)'
      /\ Saved'
      /\ \A i \in 1 .. created :
           /\ runs'[i].routine = runs[i].routine
           /\ runs'[i].status = IF i \in S THEN "cancelled" ELSE runs[i].status
  BY <1>1, <1>2, Rewritten DEF Underway
<1>4. /\ UNCHANGED <<gone, tick, live, delegated, parked, stopping, visited, overdue,
                     starts, reports, lost, created, saveFailures>>
      /\ enabled' = enabled \ {t} /\ next' = [next EXCEPT ![t] = "ahead"]
      /\ t \in Routines
  BY RoutinesAssumption
<1> HIDE DEF Pause
<1>5. Types'
  BY <1>4 DEF IInv, Types
<1>6. Counted'
  <2>1. Due' \in SUBSET Due
    BY <1>4 DEF Due, IInv, Types
  <2> QED
    BY <1>4, <2>1, RoomStays DEF IInv, Counted
<1>7. Working'
  BY <1>3, <1>4 DEF IInv, Working, IsOkx
<1>8. \A i \in 1 .. created : IsOkx(i)' = IsOkx(i)
  BY <1>3 DEF IsOkx
<1>9. Owned'
  BY <1>1, <1>3, <1>4, <1>8 DEF IInv, Owned, Working, Underway, Terminal
<1> QED
  BY <1>3, <1>5, <1>6, <1>7, <1>9 DEF IInv

(* A run is cancelled and its provider interrupted. *)
LEMMA CancelRunStep ==
  ASSUME IInv, NEW id \in Ids, CancelRun(id)
  PROVE  IInv'
<1> USE DEF CancelRun, definitions, provider, history, counters
<1> DEFINE S == {id}
<1>1. id \in 1 .. created /\ runs[id].status \in Active /\ S \in SUBSET (1 .. created)
      /\ \A i \in S : runs[i].status \notin {"failed", "missed"}
  <2>1. id \in 1 .. created /\ runs[id].status \in Active
    BY IsAt
  <2> QED
    BY <2>1 DEF Active, Underway
<1>2. /\ Save(With(runs, S, "cancelled"))
      /\ UNCHANGED <<enabled, next, gone, tick, live, parked, visited, overdue,
                     starts, reports, lost, created, saveFailures>>
      /\ stopping' = stopping \cup Interruptible(S) /\ delegated' = delegated \ S
  OBVIOUS
<1>3. \A i \in Interruptible(S) : i \in S /\ i \in 1 .. created
  BY InterruptibleAt
<1> HIDE DEF S, CancelRun
<1>4. /\ Listed(runs, created, starts, reports)' /\ Listed(file, created, starts, reports)'
      /\ Saved'
      /\ \A i \in 1 .. created :
           /\ runs'[i].routine = runs[i].routine
           /\ runs'[i].status = IF i \in S THEN "cancelled" ELSE runs[i].status
  BY <1>1, <1>2, Rewritten DEF Underway
<1>5. Types'
  BY <1>2 DEF IInv, Types
<1>6. Counted'
  <2>1. Due' = Due
    BY <1>2 DEF Due
  <2> QED
    BY <1>2, <2>1 DEF IInv, Counted
<1>7. Working'
  BY <1>2, <1>3, <1>4 DEF IInv, Working, IsOkx
<1>8. \A i \in 1 .. created : IsOkx(i)' = IsOkx(i)
  BY <1>4 DEF IsOkx
<1>9. Owned'
  BY <1>1, <1>2, <1>3, <1>4, <1>8 DEF IInv, Owned, Working, Underway, Terminal
<1> QED
  BY <1>4, <1>5, <1>6, <1>7, <1>9 DEF IInv

(* A bot or a room is deleted, and all it had to do is cancelled. *)
LEMMA DeleteAgentStep ==
  ASSUME IInv, NEW a \in Deleted, DeleteAgent(a)
  PROVE  IInv'
<1> USE DEF DeleteAgent, definitions, provider, history, counters
<1> DEFINE S == {i \in 1 .. created : Agent[runs[i].routine] = a /\ runs[i].status \in Active}
<1>1. S \in SUBSET (1 .. created) /\ \A i \in S : runs[i].status \notin {"failed", "missed"}
  BY DEF Active, Underway
<1>2. /\ Save(With(runs, S, "cancelled"))
      /\ UNCHANGED <<tick, live, parked, overdue, starts, reports,
                     lost, created, saveFailures>>
      /\ stopping' = stopping \cup Interruptible(S) /\ delegated' = delegated \ S
      /\ visited' \subseteq visited /\ gone' = gone \cup {a}
      /\ enabled' \subseteq enabled
      /\ next' = [t \in Routines |-> IF Agent[t] = a THEN "ahead" ELSE next[t]]
  BY IdsWith
<1>3. \A i \in Interruptible(S) : i \in S /\ i \in 1 .. created
  BY InterruptibleAt
<1> HIDE DEF S, DeleteAgent
<1>4. /\ Listed(runs, created, starts, reports)' /\ Listed(file, created, starts, reports)'
      /\ Saved'
      /\ \A i \in 1 .. created :
           /\ runs'[i].routine = runs[i].routine
           /\ runs'[i].status = IF i \in S THEN "cancelled" ELSE runs[i].status
  BY <1>1, <1>2, Rewritten DEF Underway
<1>5. Types'
  BY <1>2, RoutinesAssumption DEF IInv, Types
<1>6. Counted'
  <2>1. Due' \in SUBSET Due
    BY <1>2 DEF Due, IInv, Types
  <2> QED
    BY <1>2, <2>1, RoomStays DEF IInv, Counted
<1>7. Working'
  BY <1>2, <1>3, <1>4 DEF IInv, Working, IsOkx
<1>8. \A i \in 1 .. created : IsOkx(i)' = IsOkx(i)
  BY <1>4 DEF IsOkx
<1>9. Owned'
  BY <1>1, <1>2, <1>3, <1>4, <1>8 DEF IInv, Owned, Working, Underway, Terminal
<1> QED
  BY <1>4, <1>5, <1>6, <1>7, <1>9 DEF IInv

(* A turn completes; a run that is over ignores it. *)
LEMMA TurnCompletesStep ==
  ASSUME IInv, NEW id \in Ids, TurnCompletes(id)
  PROVE  IInv'
<1> USE DEF TurnCompletes, definitions, provider, history, counters
<1> DEFINE S == Failing(id)
           over == IF id \in delegated THEN "waiting" ELSE "completed"
<1>1. /\ S \in SUBSET (1 .. created)
      /\ \A i \in S : i = id /\ runs[i].status \in Underway
      /\ \A i \in S : runs[i].status \notin {"failed", "missed"}
      /\ id \in 1 .. created /\ runs[id].status \in Underway => id \in S
  <2>1. /\ S \in SUBSET (1 .. created) /\ \A i \in S : i = id /\ runs[i].status \in Underway
        /\ id \in 1 .. created /\ runs[id].status \in Underway => S = {id}
    BY FailingAt
  <2> QED
    BY <2>1 DEF Underway
<1>2. /\ Save(With(runs, S, over))
      /\ UNCHANGED <<enabled, next, gone, tick, delegated, parked, stopping, visited, overdue,
                     starts, reports, lost, created, saveFailures>>
      /\ live' = live \ {id}
      /\ (over = "waiting" /\ id \in delegated) \/ over = "completed"
  OBVIOUS
<1> HIDE DEF S, over, TurnCompletes
<1>4. /\ Listed(runs, created, starts, reports)' /\ Listed(file, created, starts, reports)'
      /\ Saved'
      /\ \A i \in 1 .. created :
           /\ runs'[i].routine = runs[i].routine
           /\ runs'[i].status = IF i \in S THEN over ELSE runs[i].status
  <2>1. over \in {"running", "waiting", "completed", "cancelled"}
    BY <1>2
  <2> QED
    BY <1>1, <1>2, <2>1, Rewritten
<1>5. Types'
  BY <1>2 DEF IInv, Types
<1>6. Counted'
  <2>1. Due' = Due
    BY <1>2 DEF Due
  <2> QED
    BY <1>2, <2>1 DEF IInv, Counted
<1>7. Working'
  BY <1>2, <1>4 DEF IInv, Working, IsOkx
<1>8. \A i \in 1 .. created : IsOkx(i)' = IsOkx(i)
  BY <1>4 DEF IsOkx
<1>9. Owned'
  BY <1>1, <1>2, <1>4, <1>8 DEF IInv, Owned, Working, Underway, Terminal
<1> QED
  BY <1>4, <1>5, <1>6, <1>7, <1>9 DEF IInv

(* A provider asks its human, or goes on. *)
LEMMA ReportedStep ==
  ASSUME IInv, NEW id \in Ids, NEW status \in {"waiting", "running"}, Reported(id, status)
  PROVE  IInv'
<1> USE DEF Reported, definitions, provider, history, counters
<1> DEFINE S == {id}
<1>1. /\ id \in 1 .. created /\ runs[id].status \in Underway /\ S \in SUBSET (1 .. created)
      /\ \A i \in S : runs[i].status \in Underway /\ runs[i].status \notin {"failed", "missed"}
  <2>1. id \in 1 .. created /\ runs[id].status \in Underway
    BY IsAt
  <2> QED
    BY <2>1 DEF Underway
<1>2. /\ Save(With(runs, S, status))
      /\ UNCHANGED <<enabled, next, gone, tick, live, delegated, parked, stopping, visited,
                     overdue, starts, reports, lost, created, saveFailures>>
      /\ id \in live
  OBVIOUS
<1> HIDE DEF S, Reported
<1>4. /\ Listed(runs, created, starts, reports)' /\ Listed(file, created, starts, reports)'
      /\ Saved'
      /\ \A i \in 1 .. created :
           /\ runs'[i].routine = runs[i].routine
           /\ runs'[i].status = IF i \in S THEN status ELSE runs[i].status
  <2>1. status \in {"running", "waiting", "completed", "cancelled"}
    OBVIOUS
  <2> QED
    BY <1>1, <1>2, <2>1, Rewritten
<1>5. Types'
  BY <1>2 DEF IInv, Types
<1>6. Counted'
  <2>1. Due' = Due
    BY <1>2 DEF Due
  <2> QED
    BY <1>2, <2>1 DEF IInv, Counted
<1>7. Working'
  BY <1>2, <1>4 DEF IInv, Working, IsOkx
<1>8. \A i \in 1 .. created : IsOkx(i)' = IsOkx(i)
  BY <1>4 DEF IsOkx
<1>9. Owned'
  BY <1>1, <1>2, <1>4, <1>8 DEF IInv, Owned, Working, Underway, Terminal, S
<1> QED
  BY <1>4, <1>5, <1>6, <1>7, <1>9 DEF IInv


(* A room's goal ends: it is over, has failed, or asks the human. *)
LEMMA GoalEndsStep ==
  ASSUME IInv, NEW id \in Ids, GoalEnds(id)
  PROVE  IInv'
<1> DEFINE S == Failing(id)
<1>1. /\ S \in SUBSET (1 .. created)
      /\ \A i \in S : i = id /\ runs[i].status \in Underway
      /\ \A i \in S : runs[i].status \notin {"failed", "missed"}
      /\ id \in 1 .. created /\ runs[id].status \in Underway => id \in S
  <2>1. /\ S \in SUBSET (1 .. created) /\ \A i \in S : i = id /\ runs[i].status \in Underway
        /\ id \in 1 .. created /\ runs[id].status \in Underway => S = {id}
    BY FailingAt
  <2> QED
    BY <2>1 DEF Underway
<1>2. /\ UNCHANGED <<enabled, next, gone, tick, delegated, stopping, visited, overdue,
                     starts, lost, created, saveFailures>>
      /\ live' = live \ {id}
  BY DEF GoalEnds, definitions, provider, history, counters
<1>3. \E status \in {"completed", "cancelled", "waiting", "failed"} :
        IF status = "failed"
        THEN FailRuns(runs, S) /\ parked' = parked
        ELSE /\ Save(With(runs, S, status)) /\ reports' = reports
             /\ parked' = IF status = "waiting" THEN parked \cup S ELSE parked
  BY DEF GoalEnds
<1> HIDE DEF S
<1>4. PICK status \in {"completed", "cancelled", "waiting", "failed"} :
        IF status = "failed"
        THEN FailRuns(runs, S) /\ parked' = parked
        ELSE /\ Save(With(runs, S, status)) /\ reports' = reports
             /\ parked' = IF status = "waiting" THEN parked \cup S ELSE parked
  BY <1>3
<1>5. /\ Listed(runs, created, starts, reports)' /\ Listed(file, created, starts, reports)'
      /\ Saved'
      /\ reports' \in [Ids -> Nat] /\ \A i \in Ids : i > created => reports'[i] = reports[i]
      /\ \A i \in 1 .. created :
           /\ runs'[i].routine = runs[i].routine
           /\ runs'[i].status = IF i \in S THEN status ELSE runs[i].status
  <2>1. CASE status = "failed"
    BY <1>1, <1>2, <1>4, <2>1, Failed
  <2>2. CASE status # "failed"
    <3>1. status \in {"running", "waiting", "completed", "cancelled"}
      BY <2>2
    <3>2. Save(With(runs, S, status)) /\ UNCHANGED <<starts, reports, created>>
      BY <1>2, <1>4, <2>2
    <3>3. reports \in [Ids -> Nat]
      BY DEF IInv, Types
    <3> QED
      BY <1>1, <3>1, <3>2, <3>3, Rewritten
  <2> QED
    BY <2>1, <2>2
<1>6. parked' = IF status = "waiting" THEN parked \cup S ELSE parked
  BY <1>4
<1>7. Types'
  BY <1>2, <1>5 DEF IInv, Types
<1>8. Counted'
  <2>1. Due' = Due
    BY <1>2 DEF Due
  <2> QED
    BY <1>2, <1>5, <2>1 DEF IInv, Counted
<1>9. Working'
  BY <1>1, <1>2, <1>5, <1>6 DEF IInv, Working, IsOkx
<1>10. \A i \in 1 .. created : IsOkx(i)' = IsOkx(i)
  BY <1>5 DEF IsOkx
<1>11. \A i \in 1 .. created : runs'[i].status \in Underway /\ i = id => i \in parked'
  BY <1>1, <1>5, <1>6 DEF Underway
<1>12. id \in live
  BY DEF GoalEnds
<1>13. Owned'
  BY <1>1, <1>2, <1>5, <1>6, <1>10, <1>11, <1>12 DEF IInv, Owned, Working, Underway, Terminal
<1> QED
  BY <1>5, <1>7, <1>8, <1>9, <1>13 DEF IInv

(* A turn fails; the watchdog also asks its provider to stop. *)
LEMMA TurnFailsStep ==
  ASSUME IInv, NEW id \in Ids, TurnFails(id)
  PROVE  IInv'
<1> DEFINE S == Failing(id)
<1>1. /\ S \in SUBSET (1 .. created)
      /\ \A i \in S : i = id /\ runs[i].status \in Underway
      /\ \A i \in S : runs[i].status \notin {"failed", "missed"}
      /\ id \in 1 .. created /\ runs[id].status \in Underway => id \in S
  <2>1. /\ S \in SUBSET (1 .. created) /\ \A i \in S : i = id /\ runs[i].status \in Underway
        /\ id \in 1 .. created /\ runs[id].status \in Underway => S = {id}
    BY FailingAt
  <2> QED
    BY <2>1 DEF Underway
<1>2. /\ UNCHANGED <<enabled, next, gone, tick, parked, visited, overdue,
                     starts, lost, created, saveFailures>>
      /\ FailRuns(runs, S)
      /\ delegated' = delegated \ {id}
      /\ live' \subseteq live /\ \A i \in live : i # id => i \in live'
      /\ stopping' \subseteq stopping \cup {id}
      /\ id \in live
  BY DEF TurnFails, definitions, provider, history, counters
<1> HIDE DEF S
<1>3. /\ Listed(runs, created, starts, reports)' /\ Listed(file, created, starts, reports)'
      /\ Saved'
      /\ reports' \in [Ids -> Nat] /\ \A i \in Ids : i > created => reports'[i] = reports[i]
      /\ \A i \in 1 .. created :
           /\ runs'[i].routine = runs[i].routine
           /\ runs'[i].status = IF i \in S THEN "failed" ELSE runs[i].status
  BY <1>1, <1>2, Failed
<1>4. Types'
  BY <1>2, <1>3 DEF IInv, Types
<1>5. Counted'
  <2>1. Due' = Due
    BY <1>2 DEF Due
  <2> QED
    BY <1>2, <1>3, <2>1 DEF IInv, Counted
<1>6. id \in 1 .. created /\ ~IsOkx(id)
  BY <1>2 DEF IInv, Working
<1>7. Working'
  BY <1>2, <1>3, <1>6 DEF IInv, Working, IsOkx
<1>8. \A i \in 1 .. created : IsOkx(i)' = IsOkx(i)
  BY <1>3 DEF IsOkx
<1>9. runs'[id].status \notin Underway
  BY <1>1, <1>3, <1>6 DEF Underway
<1>10. runs'[id].status \in Terminal
  <2>1. runs[id] \in Record /\ runs[id].status # "queued"
    BY <1>2, <1>6, ListedRuns DEF IInv, Working
  <2> QED
    BY <1>1, <1>3, <1>6, <2>1 DEF Record, Active, Underway, Terminal
<1>11. Owned'
  BY <1>1, <1>2, <1>3, <1>6, <1>8, <1>9, <1>10 DEF IInv, Owned, Working, Underway, Terminal
<1> QED
  BY <1>3, <1>4, <1>5, <1>7, <1>11 DEF IInv

(* The answer to delegated work wakes nobody, and the run fails. *)
LEMMA DelegationWakeFailsStep ==
  ASSUME IInv, NEW id \in Ids, DelegationWakeFails(id)
  PROVE  IInv'
<1> DEFINE S == Failing(id)
<1>1. /\ S \in SUBSET (1 .. created)
      /\ \A i \in S : i = id /\ runs[i].status \in Underway
      /\ \A i \in S : runs[i].status \notin {"failed", "missed"}
      /\ id \in 1 .. created /\ runs[id].status \in Underway => id \in S
  <2>1. /\ S \in SUBSET (1 .. created) /\ \A i \in S : i = id /\ runs[i].status \in Underway
        /\ id \in 1 .. created /\ runs[id].status \in Underway => S = {id}
    BY FailingAt
  <2> QED
    BY <2>1 DEF Underway
<1>2. /\ UNCHANGED <<enabled, next, gone, tick, live, parked, stopping, visited, overdue,
                     starts, lost, created, saveFailures>>
      /\ FailRuns(runs, S)
      /\ delegated' = delegated \ {id}
      /\ id \in delegated
  BY DEF DelegationWakeFails, definitions, provider, history, counters
<1> HIDE DEF S
<1>3. /\ Listed(runs, created, starts, reports)' /\ Listed(file, created, starts, reports)'
      /\ Saved'
      /\ reports' \in [Ids -> Nat] /\ \A i \in Ids : i > created => reports'[i] = reports[i]
      /\ \A i \in 1 .. created :
           /\ runs'[i].routine = runs[i].routine
           /\ runs'[i].status = IF i \in S THEN "failed" ELSE runs[i].status
  BY <1>1, <1>2, Failed
<1>4. Types'
  BY <1>2, <1>3 DEF IInv, Types
<1>5. Counted'
  <2>1. Due' = Due
    BY <1>2 DEF Due
  <2> QED
    BY <1>2, <1>3, <2>1 DEF IInv, Counted
<1>6. id \in 1 .. created /\ ~IsOkx(id)
  BY <1>2 DEF IInv, Working
<1>7. Working'
  BY <1>2, <1>3, <1>6 DEF IInv, Working, IsOkx
<1>8. \A i \in 1 .. created : IsOkx(i)' = IsOkx(i)
  BY <1>3 DEF IsOkx
<1>9. runs'[id].status \notin Underway
  BY <1>1, <1>3, <1>6 DEF Underway
<1>10. Owned'
  BY <1>1, <1>2, <1>3, <1>6, <1>8, <1>9 DEF IInv, Owned, Working, Underway, Terminal
<1> QED
  BY <1>3, <1>4, <1>5, <1>7, <1>10 DEF IInv

(* The save of a change of a run throws: the books are those of what is in *)
(* memory, and the file is as before.                                      *)
LEMMA UnsavedBooks ==
  ASSUME IInv, NEW id \in 1 .. created,
         NEW status \in {"running", "waiting", "completed", "failed", "cancelled"},
         status \in Underway => runs[id].status \in Underway,
         Unsaved(id, status)
  PROVE  /\ Listed(runs, created, starts, reports)' /\ Listed(file, created, starts, reports)'
         /\ Types' /\ Counted' /\ Saved' /\ ~AllSaved
         /\ UNCHANGED <<tick, overdue, lost, created>>
         /\ \A i \in 1 .. created :
              /\ runs'[i].routine = runs[i].routine
              /\ runs'[i].status = IF i = id THEN status ELSE runs[i].status
<1> DEFINE S == {id}
<1>1. /\ UNCHANGED <<file, enabled, next, gone, tick, visited, overdue,
                     starts, reports, lost, created>>
      /\ runs' = With(runs, S, status)
      /\ saveFailures < MaxSaveFailures /\ saveFailures' = saveFailures + 1
  BY DEF Unsaved, definitions, history
<1>2. \A i : i \in S <=> i = id
  OBVIOUS
<1> HIDE DEF S
<1>3. saveFailures \in Nat /\ ~AllSaved
  BY <1>1, RoutinesAssumption DEF IInv, Types, AllSaved
<1>4. status \in Statuses /\ status \in Statuses \ {"queued"}
  BY DEF Statuses, Active, Underway, Terminal
<1>5. Listed(runs, created, starts, reports)
  BY DEF IInv
<1>6. Listed(With(runs, S, status), created, starts, reports)
  BY <1>2, <1>3, <1>4, <1>5, ListedWith
<1>7. \A i \in 1 .. created :
        /\ With(runs, S, status)[i].routine = runs[i].routine
        /\ With(runs, S, status)[i].status = IF i \in S THEN status ELSE runs[i].status
  BY <1>4, <1>5, WithRuns
<1>8. Types' /\ Counted' /\ Saved'
  <2>1. Due' = Due
    BY <1>1 DEF Due
  <2> QED
    BY <1>1, <1>3, <2>1 DEF IInv, Types, Counted, Saved
<1>9. Listed(file, created, starts, reports)'
  BY <1>1 DEF IInv
<1> QED
  BY <1>1, <1>2, <1>3, <1>6, <1>7, <1>8, <1>9

(* A run is cancelled in memory only. *)
LEMMA CancelRunThrowsStep ==
  ASSUME IInv, NEW id \in Ids, CancelRunThrows(id)
  PROVE  IInv'
<1>1. id \in 1 .. created /\ Unsaved(id, "cancelled") /\ UNCHANGED provider
  BY IsAt DEF CancelRunThrows
<1> USE DEF provider
<1>2. "cancelled" \notin Underway /\ "cancelled" \in Terminal
  BY DEF Underway, Terminal
<1>3. /\ Listed(runs, created, starts, reports)' /\ Listed(file, created, starts, reports)'
      /\ Types' /\ Counted' /\ Saved' /\ ~AllSaved
      /\ UNCHANGED <<tick, overdue, lost, created>>
      /\ \A i \in 1 .. created :
           /\ runs'[i].routine = runs[i].routine
           /\ runs'[i].status = IF i = id THEN "cancelled" ELSE runs[i].status
  BY <1>1, <1>2, UnsavedBooks
<1>4. Working'
  BY <1>1, <1>3 DEF IInv, Working, IsOkx
<1>5. \A i \in 1 .. created : IsOkx(i)' = IsOkx(i)
  BY <1>3 DEF IsOkx
<1>6. Owned'
  BY <1>1, <1>2, <1>3, <1>5 DEF IInv, Owned, Working
<1> QED
  BY <1>3, <1>4, <1>6 DEF IInv

(* A report changes a run in memory only: what is under way after it still *)
(* has its provider, or waits for the human.                               *)
LEMMA ReportUnsavedStep ==
  ASSUME IInv, NEW id \in Ids, ReportUnsaved(id)
  PROVE  IInv'
<1>1. PICK status \in {"running", "waiting", "completed", "failed", "cancelled"} :
        /\ Unsaved(id, status)
        /\ id \in live \cup delegated \/ (tick.pc = "starting" /\ tick.run = id)
        /\ status \in Underway => Is(id, Underway) /\ id \in live
        /\ parked \subseteq parked' /\ parked' \subseteq parked \cup {id}
        /\ delegated' \subseteq delegated /\ \A i \in delegated : i # id => i \in delegated'
        /\ live' \subseteq live /\ \A i \in live : i # id => i \in live'
        /\ stopping \subseteq stopping' /\ stopping' \subseteq stopping \cup {id}
        /\ status \in Underway => id \in live' \cup parked'
        /\ id \in stopping' => id \in stopping \/ status = "failed"
        /\ status \in Underway => stopping' = stopping
  <2>1. CASE TurnUnsaved(id)
    BY <2>1 DEF TurnUnsaved, Underway
  <2>2. CASE WakeFailureUnsaved(id)
    BY <2>2 DEF WakeFailureUnsaved, Underway
  <2>3. CASE GoalUnsaved(id)
    BY <2>3 DEF GoalUnsaved, Underway
  <2>4. CASE OkxUnsaved(id)
    BY <2>4 DEF OkxUnsaved, Underway, provider
  <2> QED
    BY <2>1, <2>2, <2>3, <2>4 DEF ReportUnsaved
<1>2. id \in 1 .. created /\ (Is(id, Underway) => runs[id].status \in Underway)
  BY <1>1, IsAt DEF IInv, Working
<1>3. /\ Listed(runs, created, starts, reports)' /\ Listed(file, created, starts, reports)'
      /\ Types' /\ Counted' /\ Saved' /\ ~AllSaved
      /\ UNCHANGED <<tick, overdue, lost, created>>
      /\ \A i \in 1 .. created :
           /\ runs'[i].routine = runs[i].routine
           /\ runs'[i].status = IF i = id THEN status ELSE runs[i].status
  BY <1>1, <1>2, UnsavedBooks
<1>4. status # "queued"
  OBVIOUS
<1>5. \A i \in 1 .. created : IsOkx(i)' = IsOkx(i)
  BY <1>3 DEF IsOkx
<1>6. Working'
  <2>1. live' \cup delegated' \cup parked' \cup stopping' \cup overdue' \cup lost'
          \subseteq 1 .. created'
    BY <1>1, <1>2, <1>3 DEF IInv, Working
  <2> QED
    BY <1>1, <1>3, <1>4, <1>5, <2>1 DEF IInv, Working
<1>7. Owned'
  <2>1. status \notin Underway => status \in Terminal
    BY DEF Underway, Terminal
  <2>2. ASSUME NoCopies, NEW i \in stopping'
        PROVE  runs'[i].status \in Terminal
    <3>1. CASE i = id
      <4>1. id \in stopping => runs[id].status \in Terminal
        BY <2>2 DEF IInv, Owned
      <4>2. runs[id].status \in Terminal => runs[id].status \notin Underway
        BY DEF Underway, Terminal
      <4> QED
        BY <1>1, <1>2, <1>3, <2>1, <2>2, <3>1, <4>1, <4>2
    <3>2. CASE i # id
      BY <1>1, <1>3, <2>2, <3>2 DEF IInv, Owned, Working
    <3> QED
      BY <3>1, <3>2
  <2>3. ASSUME NoCopies, NEW i \in 1 .. created, runs'[i].status \in Underway
        PROVE  \/ i \in live' \cup delegated' \cup parked' \cup lost'
               \/ tick'.pc = "starting" /\ tick'.run = i /\ IsOkx(i)'
    <3>1. CASE i = id
      BY <1>1, <1>3, <2>3, <3>1
    <3>2. CASE i # id
      BY <1>1, <1>3, <1>5, <2>3, <3>2 DEF IInv, Owned
    <3> QED
      BY <3>1, <3>2
  <2> QED
    BY <1>3, <2>2, <2>3 DEF IInv, Owned
<1> QED
  BY <1>3, <1>6, <1>7 DEF IInv

(* The operator asks for a run. *)
LEMMA RunNowStep ==
  ASSUME IInv, NEW t \in Routines, RunNow(t)
  PROVE  IInv'
<1> DEFINE r == NewRun(created + 1, t, TRUE, "queued")
           new == <<r>>
<1>1. /\ UNCHANGED <<enabled, next, gone, tick, provider, visited, overdue,
                     starts, reports, lost, saveFailures>>
      /\ runs' = Append(runs, r) /\ file' = runs' /\ created' = created + 1
      /\ HasRoom
  <2>1. Save(Append(runs, r))
    BY DEF RunNow
  <2> HIDE DEF r
  <2>2. runs \in Seq(Record) /\ Len(runs) \in Nat
    BY DEF IInv, Listed
  <2>3. Append(runs, r) # runs
    BY <2>2
  <2>4. runs' = Append(runs, r) /\ file' = runs'
    BY <2>1, <2>3 DEF Save
  <2> QED
    BY <2>4 DEF RunNow, definitions, history
<1> USE DEF provider
<1>2. created \in Nat /\ created < MaxRuns /\ created + 1 \in Ids /\ Cardinality(Due) \in Nat
  <2>1. Cardinality(Due) \in Nat
    BY DueFinite
  <2> QED
    BY <1>1, <2>1, RoutinesAssumption DEF IInv, Types, HasRoom, Ids
<1>3. /\ r \in Record /\ r.id = created + 1 /\ r.manual = TRUE /\ r.status = "queued"
      /\ r.routine = t
  BY <1>2 DEF NewRun, Record, Active
<1> HIDE DEF r
<1>4. new \in Seq(Record) /\ Len(new) = 1 /\ new[1] = r
  BY <1>3
<1>5. runs' = runs \o new
  <2>1. runs \in Seq(Record)
    BY DEF IInv, Listed
  <2> QED
    BY <1>1, <1>3, <2>1, AppendIsConcat
<1>6. Listed(runs \o new, created + Len(new), starts, Count(reports, {}))
  <2>1. Listed(runs, created, starts, reports) /\ reports \in [Ids -> Nat]
    BY DEF IInv, Types
  <2>2. \A i \in Ids : i > created => starts[i] = 0 /\ reports[i] = 0
    BY DEF IInv, Counted
  <2>3. \A j \in 1 .. Len(new) :
           /\ new[j].id = created + j /\ new[j].status \in {"queued", "missed"}
           /\ created + j \in {} <=> new[j].status = "missed"
    BY <1>3, <1>4
  <2>4. \A s \in Recurring : \A j \in 1 .. Len(new) : ~Scheduled(new[j], s)
    BY <1>3, <1>4 DEF Scheduled
  <2> DEFINE none == {}
  <2>5. \A i \in none : i > created
    OBVIOUS
  <2>6. created + Len(new) <= MaxRuns
    BY <1>2, <1>4, RoutinesAssumption
  <2> HIDE DEF none, new
  <2>7. Listed(runs \o new, created + Len(new), starts, Count(reports, none))
    BY <1>4, <2>1, <2>2, <2>3, <2>4, <2>5, <2>6, ListedAppended DEF none
  <2> QED
    BY <2>7 DEF none
<1>7. Count(reports, {}) = reports
  BY DEF Count, IInv, Types
<1>8. Listed(runs, created, starts, reports)' /\ Listed(file, created, starts, reports)'
  BY <1>1, <1>4, <1>5, <1>6, <1>7
<1>9. \A i \in 1 .. created : runs'[i] = runs[i]
  <2>1. runs \in Seq(Record) /\ Len(runs) = created
    BY DEF IInv, Listed
  <2> QED
    BY <1>1, <1>3, <2>1, AppendProperties
<1>10. runs'[created + 1] = r /\ \A i \in 1 .. created + 1 : i \in 1 .. created \/ i = created + 1
  <2>1. runs \in Seq(Record) /\ Len(runs) = created
    BY DEF IInv, Listed
  <2> QED
    BY <1>1, <1>2, <1>3, <2>1, AppendProperties
<1>11. Types'
  BY <1>1, <1>2 DEF IInv, Types
<1>12. Counted'
  <2>1. Due' = Due
    BY <1>1 DEF Due
  <2>2. created + 1 + Cardinality(Due) <= MaxRuns
    BY <1>1, <1>2, RoutinesAssumption DEF HasRoom
  <2> QED
    BY <1>1, <1>2, <2>1, <2>2 DEF IInv, Counted, Ids
<1>13. Working'
  <2>1. 1 .. created \subseteq 1 .. created + 1
    BY <1>2
  <2> QED
    BY <1>1, <1>9, <2>1 DEF IInv, Working, IsOkx
<1>14. Owned'
  <2>1. \A i \in 1 .. created : IsOkx(i)' = IsOkx(i)
    BY <1>9 DEF IsOkx
  <2>2. runs'[created + 1].status \notin Underway
    BY <1>3, <1>10 DEF Underway
  <2> QED
    BY <1>1, <1>9, <1>10, <2>1, <2>2 DEF IInv, Owned, Working
<1> QED
  BY <1>1, <1>8, <1>11, <1>12, <1>13, <1>14 DEF IInv, Saved

(* The server restarts from the file. *)
LEMMA RestartStep ==
  ASSUME IInv, Restart
  PROVE  IInv'
<1> DEFINE S == {i \in 1 .. created : file[i].status \in Underway}
<1>1. Listed(file, created, starts, reports) /\ reports \in [Ids -> Nat]
      /\ created \in Nat /\ created <= MaxRuns
  <2>1. Cardinality(Due) \in Nat
    BY DueFinite
  <2> QED
    BY <2>1, RoutinesAssumption DEF IInv, Types, Counted
<1>2. {r.id : r \in {r \in Range(file) : r.status \in Underway}} = S
  BY <1>1, ListedRuns
<1>3. /\ UNCHANGED <<enabled, next, gone, starts, lost, created, saveFailures>>
      /\ runs' = With(file, S, "failed") /\ file' = runs' /\ reports' = Count(reports, S)
      /\ tick' = Idle
      /\ live' = {} /\ delegated' = {} /\ parked' = {} /\ stopping' = {} /\ overdue' = {}
      /\ visited' = {}
  BY <1>2 DEF Restart, definitions
<1>4. S \in SUBSET (1 .. created) /\ \A i \in S : file[i].status \notin {"failed", "missed"}
  BY DEF Underway
<1>5. \A i \in 1 .. created : file[i].status \in Underway => i \in S
  OBVIOUS
<1> HIDE DEF S
<1>6. Listed(With(file, S, "failed"), created, starts, Count(reports, S))
  BY <1>1, <1>4, ListedFailed
<1>7. Listed(runs, created, starts, reports)' /\ Listed(file, created, starts, reports)'
  BY <1>3, <1>6
<1>8. \A i \in 1 .. created :
        With(file, S, "failed")[i].status = IF i \in S THEN "failed" ELSE file[i].status
  <2>1. "failed" \in Statuses
    BY DEF Statuses, Terminal
  <2> QED
    BY <1>1, <2>1, WithRuns
<1>9. \A i \in Ids : i > created => i \notin S
  BY <1>1, <1>4 DEF Ids
<1>10. Types'
  <2>1. reports' \in [Ids -> Nat] /\ tick' \in Tick
    BY <1>1, <1>3, CountType, TickTypes
  <2> QED
    BY <1>3, <2>1 DEF IInv, Types
<1>11. Counted'
  <2>1. Due' = Due
    BY <1>3 DEF Due
  <2>2. \A i \in Ids : i > created => reports'[i] = reports[i]
    BY <1>1, <1>3, <1>9, CountType
  <2> QED
    BY <1>3, <2>1, <2>2 DEF IInv, Counted
<1>12. Working' /\ Owned'
  <2>1. /\ tick'.pc = "idle" /\ tick'.copy = NoCopy /\ tick'.late = {}
        /\ \A i \in 1 .. Len(tick'.copy) : tick'.copy[i].id \in 1 .. created'
    BY <1>3 DEF Idle, NoCopy
  <2>2. \A i \in 1 .. created : runs'[i].status \notin Underway
    BY <1>3, <1>5, <1>8 DEF Underway
  <2>3. lost' = lost /\ lost \subseteq 1 .. created
    BY DEF Restart, IInv, Working
  <2> QED
    BY <1>3, <2>1, <2>2, <2>3 DEF Working, Owned
<1> QED
  BY <1>3, <1>7, <1>10, <1>11, <1>12 DEF IInv, Saved


-----------------------------------------------------------------------------
(* The steps of tick. *)

(* What a dispatch makes of the runs rs: those the state holds, with what  *)
(* this segment of the tick has made of them before.  What is left under   *)
(* way has an owner of its own, and what is to stop is over.               *)
LEMMA DispatchStep ==
  ASSUME IInv,
         NEW rs, NEW n \in Nat, n <= MaxRuns, NEW todo \in Seq(Ids), created <= n,
         NEW failed \in SUBSET (1 .. n), NEW missed \in SUBSET (1 .. n),
         NEW kept \in SUBSET live,
         Listed(rs, n, starts, Count(reports, missed)),
         \A i \in failed : rs[i].status \in Underway,
         \A i \in missed : rs[i].status = "missed",
         Dispatch(rs, todo, failed, missed), Claim(kept),
         created' = n, created' + Cardinality(Due)' <= MaxRuns,
         enabled' \subseteq Routines, next' \in [Routines -> {"ahead", "due", "stale"}],
         UNCHANGED <<gone, parked, stopping, overdue, visited, lost, saveFailures>>,
         delegated' \subseteq delegated,
         \A i \in 1 .. created : rs[i].routine = runs[i].routine,
         \A i \in 1 .. created : rs[i].status = "queued" => runs[i].status = "queued",
         NoCopies => \A i \in stopping : rs[i].status \in Terminal,
         NoCopies => \A i \in 1 .. n : rs[i].status \in Underway /\ i \notin failed =>
                       i \in kept \cup delegated' \cup parked \cup lost
  PROVE  IInv'
<1>1. /\ starts \in [Ids -> Nat] /\ reports \in [Ids -> Nat] /\ \A i \in Ids : starts[i] <= 1
      /\ created \in Nat
  BY DEF IInv, Types, Counted
<1>2. /\ FileFollows /\ Listed(runs', n, starts', reports')
      /\ starts' \in [Ids -> Nat] /\ reports' \in [Ids -> Nat]
      /\ \A i \in Ids : starts'[i] <= 1
      /\ \A i \in Ids : i > n => starts'[i] = starts[i] /\ reports'[i] = reports[i]
      /\ tick' \in Tick /\ tick'.pc # "stopping" /\ tick'.copy = NoCopy /\ tick'.late = {}
      /\ \A i \in 1 .. n :
           /\ runs'[i].routine = rs[i].routine
           /\ i \in failed => runs'[i].status = "failed"
           /\ i \notin failed /\ rs[i].status # "queued" => runs'[i] = rs[i]
           /\ runs'[i].status \in Underway /\ rs[i].status = "queued" =>
                tick'.pc = "starting" /\ tick'.run = i
      /\ tick'.pc = "starting" => tick'.run \in 1 .. n /\ runs'[tick'.run].status = "running"
  BY <1>1, Dispatched
<1>3. tick'.pc = "starting" => Found(runs', tick'.run) = runs'[tick'.run]
  BY <1>2, ListedRuns
<1>4. /\ kept \subseteq live'
      /\ \A i \in live' : i \in kept \/ (tick'.pc = "starting" /\ tick'.run = i /\ ~IsOkx(i)')
      /\ tick'.pc = "starting" /\ ~IsOkx(tick.run)' => tick'.run \in live'
  BY <1>3 DEF Claim, IsOkx
<1>5. Listed(runs, created, starts, reports)' /\ Listed(file, created, starts, reports)' /\ Saved'
  BY <1>2, FileStays
<1>6. Types'
  BY <1>1, <1>2 DEF IInv, Types
<1>7. Counted'
  <2>1. \A i \in Ids : i > n => starts[i] = 0 /\ reports[i] = 0
    BY <1>1 DEF IInv, Counted, Ids
  <2> QED
    BY <1>2, <2>1 DEF Counted
<1>8. \A i \in 1 .. created : i \in 1 .. n /\ IsOkx(i)' = IsOkx(i)
  <2>1. \A i \in 1 .. created : i \in 1 .. n
    BY <1>1
  <2>2. \A i \in 1 .. created : runs'[i].routine = runs[i].routine
    BY <1>2, <2>1
  <2> QED
    BY <2>1, <2>2 DEF IsOkx
<1>9. Working'
  <2>1. live \cup delegated \cup parked \cup stopping \cup overdue \cup lost \subseteq 1 .. created
    BY DEF IInv, Working
  <2>2. live' \cup delegated' \cup parked' \cup stopping' \cup overdue' \cup lost'
          \subseteq 1 .. created'
    BY <1>2, <1>4, <1>8, <2>1
  <2>3. \A i \in live' \cup delegated' : ~IsOkx(i)'
    BY <1>4, <1>8, <2>1 DEF IInv, Working
  <2>4. ASSUME NEW i \in live'
        PROVE  runs'[i].status # "queued"
    <3>1. CASE i \in kept
      <4>1. i \in 1 .. created /\ i \in 1 .. n /\ rs[i].status # "queued"
        BY <1>8, <2>1, <3>1 DEF IInv, Working
      <4> QED
        BY <1>2, <4>1
    <3>2. CASE i \notin kept
      BY <1>2, <1>4, <3>2
    <3> QED
      BY <3>1, <3>2
  <2>5. \A i \in 1 .. Len(tick'.copy) : tick'.copy[i].id \in 1 .. created'
    BY <1>2 DEF NoCopy
  <2> QED
    BY <1>2, <2>2, <2>3, <2>4, <2>5 DEF Working
<1>10. ASSUME NoCopies
       PROVE  /\ \A i \in stopping' : runs'[i].status \in Terminal
              /\ \A i \in 1 .. created' : runs'[i].status \in Underway =>
                   \/ i \in live' \cup delegated' \cup parked' \cup lost'
                   \/ tick'.pc = "starting" /\ tick'.run = i /\ IsOkx(i)'
              /\ tick'.pc = "starting" /\ IsOkx(tick.run)' =>
                   runs'[tick'.run].status \notin {"failed", "missed"}
  <2>1. ASSUME NEW i \in stopping'
        PROVE  runs'[i].status \in Terminal
    <3>1. i \in 1 .. created /\ i \in 1 .. n /\ rs[i].status \in Terminal
      BY <1>8, <1>10 DEF IInv, Working
    <3>2. i \notin failed /\ rs[i].status # "queued"
      BY <3>1 DEF Terminal, Underway
    <3> QED
      BY <1>2, <3>1, <3>2
  <2>2. ASSUME NEW i \in 1 .. n, runs'[i].status \in Underway
        PROVE  \/ i \in live' \cup delegated' \cup parked' \cup lost'
               \/ tick'.pc = "starting" /\ tick'.run = i /\ IsOkx(i)'
    <3>1. CASE rs[i].status = "queued"
      BY <1>2, <1>4, <2>2, <3>1
    <3>2. CASE rs[i].status # "queued"
      <4>1. i \notin failed
        BY <1>2, <2>2 DEF Underway
      <4>2. runs'[i] = rs[i]
        BY <1>2, <3>2, <4>1
      <4> QED
        BY <1>4, <1>10, <2>2, <4>1, <4>2
    <3> QED
      BY <3>1, <3>2
  <2> QED
    BY <1>2, <2>1, <2>2
<1>11. NoCopies /\ Limited = {} => overdue' = {}
  BY <1>2 DEF IInv, Owned
<1>12. Owned'
  BY <1>2, <1>10, <1>11 DEF Owned
<1> QED
  BY <1>5, <1>6, <1>7, <1>9, <1>12 DEF IInv


(* The pass under way, or a new one. *)
LEMMA PassType ==
  ASSUME IInv, Scanning
  PROVE  /\ Pass \in Tick /\ Pass.due \subseteq Routines /\ tick.pc # "starting"
         /\ \A i \in 1 .. Len(Pass.copy) : Pass.copy[i].id \in 1 .. created
         /\ NoCopies => Pass.copy = NoCopy /\ (Limited = {} => Pass.late = {})
<1>1. tick \in Tick /\ tick.pc # "starting" /\ Due \subseteq Routines /\ overdue \subseteq 1 .. created
  BY DueFinite DEF IInv, Types, Working, Scanning
<1>2. 1 .. created \subseteq Ids
  <2>1. Cardinality(Due) \in Nat
    BY DueFinite
  <2> QED
    BY <2>1, RoutinesAssumption DEF IInv, Types, Counted, Ids
<1>3. CASE tick.pc = "idle"
  <2>1. Pass = [Idle EXCEPT !.late = overdue, !.due = Due]
    BY <1>3 DEF Pass
  <2>2. Pass \in Tick /\ Pass.copy = Idle.copy /\ Pass.late = overdue /\ Pass.due = Due
    BY <1>1, <1>2, <2>1, TickTypes DEF Tick
  <2>3. Idle.copy = NoCopy /\ Len(NoCopy) = 0
    BY DEF Idle, NoCopy
  <2> QED
    BY <1>1, <2>2, <2>3 DEF IInv, Owned
<1>4. CASE tick.pc # "idle"
  <2>1. Pass = tick
    BY <1>4 DEF Pass
  <2> QED
    BY <1>1, <2>1 DEF IInv, Working, Owned, Tick
<1> QED
  BY <1>3, <1>4

(* With changes no number, whatever the list. *)
LEMMA WithType ==
  ASSUME NEW rs \in Seq(Record), NEW S, NEW status \in Statuses
  PROVE  /\ With(rs, S, status) \in Seq(Record) /\ Len(With(rs, S, status)) = Len(rs)
         /\ \A i \in 1 .. Len(rs) : With(rs, S, status)[i].id = rs[i].id
<1> DEFINE n == Len(rs)
           ws == With(rs, S, status)
<1>1. n \in Nat /\ DOMAIN rs = 1 .. n /\ \A i \in 1 .. n : rs[i] \in Record
  OBVIOUS
<1>2. ws = [i \in 1 .. n |-> IF rs[i].id \in S THEN [rs[i] EXCEPT !.status = status] ELSE rs[i]]
  BY <1>1 DEF With
<1> HIDE DEF ws, n
<1>3. \A i \in 1 .. n : ws[i] \in Record /\ ws[i].id = rs[i].id
  BY <1>1, <1>2 DEF Record, Statuses
<1>4. ws \in Seq(Record) /\ Len(ws) = n
  BY <1>1, <1>2, <1>3, IsASeq
<1> QED
  BY <1>3, <1>4 DEF ws, n

(* A run past its limit fails, or the copy of it that the scan walks. *)
LEMMA TickTimesOutStep ==
  ASSUME IInv, TickTimesOut
  PROVE  IInv'
<1> DEFINE i == Min(TimedOut)
           id == Walked[i].id
           S == {id}
           copied == IF Pass.copy = NoCopy THEN NoCopy ELSE With(Pass.copy, S, "failed")
<1>1. /\ Pass \in Tick /\ tick.pc # "starting"
      /\ \A j \in 1 .. Len(Pass.copy) : Pass.copy[j].id \in 1 .. created
      /\ NoCopies => Pass.copy = NoCopy /\ (Limited = {} => Pass.late = {})
  BY PassType DEF TickTimesOut
<1>2. /\ IF Pass.copy = NoCopy THEN Save(With(runs, S, "failed")) ELSE Save(runs)
      /\ tick' = [Pass EXCEPT !.pc = "stopping", !.at = i + 1, !.run = id, !.copy = copied]
      /\ reports' = Count(reports, S)
      /\ stopping' = stopping \cup S /\ delegated' = delegated \ S
      /\ UNCHANGED <<enabled, next, gone, live, parked, overdue, visited, starts,
                     lost, created, saveFailures>>
  <2>1. Pass.copy = IF Pass.copy = NoCopy THEN Pass.copy ELSE Pass.copy
    OBVIOUS
  <2>2. tick' = [Pass EXCEPT !.pc = "stopping", !.at = i + 1, !.run = id,
                   !.copy = IF @ = NoCopy THEN NoCopy ELSE With(@, S, "failed")]
    BY DEF TickTimesOut
  <2> QED
    BY <1>1, <2>2 DEF TickTimesOut, definitions, counters, Tick
<1>3. /\ Walked \in Seq(Record)
      /\ \A j \in 1 .. Len(Walked) : Walked[j].id \in 1 .. created
      /\ Pass.copy = NoCopy => Walked = runs
  <2>1. runs \in Seq(Record) /\ \A j \in 1 .. Len(runs) : runs[j].id \in 1 .. created
    BY DEF IInv, Listed
  <2> QED
    BY <1>1, <2>1 DEF Walked, Tick
<1>4. i \in TimedOut
  <2>1. Pass.at \in Nat /\ Len(Walked) \in Nat
    BY <1>1, <1>3 DEF Tick
  <2>2. TimedOut \in SUBSET (0 .. Len(Walked)) /\ TimedOut # {}
    BY <2>1 DEF TimedOut, TickTimesOut
  <2> QED
    BY <2>1, <2>2, MinIsIn
<1>5. /\ Walked[i].status \in Underway /\ id \in Pass.late
      /\ i \in 1 .. Len(Walked) /\ i + 1 \in Nat \ {0}
  <2>1. Pass.at \in Nat \ {0} /\ Len(Walked) \in Nat
    BY <1>1, <1>3 DEF Tick
  <2>2. i \in Pass.at .. Len(Walked) /\ Walked[i].status \in Underway /\ id \in Pass.late
    BY <1>4 DEF TimedOut
  <2> QED
    BY <2>1, <2>2
<1>6. id \in 1 .. created /\ id \in Ids
  <2>1. Cardinality(Due) \in Nat
    BY DueFinite
  <2> QED
    BY <1>3, <1>5, <2>1, RoutinesAssumption DEF IInv, Types, Counted, Ids
<1> HIDE DEF i
<1>7. copied \in Seq(Record) /\ \A j \in 1 .. Len(copied) : copied[j].id \in 1 .. created
  <2>1. CASE Pass.copy = NoCopy
    BY <2>1 DEF NoCopy
  <2>2. CASE Pass.copy # NoCopy
    <3>1. Pass.copy \in Seq(Record)
      BY <1>1 DEF Tick
    <3>2. "failed" \in Statuses
      BY DEF Statuses, Terminal
    <3>3. /\ With(Pass.copy, S, "failed") \in Seq(Record)
          /\ Len(With(Pass.copy, S, "failed")) = Len(Pass.copy)
          /\ \A j \in 1 .. Len(Pass.copy) : With(Pass.copy, S, "failed")[j].id = Pass.copy[j].id
      BY <3>1, <3>2, WithType
    <3> QED
      BY <1>1, <2>2, <3>3
  <2> QED
    BY <2>1, <2>2
<1>8. NoCopies => copied = NoCopy
  BY <1>1
<1> HIDE DEF copied
<1>9. /\ tick' \in Tick /\ tick'.pc = "stopping" /\ tick'.copy = copied /\ tick'.late = Pass.late
  <2>1. id \in Ids \cup {0}
    BY <1>6
  <2> HIDE DEF id, S
  <2> QED
    BY <1>1, <1>2, <1>5, <1>7, <2>1 DEF Tick
<1>10. S \in SUBSET (1 .. created)
  BY <1>6
<1> HIDE DEF id
<1>11. /\ Listed(runs, created, starts, reports)' /\ Listed(file, created, starts, reports)'
       /\ Saved'
       /\ reports' \in [Ids -> Nat] /\ \A j \in Ids : j > created => reports'[j] = reports[j]
       /\ \A j \in 1 .. created : runs'[j].routine = runs[j].routine
       /\ \A j \in 1 .. created : j \notin S => runs'[j] = runs[j]
       /\ NoCopies => runs'[id].status = "failed"
       /\ id \notin live \/ runs'[id].status # "queued"
  <2> HIDE DEF S
  <2>1. CASE Pass.copy = NoCopy
    <3>1. id = i /\ runs[id].status \in Underway
      BY <1>3, <1>5, <1>6, <2>1, ListedRuns DEF IInv, id
    <3>2. \A j \in S : runs[j].status \notin {"failed", "missed"}
      BY <3>1 DEF S, Underway
    <3>3. FailRuns(runs, S) /\ UNCHANGED <<starts, created>>
      BY <1>2, <2>1 DEF FailRuns
    <3>4. /\ Listed(runs, created, starts, reports)' /\ Listed(file, created, starts, reports)'
          /\ Saved'
          /\ reports' \in [Ids -> Nat] /\ \A j \in Ids : j > created => reports'[j] = reports[j]
          /\ \A j \in 1 .. created :
               /\ runs'[j].routine = runs[j].routine
               /\ runs'[j].status = IF j \in S THEN "failed" ELSE runs[j].status
               /\ j \notin S => runs'[j] = runs[j]
      BY <1>10, <3>2, <3>3, Failed
    <3> QED
      BY <1>6, <3>4 DEF S
  <2>2. CASE Pass.copy # NoCopy
    <3>1. ~NoCopies
      BY <1>1, <2>2
    <3>2. runs' = runs /\ FileFollows
      BY <1>2, <2>2 DEF Save, FileFollows
    <3>3. Listed(runs, created, starts, Count(reports, S))
      BY <3>1 DEF IInv, Listed, NoCopies, AllSaved
    <3>4. Listed(runs, created, starts, reports)' /\ Listed(file, created, starts, reports)' /\ Saved'
      BY <1>2, <3>2, <3>3, FileStays
    <3>5. \A j \in Ids : j > created => j \notin S
      BY <1>10 DEF IInv, Types, Ids
    <3>6. reports' \in [Ids -> Nat] /\ \A j \in Ids : j > created => reports'[j] = reports[j]
      <4>1. reports \in [Ids -> Nat]
        BY DEF IInv, Types
      <4> QED
        BY <1>2, <3>5, <4>1, CountType
    <3>7. id \in live => runs[id].status # "queued"
      BY DEF IInv, Working
    <3> QED
      BY <3>1, <3>2, <3>4, <3>6, <3>7
  <2> QED
    BY <2>1, <2>2
<1>12. Types'
  BY <1>2, <1>9, <1>11 DEF IInv, Types
<1>13. Counted'
  <2>1. Due' = Due
    BY <1>2 DEF Due
  <2> QED
    BY <1>2, <1>11, <2>1 DEF IInv, Counted
<1>14. \A j \in 1 .. created : IsOkx(j)' = IsOkx(j)
  BY <1>11 DEF IsOkx
<1>15. Working'
  BY <1>2, <1>6, <1>7, <1>9, <1>11, <1>14 DEF IInv, Working
<1>16. Owned'
  <2>1. NoCopies => Limited # {}
    BY <1>1, <1>5
  <2> QED
    BY <1>1, <1>2, <1>6, <1>8, <1>9, <1>11, <1>14, <2>1 DEF IInv, Owned, Working, Underway, Terminal
<1> QED
  BY <1>11, <1>12, <1>13, <1>15, <1>16 DEF IInv

(* The runs that a tick makes: one at most per routine that is due, and    *)
(* none for a recurring routine that has one; they fit into the room kept  *)
(* for what is due.                                                        *)
LEMMA NewRunsAre ==
  ASSUME IInv
  PROVE  /\ Range(DueRoutines) \subseteq Due
         /\ NewRuns \in Seq(Record)
         /\ created + Len(NewRuns) + Cardinality(Due \ Range(DueRoutines)) <= MaxRuns
         /\ \A j \in 1 .. Len(NewRuns) :
              /\ NewRuns[j].id = created + j /\ NewRuns[j].manual = FALSE
              /\ NewRuns[j].status \in {"queued", "missed"}
              /\ NewRuns[j].routine \in Routines /\ ~Overlapping(NewRuns[j].routine)
         /\ \A j, k \in 1 .. Len(NewRuns) :
              NewRuns[j].routine = NewRuns[k].routine => j = k
<1> DEFINE free == {t \in Routines : ~Overlapping(t)}
           ts == Filter(DueRoutines, free)
           m == Len(ts)
           D == Range(DueRoutines)
<1>1. /\ DueRoutines \in Seq(Routines) /\ IsInjective(DueRoutines)
      /\ D = Routines \intersect (Pass.due \intersect Due)
  <2>1. RoutineOrder \in Seq(Routines) /\ IsInjective(RoutineOrder) /\ Range(RoutineOrder) = Routines
    BY RoutinesAssumption DEF Routines
  <2> QED
    BY <2>1, FilterRange, FilterInjective DEF DueRoutines
<1>2. D \subseteq Due /\ IsFiniteSet(Due) /\ Cardinality(Due) \in Nat
  BY <1>1, DueFinite
<1>3. /\ ts \in Seq(Routines) /\ IsInjective(ts) /\ Range(ts) = D \intersect free
  BY <1>1, FilterRange, FilterInjective
<1>4. /\ m \in Nat /\ DOMAIN ts = 1 .. m
      /\ \A j \in 1 .. m : ts[j] \in Routines /\ ~Overlapping(ts[j])
      /\ \A j, k \in 1 .. m : ts[j] = ts[k] => j = k
  <2> HIDE DEF ts, D
  <2>1. m \in Nat /\ DOMAIN ts = 1 .. m /\ \A j \in 1 .. m : ts[j] \in Range(ts)
    BY <1>3 DEF Range
  <2> QED
    BY <1>3, <2>1 DEF IsInjective
<1>5. m <= Cardinality(D) /\ Cardinality(D) \in Nat
  <2> HIDE DEF ts, D
  <2>1. IsFiniteSet(D)
    BY <1>2, FS_Subset
  <2>2. Range(ts) \subseteq D
    BY <1>3
  <2> QED
    BY <1>3, <2>1, <2>2, InjectiveLength, FS_CardinalityType
<1>6. Cardinality(Due \ D) = Cardinality(Due) - Cardinality(D)
  <2>1. Due \intersect D = D
    BY <1>2
  <2> QED
    BY <1>2, <2>1, FS_Difference
<1>7. created \in Nat /\ created + Cardinality(Due) <= MaxRuns /\ MaxRuns \in Nat
  BY RoutinesAssumption DEF IInv, Types, Counted
<1> DEFINE made(j) == NewRun(created + j, ts[j], FALSE, IF next[ts[j]] = "stale" THEN "missed" ELSE "queued")
<1>8. NewRuns = [j \in 1 .. m |-> made(j)]
  BY <1>4 DEF NewRuns
<1> HIDE DEF ts, D, m, free
<1>9. ASSUME NEW j \in 1 .. m
      PROVE  /\ made(j) \in Record /\ made(j).id = created + j /\ made(j).manual = FALSE
             /\ made(j).status \in {"queued", "missed"} /\ made(j).routine = ts[j]
  <2>1. created + j \in Ids
    <3>1. Cardinality(Due \ D) \in Nat
      BY <1>2, FS_Difference, FS_CardinalityType
    <3> QED
      BY <1>2, <1>4, <1>5, <1>6, <1>7, <3>1 DEF Ids
  <2> QED
    BY <1>4, <2>1 DEF NewRun, Record, Active, Terminal
<1> HIDE DEF made
<1>10. NewRuns \in Seq(Record) /\ Len(NewRuns) = m
  <2>1. NewRuns \in [1 .. m -> Record]
    BY <1>8, <1>9
  <2> QED
    BY <1>4, <2>1, SeqDef
<1>11. created + m + Cardinality(Due \ D) <= MaxRuns
  BY <1>2, <1>4, <1>5, <1>6, <1>7
<1>12. ASSUME NEW j \in 1 .. m
       PROVE  /\ NewRuns[j].id = created + j /\ NewRuns[j].manual = FALSE
              /\ NewRuns[j].status \in {"queued", "missed"}
              /\ NewRuns[j].routine = ts[j]
  BY <1>8, <1>9
<1>13. \A j, k \in 1 .. m : NewRuns[j].routine = NewRuns[k].routine => j = k
  <2>1. \A j \in 1 .. m : NewRuns[j].routine = ts[j]
    BY <1>12
  <2>2. \A j, k \in 1 .. m : ts[j] = ts[k] => j = k
    BY <1>4
  <2> QED
    BY <2>1, <2>2
<1>14. \A j \in 1 .. m : NewRuns[j].routine \in Routines /\ ~Overlapping(NewRuns[j].routine)
  BY <1>4, <1>12
<1>15. m = Len(NewRuns) /\ D = Range(DueRoutines)
  BY <1>10 DEF D
<1> HIDE DEF made
<1> QED
  BY <1>2, <1>10, <1>11, <1>12, <1>13, <1>14, <1>15

(* What a tick queues is appended to the list. *)
LEMMA NewRunsAppended ==
  ASSUME IInv, NEW missed,
         missed = {r.id : r \in {r \in Range(NewRuns) : r.status = "missed"}}
  PROVE  LET n == created + Len(NewRuns) IN
         /\ n \in Nat /\ n <= MaxRuns /\ created <= n
         /\ Listed(runs \o NewRuns, n, starts, Count(reports, missed))
         /\ missed \subseteq 1 .. n
         /\ \A i \in missed : (runs \o NewRuns)[i].status = "missed"
         /\ \A i \in 1 .. created : (runs \o NewRuns)[i] = runs[i]
         /\ \A i \in 1 .. n : (runs \o NewRuns)[i].status \in Underway => i \in 1 .. created
         /\ [i \in DOMAIN (runs \o NewRuns) |-> (runs \o NewRuns)[i].id] \in Seq(Ids)
<1> DEFINE new == NewRuns
           m == Len(new)
           n == created + m
           rs == runs \o new
<1>1. /\ new \in Seq(Record)
      /\ created + m + Cardinality(Due \ Range(DueRoutines)) <= MaxRuns
      /\ \A j \in 1 .. m :
           /\ new[j].id = created + j /\ new[j].manual = FALSE
           /\ new[j].status \in {"queued", "missed"}
           /\ new[j].routine \in Routines /\ ~Overlapping(new[j].routine)
      /\ \A j, k \in 1 .. m : new[j].routine = new[k].routine => j = k
  BY NewRunsAre
<1>2. created \in Nat /\ m \in Nat /\ n \in Nat /\ n <= MaxRuns /\ created <= n
  <2>1. Cardinality(Due \ Range(DueRoutines)) \in Nat
    BY DueFinite, FS_Difference, FS_CardinalityType
  <2>2. created \in Nat /\ m \in Nat
    BY <1>1 DEF IInv, Types
  <2> HIDE DEF m
  <2> QED
    BY <1>1, <2>1, <2>2, RoutinesAssumption
<1>3. Range(new) = {new[j] : j \in 1 .. m}
  BY <1>1 DEF Range
<1> HIDE DEF new
<1>4. \A i : i \in missed <=> \E j \in 1 .. m : i = created + j /\ new[j].status = "missed"
  BY <1>1, <1>3 DEF new
<1>5. /\ runs \in Seq(Record) /\ Len(runs) = created
      /\ \A i \in 1 .. created : runs[i].id = i /\ runs[i] \in Range(runs)
  <2>1. runs \in Seq(Record) /\ Len(runs) = created /\ \A i \in 1 .. created : runs[i].id = i
    BY DEF IInv, Listed
  <2>2. Range(runs) = {runs[i] : i \in 1 .. created}
    BY ListedRuns DEF IInv
  <2> QED
    BY <2>1, <2>2
<1>6. Listed(rs, n, starts, Count(reports, missed))
  <2>1. \A i \in Ids : i > created => starts[i] = 0 /\ reports[i] = 0
    BY DEF IInv, Counted
  <2>2. ASSUME NEW j \in 1 .. m
        PROVE  /\ new[j].id = created + j /\ new[j].status \in {"queued", "missed"}
               /\ created + j \in missed <=> new[j].status = "missed"
    <3>1. \A k \in 1 .. m : created + k = created + j => k = j
      BY <1>2
    <3> QED
      BY <1>1, <1>4, <3>1
  <2>3. ASSUME NEW i \in missed
        PROVE  i > created
    <3>1. PICK j \in 1 .. m : i = created + j
      BY <1>4
    <3> HIDE DEF m
    <3> QED
      BY <1>2, <3>1
  <2>4. ASSUME NEW t \in Recurring, NEW j \in 1 .. m, Scheduled(new[j], t)
        PROVE  /\ \A i \in 1 .. created : ~Scheduled(runs[i], t)
               /\ \A k \in 1 .. m : Scheduled(new[k], t) => k = j
    <3>1. new[j].routine = t /\ ~Overlapping(t)
      BY <1>1, <2>4 DEF Scheduled
    <3>2. ActiveOf(t) = {}
      BY <3>1 DEF Overlapping
    <3>3. \A i \in 1 .. created : ~Scheduled(runs[i], t)
      BY <1>5, <3>2 DEF ActiveOf, Scheduled
    <3>4. \A k \in 1 .. m : Scheduled(new[k], t) => k = j
      BY <1>1, <3>1 DEF Scheduled
    <3> QED
      BY <3>3, <3>4
  <2>5. Listed(runs, created, starts, reports) /\ reports \in [Ids -> Nat]
    BY DEF IInv, Types
  <2> QED
    BY <1>1, <1>2, <2>1, <2>2, <2>3, <2>4, <2>5, ListedAppended
<1>7. /\ \A i \in 1 .. created : rs[i] = runs[i]
      /\ \A j \in 1 .. m : rs[created + j] = new[j]
      /\ \A i \in 1 .. n : i \in 1 .. created \/ \E j \in 1 .. m : i = created + j
  <2>1. \A i \in 1 .. created + m : rs[i] = IF i <= created THEN runs[i] ELSE new[i - created]
    BY <1>1, <1>5, ConcatProperties
  <2> HIDE DEF rs, m
  <2>2. \A i \in 1 .. created : i \in 1 .. created + m /\ i <= created
    BY <1>2
  <2>3. \A j \in 1 .. m : /\ created + j \in 1 .. created + m /\ ~(created + j <= created)
                          /\ (created + j) - created = j
    BY <1>2
  <2>4. ASSUME NEW i \in 1 .. created + m, i \notin 1 .. created
        PROVE  \E j \in 1 .. m : i = created + j
    <3>1. i - created \in 1 .. m /\ i = created + (i - created)
      BY <1>2, <2>4
    <3> QED
      BY <3>1
  <2> QED
    BY <2>1, <2>2, <2>3, <2>4
<1>8. ASSUME NEW i \in missed
      PROVE  i \in 1 .. n /\ rs[i].status = "missed"
  <2>1. PICK j \in 1 .. m : i = created + j /\ new[j].status = "missed"
    BY <1>4
  <2>2. rs[i] = new[j]
    BY <1>7, <2>1
  <2> HIDE DEF m, rs
  <2>3. i \in 1 .. created + m
    BY <1>2, <2>1
  <2> QED
    BY <2>1, <2>2, <2>3
<1>9. ASSUME NEW i \in 1 .. n, rs[i].status \in Underway
      PROVE  i \in 1 .. created
  <2>1. \A j \in 1 .. m : new[j].status \notin Underway
    BY <1>1 DEF Underway
  <2> QED
    BY <1>7, <1>9, <2>1
<1>10. [i \in DOMAIN rs |-> rs[i].id] \in Seq(Ids)
  <2> HIDE DEF rs, n
  <2>1. DOMAIN rs = 1 .. n /\ \A i \in 1 .. n : rs[i].id = i
    BY <1>6, ListedRuns
  <2>2. \A i \in 1 .. n : i \in Ids
    BY <1>2, RoutinesAssumption DEF Ids
  <2>3. [i \in DOMAIN rs |-> rs[i].id] \in [1 .. n -> Ids]
    BY <2>1, <2>2
  <2> QED
    BY <1>2, <2>3, SeqDef
<1> QED
  BY <1>2, <1>6, <1>7, <1>8, <1>9, <1>10 DEF new

(* A tick queues what became due and dispatches. *)
LEMMA TickDispatchesStep ==
  ASSUME IInv, TickDispatches
  PROVE  IInv'
<1> DEFINE rs == runs \o NewRuns
           n == created + Len(NewRuns)
           missed == {r.id : r \in {r \in Range(NewRuns) : r.status = "missed"}}
           todo == [i \in DOMAIN rs |-> rs[i].id]
           none == {}
<1>1. /\ n \in Nat /\ n <= MaxRuns /\ created <= n
      /\ Listed(rs, n, starts, Count(reports, missed))
      /\ missed \in SUBSET (1 .. n)
      /\ \A i \in missed : rs[i].status = "missed"
      /\ \A i \in 1 .. created : rs[i] = runs[i]
      /\ \A i \in 1 .. n : rs[i].status \in Underway => i \in 1 .. created
  BY NewRunsAppended
<1>2. Range(DueRoutines) \subseteq Due
      /\ created + Len(NewRuns) + Cardinality(Due \ Range(DueRoutines)) <= MaxRuns
  BY NewRunsAre
<1>3. /\ Dispatch(rs, todo, none, missed) /\ Claim(live) /\ ScheduleDue
      /\ created' = n /\ tick.pc # "starting"
      /\ UNCHANGED <<gone, delegated, parked, stopping, overdue, visited, lost, saveFailures>>
  BY DEF TickDispatches, ScheduleDue, Scanning
<1> HIDE DEF missed, none
<1>4. enabled' \subseteq Routines /\ next' \in [Routines -> {"ahead", "due", "stale"}]
  BY <1>3 DEF ScheduleDue, IInv, Types
<1>5. created' + Cardinality(Due)' <= MaxRuns
  <2>1. Due' \in SUBSET (Due \ Range(DueRoutines))
    <3>1. ASSUME NEW t, t \in Due'
          PROVE  t \in Due /\ t \notin Range(DueRoutines)
      <4>1. t \in enabled' /\ next'[t] # "ahead"
        BY <3>1 DEF Due
      <4>2. t \in enabled /\ t \in Routines
        BY <1>3, <4>1 DEF ScheduleDue, IInv, Types
      <4>3. next'[t] = IF t \in Range(DueRoutines) THEN "ahead" ELSE next[t]
        BY <1>3, <4>2 DEF ScheduleDue
      <4> QED
        BY <4>1, <4>2, <4>3 DEF Due
    <3> QED
      BY <3>1
  <2>2. IsFiniteSet(Due \ Range(DueRoutines))
    BY DueFinite, FS_Difference
  <2>3. /\ Cardinality(Due \ Range(DueRoutines)) \in Nat /\ Cardinality(Due') \in Nat
        /\ Cardinality(Due') <= Cardinality(Due \ Range(DueRoutines))
    BY <2>1, <2>2, FS_Subset, FS_CardinalityType
  <2> HIDE DEF n
  <2>4. n + Cardinality(Due \ Range(DueRoutines)) <= MaxRuns
    BY <1>2 DEF n
  <2> QED
    BY <1>1, <1>3, <2>3, <2>4, RoutinesAssumption
<1> HIDE DEF n, rs
<1>6. todo \in Seq(Ids)
  BY NewRunsAppended DEF rs, n, missed
<1> HIDE DEF todo
<1>7. NoCopies => \A i \in stopping : rs[i].status \in Terminal
  BY <1>1 DEF IInv, Owned, Working
<1>8. NoCopies => \A i \in 1 .. n : rs[i].status \in Underway =>
                    i \in live \cup delegated' \cup parked \cup lost
  BY <1>1, <1>3 DEF IInv, Owned
<1>9. none \in SUBSET (1 .. n) /\ \A i \in none : rs[i].status \in Underway
  BY DEF none
<1>10. live \in SUBSET live /\ delegated' \subseteq delegated
  BY <1>3
<1>11. /\ \A i \in 1 .. created : rs[i].routine = runs[i].routine
       /\ \A i \in 1 .. created : rs[i].status = "queued" => runs[i].status = "queued"
  BY <1>1
<1> QED
  BY <1>1, <1>3, <1>4, <1>5, <1>6, <1>7, <1>8, <1>9, <1>10, <1>11, DispatchStep

(* What the three answers to a start have in common: the dispatch goes on  *)
(* with what is left to do.                                                *)
LEMMA AnsweredStep ==
  ASSUME IInv, tick.pc = "starting",
         NEW rs, Listed(rs, created, starts, reports),
         NEW failed \in SUBSET (1 .. created), NEW kept \in SUBSET live,
         \A i \in failed : rs[i].status \in Underway,
         Dispatch(rs, tick.todo, failed, {}), Claim(kept),
         UNCHANGED <<definitions, parked, stopping, overdue, visited, counters>>,
         delegated' \subseteq delegated,
         \A i \in 1 .. created : rs[i].routine = runs[i].routine,
         \A i \in 1 .. created : rs[i].status = "queued" => runs[i].status = "queued",
         NoCopies => \A i \in stopping : rs[i].status \in Terminal,
         NoCopies => \A i \in 1 .. created : rs[i].status \in Underway /\ i \notin failed =>
                       i \in kept \cup delegated' \cup parked \cup lost
  PROVE  IInv'
<1> DEFINE none == {}
<1>1. /\ UNCHANGED <<enabled, next, gone, parked, stopping, overdue, visited,
                     lost, created, saveFailures>>
      /\ Dispatch(rs, tick.todo, failed, none)
  BY DEF definitions, counters
<1>2. /\ created \in Nat /\ created <= MaxRuns /\ created <= created
      /\ created' = created /\ created' + Cardinality(Due)' <= MaxRuns
  <2>1. Cardinality(Due) \in Nat /\ Due' = Due
    BY <1>1, DueFinite DEF Due
  <2>2. created \in Nat /\ created + Cardinality(Due) <= MaxRuns
    BY DEF IInv, Types, Counted
  <2> QED
    BY <1>1, <2>1, <2>2, RoutinesAssumption
<1>3. tick.todo \in Seq(Ids)
  BY DEF IInv, Types, Tick
<1>4. enabled' \subseteq Routines /\ next' \in [Routines -> {"ahead", "due", "stale"}]
  BY <1>1 DEF IInv, Types
<1>5. none \in SUBSET (1 .. created) /\ \A i \in none : rs[i].status = "missed"
  OBVIOUS
<1>6. Listed(rs, created, starts, Count(reports, none))
  <2>1. Count(reports, none) = reports
    BY DEF Count, IInv, Types
  <2> QED
    BY <2>1
<1> HIDE DEF none
<1> QED
  BY <1>1, <1>2, <1>3, <1>4, <1>5, <1>6, DispatchStep

(* The start of a turn or a goal returns. *)
LEMMA StartReturnsStep ==
  ASSUME IInv, StartReturns
  PROVE  IInv'
<1> DEFINE none == {}
<1>1. /\ tick.pc = "starting" /\ TargetOf(tick.run) # "okx-task"
      /\ Dispatch(runs, tick.todo, none, {}) /\ Claim(live)
      /\ UNCHANGED <<definitions, parked, stopping, overdue, visited, counters>>
      /\ delegated' = delegated
  BY DEF StartReturns
<1>2. ~IsOkx(tick.run)
  BY <1>1, TargetAt DEF IInv, Working
<1>3. none \in SUBSET (1 .. created) /\ \A i \in none : runs[i].status \in Underway
  OBVIOUS
<1> HIDE DEF none
<1>4. NoCopies => \A i \in stopping : runs[i].status \in Terminal
  BY DEF IInv, Owned
<1>5. NoCopies => \A i \in 1 .. created : runs[i].status \in Underway =>
                    i \in live \cup delegated' \cup parked \cup lost
  BY <1>1, <1>2 DEF IInv, Owned
<1>6. Listed(runs, created, starts, reports)
  BY DEF IInv
<1>7. live \in SUBSET live /\ delegated' \subseteq delegated
  BY <1>1
<1> QED
  BY <1>1, <1>3, <1>4, <1>5, <1>6, <1>7, AnsweredStep

(* The start throws. *)
LEMMA StartThrowsStep ==
  ASSUME IInv, StartThrows
  PROVE  IInv'
<1> DEFINE failed == Failing(tick.run)
           kept == live \ {tick.run}
<1>1. /\ tick.pc = "starting"
      /\ Dispatch(runs, tick.todo, failed, {}) /\ Claim(kept)
      /\ UNCHANGED <<definitions, parked, stopping, overdue, visited, counters>>
      /\ delegated' = delegated \ failed
  BY DEF StartThrows
<1>2. /\ failed \in SUBSET (1 .. created)
      /\ \A i \in failed : i = tick.run /\ runs[i].status \in Underway
      /\ tick.run \in 1 .. created /\ runs[tick.run].status \in Underway => failed = {tick.run}
  BY FailingAt
<1> HIDE DEF failed
<1>3. NoCopies => \A i \in stopping : runs[i].status \in Terminal
  BY DEF IInv, Owned
<1>4. ASSUME NoCopies, NEW i \in 1 .. created, runs[i].status \in Underway, i \notin failed
      PROVE  i \in kept \cup delegated' \cup parked \cup lost
  <2>1. i # tick.run
    BY <1>2, <1>4
  <2> QED
    BY <1>1, <1>4, <2>1 DEF IInv, Owned
<1>5. Listed(runs, created, starts, reports)
  BY DEF IInv
<1>6. kept \in SUBSET live /\ delegated' \subseteq delegated
  BY <1>1
<1> HIDE DEF kept
<1> QED
  BY <1>1, <1>2, <1>3, <1>4, <1>5, <1>6, AnsweredStep

(* The OKX engine is done with a run. *)
LEMMA OkxRunFinishesStep ==
  ASSUME IInv, OkxRunFinishes
  PROVE  IInv'
<1> DEFINE none == {}
           S == {tick.run}
           rs == With(runs, S, "completed")
<1>1. /\ tick.pc = "starting" /\ TargetOf(tick.run) = "okx-task"
      /\ Dispatch(rs, tick.todo, none, {}) /\ Claim(live)
      /\ UNCHANGED <<definitions, parked, stopping, overdue, visited, counters>>
      /\ delegated' = delegated
  BY DEF OkxRunFinishes
<1>2. tick.run \in 1 .. created /\ IsOkx(tick.run)
  BY <1>1, TargetAt DEF IInv, Working
<1>3. \A i : i \in S <=> i = tick.run
  OBVIOUS
<1> HIDE DEF S
<1>4. "completed" \in Statuses \ {"queued", "failed", "missed"} /\ "completed" \in Terminal
      /\ "completed" \notin Underway
  BY DEF Statuses, Terminal, Underway
<1>5. Listed(runs, created, starts, reports)
  BY DEF IInv
<1>6. Listed(rs, created, starts, reports)
  <2>1. AllSaved => runs[tick.run].status \notin {"failed", "missed"}
    BY <1>1, <1>2 DEF IInv, Owned, NoCopies, AllSaved
  <2> QED
    BY <1>3, <1>4, <1>5, <2>1, ListedWith
<1>7. \A i \in 1 .. created :
        /\ rs[i].routine = runs[i].routine
        /\ rs[i].status = IF i \in S THEN "completed" ELSE runs[i].status
  BY <1>4, <1>5, WithRuns
<1> HIDE DEF rs
<1>8. none \in SUBSET (1 .. created) /\ \A i \in none : rs[i].status \in Underway
  OBVIOUS
<1> HIDE DEF none
<1>9. \A i \in 1 .. created : rs[i].status = "queued" => runs[i].status = "queued"
  BY <1>7
<1>10. NoCopies => \A i \in stopping : rs[i].status \in Terminal
  BY <1>4, <1>7 DEF IInv, Owned, Working
<1>11. ASSUME NoCopies, NEW i \in 1 .. created, rs[i].status \in Underway
       PROVE  i \in live \cup delegated' \cup parked \cup lost
  <2>1. i # tick.run /\ runs[i].status \in Underway
    BY <1>3, <1>4, <1>7, <1>11
  <2> QED
    BY <1>1, <1>11, <2>1 DEF IInv, Owned
<1>12. live \in SUBSET live /\ delegated' \subseteq delegated
  BY <1>1
<1> QED
  BY <1>1, <1>6, <1>7, <1>8, <1>9, <1>10, <1>11, <1>12, AnsweredStep


-----------------------------------------------------------------------------
(* The invariant. *)

(* At the start there is no run. *)
LEMMA InitIsFine ==
  ASSUME Init
  PROVE  IInv
<1> USE DEF Init
<1>1. Due = {}
  BY DEF Due
<1>2. Cardinality(Due) = 0
  BY <1>1, FS_EmptySet
<1>3. tick \in Tick /\ tick.pc = "idle" /\ tick.copy = NoCopy /\ tick.late = {}
  BY TickTypes DEF Idle
<1>4. Types
  BY <1>3 DEF Types
<1>5. Counted
  BY <1>2, RoutinesAssumption DEF Counted
<1>6. Working /\ Owned /\ Saved
  BY <1>3 DEF Working, Owned, Saved, NoCopy
<1>7. Listed(runs, created, starts, reports) /\ Listed(file, created, starts, reports)
  <2>1. runs \in Seq(Record) /\ Len(runs) = 0 /\ 1 .. 0 = {}
    OBVIOUS
  <2> QED
    BY <2>1 DEF Listed
<1> QED
  BY <1>4, <1>5, <1>6, <1>7 DEF IInv

(* Every step keeps the invariant. *)
LEMMA StepIsFine ==
  ASSUME IInv, [Next]_vars
  PROVE  IInv'
<1>1. CASE Operator
  <2>1. ASSUME NEW t \in Routines, RunNow(t) PROVE IInv'
    BY <2>1, RunNowStep
  <2>2. ASSUME NEW t \in Paused, Pause(t) \/ Resume(t) PROVE IInv'
    BY <2>2, PauseStep, ResumeStep
  <2>3. ASSUME NEW id \in Ids, CancelRun(id) \/ CancelRunThrows(id) PROVE IInv'
    BY <2>3, CancelRunStep, CancelRunThrowsStep
  <2>4. ASSUME NEW a \in Deleted, DeleteAgent(a) PROVE IInv'
    BY <2>4, DeleteAgentStep
  <2> QED
    BY <1>1, <2>1, <2>2, <2>3, <2>4, CommitRollsBackStep DEF Operator
<1>2. CASE World
  <2>1. ASSUME NEW t \in Routines, OccurrenceDue(t) \/ OccurrenceStale(t) PROVE IInv'
    BY <2>1, OccurrenceDueStep, OccurrenceStaleStep
  <2>2. ASSUME NEW a \in Agents, UserTurn(a) \/ UserTurnEnds(a) PROVE IInv'
    BY <2>2, UserTurnStep
  <2> QED
    BY <1>2, <2>1, <2>2 DEF World
<1>3. CASE Scheduler
  BY <1>3, TickTimesOutStep, TickDispatchesStep DEF Scheduler
<1>4. CASE StartAnswered
  BY <1>4, StartReturnsStep, StartThrowsStep, OkxRunFinishesStep DEF StartAnswered
<1>5. ASSUME NEW id \in Ids, Provider(id)
      PROVE  IInv'
  <2>1. ASSUME TurnCompletes(id) \/ TurnFails(id) PROVE IInv'
    BY <2>1, TurnCompletesStep, TurnFailsStep
  <2>2. ASSUME RequestOpened(id) \/ TurnStarted(id) PROVE IInv'
    BY <2>2, ReportedStep DEF RequestOpened, TurnStarted
  <2>3. ASSUME Delegates(id) \/ DelegationReturns(id) \/ DelegationLost(id) PROVE IInv'
    BY <2>3, DelegationStep
  <2>4. ASSUME DelegationWakeFails(id) \/ GoalEnds(id) PROVE IInv'
    BY <2>4, DelegationWakeFailsStep, GoalEndsStep
  <2>5. ASSUME ReportUnsaved(id) PROVE IInv'
    BY <2>5, ReportUnsavedStep
  <2> QED
    BY <1>5, <2>1, <2>2, <2>3, <2>4, <2>5 DEF Provider
<1>6. ASSUME NEW id \in Ids, Interrupted(id) \/ LimitPasses(id)
      PROVE  IInv'
  BY <1>6, InterruptedStep, LimitPassesStep
<1>7. CASE Restart
  BY <1>7, RestartStep
<1>8. CASE UNCHANGED vars
  <2> USE <1>8 DEF vars, definitions, provider, history, counters
  <2>1. UNCHANGED <<runs, file, starts, reports, created>>
    OBVIOUS
  <2>2. Types' /\ Counted' /\ Working' /\ Owned'
    BY DEF IInv, Types, Counted, Due, Working, Owned, IsOkx
  <2> QED
    BY <2>1, <2>2, BooksStay DEF IInv
<1> QED
  BY <1>1, <1>2, <1>3, <1>4, <1>5, <1>6, <1>7, <1>8 DEF Next

(* The inductive invariant holds of every state the server reaches. *)
THEOREM IInvHolds == Spec => []IInv
<1>1. Init => IInv
  BY InitIsFine
<1>2. IInv /\ [Next]_vars => IInv'
  BY StepIsFine
<1> QED
  BY <1>1, <1>2, PTL DEF Spec

-----------------------------------------------------------------------------
(* What follows. *)

(* Every variable keeps its type; the turns that providers work on, the    *)
(* delegations, the interrupts and the limits that have passed are of runs *)
(* in the list.                                                            *)
THEOREM TypeCorrect == Spec => []TypeOK
<1>1. IInv => TypeOK
  <2> SUFFICES ASSUME IInv PROVE TypeOK
    OBVIOUS
  <2>1. IdsOf(runs) = 1 .. created
    BY ListedRuns DEF IInv
  <2> QED
    BY <2>1 DEF IInv, Types, Tick, Listed, Working, TypeOK
<1> QED
  BY <1>1, IInvHolds, PTL

(* A run's work is started at most once, whatever fails, restarts and late *)
(* answers come in between.                                                *)
THEOREM StartsOnce == Spec => []StartedOnce
<1>1. IInv => StartedOnce
  BY DEF IInv, Counted, StartedOnce
<1> QED
  BY <1>1, IInvHolds, PTL

(* A recurring routine has at most one scheduled run that is not over.     *)
THEOREM SchedulesOne == Spec => []OneScheduledRun
<1>1. IInv => OneScheduledRun
  <2> SUFFICES ASSUME IInv, NEW t \in Recurring
               PROVE  Cardinality({r \in ActiveOf(t) : ~r.manual}) <= 1
    BY DEF OneScheduledRun
  <2> DEFINE A == {r \in ActiveOf(t) : ~r.manual}
  <2>1. \A r \in A : \E i \in 1 .. created : r = runs[i] /\ Scheduled(runs[i], t)
    <3>1. Range(runs) = {runs[i] : i \in 1 .. created}
      BY ListedRuns DEF IInv
    <3> QED
      BY <3>1 DEF ActiveOf, Scheduled
  <2>2. \A r, s \in A : r = s
    BY <2>1 DEF IInv, Listed
  <2> HIDE DEF A
  <2>3. CASE A = {}
    BY <2>3, FS_EmptySet DEF A
  <2>4. CASE A # {}
    <3>1. PICK r \in A : TRUE
      BY <2>4
    <3>2. A = {r}
      BY <2>2, <3>1
    <3>3. Cardinality(A) = 1
      BY <3>2, FS_Singleton
    <3> QED
      BY <3>3 DEF A
  <2> QED
    BY <2>3, <2>4
<1> QED
  BY <1>1, IInvHolds, PTL

(* Unless a definition cannot be written while the timeout scan waits,     *)
(* every run under way has someone working on it, or waits for delegated   *)
(* work whose watch was overwritten.                                       *)
THEOREM NoRunIsLost ==
  ASSUME NoCopies
  PROVE  Spec => []RunsHaveAnOwner
<1>1. IInv => RunsHaveAnOwner
  <2> SUFFICES ASSUME IInv, NEW r \in Range(runs), r.status \in Underway
               PROVE  \/ r.id \in live \cup delegated \cup parked \cup lost
                      \/ tick.pc = "starting" /\ tick.run = r.id
    BY DEF RunsHaveAnOwner
  <2>1. PICK i \in 1 .. created : r = runs[i] /\ r.id = i
    BY ListedRuns DEF IInv
  <2> QED
    BY <2>1, NoCopies DEF IInv, Owned
<1> QED
  BY <1>1, IInvHolds, PTL

(* When every write succeeds, a failed or missed run is reported exactly    *)
(* once, and no other run is.                                              *)
THEOREM ReportsOnce ==
  ASSUME AllSaved
  PROVE  Spec => []FailuresReportedOnce
<1>1. IInv => FailuresReportedOnce
  <2> SUFFICES ASSUME IInv, NEW r \in Range(runs)
               PROVE  reports[r.id] = IF r.status \in {"failed", "missed"} THEN 1 ELSE 0
    BY DEF FailuresReportedOnce
  <2>1. PICK i \in 1 .. created : r = runs[i] /\ r.id = i
    BY ListedRuns DEF IInv
  <2> QED
    BY <2>1, AllSaved DEF IInv, Listed
<1> QED
  BY <1>1, IInvHolds, PTL


-----------------------------------------------------------------------------
(* What is over stays as it is. *)

(* The step leaves the runs that are over as they are. *)
Keeps ==
  \A i \in 1 .. created : runs[i].status \in Terminal =>
    i \in DOMAIN runs' /\ runs'[i] = runs[i]

(* It does when it changes no run ... *)
LEMMA SameKeeps ==
  ASSUME IInv, runs' = runs
  PROVE  Keeps
<1>1. DOMAIN runs = 1 .. created
  BY ListedRuns DEF IInv
<1> QED
  BY <1>1 DEF Keeps

(* ... or only runs that are not over. *)
LEMMA WithKeeps ==
  ASSUME IInv, NEW S, NEW status \in Statuses, runs' = With(runs, S, status),
         \A i \in 1 .. created : i \in S => runs[i].status \notin Terminal
  PROVE  Keeps
<1>1. /\ With(runs, S, status) \in Seq(Record) /\ Len(With(runs, S, status)) = created
      /\ \A i \in 1 .. created : i \notin S => With(runs, S, status)[i] = runs[i]
  BY WithRuns DEF IInv
<1> QED
  BY <1>1 DEF Keeps

(* A dispatch changes runs that are queued, and those that fail. *)
LEMMA DispatchKeeps ==
  ASSUME IInv,
         NEW rs, NEW n \in Nat, n <= MaxRuns, NEW todo \in Seq(Ids), created <= n,
         NEW failed \in SUBSET (1 .. n), NEW missed \in SUBSET (1 .. n),
         Listed(rs, n, starts, Count(reports, missed)),
         \A i \in failed : rs[i].status \in Underway,
         \A i \in missed : rs[i].status = "missed",
         Dispatch(rs, todo, failed, missed),
         \A i \in 1 .. created : rs[i] = runs[i]
  PROVE  Keeps
<1>1. /\ starts \in [Ids -> Nat] /\ reports \in [Ids -> Nat] /\ \A i \in Ids : starts[i] <= 1
      /\ created \in Nat
  BY DEF IInv, Types, Counted
<1>2. /\ FileFollows /\ Listed(runs', n, starts', reports')
      /\ starts' \in [Ids -> Nat] /\ reports' \in [Ids -> Nat]
      /\ \A i \in Ids : starts'[i] <= 1
      /\ \A i \in Ids : i > n => starts'[i] = starts[i] /\ reports'[i] = reports[i]
      /\ tick' \in Tick /\ tick'.pc # "stopping" /\ tick'.copy = NoCopy /\ tick'.late = {}
      /\ \A i \in 1 .. n :
           /\ runs'[i].routine = rs[i].routine
           /\ i \in failed => runs'[i].status = "failed"
           /\ i \notin failed /\ rs[i].status # "queued" => runs'[i] = rs[i]
           /\ runs'[i].status \in Underway /\ rs[i].status = "queued" =>
                tick'.pc = "starting" /\ tick'.run = i
      /\ tick'.pc = "starting" => tick'.run \in 1 .. n /\ runs'[tick'.run].status = "running"
  BY <1>1, Dispatched
<1>3. DOMAIN runs' = 1 .. n
  BY <1>2, ListedRuns
<1>4. ASSUME NEW i \in 1 .. created, runs[i].status \in Terminal
      PROVE  i \in 1 .. n /\ runs'[i] = runs[i]
  <2>1. i \in 1 .. n
    BY <1>1
  <2>2. rs[i] = runs[i] /\ rs[i].status # "queued" /\ rs[i].status \notin Underway
    BY <1>4 DEF Terminal, Underway
  <2> QED
    BY <1>2, <2>1, <2>2
<1> QED
  BY <1>3, <1>4 DEF Keeps

(* The answers to a start: the dispatch goes on with the runs as they are. *)
LEMMA AnswerKeeps ==
  ASSUME IInv, NEW failed \in SUBSET (1 .. created),
         \A i \in failed : runs[i].status \in Underway,
         Dispatch(runs, tick.todo, failed, {})
  PROVE  Keeps
<1> DEFINE none == {}
<1>1. /\ created \in Nat /\ created <= MaxRuns /\ created <= created
      /\ tick.todo \in Seq(Ids)
  <2>1. Cardinality(Due) \in Nat
    BY DueFinite
  <2> QED
    BY <2>1, RoutinesAssumption DEF IInv, Types, Counted, Tick
<1>2. none \in SUBSET (1 .. created) /\ \A i \in none : runs[i].status = "missed"
  OBVIOUS
<1>3. Listed(runs, created, starts, Count(reports, none))
  <2>1. Count(reports, none) = reports
    BY DEF Count, IInv, Types
  <2> QED
    BY <2>1 DEF IInv
<1>4. Dispatch(runs, tick.todo, failed, none)
  OBVIOUS
<1> HIDE DEF none
<1> QED
  BY <1>1, <1>2, <1>3, <1>4, DispatchKeeps

(* What a provider reports is written to runs under way. *)
LEMMA FailingKeeps ==
  ASSUME IInv, NEW id, NEW status \in Statuses, Save(With(runs, Failing(id), status))
  PROVE  Keeps
<1>1. \A i \in Failing(id) : runs[i].status \notin Terminal
  BY FailingAt DEF Underway, Terminal
<1> QED
  BY <1>1, WithKeeps DEF Save

(* The scheduler. *)
LEMMA SchedulerKeeps ==
  ASSUME IInv, Scheduler
  PROVE  Keeps
<1>1. CASE TickTimesOut
  <2> DEFINE i == Min(TimedOut)
             id == Walked[i].id
             S == {id}
  <2>1. IF Pass.copy = NoCopy THEN Save(With(runs, S, "failed")) ELSE Save(runs)
    BY <1>1 DEF TickTimesOut
  <2>2. CASE Pass.copy # NoCopy
    BY <2>1, <2>2, SameKeeps DEF Save
  <2>3. CASE Pass.copy = NoCopy
    <3>1. Walked = runs /\ Pass.at \in Nat \ {0}
      BY <1>1, <2>3, PassType DEF Walked, TickTimesOut, Tick
    <3>2. DOMAIN runs = 1 .. created /\ created \in Nat /\ Len(runs) = created
      BY ListedRuns DEF IInv, Listed
    <3>3. TimedOut \in SUBSET (0 .. created) /\ TimedOut # {}
      BY <1>1, <3>1, <3>2 DEF TimedOut, TickTimesOut
    <3>4. i \in TimedOut
      BY <3>2, <3>3, MinIsIn
    <3>5. i \in 1 .. created /\ runs[i].status \in Underway
      <4>1. i \in Pass.at .. created /\ runs[i].status \in Underway
        BY <3>1, <3>2, <3>4 DEF TimedOut
      <4> QED
        BY <3>1, <3>2, <4>1
    <3> HIDE DEF i
    <3>6. id = i
      BY <3>1, <3>5, ListedRuns DEF IInv
    <3>7. \A j \in 1 .. created : j \in S => runs[j].status \notin Terminal
      BY <3>5, <3>6 DEF Underway, Terminal
    <3>8. "failed" \in Statuses /\ runs' = With(runs, S, "failed")
      BY <2>1, <2>3 DEF Save, Statuses, Terminal
    <3> HIDE DEF S
    <3> QED
      BY <3>7, <3>8, WithKeeps
  <2> QED
    BY <2>2, <2>3
<1>2. CASE TickDispatches
  <2> DEFINE rs == runs \o NewRuns
             n == created + Len(NewRuns)
             missed == {r.id : r \in {r \in Range(NewRuns) : r.status = "missed"}}
             todo == [i \in DOMAIN rs |-> rs[i].id]
             none == {}
  <2>1. /\ n \in Nat /\ n <= MaxRuns /\ created <= n
        /\ Listed(rs, n, starts, Count(reports, missed))
        /\ missed \in SUBSET (1 .. n)
        /\ \A i \in missed : rs[i].status = "missed"
        /\ \A i \in 1 .. created : rs[i] = runs[i]
        /\ todo \in Seq(Ids)
    BY NewRunsAppended
  <2>2. Dispatch(rs, todo, none, missed)
    BY <1>2 DEF TickDispatches
  <2>3. none \in SUBSET (1 .. n) /\ \A i \in none : rs[i].status \in Underway
    OBVIOUS
  <2> HIDE DEF rs, n, missed, todo, none
  <2> QED
    BY <2>1, <2>2, <2>3, DispatchKeeps
<1> QED
  BY <1>1, <1>2 DEF Scheduler

(* Without OKX routines, and when writes succeed or the server never       *)
(* restarts, no step rewrites a run that is over.                          *)
LEMMA StepKeeps ==
  ASSUME IInv, Next, restarts \in Nat,
         \A t \in Routines : Target[t] # "okx-task",
         MaxSaveFailures = 0 \/ MaxRestarts = 0
  PROVE  Keeps
<1>0. {"failed", "cancelled", "completed", "waiting", "running"} \subseteq Statuses
  BY DEF Statuses, Terminal, Active, Underway
<1>1. CASE Operator
  <2>1. ASSUME NEW t \in Routines, RunNow(t) PROVE Keeps
    <3>1. runs \in Seq(Record) /\ Len(runs) = created
      BY DEF IInv, Listed
    <3> DEFINE r == NewRun(created + 1, t, TRUE, "queued")
    <3>2. runs' = Append(runs, r)
      BY <2>1 DEF RunNow, Save
    <3> HIDE DEF r
    <3>3. \A i \in 1 .. created : i \in DOMAIN runs' /\ runs'[i] = runs[i]
      BY <3>1, <3>2
    <3> QED
      BY <3>3 DEF Keeps
  <2>2. ASSUME NEW t \in Paused, Pause(t) PROVE Keeps
    <3> DEFINE S == {r.id : r \in {r \in ActiveOf(t) : r.status = "queued"}}
    <3>1. runs' = With(runs, S, "cancelled")
      BY <2>2 DEF Pause, Save
    <3>2. \A i \in 1 .. created : i \in S => runs[i].status \notin Terminal
      BY ListedRuns DEF IInv, ActiveOf, Terminal
    <3> HIDE DEF S
    <3> QED
      BY <1>0, <3>1, <3>2, WithKeeps
  <2>3. ASSUME NEW id \in Ids, CancelRun(id) \/ CancelRunThrows(id) PROVE Keeps
    <3> DEFINE S == {id}
    <3>1. runs' = With(runs, S, "cancelled") /\ Is(id, Active)
      BY <2>3 DEF CancelRun, CancelRunThrows, Unsaved, Save
    <3>2. \A i \in 1 .. created : i \in S => runs[i].status \notin Terminal
      BY <3>1, IsAt DEF Active, Underway, Terminal
    <3> HIDE DEF S
    <3> QED
      BY <1>0, <3>1, <3>2, WithKeeps
  <2>4. ASSUME NEW a \in Deleted, DeleteAgent(a) PROVE Keeps
    <3> DEFINE S == {r.id : r \in {r \in Range(runs) : Agent[r.routine] = a /\ r.status \in Active}}
    <3>1. runs' = With(runs, S, "cancelled")
      BY <2>4 DEF DeleteAgent, Save
    <3>2. \A i \in 1 .. created : i \in S => runs[i].status \notin Terminal
      BY ListedRuns DEF IInv, Active, Underway, Terminal
    <3> HIDE DEF S
    <3> QED
      BY <1>0, <3>1, <3>2, WithKeeps
  <2>5. ASSUME NEW t \in Paused, Resume(t) PROVE Keeps
    BY <2>5, SameKeeps DEF Resume
  <2>6. ASSUME CommitRollsBack PROVE Keeps
    BY <2>6, SameKeeps DEF CommitRollsBack
  <2> QED
    BY <1>1, <2>1, <2>2, <2>3, <2>4, <2>5, <2>6 DEF Operator
<1>2. CASE World
  <2>1. runs' = runs
    BY <1>2 DEF World, OccurrenceDue, OccurrenceStale, UserTurn, UserTurnEnds
  <2> QED
    BY <2>1, SameKeeps
<1>3. CASE Scheduler
  BY <1>3, SchedulerKeeps
<1>4. CASE StartAnswered
  <2>1. CASE StartReturns
    <3> DEFINE none == {}
    <3>1. Dispatch(runs, tick.todo, none, {})
      BY <2>1 DEF StartReturns
    <3>2. none \in SUBSET (1 .. created) /\ \A i \in none : runs[i].status \in Underway
      OBVIOUS
    <3> HIDE DEF none
    <3> QED
      BY <3>1, <3>2, AnswerKeeps
  <2>2. CASE StartThrows
    <3>1. Dispatch(runs, tick.todo, Failing(tick.run), {})
      BY <2>2 DEF StartThrows
    <3> QED
      BY <3>1, FailingAt, AnswerKeeps
  <2>3. CASE OkxRunFinishes
    <3>1. tick.run \in 1 .. created /\ IsOkx(tick.run)
      BY <2>3, TargetAt DEF OkxRunFinishes, IInv, Working
    <3>2. runs[tick.run].routine \in Routines
      BY <3>1, ListedRuns DEF IInv, Record
    <3> QED
      BY <3>1, <3>2 DEF IsOkx
  <2> QED
    BY <1>4, <2>1, <2>2, <2>3 DEF StartAnswered
<1>5. ASSUME NEW id \in Ids, Provider(id)
      PROVE  Keeps
  <2>1. CASE TurnCompletes(id)
    BY <1>0, <2>1, FailingKeeps DEF TurnCompletes
  <2>2. CASE TurnFails(id) \/ DelegationWakeFails(id)
    BY <1>0, <2>2, FailingKeeps DEF TurnFails, DelegationWakeFails, FailRuns
  <2>3. ASSUME NEW status \in {"waiting", "running"}, Reported(id, status) PROVE Keeps
    <3> DEFINE S == {id}
    <3>1. runs' = With(runs, S, status) /\ Is(id, Underway)
      BY <2>3 DEF Reported, Save
    <3>2. \A i \in 1 .. created : i \in S => runs[i].status \notin Terminal
      BY <3>1, IsAt DEF Underway, Terminal
    <3>3. status \in Statuses
      BY <1>0
    <3> HIDE DEF S
    <3> QED
      BY <3>1, <3>2, <3>3, WithKeeps
  <2>4. CASE Delegates(id) \/ DelegationReturns(id) \/ DelegationLost(id)
    BY <2>4, SameKeeps DEF Delegates, DelegationReturns, DelegationLost
  <2>5. CASE GoalEnds(id)
    <3>1. PICK status \in {"completed", "cancelled", "failed", "waiting"} :
            Save(With(runs, Failing(id), status))
      BY <2>5 DEF GoalEnds, FailRuns
    <3> QED
      BY <1>0, <3>1, FailingKeeps
  <2>6. CASE TurnUnsaved(id) \/ WakeFailureUnsaved(id) \/ GoalUnsaved(id)
    <3> DEFINE S == {id}
    <3>1. PICK status \in {"running", "waiting", "completed", "failed", "cancelled"} :
            runs' = With(runs, S, status) /\ Is(id, Underway)
      BY <2>6 DEF TurnUnsaved, WakeFailureUnsaved, GoalUnsaved, Unsaved
    <3>2. \A i \in 1 .. created : i \in S => runs[i].status \notin Terminal
      BY <3>1, IsAt DEF Underway, Terminal
    <3>3. status \in Statuses
      BY <1>0
    <3> HIDE DEF S
    <3> QED
      BY <3>1, <3>2, <3>3, WithKeeps
  <2>7. ~OkxUnsaved(id)
    <3> SUFFICES ASSUME OkxUnsaved(id) PROVE FALSE
      OBVIOUS
    <3>1. id \in 1 .. created /\ IsOkx(id)
      BY TargetAt DEF OkxUnsaved, IInv, Working
    <3>2. runs[id].routine \in Routines
      BY <3>1, ListedRuns DEF IInv, Record
    <3> QED
      BY <3>1, <3>2 DEF IsOkx
  <2> QED
    BY <1>5, <2>1, <2>2, <2>3, <2>4, <2>5, <2>6, <2>7
       DEF Provider, RequestOpened, TurnStarted, ReportUnsaved
<1>6. ASSUME NEW id \in Ids, Interrupted(id) \/ LimitPasses(id)
      PROVE  Keeps
  BY <1>6, SameKeeps DEF Interrupted, LimitPasses
<1>7. CASE Restart
  <2> DEFINE S == {r.id : r \in {r \in Range(file) : r.status \in Underway}}
  <2>1. AllSaved
    BY <1>7, RoutinesAssumption DEF Restart, AllSaved
  <2>2. file = runs
    BY <2>1 DEF IInv, Saved
  <2>3. runs' = With(runs, S, "failed")
    BY <1>7, <2>2 DEF Restart
  <2>4. \A i \in 1 .. created : i \in S => runs[i].status \notin Terminal
    BY <2>2, ListedRuns DEF IInv, Underway, Terminal
  <2> HIDE DEF S
  <2> QED
    BY <1>0, <2>3, <2>4, WithKeeps
<1> QED
  BY <1>1, <1>2, <1>3, <1>4, <1>5, <1>6, <1>7 DEF Next

(* The restarts are counted. *)
LEMMA RestartsCounted == Spec => [](restarts \in Nat)
<1>1. Init => restarts \in Nat
  BY DEF Init
<1>2. restarts \in Nat /\ [Next]_vars => (restarts \in Nat)'
  <2> SUFFICES ASSUME restarts \in Nat, [Next]_vars PROVE restarts' \in Nat
    OBVIOUS
  <2>1. CASE Restart
    BY <2>1 DEF Restart
  <2>2. CASE Operator
    BY <2>2 DEF Operator, RunNow, Pause, Resume, CancelRun, CancelRunThrows, Unsaved,
         DeleteAgent, CommitRollsBack, counters
  <2>3. CASE World
    BY <2>3 DEF World, OccurrenceDue, OccurrenceStale, UserTurn, UserTurnEnds, counters
  <2>4. CASE Scheduler
    BY <2>4 DEF Scheduler, TickTimesOut, TickDispatches, counters
  <2>5. CASE StartAnswered
    BY <2>5 DEF StartAnswered, StartReturns, StartThrows, OkxRunFinishes, counters
  <2>6. ASSUME NEW id \in Ids, Provider(id) \/ Interrupted(id) \/ LimitPasses(id)
        PROVE  restarts' \in Nat
    BY <2>6 DEF Provider, TurnCompletes, TurnFails, RequestOpened, TurnStarted, Reported,
         Delegates, DelegationReturns, DelegationWakeFails, DelegationLost, GoalEnds,
         ReportUnsaved, TurnUnsaved, WakeFailureUnsaved, GoalUnsaved, OkxUnsaved, Unsaved,
         Interrupted, LimitPasses, counters
  <2>7. CASE UNCHANGED vars
    BY <2>7 DEF vars, counters
  <2> QED
    BY <2>1, <2>2, <2>3, <2>4, <2>5, <2>6, <2>7 DEF Next
<1> QED
  BY <1>1, <1>2, PTL DEF Spec

(* Without OKX routines (whose engine's late answer rewrites a receipt),   *)
(* and when every write succeeds or the server never restarts (a restart   *)
(* reads back what a failed write left), a run that is over stays as it    *)
(* ended, whatever is reported, cancelled or timed out later.              *)
THEOREM ReceiptsStand ==
  ASSUME \A t \in Routines : Target[t] # "okx-task",
         MaxSaveFailures = 0 \/ MaxRestarts = 0
  PROVE  Spec => OverIsOver
<1> DEFINE Over == saveFailures = 0 \/ restarts' = restarts =>
                     \A r \in Range(runs) : r.status \in Terminal => r \in Range(runs')
<1>1. IInv /\ restarts \in Nat /\ [Next]_vars => [Over]_vars
  <2> SUFFICES ASSUME IInv, restarts \in Nat, Next, NEW r \in Range(runs), r.status \in Terminal
               PROVE  r \in Range(runs')
    OBVIOUS
  <2>1. Keeps
    BY StepKeeps
  <2>2. PICK i \in 1 .. created : r = runs[i]
    BY ListedRuns DEF IInv
  <2> QED
    BY <2>1, <2>2 DEF Keeps, Range
<1> QED
  BY <1>1, IInvHolds, RestartsCounted, PTL DEF Spec, OverIsOver

=============================================================================
