------------------------- MODULE Delegations_proofs --------------------------
(***************************************************************************)
(* A handoff starts once, its outcome is final, it does not start once its *)
(* target is out of reach, its answer is the answer of its own turn, and   *)
(* while it is queued somebody will come to it: for any number of bots and *)
(* handoffs.                                                               *)
(*                                                                         *)
(* The argument rests on one moment: a handoff that was started, refused   *)
(* or settled is out of its queue, except while the drain of its source is *)
(* at the await of runTarget (At), and no event of the world falls there.  *)
(***************************************************************************)
EXTENDS Delegations, Filters_proofs

(* The drain of the source of h awaits what becomes of the turn for h. *)
At(h) ==
  LET d == drain[Source[h]]
  IN  d.pc = "starting" /\ d.todo # <<>> /\ Head(d.todo) = h

(* Queues and snapshots hold the handoffs of their own thread. *)
QueuesInv ==
  \A t \in Bots :
    /\ \A h \in Range(queue[t]) : Source[h] = t /\ h \in issued
    /\ \A h \in Range(drain[t].todo) : Source[h] = t
    /\ drain[t].pc \in {"approval", "starting"} => drain[t].todo # <<>>
    /\ drain[t].pc = "approval" => Item(t) \in NeedsApproval

(* The drains that are to run are ready to, and each is listed once. *)
ActiveInv ==
  /\ \A i \in DOMAIN active : drain[active[i]].pc = "ready"
  /\ \A i, j \in DOMAIN active : active[i] = active[j] => i = j

(* What was started or settled is not queued any more, or leaves its queue *)
(* next.                                                                   *)
OnceInv ==
  \A h \in Handoffs :
    /\ starts[h] <= 1
    /\ starts[h] # 0 \/ receipt[h] # "none" =>
         h \in issued /\ (Queued(h) => At(h))

(* While the answer to a start is awaited, the target works on the handoff *)
(* or its turn was refused.                                                *)
StartingInv ==
  \A t \in Bots : drain[t].pc = "starting" =>
    LET h == Item(t) IN
      turn[Target[h]] = h \/ (Target[h] \in offline /\ turn[Target[h]] = "idle")

(* What is watched has no outcome yet, and it is the work of that thread's *)
(* turn, unless that turn has just been refused.                           *)
WatchInv ==
  \A b \in Bots : watch[b] # NoHandoff =>
    LET h == watch[b] IN
      /\ Target[h] = b /\ h \in issued /\ receipt[h] = "none"
      /\ Queued(h) => At(h)
      /\ turn[b] = h \/ At(h)

(* Somebody will come to h. *)
Covered(h) ==
  \/ h \in fresh
  \/ h \in waiting /\ (Busy(Target[h]) \/ Target[h] \in retry)
  \/ LET d == drain[Source[h]] IN
       d.pc # "idle" /\ (h \in Range(d.todo) \/ d.again \/ h \notin d.seen)

CoveredInv == \A h \in Handoffs : Queued(h) => Covered(h)

IInv ==
  /\ TypeOK /\ QueuesInv /\ ActiveInv
  /\ OnceInv /\ StartingInv /\ WatchInv
  /\ CoveredInv

-----------------------------------------------------------------------------
(* The operators the actions are built from. *)

(* What the types say of the fields that the actions read. *)
LEMMA TypeFacts ==
  ASSUME TypeOK
  PROVE  /\ \A t \in Bots : /\ drain[t].pc \in {"idle", "ready", "approval", "starting"}
                            /\ drain[t].todo \in Seq(Handoffs)
                            /\ drain[t].seen \subseteq Handoffs
                            /\ drain[t].again \in BOOLEAN
                            /\ Range(queue[t]) \subseteq Handoffs
                            /\ Range(drain[t].todo) \subseteq Handoffs
         /\ \A t \in Bots : drain[t].todo # <<>> => Item(t) \in Handoffs
         /\ \A h \in Handoffs : Source[h] \in Bots /\ Target[h] \in Bots
<1>1. \A t \in Bots : /\ drain[t] \in Drains /\ queue[t] \in Seq(Handoffs)
  BY DEF TypeOK
<1>2. \A t \in Bots : /\ drain[t].pc \in {"idle", "ready", "approval", "starting"}
                      /\ drain[t].todo \in Seq(Handoffs)
                      /\ drain[t].seen \subseteq Handoffs
                      /\ drain[t].again \in BOOLEAN
  BY <1>1 DEF Drains
<1>3. \A t \in Bots : /\ Range(queue[t]) \subseteq Handoffs
                      /\ Range(drain[t].todo) \subseteq Handoffs
  BY <1>1, <1>2, RangeOfSeq
<1>4. \A t \in Bots : drain[t].todo # <<>> => Item(t) \in Handoffs
  BY <1>2, HeadTailProperties DEF Item
<1> QED
  BY <1>2, <1>3, <1>4, DelegationsAssumption

(* A sequence is its head and its tail. *)
LEMMA HeadAndTail ==
  ASSUME NEW S, NEW s \in Seq(S), s # <<>>
  PROVE  /\ Tail(s) \in Seq(S) /\ Head(s) \in Range(s)
         /\ Range(s) = {Head(s)} \union Range(Tail(s))
<1>1. /\ Head(s) = s[1] /\ Len(s) \in Nat \ {0} /\ DOMAIN s = 1 .. Len(s)
      /\ Tail(s) \in Seq(S) /\ Len(Tail(s)) = Len(s) - 1
      /\ DOMAIN Tail(s) = 1 .. Len(s) - 1
      /\ \A i \in 1 .. Len(s) - 1 : Tail(s)[i] = s[i + 1]
  BY HeadTailProperties, LenProperties, EmptySeq
<1>2. 1 \in DOMAIN s
  BY <1>1
<1>3. ASSUME NEW i \in DOMAIN s, i # 1
      PROVE  s[i] \in Range(Tail(s))
  <2>1. i - 1 \in DOMAIN Tail(s) /\ Tail(s)[i - 1] = s[i]
    BY <1>1, <1>3
  <2> QED
    BY <2>1 DEF Range
<1>4. ASSUME NEW i \in DOMAIN Tail(s)
      PROVE  Tail(s)[i] \in Range(s)
  <2>1. i + 1 \in DOMAIN s /\ Tail(s)[i] = s[i + 1]
    BY <1>1, <1>4
  <2> QED
    BY <2>1 DEF Range
<1> QED
  BY <1>1, <1>2, <1>3, <1>4 DEF Range

(* Appending adds one element. *)
LEMMA AppendRange ==
  ASSUME NEW S, NEW s \in Seq(S), NEW e \in S
  PROVE  Range(Append(s, e)) = Range(s) \union {e}
<1>1. Append(s, e) = s \o <<e>> /\ <<e>> \in Seq(S)
  BY AppendIsConcat
<1>2. Range(<<e>>) = {e}
  BY DEF Range
<1>3. Range(s \o <<e>>) = Range(s) \union Range(<<e>>)
  BY <1>1, RangeConcatenation
<1> QED
  BY <1>1, <1>2, <1>3

(* Taking handoffs out of the queues takes nothing else. *)
LEMMA WithoutFacts ==
  ASSUME TypeOK, NEW S
  PROVE  /\ Without(S) \in [Bots -> Seq(Handoffs)]
         /\ \A t \in Bots : Range(Without(S)[t]) = Range(queue[t]) \ S
<1>1. \A t \in Bots : queue[t] \in Seq(Handoffs)
  BY DEF TypeOK
<1>2. \A t \in Bots : /\ Filter(queue[t], Handoffs \ S) \in Seq(Handoffs)
                      /\ Range(Filter(queue[t], Handoffs \ S)) = Range(queue[t]) \intersect (Handoffs \ S)
  BY <1>1, FilterRange
<1> QED
  BY <1>2, TypeFacts DEF Without

(* Whatever order drains begin in, each is listed once. *)
LEMMA SetToSeqsFacts ==
  ASSUME NEW S, IsFiniteSet(S), NEW f \in SetToSeqs(S)
  PROVE  /\ f \in Seq(S) /\ Range(f) \subseteq S
         /\ \A i, j \in DOMAIN f : f[i] = f[j] => i = j
<1>1. Cardinality(S) \in Nat
  BY FS_CardinalityType
<1>2. f \in [1 .. Cardinality(S) -> S] /\ \A i, j \in 1 .. Cardinality(S) : i # j => f[i] # f[j]
  BY DEF SetToSeqs
<1>3. f \in Seq(S)
  BY <1>1, <1>2
<1> QED
  BY <1>2, <1>3, RangeOfSeq

(* A snapshot is a ready drain of the whole queue. *)
LEMMA SnapshotFacts ==
  ASSUME NEW q \in Seq(Handoffs)
  PROVE  /\ Snapshot(q) = [pc |-> "ready", todo |-> q, seen |-> Range(q), again |-> FALSE]
         /\ Snapshot(q) \in Drains
<1>1. Snapshot(q) = [pc |-> "ready", todo |-> q, seen |-> Range(q), again |-> FALSE]
  BY DEF Snapshot
<1>2. Range(q) \subseteq Handoffs
  BY RangeOfSeq
<1> QED
  BY <1>1, <1>2 DEF Drains

(* A drain that goes on loses the head of its snapshot and nothing else. *)
LEMMA GoesOnEffect ==
  ASSUME TypeOK, NEW t \in Bots, drain[t].todo # <<>>, GoesOn(t)
  PROVE  /\ drain' \in [Bots -> Drains] /\ active' \in Seq(Bots)
         /\ \A s \in Bots : s # t => drain'[s] = drain[s]
         /\ drain'[t].pc = "ready"
         /\ drain'[t].todo = Tail(drain[t].todo)
         /\ drain'[t].seen = drain[t].seen /\ drain'[t].again = drain[t].again
         /\ Range(drain[t].todo) = {Item(t)} \union Range(drain'[t].todo)
<1> DEFINE d == drain[t]
           e == [pc |-> "ready", todo |-> Tail(d.todo), seen |-> d.seen, again |-> d.again]
<1>1. d \in Drains /\ d.todo \in Seq(Handoffs) /\ Tail(d.todo) \in Seq(Handoffs)
  BY HeadAndTail, TypeFacts DEF TypeOK
<1>2. e \in Drains
  BY <1>1 DEF Drains
<1>3. [[d EXCEPT !.todo = Tail(d.todo)] EXCEPT !.pc = "ready"] = e
  <2> DEFINE c == [pc |-> d.pc, todo |-> Tail(d.todo), seen |-> d.seen, again |-> d.again]
  <2>1. [d EXCEPT !.todo = Tail(d.todo)] = c
    BY <1>1 DEF Drains
  <2>2. [c EXCEPT !.pc = "ready"] = e
    OBVIOUS
  <2> QED
    BY <2>1, <2>2
<1>4. drain' = [drain EXCEPT ![t] = [[d EXCEPT !.todo = Tail(d.todo)] EXCEPT !.pc = "ready"]]
  BY DEF GoesOn, TypeOK
<1>5. drain' = [drain EXCEPT ![t] = e]
  BY <1>3, <1>4
<1>6. drain'[t] = e /\ drain' \in [Bots -> Drains] /\ \A s \in Bots : s # t => drain'[s] = drain[s]
  BY <1>2, <1>5 DEF TypeOK
<1>7. active' \in Seq(Bots)
  BY DEF GoesOn, TypeOK
<1> QED
  BY <1>1, <1>6, <1>7, HeadAndTail DEF Item

(* A drain that awaits something keeps its snapshot. *)
LEMMA AwaitsEffect ==
  ASSUME TypeOK, NEW t \in Bots, NEW pc \in {"approval", "starting"}, Awaits(t, pc)
  PROVE  /\ drain' \in [Bots -> Drains] /\ active' \in Seq(Bots)
         /\ \A s \in Bots : s # t => drain'[s] = drain[s]
         /\ drain'[t].pc = pc
         /\ drain'[t].todo = drain[t].todo
         /\ drain'[t].seen = drain[t].seen /\ drain'[t].again = drain[t].again
<1> DEFINE d == drain[t]
           e == [pc |-> pc, todo |-> d.todo, seen |-> d.seen, again |-> d.again]
<1>1. d \in Drains
  BY DEF TypeOK
<1>2. e \in Drains /\ [d EXCEPT !.pc = pc] = e
  BY <1>1 DEF Drains
<1>3. drain' = [drain EXCEPT ![t] = e]
  BY <1>2 DEF Awaits
<1>4. drain'[t] = e /\ drain' \in [Bots -> Drains] /\ \A s \in Bots : s # t => drain'[s] = drain[s]
  BY <1>2, <1>3 DEF TypeOK
<1>5. active' \in Seq(Bots)
  BY HeadAndTail DEF Awaits, TypeOK
<1> QED
  BY <1>4, <1>5

(* What is told to look again looks again; what begins has the whole queue. *)
LEMMA DrainEffect ==
  ASSUME TypeOK, NEW ts \in SUBSET Bots, Drain(ts, queue)
  PROVE  /\ drain' \in [Bots -> Drains] /\ active' \in Seq(Bots)
         /\ \A i, j \in DOMAIN active' : active'[i] = active'[j] => i = j
         /\ \A i \in DOMAIN active' : drain'[active'[i]].pc = "ready"
         /\ \A t \in Bots :
              \/ /\ drain[t].pc = "idle" /\ drain'[t] = Snapshot(queue[t])
              \/ /\ drain'[t].pc = drain[t].pc /\ drain'[t].todo = drain[t].todo
                 /\ drain'[t].seen = drain[t].seen
                 /\ drain[t].again => drain'[t].again
                 /\ t \in ts => queue[t] = <<>> \/ (drain[t].pc # "idle" /\ drain'[t].again)
<1> DEFINE begun == {t \in ts : drain[t].pc = "idle" /\ queue[t] # <<>>}
           told(t) == drain[t].again \/ (t \in ts /\ drain[t].pc # "idle")
           e(t) == [pc |-> drain[t].pc, todo |-> drain[t].todo, seen |-> drain[t].seen, again |-> told(t)]
<1>1. \A t \in Bots : drain[t] \in Drains /\ queue[t] \in Seq(Handoffs)
  BY DEF TypeOK
<1>2. ASSUME NEW t \in Bots
      PROVE  e(t) \in Drains /\ [drain[t] EXCEPT !.again = told(t)] = e(t)
  <2> DEFINE b == told(t)
  <2>1. b \in BOOLEAN
    BY <1>1 DEF Drains
  <2> HIDE DEF b
  <2>2. [drain[t] EXCEPT !.again = b] = [pc |-> drain[t].pc, todo |-> drain[t].todo, seen |-> drain[t].seen, again |-> b]
    BY <1>1 DEF Drains
  <2>3. [pc |-> drain[t].pc, todo |-> drain[t].todo, seen |-> drain[t].seen, again |-> b] \in Drains
    BY <1>1, <2>1 DEF Drains
  <2> QED
    BY <2>2, <2>3 DEF b
<1>3. drain' = [t \in Bots |-> IF t \in begun THEN Snapshot(queue[t]) ELSE [drain[t] EXCEPT !.again = told(t)]]
  BY DEF Drain
<1>4. \A t \in Bots : drain'[t] = IF t \in begun THEN Snapshot(queue[t]) ELSE e(t)
  BY <1>2, <1>3
<1>5. drain' \in [Bots -> Drains]
  <2> HIDE DEF begun, told, e
  <2>1. \A t \in Bots : drain'[t] \in Drains
    BY <1>1, <1>2, <1>4, SnapshotFacts
  <2> QED
    BY <1>3, <2>1
<1>6. active' \in SetToSeqs(begun) /\ IsFiniteSet(begun)
  BY DelegationsAssumption, FS_Subset DEF Drain
<1>7. /\ active' \in Seq(begun) /\ Range(active') \subseteq begun
      /\ \A i, j \in DOMAIN active' : active'[i] = active'[j] => i = j
  BY <1>6, SetToSeqsFacts
<1>8. active' \in Seq(Bots) /\ \A i \in DOMAIN active' : active'[i] \in begun
  BY <1>7, SeqMonotonic DEF Range
<1>9. \A i \in DOMAIN active' : drain'[active'[i]].pc = "ready"
  <2> TAKE i \in DOMAIN active'
  <2>1. active'[i] \in begun /\ active'[i] \in Bots
    BY <1>8
  <2>2. drain'[active'[i]] = Snapshot(queue[active'[i]])
    BY <1>4, <2>1
  <2> QED
    BY <1>1, <2>1, <2>2, SnapshotFacts
<1>10. ASSUME NEW t \in Bots, t \notin begun
       PROVE  /\ drain'[t].pc = drain[t].pc /\ drain'[t].todo = drain[t].todo
              /\ drain'[t].seen = drain[t].seen
              /\ drain'[t].again = told(t)
  <2> DEFINE b == told(t)
  <2>1. drain'[t] = [pc |-> drain[t].pc, todo |-> drain[t].todo, seen |-> drain[t].seen, again |-> b]
    BY <1>4, <1>10
  <2> HIDE DEF b
  <2>2. /\ drain'[t].pc = drain[t].pc /\ drain'[t].todo = drain[t].todo
        /\ drain'[t].seen = drain[t].seen
    BY <2>1
  <2>3. drain'[t].again = b
    BY <2>1
  <2> QED
    BY <2>2, <2>3 DEF b
<1> QED
  BY <1>4, <1>5, <1>7, <1>8, <1>9, <1>10

(* Turns that are wanted start on idle bots, and nothing else changes. *)
LEMMA WakeEffect ==
  ASSUME NEW busy, NEW S, Wake(S, busy)
  PROVE  /\ turn' = [t \in Bots |-> turn'[t]]
         /\ \A t \in Bots : \/ turn'[t] = busy[t]
                            \/ busy[t] = "idle" /\ turn'[t] = "wake" /\ t \notin offline
         /\ owed \subseteq owed' /\ owed' \subseteq owed \union Bots
         /\ unheard' \subseteq unheard \union S
  BY DEF Wake

-----------------------------------------------------------------------------
(* What a drain does with the head of its snapshot, wherever it resumes:   *)
(* after its last item, or with the user's answer.                         *)

Works(t) ==
  /\ drain[t].pc \in {"ready", "approval"} /\ drain[t].todo # <<>>
  /\ active = <<>> \/ (active # <<>> /\ Head(active) = t)

Rest ==
  /\ UNCHANGED <<retry, old, barred, offline, issued, fresh>>
  /\ granted' \subseteq NeedsApproval

Passes(t) ==
  /\ Works(t) /\ ~Queued(Item(t)) /\ GoesOn(t)
  /\ UNCHANGED <<ledger, work, starts, unheard>> /\ Rest

Settles(t) ==
  /\ Works(t) /\ Queued(Item(t))
  /\ \E outcome \in Outcomes : Settled(t, Item(t), outcome)
  /\ Rest

Parks(t) ==
  /\ Works(t) /\ Queued(Item(t)) /\ Busy(Target[Item(t)])
  /\ Held(t, Item(t))
  /\ Rest

Asks(t) ==
  /\ Works(t) /\ Queued(Item(t)) /\ Item(t) \in NeedsApproval
  /\ waiting' = waiting \ {Item(t)} /\ Awaits(t, "approval")
  /\ UNCHANGED <<queue, receipt, work, starts, unheard>>
  /\ Rest

Starts(t) ==
  /\ Works(t) /\ Queued(Item(t)) /\ Reachable(Item(t)) /\ ~Busy(Target[Item(t)])
  /\ Start(t, Item(t))
  /\ Rest

Resumes(t) == Passes(t) \/ Settles(t) \/ Parks(t) \/ Asks(t) \/ Starts(t)

(* Every step of a drain on its head has one of the five shapes. *)
LEMMA DrainSteps ==
  ASSUME TypeOK, QueuesInv, ActiveInv, NEW t \in Bots,
         DrainSkips(t) \/ DrainItem(t) \/ ApprovalAnswered(t)
  PROVE  Resumes(t)
<1>1. granted \subseteq NeedsApproval
  BY DEF TypeOK
<1>2. Now(t) => Head(active) = t /\ active # <<>> /\ drain[t].pc = "ready"
  <2> SUFFICES ASSUME Now(t) PROVE Head(active) = t /\ active # <<>> /\ drain[t].pc = "ready"
    OBVIOUS
  <2>1. active \in Seq(Bots) /\ active # <<>> /\ Head(active) = t
    BY DEF Now, TypeOK
  <2>2. 1 \in DOMAIN active /\ active[1] = t
    BY <2>1
  <2> QED
    BY <2>1, <2>2 DEF ActiveInv
<1>3. drain[t].pc = "approval" => drain[t].todo # <<>> /\ Item(t) \in NeedsApproval
  BY DEF QueuesInv
<1>4. ASSUME DrainSkips(t) PROVE Passes(t)
  BY <1>1, <1>2, <1>4 DEF DrainSkips, Passes, Works, Rest, ledger, world, history
<1>5. ASSUME AnsweredTooLate(t) PROVE Passes(t)
  BY <1>1, <1>3, <1>5 DEF AnsweredTooLate, Quiet, Passes, Works, Rest, ledger, world, history
<1>6. ASSUME Judge(t, Item(t)), Works(t), Queued(Item(t)), Rest
      PROVE  Settles(t) \/ Parks(t)
  BY <1>6 DEF Judge, Settles, Parks, Outcomes
<1>7. ASSUME DrainItem(t) PROVE Settles(t) \/ Parks(t) \/ Asks(t) \/ Starts(t)
  <2>1. Works(t) /\ Queued(Item(t)) /\ Rest
    BY <1>1, <1>2, <1>7 DEF DrainItem, Process, Works, Rest, world
  <2>2. CASE Judge(t, Item(t))
    BY <1>6, <2>1, <2>2
  <2>3. CASE ~Judge(t, Item(t))
    BY <1>7, <2>1, <2>3 DEF DrainItem, Process, Asks, Starts
  <2> QED
    BY <2>2, <2>3
<1>8. ASSUME Approved(t) PROVE Settles(t) \/ Parks(t) \/ Starts(t)
  <2>1. Works(t) /\ Queued(Item(t)) /\ Rest
    BY <1>1, <1>3, <1>8 DEF Approved, Quiet, Works, Rest, world
  <2>2. CASE Judge(t, Item(t))
    BY <1>6, <2>1, <2>2
  <2>3. CASE ~Judge(t, Item(t))
    BY <1>8, <2>1, <2>3 DEF Approved, Starts
  <2> QED
    BY <2>2, <2>3
<1>9. ASSUME Denied(t) PROVE Settles(t)
  BY <1>1, <1>3, <1>9 DEF Denied, Quiet, Settles, Works, Rest, world, Outcomes
<1> QED
  BY <1>4, <1>5, <1>7, <1>8, <1>9 DEF ApprovalAnswered, Resumes

(* Everything the program can do. *)
Step ==
  \/ \E t \in Bots : \/ Resumes(t) \/ DrainEnds(t) \/ StartAnswered(t) \/ Retry(t)
                     \/ Turns(t)
  \/ \E h \in Handoffs : QueueDelegation(h)
  \/ ExpireStale \/ World \/ Restart
  \/ UNCHANGED vars

(* The next-state relation in terms of those shapes. *)
LEMMA NextIsStep ==
  ASSUME TypeOK, QueuesInv, ActiveInv, [Next]_vars
  PROVE  Step
<1> USE DEF Step
<1>1. CASE Microtask
  BY <1>1, DrainSteps DEF Microtask
<1>2. CASE \E t \in Bots : ApprovalAnswered(t) \/ Turns(t)
  BY <1>2, DrainSteps
<1>3. CASE Restart \/ ExpireStale \/ World \/ (\E h \in Handoffs : QueueDelegation(h)) \/ UNCHANGED vars
  BY <1>3
<1> QED
  BY <1>1, <1>2, <1>3 DEF Next

-----------------------------------------------------------------------------
(* The invariant holds when the server starts. *)
LEMMA InitIInv == Init => IInv
<1> SUFFICES ASSUME Init PROVE IInv
  OBVIOUS
<1> USE DelegationsAssumption
<1>1. /\ queue = [t \in Bots |-> <<>>] /\ drain = [t \in Bots |-> NoDrain]
      /\ active = <<>> /\ watch = [b \in Bots |-> NoHandoff]
      /\ starts = [h \in Handoffs |-> 0] /\ receipt = [h \in Handoffs |-> "none"]
  BY DEF Init
<1>2. NoDrain \in Drains /\ NoDrain.pc = "idle" /\ NoDrain.todo = <<>>
  BY DEF NoDrain, Drains
<1>3. \A t \in Bots : Range(queue[t]) = {} /\ Range(drain[t].todo) = {}
  BY <1>1, <1>2 DEF Range
<1>4. \A h \in Handoffs : ~Queued(h)
  BY <1>3 DEF Queued
<1>5. TypeOK
  BY <1>1, <1>2 DEF Init, TypeOK
<1>6. QueuesInv
  BY <1>1, <1>2, <1>3 DEF QueuesInv
<1>7. ActiveInv
  BY <1>1 DEF ActiveInv
<1>8. OnceInv
  BY <1>1 DEF OnceInv
<1>9. StartingInv /\ WatchInv
  BY <1>1, <1>2 DEF StartingInv, WatchInv
<1>10. CoveredInv
  BY <1>4 DEF CoveredInv
<1> QED
  BY <1>5, <1>6, <1>7, <1>8, <1>9, <1>10 DEF IInv

(* Receipts of a set of handoffs. *)
LEMMA Watching ==
  ASSUME TypeOK, WatchInv, NEW b \in Bots
  PROVE  /\ Watched(b) \subseteq Handoffs /\ Watched(b) \subseteq issued
         /\ \A h \in Watched(b) : h = watch[b] /\ Target[h] = b
  BY DEF TypeOK, WatchInv, Watched

(* ComesFree keeps the types of what it changes. *)
LEMMA ComesFreeEffect ==
  ASSUME TypeOK, WatchInv, NEW b \in Bots, ComesFree(b)
  PROVE  /\ turn' \in [Bots -> {"idle", "user", "wake", "stalled"} \cup Handoffs]
         /\ watch' \in [Bots -> Handoffs \cup {NoHandoff}]
         /\ watch'[b] = NoHandoff /\ \A c \in Bots : c # b => watch'[c] = watch[c]
         /\ owed' \subseteq Bots /\ unheard' \subseteq issued
         /\ retry' = retry \cup {b} /\ retry' \subseteq Bots
         /\ \A c \in Bots : c # b => turn'[c] = turn[c] \/ (turn[c] = "idle" /\ turn'[c] = "wake")
<1>1. turn' \in [Bots -> {"idle", "user", "wake", "stalled"} \cup Handoffs]
  BY DEF ComesFree, TypeOK
<1>2. unheard' \subseteq issued
  BY Watching DEF ComesFree, TypeOK
<1>3. watch' \in [Bots -> Handoffs \cup {NoHandoff}] /\ watch' = [watch EXCEPT ![b] = NoHandoff]
  BY DEF ComesFree, TypeOK
<1>4. owed' \subseteq Bots /\ retry' \subseteq Bots
  BY DEF ComesFree, TypeOK
<1>5. \A c \in Bots : c # b => turn'[c] = turn[c] \/ (turn[c] = "idle" /\ turn'[c] = "wake")
  BY DEF ComesFree, TypeOK
<1> QED
  BY <1>1, <1>2, <1>3, <1>4, <1>5 DEF ComesFree, TypeOK

(* Wake keeps the types of what it changes. *)
LEMMA WakeTypes ==
  ASSUME TypeOK, NEW S \in SUBSET issued, NEW busy, Wake(S, busy),
         busy \in [Bots -> {"idle", "user", "wake", "stalled"} \cup Handoffs]
  PROVE  /\ turn' \in [Bots -> {"idle", "user", "wake", "stalled"} \cup Handoffs]
         /\ owed' \subseteq Bots /\ unheard' \subseteq issued
<1>1. turn' \in [Bots -> {"idle", "user", "wake", "stalled"} \cup Handoffs]
  BY DEF Wake
<1> QED
  BY <1>1, WakeEffect DEF TypeOK

(* Settle keeps the types of what it changes, and the queues only lose. *)
LEMMA SettleTypes ==
  ASSUME TypeOK, NEW S, NEW outcome \in Outcomes, Settle(S, outcome)
  PROVE  /\ queue' \in [Bots -> Seq(Handoffs)] /\ waiting' \subseteq Handoffs
         /\ receipt' \in [Handoffs -> Outcomes \cup {"none"}]
         /\ \A t \in Bots : Range(queue'[t]) = Range(queue[t]) \ S
  BY WithoutFacts DEF Settle, TypeOK

(* The head of the snapshot of a drain at work, while it is queued. *)
LEMMA ItemFacts ==
  ASSUME TypeOK, QueuesInv, NEW t \in Bots, Works(t), Queued(Item(t))
  PROVE  /\ Item(t) \in Handoffs /\ Item(t) \in issued
         /\ Source[Item(t)] = t /\ Target[Item(t)] \in Bots
         /\ drain[t].todo # <<>>
<1>1. drain[t].todo # <<>> /\ Item(t) \in Handoffs /\ Source[Item(t)] \in Bots /\ Target[Item(t)] \in Bots
  BY TypeFacts DEF Works
<1>2. Item(t) \in Range(drain[t].todo)
  BY <1>1, TypeFacts, HeadAndTail DEF Item
<1> QED
  BY <1>1, <1>2 DEF QueuesInv, Queued

(* What a start does to the turns, the watches and the counts. *)
LEMMA StartEffect ==
  ASSUME TypeOK, NEW t \in Bots, Item(t) \in Handoffs, Start(t, Item(t)),
         NEW b \in Bots, b = Target[Item(t)]
  PROVE  /\ watch' \in [Bots -> Handoffs \cup {NoHandoff}]
         /\ watch'[b] = Item(t) /\ \A c \in Bots : c # b => watch'[c] = watch[c]
         /\ turn' \in [Bots -> {"idle", "user", "wake", "stalled"} \cup Handoffs]
         /\ starts' \in [Handoffs -> Nat] /\ unheard' \subseteq unheard
         /\ \A c \in Bots : c # b => turn'[c] = turn[c]
         /\ \A h \in Handoffs : h # Item(t) => starts'[h] = starts[h]
         /\ \/ b \in offline /\ turn' = turn /\ starts' = starts
            \/ turn'[b] = Item(t) /\ starts'[Item(t)] = starts[Item(t)] + 1
<1> DEFINE h == Item(t)
<1>1. watch' = [watch EXCEPT ![b] = h]
  BY DEF Start
<1>2. CASE b \in offline
  <2>1. turn' = turn /\ starts' = starts /\ unheard' = unheard
    BY <1>2 DEF Start
  <2> QED
    BY <1>1, <1>2, <2>1 DEF TypeOK
<1>3. CASE b \notin offline
  <2>1. /\ turn' = [turn EXCEPT ![b] = h]
        /\ starts' = [starts EXCEPT ![h] = starts[h] + 1]
        /\ unheard' = {g \in unheard : Source[g] # b}
    BY <1>3 DEF Start
  <2>2. starts[h] + 1 \in Nat
    BY DEF TypeOK
  <2>3. /\ starts' \in [Handoffs -> Nat] /\ starts'[h] = starts[h] + 1
        /\ \A g \in Handoffs : g # h => starts'[g] = starts[g]
    BY <2>1, <2>2 DEF TypeOK
  <2>4. /\ turn' \in [Bots -> {"idle", "user", "wake", "stalled"} \cup Handoffs]
        /\ turn'[b] = h /\ \A c \in Bots : c # b => turn'[c] = turn[c]
    BY <2>1 DEF TypeOK
  <2> QED
    BY <1>1, <2>1, <2>3, <2>4 DEF TypeOK
<1> QED
  BY <1>2, <1>3

(* Types are preserved by every step. *)
LEMMA TypeOKStep ==
  ASSUME TypeOK, QueuesInv, ActiveInv, WatchInv, [Next]_vars
  PROVE  TypeOK'
<1> USE DelegationsAssumption
<1>1. ASSUME NEW t \in Bots, Works(t), Queued(Item(t))
      PROVE  Item(t) \in Handoffs /\ Item(t) \in issued /\ Target[Item(t)] \in Bots /\ drain[t].todo # <<>>
  BY <1>1, ItemFacts
<1>2. ASSUME NEW t \in Bots, Passes(t)
      PROVE  TypeOK'
  BY <1>2, GoesOnEffect DEF TypeOK, Passes, Works, Rest, ledger, work
<1>3. ASSUME NEW t \in Bots, Settles(t)
      PROVE  TypeOK'
  <2>1. PICK outcome \in Outcomes : Settled(t, Item(t), outcome)
    BY <1>3 DEF Settles
  <2>2. {Item(t)} \in SUBSET issued /\ drain[t].todo # <<>>
    BY <1>1, <1>3 DEF Settles
  <2>3. GoesOn(t) /\ Settle({Item(t)}, outcome) /\ Wake({Item(t)}, turn) /\ UNCHANGED <<watch, starts>> /\ Rest
    BY <1>3, <2>1 DEF Settles, Settled
  <2> QED
    BY <2>2, <2>3, GoesOnEffect, SettleTypes, WakeTypes DEF TypeOK, Rest
<1>4. ASSUME NEW t \in Bots, Parks(t)
      PROVE  TypeOK'
  BY <1>1, <1>4, GoesOnEffect DEF TypeOK, Parks, Held, Rest, work
<1>5. ASSUME NEW t \in Bots, Asks(t)
      PROVE  TypeOK'
  BY <1>1, <1>5, AwaitsEffect DEF TypeOK, Asks, Rest, work
<1>6. ASSUME NEW t \in Bots, Starts(t)
      PROVE  TypeOK'
  <2>1. Item(t) \in Handoffs /\ Target[Item(t)] \in Bots /\ Start(t, Item(t)) /\ Rest
    BY <1>1, <1>6 DEF Starts
  <2>2. /\ Awaits(t, "starting") /\ waiting' \subseteq waiting
        /\ UNCHANGED <<queue, receipt, owed>>
    BY <2>1 DEF Start
  <2> QED
    BY <2>1, <2>2, StartEffect, AwaitsEffect DEF TypeOK, Rest
<1>7. ASSUME NEW t \in Bots, DrainEnds(t)
      PROVE  TypeOK'
  <2>1. active \in Seq(Bots) /\ active # <<>> /\ Tail(active) \in Seq(Bots)
    BY <1>7, HeadAndTail DEF TypeOK, DrainEnds, Now
  <2>2. Snapshot(queue[t]) \in Drains /\ NoDrain \in Drains
    <3>1. queue[t] \in Seq(Handoffs)
      BY DEF TypeOK
    <3>2. NoDrain \in Drains
      BY DEF NoDrain, Drains
    <3> QED
      BY <3>1, <3>2, SnapshotFacts
  <2>3. \E e \in Drains : drain' = [drain EXCEPT ![t] = e]
    BY <1>7, <2>2 DEF DrainEnds
  <2>4. active' \in Seq(Bots)
    BY <1>7, <2>1 DEF DrainEnds
  <2> QED
    BY <1>7, <2>3, <2>4 DEF TypeOK, DrainEnds, ledger, work, world, history
<1>8. ASSUME NEW t \in Bots, StartAnswered(t)
      PROVE  TypeOK'
  <2> DEFINE h == Item(t)
             b == Target[h]
             S == IF turn[b] = h THEN {} ELSE Watched(b)
  <2>1. drain[t].todo # <<>> /\ h \in Handoffs /\ b \in Bots
    BY <1>8, TypeFacts DEF StartAnswered, QueuesInv
  <2>2. /\ queue' = Without({h}) /\ Wake(S, turn) /\ GoesOn(t)
        /\ receipt' = [g \in Handoffs |-> IF g \in S THEN "failed" ELSE receipt[g]]
        /\ watch' = IF S = {} THEN watch ELSE [watch EXCEPT ![b] = NoHandoff]
        /\ UNCHANGED <<waiting, granted, retry, world, issued, starts, fresh>>
    BY <1>8 DEF StartAnswered
  <2>3. S \in SUBSET issued
    BY <2>1, Watching
  <2> HIDE DEF S, h, b
  <2>4. receipt' \in [Handoffs -> Outcomes \cup {"none"}] /\ watch' \in [Bots -> Handoffs \cup {NoHandoff}]
    BY <2>1, <2>2 DEF TypeOK, Outcomes
  <2> QED
    BY <2>1, <2>2, <2>3, <2>4, GoesOnEffect, WithoutFacts, WakeTypes DEF TypeOK, world
<1>9. ASSUME NEW b \in Bots, Retry(b)
      PROVE  TypeOK'
  <2> DEFINE freed == {h \in waiting : Target[h] = b /\ Queued(h) /\ ~Busy(b)}
             released == {Source[h] : h \in freed}
  <2>1. released \in SUBSET Bots /\ Drain(released, queue)
    BY <1>9 DEF Retry, TypeOK
  <2>2. retry' \subseteq Bots /\ waiting' \subseteq Handoffs
        /\ UNCHANGED <<queue, granted, receipt, work, world, history>>
    BY <1>9 DEF Retry, TypeOK
  <2> HIDE DEF released
  <2> QED
    BY <2>1, <2>2, DrainEffect DEF TypeOK, work, world, history
<1>10. ASSUME NEW b \in Bots, UserTurn(b)
       PROVE  TypeOK'
  BY <1>10 DEF TypeOK, UserTurn, ledger, world
<1>11. ASSUME NEW b \in Bots, TurnCompletes(b)
       PROVE  TypeOK'
  <2>1. {b} \in SUBSET Bots /\ Drain({b}, queue) /\ ComesFree(b)
    BY <1>11 DEF TurnCompletes
  <2>2. receipt' \in [Handoffs -> Outcomes \cup {"none"}] /\ fresh' \subseteq fresh
    BY <1>11 DEF TurnCompletes, TypeOK, Outcome, Outcomes
  <2>3. UNCHANGED <<queue, waiting, granted, world, issued, starts>>
    BY <1>11 DEF TurnCompletes
  <2> QED
    BY <2>1, <2>2, <2>3, DrainEffect, ComesFreeEffect DEF TypeOK, world
<1>12. ASSUME NEW b \in Bots, TurnFails(b)
       PROVE  TypeOK'
  <2>1. ComesFree(b) /\ waiting' \subseteq waiting /\ fresh' \subseteq fresh
    BY <1>12 DEF TurnFails
  <2>2. receipt' \in [Handoffs -> Outcomes \cup {"none"}] /\ queue' \in [Bots -> Seq(Handoffs)]
    BY <1>12 DEF TurnFails, TypeOK, Outcomes
  <2>3. UNCHANGED <<granted, drain, active, world, issued, starts>>
    BY <1>12 DEF TurnFails
  <2> QED
    BY <2>1, <2>2, <2>3, ComesFreeEffect DEF TypeOK, world
<1>13. ASSUME NEW b \in Bots, SetupFails(b) \/ ReleaseOwnership(b)
       PROVE  TypeOK'
  <2>1. /\ ComesFree(b)
        /\ UNCHANGED <<queue, waiting, granted, drain, active, world, issued, starts, fresh>>
    BY <1>13 DEF SetupFails, ReleaseOwnership, ledger
  <2>2. receipt' \in [Handoffs -> Outcomes \cup {"none"}]
    BY <1>13 DEF SetupFails, ReleaseOwnership, ledger, TypeOK, Outcomes
  <2> QED
    BY <2>1, <2>2, ComesFreeEffect DEF TypeOK, world
<1>14. ASSUME NEW b \in Bots, TurnStalls(b)
       PROVE  TypeOK'
  <2>1. /\ Wake(Watched(b), [turn EXCEPT ![b] = "stalled"])
        /\ receipt' \in [Handoffs -> Outcomes \cup {"none"}]
        /\ watch' \in [Bots -> Handoffs \cup {NoHandoff}]
        /\ [turn EXCEPT ![b] = "stalled"] \in [Bots -> {"idle", "user", "wake", "stalled"} \cup Handoffs]
        /\ UNCHANGED <<queue, waiting, granted, drain, active, retry, world, issued, starts, fresh>>
    BY <1>14 DEF TurnStalls, TypeOK, Outcomes
  <2>2. Watched(b) \in SUBSET issued
    BY Watching
  <2> QED
    BY <2>1, <2>2, WakeTypes DEF TypeOK, world
<1>15. ASSUME NEW h \in Handoffs, QueueDelegation(h)
       PROVE  TypeOK'
  <2>1. queue' \in [Bots -> Seq(Handoffs)]
    BY <1>15 DEF QueueDelegation, TypeOK
  <2> QED
    BY <1>15, <2>1 DEF QueueDelegation, TypeOK, work, world
<1>16. ASSUME ExpireStale
       PROVE  TypeOK'
  <2>1. Stuck \in SUBSET issued
    BY DEF Stuck, TypeOK
  <2>2. Settle(Stuck, "expired") /\ Wake(Stuck, turn) /\ "expired" \in Outcomes
    BY <1>16 DEF ExpireStale, Outcomes
  <2>3. UNCHANGED <<granted, drain, active, retry, watch, world, issued, starts, fresh>>
    BY <1>16 DEF ExpireStale
  <2> QED
    BY <2>1, <2>2, <2>3, SettleTypes, WakeTypes DEF TypeOK, world
<1>17. ASSUME World
       PROVE  TypeOK'
  <2>1. ASSUME NEW h \in Handoffs, WindowElapses(h) PROVE TypeOK'
    <3>1. h \in issued
      BY <2>1 DEF WindowElapses, QueuesInv, Queued
    <3> QED
      BY <2>1, <3>1 DEF WindowElapses, TypeOK, ledger, work, history
  <2>2. ASSUME NEW b, Bar(b) PROVE TypeOK'
    BY <2>2 DEF Bar, TypeOK, ledger, work, history
  <2>3. ASSUME NEW b, ProviderComesOrGoes(b) PROVE TypeOK'
    BY <2>3 DEF ProviderComesOrGoes, TypeOK, ledger, work, history
  <2> QED
    BY <1>17, <2>1, <2>2, <2>3 DEF World
<1>18. ASSUME Restart
       PROVE  TypeOK'
  <2> DEFINE left == {t \in Bots : queue[t] # <<>>}
  <2>1. active' \in SetToSeqs(left) /\ IsFiniteSet(left)
    BY <1>18, FS_Subset DEF Restart
  <2>2. active' \in Seq(Bots)
    BY <2>1, SetToSeqsFacts, SeqMonotonic
  <2>3. drain' = [t \in Bots |-> IF t \in left THEN Snapshot(queue[t]) ELSE NoDrain]
    BY <1>18 DEF Restart
  <2>4. drain' \in [Bots -> Drains]
    BY <2>3, SnapshotFacts DEF TypeOK, NoDrain, Drains
  <2> QED
    BY <1>18, <2>2, <2>4 DEF Restart, TypeOK, ledger
<1>19. CASE UNCHANGED vars
  BY <1>19 DEF vars, ledger, work, world, history, TypeOK
<1>20. Step
  BY NextIsStep
<1> QED
  BY <1>2, <1>3, <1>4, <1>5, <1>6, <1>7, <1>8, <1>9, <1>10, <1>11, <1>12, <1>13, <1>14, <1>15, <1>16, <1>17, <1>18, <1>19, <1>20 DEF Step, Resumes, Turns

-----------------------------------------------------------------------------
(* Queues and snapshots stay with their thread. *)

(* Most steps take handoffs from queues and snapshots, or put the queue of *)
(* a thread into its snapshot.                                             *)
LEMMA QueuesShrink ==
  ASSUME QueuesInv, issued \subseteq issued',
         \A t \in Bots : Range(queue'[t]) \subseteq Range(queue[t]),
         \A t \in Bots : Range(drain'[t].todo) \subseteq Range(drain[t].todo) \cup Range(queue[t]),
         \A t \in Bots : drain'[t].pc \in {"approval", "starting"} =>
            \/ drain'[t].pc = drain[t].pc /\ drain'[t].todo = drain[t].todo
            \/ /\ drain'[t].todo # <<>>
               /\ drain'[t].pc = "approval" => Head(drain'[t].todo) \in NeedsApproval
  PROVE  QueuesInv'
  BY DEF QueuesInv, Item

(* Every step keeps queues and snapshots with their thread. *)
LEMMA QueuesInvStep ==
  ASSUME TypeOK, QueuesInv, ActiveInv, [Next]_vars
  PROVE  QueuesInv'
<1>1. ASSUME NEW t \in Bots, Passes(t)
      PROVE  QueuesInv'
  BY <1>1, GoesOnEffect, QueuesShrink DEF Passes, Works, Rest, ledger
<1>2. ASSUME NEW t \in Bots, Settles(t)
      PROVE  QueuesInv'
  <2>1. PICK outcome \in Outcomes : Settled(t, Item(t), outcome)
    BY <1>2 DEF Settles
  <2>2. GoesOn(t) /\ Settle({Item(t)}, outcome) /\ Rest /\ drain[t].todo # <<>>
    BY <1>2, <2>1 DEF Settles, Settled, Works
  <2> QED
    BY <2>2, GoesOnEffect, SettleTypes, QueuesShrink DEF Rest
<1>3. ASSUME NEW t \in Bots, Parks(t)
      PROVE  QueuesInv'
  BY <1>3, GoesOnEffect, QueuesShrink DEF Parks, Held, Works, Rest
<1>4. ASSUME NEW t \in Bots, Asks(t)
      PROVE  QueuesInv'
  BY <1>4, AwaitsEffect, QueuesShrink DEF Asks, Works, Rest, Item
<1>5. ASSUME NEW t \in Bots, Starts(t)
      PROVE  QueuesInv'
  BY <1>5, AwaitsEffect, QueuesShrink DEF Starts, Start, Works, Rest
<1>6. ASSUME NEW t \in Bots, DrainEnds(t)
      PROVE  QueuesInv'
  <2>1. UNCHANGED <<queue, issued>>
    BY <1>6 DEF DrainEnds, ledger, history
  <2>2. queue[t] \in Seq(Handoffs)
    BY DEF TypeOK
  <2>3. \E e \in {Snapshot(queue[t]), NoDrain} : drain' = [drain EXCEPT ![t] = e]
    BY <1>6 DEF DrainEnds
  <2>4. PICK e \in {Snapshot(queue[t]), NoDrain} : drain'[t] = e /\ \A s \in Bots : s # t => drain'[s] = drain[s]
    BY <2>3 DEF TypeOK
  <2>5. e.pc \notin {"approval", "starting"} /\ Range(e.todo) \subseteq Range(queue[t])
    BY <2>2, SnapshotFacts DEF NoDrain, Range
  <2> QED
    BY <2>1, <2>4, <2>5, QueuesShrink
<1>7. ASSUME NEW t \in Bots, StartAnswered(t)
      PROVE  QueuesInv'
  <2>1. drain[t].todo # <<>> /\ GoesOn(t) /\ queue' = Without({Item(t)}) /\ UNCHANGED issued
    BY <1>7 DEF StartAnswered, QueuesInv
  <2>2. \A s \in Bots : Range(Without({Item(t)})[s]) = Range(queue[s]) \ {Item(t)}
    BY WithoutFacts
  <2>3. \A s \in Bots : Range(queue'[s]) \subseteq Range(queue[s])
    BY <2>1, <2>2
  <2> QED
    BY <2>1, <2>3, GoesOnEffect, QueuesShrink
<1>8. ASSUME NEW ts \in SUBSET Bots, Drain(ts, queue), UNCHANGED <<queue, issued>>
      PROVE  QueuesInv'
  <2>1. \A t \in Bots : \/ drain'[t] = Snapshot(queue[t])
                        \/ drain'[t].pc = drain[t].pc /\ drain'[t].todo = drain[t].todo
    BY <1>8, DrainEffect
  <2>2. \A t \in Bots : Snapshot(queue[t]).pc = "ready" /\ Snapshot(queue[t]).todo = queue[t]
    BY SnapshotFacts DEF TypeOK
  <2> QED
    BY <1>8, <2>1, <2>2, QueuesShrink
<1>9. ASSUME NEW b \in Bots, Retry(b) \/ TurnCompletes(b)
      PROVE  QueuesInv'
  <2>1. CASE Retry(b)
    <3> DEFINE released == {Source[h] : h \in {h \in waiting : Target[h] = b /\ Queued(h) /\ ~Busy(b)}}
    <3>1. released \in SUBSET Bots
      BY DelegationsAssumption DEF TypeOK
    <3>2. Drain(released, queue) /\ UNCHANGED <<queue, issued>>
      BY <2>1 DEF Retry, history
    <3> QED
      BY <3>1, <3>2, <1>8
  <2>2. CASE TurnCompletes(b)
    BY <2>2, <1>8 DEF TurnCompletes
  <2> QED
    BY <1>9, <2>1, <2>2
<1>10. ASSUME NEW b \in Bots, TurnFails(b)
       PROVE  QueuesInv'
  <2>1. UNCHANGED <<drain, issued>> /\ queue' = [queue EXCEPT ![b] = <<>>]
    BY <1>10 DEF TurnFails
  <2>2. \A t \in Bots : queue'[t] = queue[t] \/ queue'[t] = <<>>
    BY <2>1 DEF TypeOK
  <2>3. Range(<<>>) = {}
    BY DEF Range
  <2> QED
    BY <2>1, <2>2, <2>3, QueuesShrink
<1>11. ASSUME NEW b \in Bots, UserTurn(b) \/ SetupFails(b) \/ TurnStalls(b) \/ ReleaseOwnership(b)
       PROVE  QueuesInv'
  BY <1>11, QueuesShrink DEF UserTurn, SetupFails, TurnStalls, ReleaseOwnership, ledger
<1>12. ASSUME NEW h \in Handoffs, QueueDelegation(h)
       PROVE  QueuesInv'
  <2> DEFINE s == Source[h]
  <2>1. s \in Bots /\ queue[s] \in Seq(Handoffs)
    BY DelegationsAssumption DEF TypeOK
  <2>2. queue'[s] = Append(queue[s], h) /\ \A t \in Bots : t # s => queue'[t] = queue[t]
    BY <1>12, <2>1 DEF QueueDelegation, TypeOK
  <2>3. Range(queue'[s]) = Range(queue[s]) \union {h}
    BY <2>1, <2>2, AppendRange
  <2>4. issued' = issued \union {h} /\ drain' = drain
    BY <1>12 DEF QueueDelegation
  <2>5. ASSUME NEW t \in Bots, NEW g \in Range(queue'[t])
        PROVE  Source[g] = t /\ g \in issued'
    <3>1. CASE t = s
      BY <2>1, <2>3, <2>4, <2>5, <3>1 DEF QueuesInv
    <3>2. CASE t # s
      BY <2>2, <2>4, <2>5, <3>2 DEF QueuesInv
    <3> QED
      BY <3>1, <3>2
  <2> QED
    BY <2>4, <2>5 DEF QueuesInv, Item
<1>13. ASSUME ExpireStale
       PROVE  QueuesInv'
  BY <1>13, SettleTypes, QueuesShrink DEF ExpireStale, Outcomes
<1>14. CASE World \/ UNCHANGED vars
  <2>1. UNCHANGED <<queue, drain, issued>>
    BY <1>14 DEF World, WindowElapses, Bar, ProviderComesOrGoes, vars, ledger, history
  <2> QED
    BY <2>1, QueuesShrink
<1>15. ASSUME Restart
       PROVE  QueuesInv'
  <2>1. /\ drain' = [t \in Bots |-> IF queue[t] # <<>> THEN Snapshot(queue[t]) ELSE NoDrain]
        /\ UNCHANGED <<queue, issued>>
    BY <1>15 DEF Restart, ledger
  <2>2. ASSUME NEW t \in Bots
        PROVE  drain'[t].pc \notin {"approval", "starting"} /\ Range(drain'[t].todo) \subseteq Range(queue[t])
    <3>1. queue[t] \in Seq(Handoffs)
      BY DEF TypeOK
    <3> QED
      BY <2>1, <3>1, SnapshotFacts DEF NoDrain, Range
  <2> QED
    BY <2>1, <2>2, QueuesShrink
<1>16. Step
  BY NextIsStep
<1> QED
  BY <1>1, <1>2, <1>3, <1>4, <1>5, <1>6, <1>7, <1>9, <1>10, <1>11, <1>12, <1>13, <1>14, <1>15, <1>16 DEF Step, Resumes, Turns

(* A drain runs in its turn, and only once it is ready. *)
LEMMA ActiveInvStep ==
  ASSUME TypeOK, QueuesInv, ActiveInv, [Next]_vars
  PROVE  ActiveInv'
<1>1. ASSUME NEW t \in Bots, drain[t].todo # <<>>, GoesOn(t), active = <<>> \/ Head(active) = t
      PROVE  ActiveInv'
  <2>1. drain'[t].pc = "ready" /\ \A s \in Bots : s # t => drain'[s] = drain[s]
    BY <1>1, GoesOnEffect
  <2>2. active \in Seq(Bots) /\ \A i \in DOMAIN active : active[i] \in Bots
    BY DEF TypeOK
  <2>3. CASE active = <<>>
    <3>1. active' = <<t>>
      BY <1>1, <2>3 DEF GoesOn
    <3>2. DOMAIN active' = {1} /\ active'[1] = t
      BY <3>1
    <3> QED
      BY <2>1, <3>2 DEF ActiveInv
  <2>4. CASE active # <<>>
    BY <1>1, <2>1, <2>2, <2>4 DEF GoesOn, ActiveInv
  <2> QED
    BY <2>3, <2>4
(* The one that is at the head of the list leaves it. *)
<1>2. ASSUME NEW t \in Bots, active # <<>>, Head(active) = t, active' = Tail(active),
             \A s \in Bots : s # t => drain'[s] = drain[s]
      PROVE  ActiveInv'
  <2>1. /\ active \in Seq(Bots) /\ \A i \in DOMAIN active : active[i] \in Bots
        /\ DOMAIN active = 1 .. Len(active) /\ Len(active) \in Nat \ {0} /\ active[1] = t
    BY <1>2 DEF TypeOK
  <2>2. /\ DOMAIN active' = 1 .. Len(active) - 1
        /\ \A i \in 1 .. Len(active) - 1 : active'[i] = active[i + 1]
    BY <1>2, <2>1, HeadTailProperties, LenProperties
  <2>3. ASSUME NEW i \in DOMAIN active'
        PROVE  i \in Int /\ i + 1 \in DOMAIN active /\ active'[i] = active[i + 1] /\ active[i + 1] # t /\ active[i + 1] \in Bots
    BY <2>1, <2>2, <2>3 DEF ActiveInv
  <2>4. \A i \in DOMAIN active' : drain'[active'[i]].pc = "ready"
    BY <1>2, <2>3 DEF ActiveInv
  <2>5. \A i, j \in DOMAIN active' : active'[i] = active'[j] => i = j
    <3> TAKE i, j \in DOMAIN active'
    <3>1. active'[i] = active'[j] => i + 1 = j + 1
      BY <2>3 DEF ActiveInv
    <3> QED
      BY <2>3, <3>1
  <2> QED
    BY <2>4, <2>5 DEF ActiveInv
<1>3. ASSUME NEW t \in Bots, NEW pc \in {"approval", "starting"}, Awaits(t, pc), active = <<>> \/ Head(active) = t
      PROVE  ActiveInv'
  <2>1. \A s \in Bots : s # t => drain'[s] = drain[s]
    BY <1>3, AwaitsEffect
  <2>2. CASE active = <<>>
    BY <1>3, <2>2 DEF Awaits, ActiveInv
  <2>3. CASE active # <<>>
    BY <1>2, <1>3, <2>1, <2>3 DEF Awaits
  <2> QED
    BY <2>2, <2>3
<1>4. ASSUME NEW t \in Bots, Resumes(t)
      PROVE  ActiveInv'
  <2>1. drain[t].todo # <<>> /\ (active = <<>> \/ Head(active) = t)
    BY <1>4 DEF Resumes, Passes, Settles, Parks, Asks, Starts, Works
  <2>2. GoesOn(t) \/ \E pc \in {"approval", "starting"} : Awaits(t, pc)
    BY <1>4 DEF Resumes, Passes, Settles, Settled, Parks, Held, Asks, Starts, Start
  <2> QED
    BY <1>1, <1>3, <2>1, <2>2
<1>5. ASSUME NEW t \in Bots, DrainEnds(t)
      PROVE  ActiveInv'
  <2>1. active # <<>> /\ Head(active) = t /\ active \in Seq(Bots)
    BY <1>5 DEF DrainEnds, Now, TypeOK
  <2>2. CASE drain' = [drain EXCEPT ![t] = Snapshot(queue[t])] /\ UNCHANGED active
    <3>1. drain'[t].pc = "ready" /\ \A s \in Bots : s # t => drain'[s] = drain[s]
      BY <2>2, SnapshotFacts DEF TypeOK
    <3>2. \A i \in DOMAIN active : active[i] \in Bots
      BY <2>1
    <3> QED
      BY <2>2, <3>1, <3>2 DEF ActiveInv
  <2>3. CASE drain' = [drain EXCEPT ![t] = NoDrain] /\ active' = Tail(active)
    <3>1. \A s \in Bots : s # t => drain'[s] = drain[s]
      BY <2>3 DEF TypeOK
    <3> QED
      BY <1>2, <2>1, <2>3, <3>1
  <2> QED
    BY <1>5, <2>2, <2>3 DEF DrainEnds
<1>6. ASSUME NEW t \in Bots, StartAnswered(t)
      PROVE  ActiveInv'
  <2>1. drain[t].todo # <<>> /\ GoesOn(t) /\ active = <<>>
    BY <1>6 DEF StartAnswered, QueuesInv
  <2> QED
    BY <1>1, <2>1
<1>7. ASSUME NEW ts \in SUBSET Bots, Drain(ts, queue)
      PROVE  ActiveInv'
  <2>1. \A i \in DOMAIN active' : drain'[active'[i]].pc = "ready"
    BY <1>7, DrainEffect
  <2>2. \A i, j \in DOMAIN active' : active'[i] = active'[j] => i = j
    BY <1>7, DrainEffect
  <2> QED
    BY <2>1, <2>2 DEF ActiveInv
<1>8. ASSUME NEW b \in Bots, Retry(b) \/ TurnCompletes(b)
      PROVE  ActiveInv'
  <2>1. CASE Retry(b)
    <3> DEFINE released == {Source[h] : h \in {h \in waiting : Target[h] = b /\ Queued(h) /\ ~Busy(b)}}
    <3>1. released \in SUBSET Bots
      BY DelegationsAssumption DEF TypeOK
    <3>2. Drain(released, queue)
      BY <2>1 DEF Retry
    <3> QED
      BY <3>1, <3>2, <1>7
  <2>2. CASE TurnCompletes(b)
    BY <2>2, <1>7 DEF TurnCompletes
  <2> QED
    BY <1>8, <2>1, <2>2
<1>9. ASSUME UNCHANGED <<drain, active>>
      PROVE  ActiveInv'
  BY <1>9 DEF ActiveInv
<1>10. ASSUME NEW b \in Bots, UserTurn(b) \/ TurnFails(b) \/ SetupFails(b) \/ TurnStalls(b) \/ ReleaseOwnership(b)
       PROVE  ActiveInv'
  BY <1>9, <1>10 DEF UserTurn, TurnFails, SetupFails, TurnStalls, ReleaseOwnership
<1>11. CASE World \/ ExpireStale \/ (\E h \in Handoffs : QueueDelegation(h)) \/ UNCHANGED vars
  BY <1>9, <1>11 DEF World, WindowElapses, Bar, ProviderComesOrGoes, ExpireStale, QueueDelegation, vars
<1>12. ASSUME Restart
       PROVE  ActiveInv'
  <2> DEFINE left == {t \in Bots : queue[t] # <<>>}
  <2>1. active' \in SetToSeqs(left) /\ IsFiniteSet(left)
    BY <1>12, DelegationsAssumption, FS_Subset DEF Restart
  <2>2. /\ \A i \in DOMAIN active' : active'[i] \in left
        /\ \A i, j \in DOMAIN active' : active'[i] = active'[j] => i = j
    BY <2>1, SetToSeqsFacts DEF Range
  <2>3. \A t \in left : drain'[t] = Snapshot(queue[t]) /\ queue[t] \in Seq(Handoffs)
    BY <1>12 DEF Restart, TypeOK
  <2> QED
    BY <2>2, <2>3, SnapshotFacts DEF ActiveInv
<1>13. Step
  BY NextIsStep
<1> QED
  BY <1>4, <1>5, <1>6, <1>8, <1>10, <1>11, <1>12, <1>13 DEF Step, Turns

-----------------------------------------------------------------------------
(* A handoff that was issued and has left its queue, or is about to.       *)
Gone(h) == h \in issued /\ (Queued(h) => At(h))

(* Between two events no start is awaited. *)
LEMMA QuietFacts ==
  ASSUME Quiet
  PROVE  \A h \in Handoffs : ~At(h)
  BY DelegationsAssumption DEF Quiet, At

(* The head of the snapshot of a drain at work is queued and not starting. *)
LEMMA AtWork ==
  ASSUME TypeOK, QueuesInv, NEW t \in Bots, Works(t), Queued(Item(t))
  PROVE  ~At(Item(t)) /\ ~Gone(Item(t))
  BY ItemFacts DEF Works, At, Gone

(* A handoff is queued once. *)
LEMMA NothingIsRequeued ==
  ASSUME TypeOK, QueuesInv, ActiveInv, [Next]_vars, NEW h \in issued, ~Queued(h)
  PROVE  ~Queued(h)' /\ h \in issued'
<1> DEFINE s == Source[h]
<1>1. h \in Handoffs /\ s \in Bots /\ h \notin Range(queue[s])
  BY DelegationsAssumption DEF TypeOK, Queued
<1>2. SUFFICES h \notin Range(queue'[s]) /\ issued \subseteq issued'
  BY DEF Queued
<1>3. ASSUME NEW t \in Bots, Resumes(t)
      PROVE  h \notin Range(queue'[s]) /\ issued \subseteq issued'
  <2>1. issued' = issued
    BY <1>3 DEF Resumes, Passes, Settles, Parks, Asks, Starts, Rest
  <2>2. CASE Settles(t)
    BY <1>1, <2>1, <2>2, SettleTypes DEF Settles, Settled
  <2>3. CASE ~Settles(t)
    BY <1>1, <1>3, <2>1, <2>3 DEF Resumes, Passes, Parks, Held, Asks, Starts, Start, ledger
  <2> QED
    BY <2>2, <2>3
<1>4. ASSUME NEW t \in Bots, StartAnswered(t)
      PROVE  h \notin Range(queue'[s]) /\ issued \subseteq issued'
  <2>1. queue' = Without({Item(t)}) /\ issued' = issued
    BY <1>4 DEF StartAnswered
  <2>2. Range(Without({Item(t)})[s]) = Range(queue[s]) \ {Item(t)}
    BY <1>1, WithoutFacts
  <2> QED
    BY <1>1, <2>1, <2>2
<1>5. ASSUME NEW b \in Bots, TurnFails(b)
      PROVE  h \notin Range(queue'[s]) /\ issued \subseteq issued'
  <2>1. queue' = [queue EXCEPT ![b] = <<>>] /\ issued' = issued
    BY <1>5 DEF TurnFails
  <2>2. queue'[s] = queue[s] \/ queue'[s] = <<>>
    BY <1>1, <2>1 DEF TypeOK
  <2>3. Range(<<>>) = {}
    BY DEF Range
  <2> QED
    BY <1>1, <2>1, <2>2, <2>3
<1>6. ASSUME NEW g \in Handoffs, QueueDelegation(g)
      PROVE  h \notin Range(queue'[s]) /\ issued \subseteq issued'
  <2> DEFINE u == Source[g]
  <2>1. g # h /\ u \in Bots /\ queue[u] \in Seq(Handoffs) /\ issued \subseteq issued'
    BY <1>6, DelegationsAssumption DEF TypeOK, QueueDelegation
  <2>2. queue'[u] = Append(queue[u], g) /\ \A t \in Bots : t # u => queue'[t] = queue[t]
    BY <1>6, <2>1 DEF QueueDelegation, TypeOK
  <2>3. Range(queue'[u]) = Range(queue[u]) \union {g}
    BY <2>1, <2>2, AppendRange
  <2>4. CASE s = u
    BY <1>1, <2>1, <2>3, <2>4
  <2>5. CASE s # u
    BY <1>1, <2>1, <2>2, <2>5
  <2> QED
    BY <2>4, <2>5
<1>7. ASSUME ExpireStale
      PROVE  h \notin Range(queue'[s]) /\ issued \subseteq issued'
  BY <1>1, <1>7, SettleTypes DEF ExpireStale, Outcomes
<1>8. ASSUME NEW b \in Bots, DrainEnds(b) \/ Retry(b) \/ UserTurn(b) \/ TurnCompletes(b) \/ SetupFails(b)
                             \/ TurnStalls(b) \/ ReleaseOwnership(b)
      PROVE  h \notin Range(queue'[s]) /\ issued \subseteq issued'
  BY <1>1, <1>8 DEF DrainEnds, Retry, UserTurn, TurnCompletes, SetupFails, TurnStalls, ReleaseOwnership, ledger, history
<1>9. ASSUME World \/ Restart \/ UNCHANGED vars
      PROVE  h \notin Range(queue'[s]) /\ issued \subseteq issued'
  BY <1>1, <1>9 DEF World, WindowElapses, Bar, ProviderComesOrGoes, Restart, vars, ledger, history
<1>10. Step
  BY NextIsStep
<1> QED
  BY <1>3, <1>4, <1>5, <1>6, <1>7, <1>8, <1>9, <1>10 DEF Step, Turns

(* The answer to a start is the only thing that ends the wait for it. *)
LEMMA AtStep ==
  ASSUME TypeOK, QueuesInv, ActiveInv, [Next]_vars, NEW h \in Handoffs, At(h)
  PROVE  At(h)' \/ StartAnswered(Source[h])
<1> DEFINE s == Source[h]
<1>1. s \in Bots /\ drain[s].pc = "starting" /\ ~Quiet
  BY DelegationsAssumption, QuietFacts DEF At
<1>2. (drain'[s].pc = drain[s].pc /\ drain'[s].todo = drain[s].todo) => At(h)'
  BY DEF At
<1>3. ASSUME NEW t \in Bots, Resumes(t)
      PROVE  At(h)'
  <2>1. t # s /\ drain[t].todo # <<>>
    BY <1>1, <1>3 DEF Resumes, Passes, Settles, Parks, Asks, Starts, Works
  <2>2. GoesOn(t) \/ \E pc \in {"approval", "starting"} : Awaits(t, pc)
    BY <1>3 DEF Resumes, Passes, Settles, Settled, Parks, Held, Asks, Starts, Start
  <2>3. drain'[s] = drain[s]
    BY <1>1, <2>1, <2>2, GoesOnEffect, AwaitsEffect
  <2> QED
    BY <1>2, <2>3
<1>4. ASSUME NEW t \in Bots, StartAnswered(t), t # s
      PROVE  At(h)'
  <2>1. drain[t].todo # <<>> /\ GoesOn(t)
    BY <1>4 DEF StartAnswered, QueuesInv
  <2> QED
    BY <1>1, <1>2, <1>4, <2>1, GoesOnEffect
<1>5. ASSUME NEW t \in Bots, DrainEnds(t)
      PROVE  At(h)'
  <2>1. active \in Seq(Bots) /\ active # <<>> /\ Head(active) = t
    BY <1>5 DEF DrainEnds, Now, TypeOK
  <2>2. 1 \in DOMAIN active /\ active[1] = t
    BY <2>1
  <2>3. t # s
    BY <1>1, <2>2 DEF ActiveInv
  <2>4. drain'[s] = drain[s]
    BY <1>1, <1>5, <2>3 DEF DrainEnds, TypeOK
  <2> QED
    BY <1>2, <2>4
<1>6. ASSUME NEW b \in Bots, Retry(b)
      PROVE  At(h)'
  <2> DEFINE released == {Source[g] : g \in {g \in waiting : Target[g] = b /\ Queued(g) /\ ~Busy(b)}}
  <2>1. released \in SUBSET Bots
    BY DelegationsAssumption DEF TypeOK
  <2>2. Drain(released, queue)
    BY <1>6 DEF Retry
  <2> HIDE DEF released
  <2> QED
    BY <1>1, <1>2, <2>1, <2>2, DrainEffect
<1>7. ASSUME NEW b \in Bots, Turns(b)
      PROVE  FALSE
  BY <1>1, <1>7 DEF Turns, UserTurn, TurnCompletes, TurnFails, SetupFails, TurnStalls, ReleaseOwnership
<1>8. ASSUME ExpireStale \/ World \/ Restart \/ \E g \in Handoffs : QueueDelegation(g)
      PROVE  FALSE
  BY <1>1, <1>8 DEF ExpireStale, World, WindowElapses, Bar, ProviderComesOrGoes, Restart, QueueDelegation
<1>9. CASE UNCHANGED vars
  BY <1>2, <1>9 DEF vars
<1>10. Step
  BY NextIsStep
<1> QED
  BY <1>3, <1>4, <1>5, <1>6, <1>7, <1>8, <1>9, <1>10 DEF Step

(* What is gone stays gone. *)
LEMMA GoneStep ==
  ASSUME TypeOK, QueuesInv, ActiveInv, [Next]_vars, NEW h \in Handoffs, Gone(h)
  PROVE  Gone(h)'
<1>1. CASE ~Queued(h)
  BY <1>1, NothingIsRequeued DEF Gone
<1>2. CASE Queued(h) /\ At(h)'
  <2>1. issued \subseteq issued'
    <3>1. CASE \E g \in Handoffs : QueueDelegation(g)
      BY <3>1 DEF QueueDelegation
    <3>2. ASSUME NEW t \in Bots, Resumes(t) PROVE issued' = issued
      BY <3>2 DEF Resumes, Passes, Settles, Parks, Asks, Starts, Rest
    <3>3. ASSUME NEW t \in Bots, DrainEnds(t) \/ StartAnswered(t) \/ Retry(t) PROVE issued' = issued
      BY <3>3 DEF DrainEnds, StartAnswered, Retry, history
    <3>4. ASSUME NEW b \in Bots, Turns(b) PROVE issued' = issued
      BY <3>4 DEF Turns, UserTurn, TurnCompletes, TurnFails, SetupFails, TurnStalls, ReleaseOwnership
    <3>5. CASE ExpireStale \/ World \/ Restart \/ UNCHANGED vars
      BY <3>5 DEF ExpireStale, World, WindowElapses, Bar, ProviderComesOrGoes, Restart, vars, history
    <3> QED
      BY <3>1, <3>2, <3>3, <3>4, <3>5, NextIsStep DEF Step
  <2> QED
    BY <1>2, <2>1 DEF Gone
<1>3. CASE Queued(h) /\ StartAnswered(Source[h])
  <2>1. h = Item(Source[h]) /\ Source[h] \in Bots
    BY <1>3, DelegationsAssumption DEF Gone, At, Item
  <2>2. queue' = Without({h}) /\ issued' = issued
    BY <1>3, <2>1 DEF StartAnswered
  <2>3. Range(Without({h})[Source[h]]) = Range(queue[Source[h]]) \ {h}
    BY <2>1, WithoutFacts
  <2> QED
    BY <2>2, <2>3 DEF Gone, Queued
<1> QED
  BY <1>1, <1>2, <1>3, AtStep DEF Gone

-----------------------------------------------------------------------------
(* What a step may do to one handoff and to one bot. *)

(* Only a drain starts handoffs: those it finds queued and not refused. *)
LEMMA StartsStep ==
  ASSUME TypeOK, QueuesInv, ActiveInv, [Next]_vars, NEW h \in Handoffs, starts'[h] # starts[h]
  PROVE  /\ starts'[h] = starts[h] + 1
         /\ \E t \in Bots : Starts(t) /\ Item(t) = h
<1>1. ASSUME NEW t \in Bots, Starts(t)
      PROVE  starts'[h] = starts[h] + 1 /\ Item(t) = h
  <2>1. Item(t) \in Handoffs /\ Target[Item(t)] \in Bots /\ Start(t, Item(t))
    BY <1>1, ItemFacts DEF Starts
  <2> QED
    BY <2>1, StartEffect
<1>2. ASSUME NEW t \in Bots, Passes(t) \/ Settles(t) \/ Parks(t) \/ Asks(t)
      PROVE  FALSE
  BY <1>2 DEF Passes, Settles, Settled, Parks, Held, Asks
<1>3. ASSUME NEW t \in Bots, DrainEnds(t) \/ StartAnswered(t) \/ Retry(t)
      PROVE  FALSE
  BY <1>3 DEF DrainEnds, StartAnswered, Retry, history
<1>4. ASSUME NEW b \in Bots, Turns(b)
      PROVE  FALSE
  BY <1>4 DEF Turns, UserTurn, TurnCompletes, TurnFails, SetupFails, TurnStalls, ReleaseOwnership
<1>5. ASSUME ExpireStale \/ World \/ Restart \/ (\E g \in Handoffs : QueueDelegation(g)) \/ UNCHANGED vars
      PROVE  FALSE
  BY <1>5 DEF ExpireStale, World, WindowElapses, Bar, ProviderComesOrGoes, Restart, QueueDelegation, vars, history
<1> QED
  BY <1>1, <1>2, <1>3, <1>4, <1>5, NextIsStep DEF Step, Resumes

(* A receipt is written of what is queued and leaves its queue, or of what *)
(* is watched and is watched no more; there was none before.               *)
LEMMA ReceiptStep ==
  ASSUME TypeOK, QueuesInv, ActiveInv, OnceInv, WatchInv, [Next]_vars,
         NEW h \in Handoffs, receipt'[h] # receipt[h]
  PROVE  /\ receipt[h] = "none"
         /\ Gone(h)'
         /\ (Queued(h) /\ ~At(h)) \/ (watch[Target[h]] = h /\ watch'[Target[h]] = NoHandoff)
<1>1. Source[h] \in Bots /\ Target[h] \in Bots /\ NoHandoff # h
  BY DelegationsAssumption
<1>2. Queued(h) /\ ~At(h) => receipt[h] = "none" /\ h \in issued
  BY <1>1 DEF OnceInv, QueuesInv, Queued
<1>3. ASSUME Queued(h), ~At(h), h \notin Range(queue'[Source[h]]), issued' = issued
      PROVE  receipt[h] = "none" /\ Gone(h)' /\ Queued(h) /\ ~At(h)
  BY <1>2, <1>3 DEF Gone, Queued
<1>4. ASSUME NEW b \in Bots, h \in Watched(b), watch'[b] = NoHandoff
      PROVE  receipt[h] = "none" /\ Gone(h)' /\ watch[Target[h]] = h /\ watch'[Target[h]] = NoHandoff
  <2>1. watch[b] = h /\ Target[h] = b /\ receipt[h] = "none" /\ Gone(h)
    BY <1>4 DEF Watched, WatchInv, Gone
  <2> QED
    BY <1>4, <2>1, GoneStep
<1>5. ASSUME NEW t \in Bots, Settles(t)
      PROVE  receipt[h] = "none" /\ Gone(h)' /\ Queued(h) /\ ~At(h)
  <2>1. PICK outcome \in Outcomes : Settle({Item(t)}, outcome)
    BY <1>5 DEF Settles, Settled
  <2>2. h = Item(t)
    BY <2>1 DEF Settle
  <2>3. Queued(h) /\ ~At(h)
    BY <1>5, <2>2, AtWork DEF Settles
  <2>4. Range(queue'[Source[h]]) = Range(queue[Source[h]]) \ {Item(t)}
    BY <1>1, <2>1, SettleTypes
  <2>5. issued' = issued
    BY <1>5 DEF Settles, Rest
  <2> QED
    BY <1>3, <2>2, <2>3, <2>4, <2>5
<1>6. ASSUME NEW t \in Bots, Passes(t) \/ Parks(t) \/ Asks(t) \/ Starts(t)
      PROVE  FALSE
  BY <1>6 DEF Passes, Parks, Held, Asks, Starts, Start, ledger
<1>7. ASSUME NEW t \in Bots, StartAnswered(t)
      PROVE  receipt[h] = "none" /\ Gone(h)' /\ watch[Target[h]] = h /\ watch'[Target[h]] = NoHandoff
  <2> DEFINE b == Target[Item(t)]
             S == IF turn[b] = Item(t) THEN {} ELSE Watched(b)
  <2>1. b \in Bots
    BY <1>7, TypeFacts DEF StartAnswered, QueuesInv
  <2>2. /\ receipt' = [g \in Handoffs |-> IF g \in S THEN "failed" ELSE receipt[g]]
        /\ watch' = IF S = {} THEN watch ELSE [watch EXCEPT ![b] = NoHandoff]
    BY <1>7 DEF StartAnswered
  <2>3. h \in Watched(b) /\ S # {}
    BY <2>2
  <2>4. watch'[b] = NoHandoff
    BY <2>1, <2>2, <2>3 DEF TypeOK
  <2> QED
    BY <1>4, <2>1, <2>3, <2>4
<1>8. ASSUME NEW b \in Bots, TurnCompletes(b) \/ SetupFails(b) \/ TurnStalls(b)
      PROVE  receipt[h] = "none" /\ Gone(h)' /\ watch[Target[h]] = h /\ watch'[Target[h]] = NoHandoff
  <2>1. h \in Watched(b)
    BY <1>8 DEF TurnCompletes, SetupFails, TurnStalls
  <2>2. watch'[b] = NoHandoff
    BY <1>8, ComesFreeEffect DEF TurnCompletes, SetupFails, TurnStalls, TypeOK
  <2> QED
    BY <1>4, <2>1, <2>2
<1>9. ASSUME NEW b \in Bots, TurnFails(b)
      PROVE  /\ receipt[h] = "none" /\ Gone(h)'
             /\ (Queued(h) /\ ~At(h)) \/ (watch[Target[h]] = h /\ watch'[Target[h]] = NoHandoff)
  <2>1. CASE h \in Watched(b)
    <3>1. watch'[b] = NoHandoff
      BY <1>9, ComesFreeEffect DEF TurnFails
    <3> QED
      BY <1>4, <2>1, <3>1
  <2>2. CASE h \notin Watched(b)
    <3>1. h \in Range(queue[b])
      BY <1>9, <2>2 DEF TurnFails
    <3>2. Source[h] = b /\ Queued(h) /\ ~At(h)
      BY <1>9, <3>1, QuietFacts DEF QueuesInv, Queued, TurnFails
    <3>3. queue'[b] = <<>> /\ issued' = issued
      BY <1>9 DEF TurnFails, TypeOK
    <3>4. Range(<<>>) = {}
      BY DEF Range
    <3> QED
      BY <1>3, <3>2, <3>3, <3>4
  <2> QED
    BY <2>1, <2>2
<1>10. ASSUME ExpireStale
       PROVE  receipt[h] = "none" /\ Gone(h)' /\ Queued(h) /\ ~At(h)
  <2>1. Settle(Stuck, "expired") /\ issued' = issued
    BY <1>10 DEF ExpireStale
  <2>2. h \in Stuck /\ Queued(h) /\ ~At(h)
    BY <1>10, <2>1, QuietFacts DEF Settle, Stuck, ExpireStale
  <2>3. h \notin Range(queue'[Source[h]])
    BY <1>1, <2>1, <2>2, SettleTypes DEF Outcomes
  <2> QED
    BY <1>3, <2>1, <2>2, <2>3
<1>11. ASSUME NEW b \in Bots, DrainEnds(b) \/ Retry(b) \/ UserTurn(b) \/ ReleaseOwnership(b)
       PROVE  FALSE
  BY <1>11 DEF DrainEnds, Retry, UserTurn, ReleaseOwnership, ledger
<1>12. ASSUME World \/ Restart \/ (\E g \in Handoffs : QueueDelegation(g)) \/ UNCHANGED vars
       PROVE  FALSE
  BY <1>12 DEF World, WindowElapses, Bar, ProviderComesOrGoes, Restart, QueueDelegation, vars, ledger
<1> QED
  BY <1>5, <1>6, <1>7, <1>8, <1>9, <1>10, <1>11, <1>12, NextIsStep DEF Step, Resumes, Turns

(* A watch is set by a start only. *)
LEMMA WatchStep ==
  ASSUME TypeOK, QueuesInv, ActiveInv, WatchInv, [Next]_vars, NEW b \in Bots
  PROVE  \/ watch'[b] \in {watch[b], NoHandoff}
         \/ \E t \in Bots : Starts(t) /\ Target[Item(t)] = b /\ watch'[b] = Item(t)
<1>1. ASSUME NEW t \in Bots, Starts(t)
      PROVE  watch'[b] = watch[b] \/ (Target[Item(t)] = b /\ watch'[b] = Item(t))
  <2>1. Item(t) \in Handoffs /\ Target[Item(t)] \in Bots /\ Start(t, Item(t))
    BY <1>1, ItemFacts DEF Starts
  <2> QED
    BY <2>1, StartEffect
<1>2. ASSUME NEW t \in Bots, Passes(t) \/ Settles(t) \/ Parks(t) \/ Asks(t)
      PROVE  watch' = watch
  BY <1>2 DEF Passes, Settles, Settled, Parks, Held, Asks, work
<1>3. ASSUME NEW t \in Bots, StartAnswered(t)
      PROVE  watch'[b] \in {watch[b], NoHandoff}
  BY <1>3 DEF StartAnswered, TypeOK
<1>4. ASSUME NEW t \in Bots, DrainEnds(t) \/ Retry(t)
      PROVE  watch' = watch
  BY <1>4 DEF DrainEnds, Retry, work
<1>5. ASSUME NEW c \in Bots, Turns(c)
      PROVE  watch'[b] \in {watch[b], NoHandoff}
  BY <1>5, ComesFreeEffect DEF Turns, UserTurn, TurnCompletes, TurnFails, SetupFails, TurnStalls, ReleaseOwnership, TypeOK
<1>6. ASSUME ExpireStale \/ World \/ Restart \/ (\E g \in Handoffs : QueueDelegation(g)) \/ UNCHANGED vars
      PROVE  watch'[b] \in {watch[b], NoHandoff}
  BY <1>6 DEF ExpireStale, World, WindowElapses, Bar, ProviderComesOrGoes, Restart, QueueDelegation, vars, work
<1> QED
  BY <1>1, <1>2, <1>3, <1>4, <1>5, <1>6, NextIsStep DEF Step, Resumes

(* A bot that works on a handoff goes on until its watch is settled; one   *)
(* that is idle takes up work only if its turns are not refused.           *)
LEMMA TurnStep ==
  ASSUME TypeOK, QueuesInv, ActiveInv, WatchInv, [Next]_vars, NEW b \in Bots
  PROVE  /\ turn[b] \in Handoffs => turn'[b] = turn[b] \/ (Quiet /\ watch'[b] = NoHandoff)
         /\ b \in offline /\ turn[b] = "idle" => turn'[b] = "idle" \/ Quiet
<1>1. "idle" \notin Handoffs
  BY DelegationsAssumption
<1>2. ASSUME NEW t \in Bots, Starts(t)
      PROVE  /\ turn[b] \in Handoffs => turn'[b] = turn[b]
             /\ b \in offline => turn'[b] = turn[b]
  <2>1. /\ Item(t) \in Handoffs /\ Target[Item(t)] \in Bots /\ Start(t, Item(t))
        /\ turn[Target[Item(t)]] = "idle"
    BY <1>2, ItemFacts DEF Starts, Busy
  <2>2. CASE b = Target[Item(t)]
    BY <1>1, <2>1, <2>2, StartEffect DEF Start
  <2>3. CASE b # Target[Item(t)]
    BY <2>1, <2>3, StartEffect
  <2> QED
    BY <2>2, <2>3
<1>3. ASSUME NEW S, Wake(S, turn)
      PROVE  /\ turn[b] \in Handoffs => turn'[b] = turn[b]
             /\ b \in offline => turn'[b] = turn[b]
  BY <1>1, <1>3, WakeEffect
<1>4. ASSUME NEW t \in Bots, Settles(t) \/ StartAnswered(t)
      PROVE  /\ turn[b] \in Handoffs => turn'[b] = turn[b]
             /\ b \in offline => turn'[b] = turn[b]
  BY <1>3, <1>4 DEF Settles, Settled, StartAnswered
<1>5. ASSUME NEW t \in Bots, Passes(t) \/ Parks(t) \/ Asks(t) \/ DrainEnds(t) \/ Retry(t)
      PROVE  turn' = turn
  BY <1>5 DEF Passes, Parks, Held, Asks, DrainEnds, Retry, work
<1>6. ASSUME NEW c \in Bots, TurnCompletes(c) \/ TurnFails(c) \/ SetupFails(c) \/ ReleaseOwnership(c)
      PROVE  Quiet /\ (turn[b] \in Handoffs => turn'[b] = turn[b] \/ watch'[b] = NoHandoff)
  <2>1. ComesFree(c) /\ Quiet
    BY <1>6 DEF TurnCompletes, TurnFails, SetupFails, ReleaseOwnership
  <2> QED
    BY <1>1, <2>1, ComesFreeEffect
<1>7. ASSUME NEW c \in Bots, UserTurn(c)
      PROVE  Quiet /\ (turn[b] \in Handoffs => turn'[b] = turn[b])
  BY <1>1, <1>7 DEF UserTurn, Busy, TypeOK
<1>8. ASSUME NEW c \in Bots, TurnStalls(c)
      PROVE  Quiet /\ (turn[b] \in Handoffs => turn'[b] = turn[b] \/ watch'[b] = NoHandoff)
  <2> DEFINE busy == [turn EXCEPT ![c] = "stalled"]
  <2>1. Quiet /\ Wake(Watched(c), busy) /\ watch'[c] = NoHandoff
    BY <1>8 DEF TurnStalls, TypeOK
  <2>2. b # c => busy[b] = turn[b]
    BY DEF TypeOK
  <2> HIDE DEF busy
  <2> QED
    BY <1>1, <2>1, <2>2, WakeEffect
<1>9. ASSUME ExpireStale
      PROVE  turn[b] \in Handoffs => turn'[b] = turn[b]
  BY <1>3, <1>9 DEF ExpireStale
<1>10. ASSUME World \/ (\E g \in Handoffs : QueueDelegation(g)) \/ UNCHANGED vars
       PROVE  turn' = turn
  BY <1>10 DEF World, WindowElapses, Bar, ProviderComesOrGoes, QueueDelegation, vars, work
<1>11. ASSUME Restart
       PROVE  Quiet /\ watch'[b] = NoHandoff
  BY <1>11 DEF Restart
<1>12. ASSUME ExpireStale
       PROVE  Quiet
  BY <1>12 DEF ExpireStale
<1> QED
  BY <1>2, <1>4, <1>5, <1>6, <1>7, <1>8, <1>9, <1>10, <1>11, <1>12, NextIsStep DEF Step, Resumes, Turns

-----------------------------------------------------------------------------
(* A handoff starts once, and what is settled does not start: a start is   *)
(* of a queued handoff whose drain is at work, hence not gone.             *)
LEMMA OnceInvStep ==
  ASSUME TypeOK, QueuesInv, ActiveInv, OnceInv, WatchInv, [Next]_vars
  PROVE  OnceInv'
<1> SUFFICES ASSUME NEW h \in Handoffs
             PROVE  /\ starts'[h] <= 1
                    /\ starts'[h] # 0 \/ receipt'[h] # "none" => Gone(h)'
  BY DEF OnceInv, Gone
<1>1. /\ starts[h] <= 1 /\ starts[h] \in Nat
      /\ starts[h] # 0 \/ receipt[h] # "none" => Gone(h)
  BY DEF OnceInv, Gone, TypeOK
<1>2. CASE starts'[h] # starts[h]
  <2>1. PICK t \in Bots : Starts(t) /\ Item(t) = h
    BY <1>2, StartsStep
  <2>2. starts'[h] = starts[h] + 1
    BY <1>2, StartsStep
  <2>3. ~Gone(h) /\ Works(t) /\ Queued(h)
    BY <2>1, AtWork DEF Starts
  <2>4. starts'[h] = 1
    BY <1>1, <2>2, <2>3
  <2>5. h \in issued /\ Source[h] = t /\ drain[t].todo # <<>>
    BY <2>1, ItemFacts DEF Starts
  <2>6. Awaits(t, "starting") /\ issued' = issued
    BY <2>1 DEF Starts, Start, Rest
  <2>7. drain'[t].pc = "starting" /\ drain'[t].todo = drain[t].todo
    BY <2>6, AwaitsEffect
  <2>8. At(h)'
    BY <2>1, <2>5, <2>7 DEF At, Item
  <2> QED
    BY <2>4, <2>5, <2>6, <2>8 DEF Gone
<1>3. CASE starts'[h] = starts[h] /\ receipt'[h] = receipt[h]
  BY <1>1, <1>3, GoneStep
<1>4. CASE starts'[h] = starts[h] /\ receipt'[h] # receipt[h]
  BY <1>1, <1>4, ReceiptStep
<1> QED
  BY <1>2, <1>3, <1>4

(* A drain comes to the await of runTarget by a start, and leaves it by the *)
(* answer.                                                                 *)
LEMMA StartingStep ==
  ASSUME TypeOK, QueuesInv, ActiveInv, [Next]_vars, NEW t \in Bots, drain'[t].pc = "starting"
  PROVE  \/ Starts(t)
         \/ /\ ~Quiet /\ drain[t].pc = "starting" /\ drain'[t].todo = drain[t].todo
            /\ UNCHANGED offline
<1> DEFINE Same == drain[t].pc = "starting" /\ drain'[t].todo = drain[t].todo
<1>1. Same => ~Quiet
  BY DEF Quiet
<1>2. ASSUME NEW s \in Bots, Resumes(s), ~Starts(s)
      PROVE  Same /\ UNCHANGED offline
  <2>1. drain[s].todo # <<>> /\ UNCHANGED offline
    BY <1>2 DEF Resumes, Passes, Settles, Parks, Asks, Works, Rest
  <2>2. GoesOn(s) \/ Awaits(s, "approval")
    BY <1>2 DEF Resumes, Passes, Settles, Settled, Parks, Held, Asks
  <2>3. drain'[s].pc # "starting" /\ \A u \in Bots : u # s => drain'[u] = drain[u]
    BY <2>1, <2>2, GoesOnEffect, AwaitsEffect
  <2> QED
    BY <2>1, <2>3
<1>3. ASSUME NEW s \in Bots, Starts(s), s # t
      PROVE  Same /\ UNCHANGED offline
  <2>1. Awaits(s, "starting") /\ UNCHANGED offline
    BY <1>3 DEF Starts, Start, Rest
  <2> QED
    BY <1>3, <2>1, AwaitsEffect
<1>4. ASSUME NEW s \in Bots, DrainEnds(s)
      PROVE  Same /\ UNCHANGED offline
  <2>1. UNCHANGED offline
    BY <1>4 DEF DrainEnds, world
  <2>2. Snapshot(queue[s]).pc = "ready" /\ NoDrain.pc = "idle"
    BY SnapshotFacts DEF NoDrain, TypeOK
  <2>3. drain'[s].pc # "starting" /\ \A u \in Bots : u # s => drain'[u] = drain[u]
    BY <1>4, <2>2 DEF DrainEnds, TypeOK
  <2> QED
    BY <2>1, <2>3
<1>5. ASSUME NEW s \in Bots, StartAnswered(s)
      PROVE  Same /\ UNCHANGED offline
  <2>1. drain[s].todo # <<>> /\ GoesOn(s) /\ UNCHANGED offline
    BY <1>5 DEF StartAnswered, QueuesInv, world
  <2> QED
    BY <2>1, GoesOnEffect
<1>6. ASSUME NEW ts \in SUBSET Bots, Drain(ts, queue)
      PROVE  Same
  <2>1. Snapshot(queue[t]).pc = "ready"
    BY SnapshotFacts DEF TypeOK
  <2> QED
    BY <1>6, <2>1, DrainEffect
<1>7. ASSUME NEW b \in Bots, Retry(b) \/ TurnCompletes(b)
      PROVE  Same /\ UNCHANGED offline
  <2>1. CASE Retry(b)
    <3> DEFINE released == {Source[h] : h \in {h \in waiting : Target[h] = b /\ Queued(h) /\ ~Busy(b)}}
    <3>1. released \in SUBSET Bots
      BY DelegationsAssumption DEF TypeOK
    <3>2. Drain(released, queue) /\ UNCHANGED offline
      BY <2>1 DEF Retry, world
    <3> QED
      BY <3>1, <3>2, <1>6
  <2>2. CASE TurnCompletes(b)
    BY <2>2, <1>6 DEF TurnCompletes, world
  <2> QED
    BY <1>7, <2>1, <2>2
<1>8. ASSUME NEW b \in Bots, UserTurn(b) \/ TurnFails(b) \/ SetupFails(b) \/ TurnStalls(b) \/ ReleaseOwnership(b)
      PROVE  Same /\ UNCHANGED offline
  BY <1>8 DEF UserTurn, TurnFails, SetupFails, TurnStalls, ReleaseOwnership, world
<1>9. CASE ExpireStale \/ (\E h \in Handoffs : QueueDelegation(h)) \/ UNCHANGED vars
  BY <1>1, <1>9 DEF ExpireStale, QueueDelegation, vars, world
<1>10. CASE World
  BY <1>1, <1>10 DEF World, WindowElapses, Bar, ProviderComesOrGoes, Quiet
<1>11. ASSUME Restart
       PROVE  FALSE
  <2>1. Snapshot(queue[t]).pc = "ready" /\ NoDrain.pc = "idle"
    BY SnapshotFacts DEF NoDrain, TypeOK
  <2> QED
    BY <1>11, <2>1 DEF Restart
<1> QED
  BY <1>1, <1>2, <1>3, <1>4, <1>5, <1>7, <1>8, <1>9, <1>10, <1>11, NextIsStep DEF Step, Turns

(* The answer to a start finds the turn of the handoff, or none.           *)
LEMMA StartingInvStep ==
  ASSUME TypeOK, QueuesInv, ActiveInv, StartingInv, WatchInv, [Next]_vars
  PROVE  StartingInv'
<1> SUFFICES ASSUME NEW t \in Bots, drain'[t].pc = "starting"
             PROVE  LET h == Head(drain'[t].todo) IN
                      turn'[Target[h]] = h \/ (Target[h] \in offline' /\ turn'[Target[h]] = "idle")
  BY DEF StartingInv, Item
<1>1. CASE Starts(t)
  <2>1. /\ Item(t) \in Handoffs /\ Target[Item(t)] \in Bots
        /\ Start(t, Item(t)) /\ turn[Target[Item(t)]] = "idle" /\ offline' = offline
    BY <1>1, ItemFacts DEF Starts, Busy, Rest
  <2>2. Head(drain'[t].todo) = Item(t)
    BY <2>1, AwaitsEffect DEF Start, Item
  <2>3. \/ Target[Item(t)] \in offline /\ turn' = turn
        \/ turn'[Target[Item(t)]] = Item(t)
    BY <2>1, StartEffect
  <2> QED
    BY <2>1, <2>2, <2>3
<1>2. CASE ~Starts(t)
  <2>1. /\ ~Quiet /\ drain[t].pc = "starting" /\ drain'[t].todo = drain[t].todo
        /\ offline' = offline
    BY <1>2, StartingStep
  <2>2. Head(drain'[t].todo) = Item(t) /\ Item(t) \in Handoffs /\ Target[Item(t)] \in Bots
    BY <2>1, TypeFacts DEF Item, QueuesInv
  <2>3. \/ turn[Target[Item(t)]] = Item(t)
        \/ Target[Item(t)] \in offline /\ turn[Target[Item(t)]] = "idle"
    BY <2>1 DEF StartingInv
  <2>4. /\ turn[Target[Item(t)]] \in Handoffs =>
             turn'[Target[Item(t)]] = turn[Target[Item(t)]] \/ Quiet
        /\ Target[Item(t)] \in offline /\ turn[Target[Item(t)]] = "idle" =>
             turn'[Target[Item(t)]] = "idle" \/ Quiet
    BY <2>2, TurnStep
  <2> QED
    BY <2>1, <2>2, <2>3, <2>4
<1> QED
  BY <1>1, <1>2

(* A watch stays with the turn it was set for.                             *)
LEMMA WatchInvStep ==
  ASSUME TypeOK, QueuesInv, ActiveInv, OnceInv, StartingInv, WatchInv, [Next]_vars
  PROVE  WatchInv'
<1>1. ASSUME NEW b \in Bots, NEW h \in Handoffs, watch'[b] = h
      PROVE  /\ Target[h] = b /\ receipt'[h] = "none" /\ Gone(h)'
             /\ turn'[b] = h \/ At(h)'
  <2>1. h # NoHandoff
    BY DelegationsAssumption
  <2>2. CASE watch[b] = h
    <3>1. Target[h] = b /\ receipt[h] = "none" /\ Gone(h) /\ (turn[b] = h \/ At(h))
      BY <2>1, <2>2 DEF WatchInv, Gone
    <3>2. Gone(h)'
      BY <3>1, GoneStep
    <3>3. receipt'[h] = "none"
      <4>1. SUFFICES ASSUME receipt'[h] # receipt[h] PROVE FALSE
        BY <3>1
      <4>2. Queued(h) /\ ~At(h)
        BY <1>1, <2>1, <3>1, <4>1, ReceiptStep
      <4> QED
        BY <3>1, <4>2 DEF Gone
    <3>4. CASE turn[b] = h
      <4>1. turn'[b] = h
        BY <1>1, <2>1, <3>4, TurnStep
      <4> QED
        BY <3>1, <3>2, <3>3, <4>1
    <3>5. CASE At(h)'
      BY <3>1, <3>2, <3>3, <3>5
    <3>6. CASE At(h) /\ StartAnswered(Source[h]) /\ turn[b] # h
      <4>1. Source[h] \in Bots /\ Item(Source[h]) = h
        BY <3>6, DelegationsAssumption DEF At, Item
      <4>2. Watched(b) # {}
        BY <2>1, <2>2 DEF Watched
      <4>3. watch' = [watch EXCEPT ![b] = NoHandoff]
        BY <3>1, <3>6, <4>1, <4>2 DEF StartAnswered
      <4> QED
        BY <1>1, <2>1, <4>3 DEF TypeOK
    <3>7. At(h) => At(h)' \/ StartAnswered(Source[h])
      BY AtStep
    <3> QED
      BY <3>1, <3>4, <3>5, <3>6, <3>7
  <2>3. CASE watch[b] # h
    <3>1. PICK t \in Bots : Starts(t) /\ Target[Item(t)] = b /\ Item(t) = h
      BY <1>1, <2>1, <2>3, WatchStep
    <3>2. h \in issued /\ Source[h] = t /\ drain[t].todo # <<>> /\ Queued(h)
      BY <3>1, ItemFacts DEF Starts
    <3>3. receipt[h] = "none"
      BY <3>1, <3>2, AtWork DEF OnceInv, Gone, Starts
    <3>4. Awaits(t, "starting") /\ UNCHANGED <<issued, receipt>>
      BY <3>1 DEF Starts, Start, Rest
    <3>5. drain'[t].pc = "starting" /\ drain'[t].todo = drain[t].todo
      BY <3>4, AwaitsEffect
    <3>6. At(h)'
      BY <3>1, <3>2, <3>5 DEF At, Item
    <3> QED
      BY <3>1, <3>2, <3>3, <3>4, <3>6 DEF Gone
  <2> QED
    BY <2>2, <2>3
<1>2. TypeOK'
  BY TypeOKStep
<1>3. \A b \in Bots : watch'[b] # NoHandoff => watch'[b] \in Handoffs
  BY <1>2 DEF TypeOK
<1>4. \A b \in Bots, h \in Handoffs : watch'[b] = h =>
        /\ Target[h] = b /\ receipt'[h] = "none" /\ h \in issued'
        /\ Queued(h)' => At(h)'
        /\ turn'[b] = h \/ At(h)'
  BY <1>1 DEF Gone
<1> QED
  BY <1>3, <1>4 DEF WatchInv

-----------------------------------------------------------------------------
(* Somebody comes to whatever is queued.                                   *)

(* The drain of the source of h has not lost what it knew of h.            *)
Minds(h) ==
  LET s == Source[h]
      d == drain[s]
  IN  d.pc # "idle" =>
        /\ drain'[s].pc # "idle"
        /\ h \in Range(d.todo) => h \in Range(drain'[s].todo)
        /\ d.again => drain'[s].again
        /\ drain'[s].seen = d.seen

(* What was covered is covered after a step that takes nothing from it.    *)
LEMMA CoverStays ==
  ASSUME NEW h \in Handoffs, Covered(h), Minds(h),
         h \in fresh => h \in fresh', h \in waiting => h \in waiting',
         Target[h] \in retry => Target[h] \in retry',
         Busy(Target[h]) => Busy(Target[h])' \/ Target[h] \in retry'
  PROVE  Covered(h)'
BY DEF Covered, Minds

(* A drain at its head minds every handoff but that one.                   *)
LEMMA MindsOthers ==
  ASSUME TypeOK, NEW t \in Bots, drain[t].todo # <<>>, drain[t].pc # "idle",
         NEW h \in Handoffs,
         \/ GoesOn(t) /\ h # Item(t)
         \/ \E pc \in {"approval", "starting"} : Awaits(t, pc)
  PROVE  Minds(h)
<1>1. Source[h] \in Bots
  BY DelegationsAssumption
<1>2. CASE GoesOn(t) /\ h # Item(t)
  <2>1. /\ \A s \in Bots : s # t => drain'[s] = drain[s]
        /\ drain'[t].pc = "ready"
        /\ drain'[t].seen = drain[t].seen /\ drain'[t].again = drain[t].again
        /\ Range(drain[t].todo) = {Item(t)} \union Range(drain'[t].todo)
    BY <1>2, GoesOnEffect
  <2> QED
    BY <1>1, <1>2, <2>1 DEF Minds
<1>3. CASE \E pc \in {"approval", "starting"} : Awaits(t, pc)
  <2>1. /\ \A s \in Bots : s # t => drain'[s] = drain[s]
        /\ drain'[t].pc \in {"approval", "starting"}
        /\ drain'[t].todo = drain[t].todo
        /\ drain'[t].seen = drain[t].seen /\ drain'[t].again = drain[t].again
    BY <1>3, AwaitsEffect
  <2> QED
    BY <1>1, <2>1 DEF Minds
<1> QED
  BY <1>2, <1>3

(* A drain that is told to look again, or begins, sees what is queued.     *)
LEMMA DrainCovers ==
  ASSUME TypeOK, NEW ts \in SUBSET Bots, Drain(ts, queue), NEW h \in Handoffs, Queued(h)
  PROVE  /\ Minds(h)
         /\ Source[h] \in ts => Covered(h)'
<1> DEFINE s == Source[h]
<1>1. s \in Bots /\ queue[s] \in Seq(Handoffs) /\ h \in Range(queue[s])
  BY DelegationsAssumption DEF TypeOK, Queued
<1>2. queue[s] # <<>>
  BY <1>1 DEF Range
<1>3. CASE drain[s].pc = "idle" /\ drain'[s] = Snapshot(queue[s])
  <2>1. drain'[s].pc = "ready" /\ drain'[s].todo = queue[s]
    BY <1>1, <1>3, SnapshotFacts
  <2> QED
    BY <1>1, <1>3, <2>1 DEF Minds, Covered
<1>4. CASE /\ drain'[s].pc = drain[s].pc /\ drain'[s].todo = drain[s].todo
           /\ drain'[s].seen = drain[s].seen
           /\ drain[s].again => drain'[s].again
           /\ s \in ts => drain[s].pc # "idle" /\ drain'[s].again
  BY <1>4 DEF Minds, Covered
<1> QED
  BY <1>1, <1>2, <1>3, <1>4, DrainEffect

(* To be woken does not make a bot idle.                                   *)
LEMMA WakeBusies ==
  ASSUME NEW busy, NEW S, Wake(S, busy), NEW b \in Bots, busy[b] # "idle"
  PROVE  Busy(b)'
BY WakeEffect DEF Busy

(* No step leaves a queued handoff without what minds it. *)
LEMMA CoveredInvStep ==
  ASSUME TypeOK, QueuesInv, ActiveInv, WatchInv, CoveredInv, [Next]_vars
  PROVE  CoveredInv'
<1> SUFFICES ASSUME NEW h \in Handoffs, Queued(h)' PROVE Covered(h)'
  BY DEF CoveredInv
<1> DEFINE s == Source[h]
<1>1. s \in Bots /\ Target[h] \in Bots /\ h \in Range(queue'[s])
  BY DelegationsAssumption DEF Queued
<1>2. Queued(h) => Covered(h)
  BY DEF CoveredInv
<1>3. drain' = drain => Minds(h)
  BY DEF Minds
<1>4. ASSUME NEW t \in Bots, Passes(t)
      PROVE  Covered(h)'
  <2>1. Queued(h) /\ h # Item(t) /\ GoesOn(t) /\ drain[t].todo # <<>> /\ drain[t].pc # "idle"
    BY <1>1, <1>4 DEF Passes, Works, Queued, ledger
  <2>2. UNCHANGED <<fresh, waiting, retry, turn>>
    BY <1>4 DEF Passes, Rest, ledger, work
  <2>3. Minds(h)
    BY <2>1, MindsOthers
  <2> QED
    BY <1>2, <2>1, <2>2, <2>3, CoverStays DEF Busy
<1>5. ASSUME NEW t \in Bots, Settles(t)
      PROVE  Covered(h)'
  <2>1. PICK outcome \in Outcomes : Settled(t, Item(t), outcome)
    BY <1>5 DEF Settles
  <2>2. Settle({Item(t)}, outcome) /\ Wake({Item(t)}, turn) /\ GoesOn(t) /\ UNCHANGED <<fresh, retry>>
    BY <1>5, <2>1 DEF Settled, Settles, Rest
  <2>3. Range(queue'[s]) = Range(queue[s]) \ {Item(t)}
    BY <1>1, <2>2, SettleTypes
  <2>4. Queued(h) /\ h # Item(t) /\ drain[t].todo # <<>> /\ drain[t].pc # "idle"
    BY <1>1, <1>5, <2>3 DEF Settles, Works, Queued
  <2>5. h \in waiting => h \in waiting'
    BY <2>2, <2>4 DEF Settle
  <2>6. Minds(h)
    BY <2>2, <2>4, MindsOthers
  <2>7. Busy(Target[h]) => Busy(Target[h])'
    BY <1>1, <2>2, WakeBusies DEF Busy
  <2> QED
    BY <1>2, <2>2, <2>4, <2>5, <2>6, <2>7, CoverStays
<1>6. ASSUME NEW t \in Bots, Parks(t)
      PROVE  Covered(h)'
  <2>1. /\ waiting' = waiting \cup {Item(t)} /\ GoesOn(t) /\ Busy(Target[Item(t)])
        /\ UNCHANGED <<queue, turn, fresh, retry>>
    BY <1>6 DEF Parks, Held, Rest, work
  <2>2. CASE h = Item(t)
    BY <2>1, <2>2 DEF Covered, Busy
  <2>3. CASE h # Item(t)
    <3>1. Minds(h) /\ Queued(h)
      BY <1>1, <1>6, <2>1, <2>3, MindsOthers DEF Parks, Works, Queued
    <3> QED
      BY <1>2, <2>1, <3>1, CoverStays DEF Busy
  <2> QED
    BY <2>2, <2>3
(* A drain that asks the user, or starts a turn, comes back to its head.   *)
<1>7. ASSUME NEW t \in Bots, Works(t), Queued(Item(t)), NEW pc \in {"approval", "starting"},
             Awaits(t, pc), waiting' = waiting \ {Item(t)},
             UNCHANGED <<queue, fresh, retry>>,
             Busy(Target[h]) => Busy(Target[h])'
      PROVE  Covered(h)'
  <2>1. drain[t].todo # <<>> /\ drain[t].pc # "idle" /\ Queued(h)
    BY <1>1, <1>7 DEF Works, Queued
  <2>2. CASE h = Item(t)
    <3>1. s = t
      BY <1>7, <2>2, ItemFacts
    <3>2. drain'[t].pc = pc /\ drain'[t].todo = drain[t].todo
      BY <1>7, AwaitsEffect
    <3>3. h \in Range(drain[t].todo)
      BY <2>1, <2>2, TypeFacts, HeadAndTail DEF Item
    <3> QED
      BY <3>1, <3>2, <3>3 DEF Covered
  <2>3. CASE h # Item(t)
    <3>1. Minds(h)
      BY <1>7, <2>1, MindsOthers
    <3> QED
      BY <1>2, <1>7, <2>1, <2>3, <3>1, CoverStays
  <2> QED
    BY <2>2, <2>3
<1>8. ASSUME NEW t \in Bots, Asks(t)
      PROVE  Covered(h)'
  <2>1. /\ Works(t) /\ Queued(Item(t)) /\ Awaits(t, "approval") /\ waiting' = waiting \ {Item(t)}
        /\ UNCHANGED <<queue, fresh, retry, turn>>
    BY <1>8 DEF Asks, Rest, work
  <2> QED
    BY <1>7, <2>1 DEF Busy
<1>9. ASSUME NEW t \in Bots, Starts(t)
      PROVE  Covered(h)'
  <2>1. /\ Works(t) /\ Queued(Item(t)) /\ Awaits(t, "starting") /\ waiting' = waiting \ {Item(t)}
        /\ UNCHANGED <<queue, fresh, retry>> /\ Start(t, Item(t)) /\ ~Busy(Target[Item(t)])
    BY <1>9 DEF Starts, Start, Rest
  <2>2. Item(t) \in Handoffs /\ Target[Item(t)] \in Bots
    BY <2>1, ItemFacts
  <2>3. Busy(Target[h]) => Busy(Target[h])'
    BY <1>1, <2>1, <2>2, StartEffect DEF Busy
  <2> QED
    BY <1>7, <2>1, <2>3
<1>10. ASSUME NEW t \in Bots, DrainEnds(t)
       PROVE  Covered(h)'
  <2>1. UNCHANGED <<queue, fresh, waiting, retry, turn>> /\ drain[t].todo = <<>>
    BY <1>10 DEF DrainEnds, ledger, work, history
  <2>2. Queued(h)
    BY <1>1, <2>1 DEF Queued
  <2>3. CASE s # t
    <3>1. drain'[s] = drain[s]
      BY <1>1, <1>10, <2>3 DEF DrainEnds, TypeOK
    <3> QED
      BY <1>2, <2>1, <2>2, <3>1, CoverStays DEF Busy, Minds
  <2>4. CASE s = t /\ drain' = [drain EXCEPT ![t] = Snapshot(queue[t])]
    <3>1. drain'[t] = Snapshot(queue[t]) /\ queue[t] \in Seq(Handoffs)
      BY <2>4 DEF TypeOK
    <3>2. drain'[t].pc = "ready" /\ drain'[t].todo = queue[t]
      BY <3>1, SnapshotFacts
    <3> QED
      BY <2>2, <2>4, <3>2 DEF Covered, Queued
  <2>5. CASE s = t /\ drain' # [drain EXCEPT ![t] = Snapshot(queue[t])]
    <3>1. queue[t] # <<>> /\ h \notin Range(drain[t].todo)
      BY <2>1, <2>2, <2>5 DEF Queued, Range
    <3>2. ~drain[t].again /\ Range(queue[t]) \subseteq drain[t].seen
      BY <1>10, <2>5, <3>1 DEF DrainEnds
    <3>3. h \in fresh \/ (h \in waiting /\ (Busy(Target[h]) \/ Target[h] \in retry))
      BY <1>2, <2>2, <2>5, <3>1, <3>2 DEF Covered, Queued
    <3> QED
      BY <2>1, <3>3 DEF Covered, Busy
  <2> QED
    BY <2>3, <2>4, <2>5
<1>11. ASSUME NEW t \in Bots, StartAnswered(t)
       PROVE  Covered(h)'
  <2>1. drain[t].todo # <<>> /\ drain[t].pc = "starting" /\ GoesOn(t) /\ queue' = Without({Item(t)})
    BY <1>11 DEF StartAnswered, QueuesInv
  <2>2. Range(Without({Item(t)})[s]) = Range(queue[s]) \ {Item(t)}
    BY <1>1, WithoutFacts
  <2>3. Queued(h) /\ h # Item(t)
    BY <1>1, <2>1, <2>2 DEF Queued
  <2>4. Minds(h)
    BY <2>1, <2>3, MindsOthers
  <2>5. UNCHANGED <<waiting, retry, fresh>> /\ \E S : Wake(S, turn)
    BY <1>11 DEF StartAnswered
  <2>6. Busy(Target[h]) => Busy(Target[h])'
    BY <1>1, <2>5, WakeBusies DEF Busy
  <2> QED
    BY <1>2, <2>3, <2>4, <2>5, <2>6, CoverStays
(* What b's coming free releases is drained; the others wait on.           *)
<1>12. ASSUME NEW b \in Bots, Retry(b)
       PROVE  Covered(h)'
  <2> DEFINE freed == {g \in waiting : Target[g] = b /\ Queued(g) /\ ~Busy(b)}
             released == {Source[g] : g \in freed}
  <2>1. released \in SUBSET Bots
    BY DelegationsAssumption DEF TypeOK
  <2>2. /\ Drain(released, queue) /\ retry' = retry \ {b} /\ waiting' = waiting \ freed
        /\ UNCHANGED <<queue, fresh, turn>>
    BY <1>12 DEF Retry, work, history
  <2>3. Queued(h) /\ Covered(h)
    BY <1>1, <1>2, <2>2 DEF Queued
  <2>4. Minds(h) /\ (s \in released => Covered(h)')
    BY <2>1, <2>2, <2>3, DrainCovers
  <2>5. CASE h \in freed
    BY <2>4, <2>5
  <2>6. CASE h \notin freed
    <3>1. CASE h \in waiting /\ (Busy(Target[h]) \/ Target[h] \in retry)
      BY <2>2, <2>3, <2>6, <3>1 DEF Covered, Busy
    <3>2. CASE h \in fresh
      BY <2>2, <3>2 DEF Covered
    <3>3. CASE ~(h \in waiting /\ (Busy(Target[h]) \/ Target[h] \in retry)) /\ h \notin fresh
      BY <2>3, <2>4, <3>3 DEF Covered, Minds
    <3> QED
      BY <3>1, <3>2, <3>3
  <2> QED
    BY <2>5, <2>6
<1>13. ASSUME NEW b \in Bots, ComesFree(b)
       PROVE  /\ Target[h] \in retry => Target[h] \in retry'
              /\ Busy(Target[h]) => Busy(Target[h])' \/ Target[h] \in retry'
  <2>1. /\ retry' = retry \cup {b}
        /\ \A c \in Bots : c # b => turn'[c] = turn[c] \/ (turn[c] = "idle" /\ turn'[c] = "wake")
    BY <1>13, ComesFreeEffect
  <2> QED
    BY <1>1, <2>1 DEF Busy
<1>14. ASSUME NEW b \in Bots, TurnCompletes(b)
       PROVE  Covered(h)'
  <2>1. /\ ComesFree(b) /\ Drain({b}, queue) /\ fresh' = {g \in fresh : Source[g] # b}
        /\ UNCHANGED <<queue, waiting>>
    BY <1>14 DEF TurnCompletes
  <2>2. Queued(h) /\ Covered(h)
    BY <1>1, <1>2, <2>1 DEF Queued
  <2>3. Minds(h) /\ (s \in {b} => Covered(h)')
    BY <2>1, <2>2, DrainCovers
  <2>4. CASE s # b
    BY <1>13, <2>1, <2>2, <2>3, <2>4, CoverStays
  <2> QED
    BY <2>3, <2>4
<1>15. ASSUME NEW b \in Bots, TurnFails(b)
       PROVE  Covered(h)'
  <2>1. /\ ComesFree(b) /\ queue' = [queue EXCEPT ![b] = <<>>] /\ drain' = drain
        /\ waiting' = waiting \ Range(queue[b]) /\ fresh' = fresh \ Range(queue[b])
    BY <1>15 DEF TurnFails
  <2>2. Range(<<>>) = {}
    BY DEF Range
  <2>3. s # b /\ queue'[s] = queue[s]
    BY <1>1, <2>1, <2>2 DEF TypeOK
  <2>4. Queued(h) /\ h \notin Range(queue[b])
    BY <1>1, <2>3 DEF Queued, QueuesInv
  <2> QED
    BY <1>2, <1>3, <1>13, <2>1, <2>4, CoverStays
<1>16. ASSUME NEW b \in Bots, SetupFails(b) \/ ReleaseOwnership(b)
       PROVE  Covered(h)'
  <2>1. ComesFree(b) /\ UNCHANGED <<queue, waiting, drain, fresh>>
    BY <1>16 DEF SetupFails, ReleaseOwnership, ledger
  <2>2. Queued(h)
    BY <1>1, <2>1 DEF Queued
  <2> QED
    BY <1>2, <1>3, <1>13, <2>1, <2>2, CoverStays
<1>17. ASSUME NEW b \in Bots, UserTurn(b) \/ TurnStalls(b)
       PROVE  Covered(h)'
  <2>1. UNCHANGED <<queue, waiting, drain, fresh, retry>>
    BY <1>17 DEF UserTurn, TurnStalls, ledger
  <2>2. Queued(h)
    BY <1>1, <2>1 DEF Queued
  <2>3. Busy(Target[h]) => Busy(Target[h])'
    <3>1. CASE UserTurn(b)
      BY <1>1, <3>1 DEF UserTurn, Busy, TypeOK
    <3>2. CASE TurnStalls(b)
      <4> DEFINE busy == [turn EXCEPT ![b] = "stalled"]
      <4>1. Wake(Watched(b), busy)
        BY <3>2 DEF TurnStalls
      <4>2. Busy(Target[h]) => busy[Target[h]] # "idle"
        BY <1>1 DEF Busy, TypeOK
      <4> HIDE DEF busy
      <4> QED
        BY <1>1, <4>1, <4>2, WakeBusies
    <3> QED
      BY <1>17, <3>1, <3>2
  <2> QED
    BY <1>2, <1>3, <2>1, <2>2, <2>3, CoverStays
<1>18. ASSUME NEW g \in Handoffs, QueueDelegation(g)
       PROVE  Covered(h)'
  <2>1. fresh' = fresh \cup {g} /\ UNCHANGED <<waiting, drain, retry, turn>>
    BY <1>18 DEF QueueDelegation, work
  <2>2. CASE h = g
    BY <2>1, <2>2 DEF Covered
  <2>3. CASE h # g
    <3> DEFINE u == Source[g]
    <3>1. u \in Bots /\ queue[u] \in Seq(Handoffs)
      BY DelegationsAssumption DEF TypeOK
    <3>2. queue'[u] = Append(queue[u], g) /\ \A t \in Bots : t # u => queue'[t] = queue[t]
      BY <1>18, <3>1 DEF QueueDelegation, TypeOK
    <3>3. Range(queue'[u]) = Range(queue[u]) \union {g}
      BY <3>1, <3>2, AppendRange
    <3>4. Queued(h)
      BY <1>1, <2>3, <3>2, <3>3 DEF Queued
    <3> QED
      BY <1>2, <1>3, <2>1, <3>4, CoverStays DEF Busy
  <2> QED
    BY <2>2, <2>3
<1>19. ASSUME ExpireStale
       PROVE  Covered(h)'
  <2>1. Settle(Stuck, "expired") /\ Wake(Stuck, turn) /\ UNCHANGED <<drain, retry, fresh>>
    BY <1>19 DEF ExpireStale
  <2>2. Range(queue'[s]) = Range(queue[s]) \ Stuck
    BY <1>1, <2>1, SettleTypes DEF Outcomes
  <2>3. Queued(h) /\ (h \in waiting => h \in waiting')
    BY <1>1, <2>1, <2>2 DEF Queued, Settle
  <2>4. Busy(Target[h]) => Busy(Target[h])'
    BY <1>1, <2>1, WakeBusies DEF Busy
  <2> QED
    BY <1>2, <1>3, <2>1, <2>3, <2>4, CoverStays
<1>20. ASSUME World \/ UNCHANGED vars
       PROVE  Covered(h)'
  <2>1. UNCHANGED <<queue, waiting, drain, retry, turn, fresh>>
    BY <1>20 DEF World, WindowElapses, Bar, ProviderComesOrGoes, vars, ledger, work, history
  <2>2. Queued(h)
    BY <1>1, <2>1 DEF Queued
  <2> QED
    BY <1>2, <1>3, <2>1, <2>2, CoverStays DEF Busy
<1>21. ASSUME Restart
       PROVE  Covered(h)'
  <2>1. queue' = queue /\ queue[s] \in Seq(Handoffs)
    BY <1>1, <1>21 DEF Restart, ledger, TypeOK
  <2>2. queue[s] # <<>> /\ h \in Range(queue[s])
    BY <1>1, <2>1 DEF Range
  <2>3. drain'[s] = Snapshot(queue[s])
    BY <1>1, <1>21, <2>2 DEF Restart
  <2>4. drain'[s].pc = "ready" /\ drain'[s].todo = queue[s]
    BY <2>1, <2>3, SnapshotFacts
  <2> QED
    BY <2>2, <2>4 DEF Covered
<1> QED
  BY <1>4, <1>5, <1>6, <1>8, <1>9, <1>10, <1>11, <1>12, <1>14, <1>15, <1>16, <1>17, <1>18, <1>19, <1>20, <1>21,
     NextIsStep DEF Step, Resumes, Turns

-----------------------------------------------------------------------------
(* The invariant holds of every reachable state.                           *)
THEOREM IInvHolds == Spec => []IInv
<1>1. IInv /\ [Next]_vars => IInv'
  BY TypeOKStep, QueuesInvStep, ActiveInvStep, OnceInvStep, StartingInvStep, WatchInvStep, CoveredInvStep DEF IInv
<1> QED
  BY <1>1, InitIInv, PTL DEF Spec

(* Type correctness (TypeOK).                                              *)
THEOREM TypesAreKept == Spec => []TypeOK
<1>1. IInv => TypeOK
  BY DEF IInv
<1> QED
  BY <1>1, IInvHolds, PTL

(* A handoff becomes a turn at most once (StartedOnce), however its drains, *)
(* its approval, the failures of turns and restarts interleave.            *)
THEOREM HandoffsStartOnce == Spec => []StartedOnce
<1>1. IInv => StartedOnce
  BY DEF IInv, OnceInv, StartedOnce
<1> QED
  BY <1>1, IInvHolds, PTL

(* What has a receipt keeps it and never starts (VerdictsStand).           *)
THEOREM VerdictsAreFinal == Spec => VerdictsStand
<1> DEFINE Stands == \A h \in Handoffs : receipt[h] # "none" =>
                       receipt'[h] = receipt[h] /\ starts'[h] = starts[h]
<1>1. IInv /\ [Next]_vars => Stands
  <2> SUFFICES ASSUME IInv, [Next]_vars, NEW h \in Handoffs, receipt[h] # "none"
               PROVE  receipt'[h] = receipt[h] /\ starts'[h] = starts[h]
    OBVIOUS
  <2> USE DEF IInv
  <2>1. receipt'[h] = receipt[h]
    BY ReceiptStep
  <2>2. SUFFICES ASSUME starts'[h] # starts[h] PROVE FALSE
    BY <2>1
  <2>3. PICK t \in Bots : Starts(t) /\ Item(t) = h
    BY <2>2, StartsStep
  <2>4. ~Gone(h)
    BY <2>3, AtWork DEF Starts
  <2> QED
    BY <2>4 DEF OnceInv, Gone
<1>2. IInv /\ [Next]_vars => [Stands]_vars
  BY <1>1
<1> QED
  BY <1>2, IInvHolds, PTL DEF Spec, VerdictsStand

(* No handoff starts while its target is out of reach (RevokedIsRevoked):  *)
(* every start has passed the check of that moment, the one that follows   *)
(* an approval too.                                                        *)
THEOREM RevokedStaysOut == Spec => RevokedIsRevoked
<1> DEFINE Heeds == \A h \in Handoffs : starts'[h] > starts[h] => Target[h] \notin barred
<1>1. IInv /\ [Next]_vars => Heeds
  <2> SUFFICES ASSUME IInv, [Next]_vars, NEW h \in Handoffs, starts'[h] > starts[h]
               PROVE  Target[h] \notin barred
    OBVIOUS
  <2>1. starts[h] \in Nat
    BY DEF IInv, TypeOK
  <2>2. starts'[h] # starts[h]
    BY <2>1
  <2>3. PICK t \in Bots : Starts(t) /\ Item(t) = h
    BY <2>2, StartsStep DEF IInv
  <2> QED
    BY <2>3 DEF Starts, Reachable
<1>2. IInv /\ [Next]_vars => [Heeds]_vars
  BY <1>1
<1> QED
  BY <1>2, IInvHolds, PTL DEF Spec, RevokedIsRevoked

(* Between two events a watch is on the turn that runs (RightReply): the   *)
(* reply of any other turn of the bot is not taken for the handoff's.      *)
THEOREM RightTurnAnswers == Spec => []RightReply
<1>1. IInv => RightReply
  <2> SUFFICES ASSUME IInv, Quiet, NEW b \in Bots, watch[b] # NoHandoff
               PROVE  watch[b] = turn[b]
    BY DEF RightReply
  <2>1. watch[b] \in Handoffs
    BY DEF IInv, TypeOK
  <2>2. ~At(watch[b])
    BY <2>1, QuietFacts
  <2> QED
    BY <2>2 DEF IInv, WatchInv
<1> QED
  BY <1>1, IInvHolds, PTL

(* Whatever is queued between two events waits for its source's turn, for  *)
(* a busy target or for a drain (NoStrandedHandoff).                       *)
THEOREM NobodyStranded == Spec => []NoStrandedHandoff
<1>1. IInv => NoStrandedHandoff
  BY DEF IInv, CoveredInv, Covered, Quiet, NoStrandedHandoff
<1> QED
  BY <1>1, IInvHolds, PTL

=============================================================================
