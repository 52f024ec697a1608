---------------------------- MODULE RoomHandoffs ----------------------------
(***************************************************************************)
(* Teamwork between bots (server/room-handoffs.ts and its hooks in         *)
(* server/index.ts): a turn asks teammates for work, ends, and is resumed  *)
(* when all of them have answered.  Requests form trees, one per turn of a *)
(* user that asked for anything, bounded in depth, requests, executions    *)
(* and time.  A timer walks over all of them (Tick).                       *)
(*                                                                         *)
(* A request names its addressee: a bot in its direct thread with whoever  *)
(* asks, or in the room.  Code between two awaits is one step: tick()      *)
(* starts turns without waiting for them.  Requests keep the order of      *)
(* their creation by their number.  Saves succeed, but for one: the save   *)
(* just before a turn is started may fail and end the tick.                *)
(***************************************************************************)
EXTENDS Faults, FiniteSets, Sequences

CONSTANTS
  Bots,
  User,          \* opener of the threads in which users speak
  Room,          \* the room, one conversation
  Members,       \* bots in the room
  Spoken,        \* places where users speak
  Barrable,      \* bots that may be withdrawn from their peers
  Depth,         \* ROOM_HANDOFF_LIMITS.depth
  Requests,      \*   .requests
  Executions,    \*   .executions
  Saved,         \* nodes that the file holds at the start, as they are read
  Most, Keep,    \* retained nodes that start a pruning, and that end it
  MaxNodes,      \* bound on the nodes of a behaviour
  MaxTurns       \* bound on the turns that users start

Ids == 1 .. MaxNodes
Direct == {p \in Bots \X (Bots \union {User}) : p[1] # p[2]}
Places == Direct \union {Room}

Over == {"completed", "failed", "cancelled"}         \* terminal
Node == [status : Over \union {"source", "queued", "running", "waiting", "resume", "gone"},
         at : Places, bot : Bots, parent : 0 .. MaxNodes, root : Ids,
         reported : BOOLEAN, spent : Nat, kind : {"work", "assignment"}]

(* The file holds whole trees, parents first, in which all that was active *)
(* has failed.                                                             *)
ASSUME HandoffsAssumption ==
  /\ User \notin Bots /\ Room \notin Direct
  /\ Members \subseteq Bots /\ Spoken \subseteq Places /\ Barrable \subseteq Bots
  /\ {Depth, Requests, Executions, Most, Keep, MaxNodes, MaxTurns} \subseteq Nat
  /\ DOMAIN Saved = 1 .. Len(Saved) /\ Len(Saved) \in 0 .. MaxNodes
  /\ \A i \in DOMAIN Saved :
       /\ Saved[i] \in Node /\ Saved[i].status \in Over
       /\ Saved[i].parent < i /\ Saved[i].root \in DOMAIN Saved
       /\ Saved[i].at \in Direct => Saved[i].bot = Saved[i].at[1]

VARIABLES
  node,       \* nodes: requests, and the turns of users at their roots
  turn,       \* per place: the turn under way
  barred,     \* bots that their peers may no longer address
  expired,    \* roots older than the lifetime
  jammed,     \* history: nodes marked running by a tick that then failed
  users       \* counts the turns of users

vars == <<node, turn, barred, expired, jammed, users, faults>>

None == [status |-> "none"]
Idle == [own |-> "none"]

Init ==
  /\ node = [i \in Ids |-> IF i \in DOMAIN Saved THEN Saved[i] ELSE None]
  /\ turn = [p \in Places |-> Idle]
  /\ barred = {} /\ expired = {} /\ jammed = {}
  /\ users = 0 /\ faults = 0

-----------------------------------------------------------------------------
(* The handlers compute with the record of nodes and turns. *)
Now == [node |-> node, turn |-> turn]
Becomes(s) == node' = s.node /\ turn' = s.turn

Kept(s) == {i \in Ids : s.node[i].status \notin {"none", "gone"}}
Ended(s, i) == s.node[i].status \in Over
Active(s) == {i \in Kept(s) : ~Ended(s, i)}
Children(s, i) == {c \in Kept(s) : s.node[c].parent = i}
Parent(s, i) == s.node[i].parent                     \* 0 at a root
At(s, p) == {i \in Active(s) : s.node[i].at = p}

Put(s, nodes, status) ==
  [s EXCEPT !.node = [i \in Ids |-> IF i \in nodes
                                    THEN [s.node[i] EXCEPT !.status = status]
                                    ELSE s.node[i]]]

(* hooks.validate; a thread that was deleted cannot be addressed either. *)
Invalid(s, i) ==
  /\ Parent(s, i) # 0
  /\ s.node[i].bot \in barred

(* bot.busy: a direct turn claims its bot as it starts, a turn in the room  *)
(* when it is set up.                                                      *)
Claimed(s, p) ==
  /\ s.turn[p] # Idle
  /\ s.turn[p].step # IF p = Room THEN "setup" ELSE "refused"
AtWork(s, b) == \E p \in Places : Claimed(s, p) /\ s.turn[p].bot = b

(* The room's operation is cancelled, by a stop or by its request's end. *)
CalledOff(s) ==
  \/ ~s.turn[Room].can
  \/ s.turn[Room].own = "node" /\ Ended(s, s.turn[Room].node)

(* activeGroupTurnForBot: an operation has its bot from its beginning, but  *)
(* not while it waits for a bot at work elsewhere.                         *)
InRoom(s, b) ==
  /\ s.turn[Room] # Idle /\ s.turn[Room].bot = b
  /\ Claimed(s, Room) \/ (~CalledOff(s) /\ ~AtWork(s, b))

(* hooks.busy, groupIsWorking.  (A thread whose turn has just been refused  *)
(* gets no other in the same tick; it may in the next.)                    *)
Busy(s, i) == AtWork(s, s.node[i].bot) \/ s.turn[s.node[i].at] # Idle

-----------------------------------------------------------------------------
(* Stopping. *)

(* interruptTurn: the capability is revoked, the process is told to end. *)
Interrupted(s, places) ==
  [s EXCEPT !.turn = [p \in Places |->
     IF p \in places /\ s.turn[p] # Idle
     THEN [s.turn[p] EXCEPT !.can = FALSE,
                            !.step = IF p \in Direct /\ @ = "setup" THEN "live" ELSE @]
     ELSE s.turn[p]]]

(* interruptDirectThread, with stopAwaitingDirect: the threads' nodes are  *)
(* cancelled, and so is what they asked for and was not started.           *)
StoppedDirect(s, places) ==
  LET here   == UNION {At(s, p) : p \in places}
      queued == {c \in Active(s) : /\ Parent(s, c) \in here
                                   /\ s.node[c].status = "queued"}
  IN Interrupted(Put(s, here \union queued, "cancelled"), places)

(* What cancelTree of these nodes ends: them, and what is below them       *)
(* through nodes that have not ended.                                      *)
Below(s, nodes) ==
  LET under[i \in Ids] ==
        /\ Parent(s, i) \in Active(s)
        /\ Parent(s, i) \in nodes \/ under[Parent(s, i)]
  IN {i \in Active(s) : i \in nodes \/ under[i]}

(* Seeded fault: the nodes are ended, and their turns go on. *)
CancelledOnPaper(s, nodes, status) == Put(s, Below(s, nodes), status)

(* cancelTree: nodes below first; running ones are aborted.  That stops     *)
(* the direct thread they run in.  In the room it only marks the operation *)
(* (CalledOff): a turn that is set up already is left to its provider.     *)
CancelledTrees(s, nodes, status) ==
  LET below == Below(s, nodes)
      works == {p \in Direct : /\ s.turn[p].own = "node"
                               /\ s.turn[p].node \in below
                               /\ s.node[s.turn[p].node].status = "running"}
  IN StoppedDirect(Put(s, below, status), works)

(* Stop, pressed in a direct thread or in the room (cancelRoom). *)
Stop(p) ==
  /\ turn[p] # Idle \/ At(Now, p) # {}
  /\ Becomes(IF p = Room THEN Interrupted(CancelledTrees(Now, At(Now, Room), "cancelled"), {Room})
                         ELSE StoppedDirect(Now, {p}))
  /\ NoFault
  /\ UNCHANGED <<barred, expired, jammed, users>>

(* The thread is cleared away while no turn runs in it (cancelDirect). *)
Delete(p) ==
  /\ p \in Direct /\ turn[p] = Idle /\ At(Now, p) # {}
  /\ Becomes(CancelledTrees(Now, At(Now, p), "cancelled"))
  /\ NoFault
  /\ UNCHANGED <<barred, expired, jammed, users>>

-----------------------------------------------------------------------------
(* Turns. *)

(* A direct turn is refused to a bot that speaks in the room; a turn in the *)
(* room waits for its bot.                                                 *)
UserTurn(p, b) ==
  /\ users < MaxTurns /\ users' = users + 1
  /\ p \in Spoken /\ turn[p] = Idle
  /\ IF p = Room THEN b \in Members ELSE b = p[1] /\ ~InRoom(Now, b)
  /\ turn' = [turn EXCEPT ![p] =
                [own |-> "user", bot |-> b, node |-> 0, can |-> TRUE, asked |-> FALSE,
                 step |-> IF p = Room THEN "setup" ELSE "live"]]
  /\ NoFault
  /\ UNCHANGED <<node, barred, expired, jammed>>

(* Seeded fault: a late answer counts even when the node has ended. *)
SettledRegardless(s, t, ok) ==
  CASE t.node # 0 /\ ~ok -> CancelledTrees(s, {t.node}, "failed")
    [] t.own = "user" /\ t.node # 0 -> Put(s, {t.node}, "waiting")
    [] t.own = "node" -> Put(s, {t.node}, IF t.asked THEN "waiting" ELSE "completed")
    [] OTHER -> s

(* The end of a turn: sourceSettled for a user's turn, the continuation of *)
(* hooks.run for a node's.                                                 *)
Settled(s, t, ok) ==
  LET status == IF t.node = 0 THEN "none" ELSE s.node[t.node].status IN
  CASE t.own = "user" /\ status = "source" ->
         IF ok THEN Put(s, {t.node}, "waiting") ELSE CancelledTrees(s, {t.node}, "failed")
    [] t.own = "node" /\ status = "running" ->
         IF ~ok THEN CancelledTrees(s, {t.node}, "failed")
         ELSE Put(s, {t.node}, IF t.asked THEN "waiting" ELSE "completed")
    [] OTHER -> s

After(p, ok) == Settled([Now EXCEPT !.turn[p] = Idle], turn[p], ok)

TurnEnds(p, ok) ==
  /\ turn[p] # Idle
  /\ turn[p].step = "live" \/ (turn[p].step \in {"setup", "refused"} /\ ~ok)
  /\ Becomes(After(p, ok))
  /\ NoFault
  /\ UNCHANGED <<barred, expired, jammed, users>>

(* Before a provider is asked, a direct turn's request is looked at again,  *)
(* and a turn in the room whether it was cancelled, and whether its bot is *)
(* free.  Its provider starts with the claim: a cancellation heard between *)
(* the two is a turn that ends.                                            *)
SetupEnds(p) ==
  /\ turn[p] # Idle /\ turn[p].step = "setup"
  /\ LET i   == turn[p].node
         off == IF p = Room THEN CalledOff(Now)
                            ELSE node[i].status # "running" \/ Invalid(Now, i)
     IN /\ off \/ p # Room \/ ~AtWork(Now, turn[p].bot)
        /\ Becomes(IF off THEN After(p, FALSE) ELSE [Now EXCEPT !.turn[p].step = "live"])
  /\ NoFault
  /\ UNCHANGED <<barred, expired, jammed, users>>

(* The provider waits for its human, or is gone, and nothing ends the turn. *)
Hangs(p) ==
  /\ Fault
  /\ turn[p] # Idle /\ turn[p].step = "live"
  /\ turn' = [turn EXCEPT ![p].step = "hung"]
  /\ UNCHANGED <<node, barred, expired, jammed, users>>

-----------------------------------------------------------------------------
(* enqueue *)

(* A bounded history: the oldest trees go whose root has ended. *)
Pruned(s) ==
  LET roots == {i \in Kept(s) : Parent(s, i) = 0 /\ Ended(s, i)}
      kept[i \in 0 .. MaxNodes] ==
        IF i = 0 THEN Kept(s)
        ELSE IF i \in roots /\ Cardinality(kept[i - 1]) >= Keep
        THEN {j \in kept[i - 1] : s.node[j].root # i}
        ELSE kept[i - 1]
  IN IF Cardinality(Kept(s)) < Most THEN s
     ELSE Put(s, Kept(s) \ kept[MaxNodes], "gone")

Path(s, i) ==
  LET above[j \in 0 .. MaxNodes] ==
        IF j = 0 THEN {} ELSE {j} \union above[Parent(s, j)]
  IN above[i]

(* The node that asks in this turn, or 0: a turn of a user has none yet, or *)
(* none any more.                                                          *)
Asking(p) ==
  IF turn[p].node # 0 /\ node[turn[p].node].status = "gone" THEN 0 ELSE turn[p].node

(* May this turn ask bot b at q?  Not an ancestor (there is one room, so    *)
(* an ancestor is never reachable past it), not back to the room, and not  *)
(* too deep.  A root that is new is not in the tree yet.                   *)
Allowed(s, p, q, b) ==
  LET me   == Asking(p)
      path == IF me = 0 THEN {} ELSE Path(s, me)
      work == {i \in path : s.node[i].kind = "work"}
      root == IF me = 0 THEN 0 ELSE s.node[me].root
  IN /\ \A i \in path : s.node[i].bot # b
     /\ (q = Room /\ p # Room) => \A i \in path : s.node[i].at # Room
     /\ (q # Room \/ p # Room) =>
          Cardinality(work) + (IF me = 0 THEN 1 ELSE 0) <= Depth
     /\ root # 0 =>
          /\ Cardinality({i \in Kept(s) : Parent(s, i) # 0 /\ s.node[i].root = root}) < Requests
          /\ root \notin expired

(* Left out: that the tree of the one who asks is itself evicted, its root  *)
(* having been stopped.  The code then keeps a node without its root, at   *)
(* which every later tick throws.                                          *)
Asks(p, q, b) ==
  LET t     == turn[p]
      s     == Pruned(Now)
      used  == Cardinality({i \in Ids : node[i] # None})
      fresh == Asking(p) = 0
      me    == IF fresh THEN used + 1 ELSE Asking(p)
      root  == IF fresh THEN me ELSE s.node[me].root
      child == IF fresh THEN used + 2 ELSE used + 1
      base  == [status |-> "source", at |-> p, bot |-> t.bot, parent |-> 0, root |-> root,
                reported |-> TRUE, spent |-> 0, kind |-> "work"]
      asked == [base EXCEPT !.status = "queued", !.at = q, !.bot = b, !.parent = me,
                            !.reported = FALSE,
                            !.kind = IF p = Room /\ q = Room THEN "assignment" ELSE "work"]
  IN /\ t # Idle /\ t.can /\ t.step = "live"
     /\ t.own = "node" => node[t.node].status = "running"
     /\ ~fresh => s.node[me].status # "gone"
     /\ b # t.bot /\ b \notin barred
     /\ IF q = Room THEN b \in Members
                    ELSE q = <<b, t.bot>> /\ turn[q] = Idle /\ At(Now, q) = {}
     /\ child <= MaxNodes /\ Cardinality(Kept(s)) < Most
     /\ Allowed(s, p, q, b)
     /\ node' = [i \in Ids |-> CASE i = child -> asked
                                 [] i = me /\ fresh -> base
                                 [] OTHER -> s.node[i]]
     /\ turn' = [turn EXCEPT ![p].node = me, ![p].asked = TRUE]
     /\ NoFault
     /\ UNCHANGED <<barred, expired, jammed, users>>

-----------------------------------------------------------------------------
(* tick: what it does with one node, in four steps. *)

(* Seeded fault: a running turn is left to its provider. *)
ExpiresAtRest(s, i) ==
  IF ~Ended(s, i) /\ s.node[i].status # "running"
     /\ (Invalid(s, i) \/ s.node[i].root \in expired)
  THEN CancelledTrees(s, {i}, "failed") ELSE s

Expires(s, i) ==
  IF ~Ended(s, i) /\ (Invalid(s, i) \/ s.node[i].root \in expired)
  THEN CancelledTrees(s, {i}, "failed") ELSE s

Reports(s, i) ==
  IF Ended(s, i) THEN [s EXCEPT !.node[i].reported = TRUE] ELSE s

Answered(s, c) == Ended(s, c) /\ s.node[c].reported

(* Seeded fault: the first answer resumes the one who asked. *)
ResumesEarly(s, i) ==
  IF s.node[i].status = "waiting" /\ \E c \in Children(s, i) : Answered(s, c)
  THEN Put(s, {i}, "resume") ELSE s

(* Seeded fault: a failed request is no answer. *)
ResumesOnSuccess(s, i) ==
  IF /\ s.node[i].status = "waiting"
     /\ Children(s, i) # {}
     /\ \A c \in Children(s, i) : s.node[c].status = "completed" /\ Answered(s, c)
  THEN Put(s, {i}, "resume") ELSE s

Resumes(s, i) ==
  IF /\ s.node[i].status = "waiting"
     /\ Children(s, i) # {}
     /\ \A c \in Children(s, i) : Answered(s, c)
  THEN Put(s, {i}, "resume") ELSE s

(* startTurn throws for a bot whose room is still setting its turn up: what *)
(* is left of that turn is the answer that it has failed.                  *)
FirstStep(s, i) ==
  IF s.node[i].at # Room /\ InRoom(s, s.node[i].bot) THEN "refused" ELSE "setup"

Started(s, i) ==
  [s EXCEPT !.node[i].status = "running",
            !.node[s.node[i].root].spent = @ + 1,
            !.turn[s.node[i].at] = [own |-> "node", bot |-> s.node[i].bot, node |-> i,
                                    step |-> FirstStep(s, i), can |-> TRUE, asked |-> FALSE]]

AuthorAtWork(s, i) ==
  Parent(s, i) # 0 /\ s.node[Parent(s, i)].status \in {"source", "running"}

Launches(s, i) ==
  CASE s.node[i].status \notin {"queued", "resume"} \/ AuthorAtWork(s, i) -> s
    [] /\ s.node[i].status = "queued" /\ ~AuthorAtWork(s, i)
       /\ Parent(s, i) # 0 /\ Ended(s, Parent(s, i)) -> CancelledTrees(s, {i}, "cancelled")
    [] OTHER ->
       IF Busy(s, i) THEN s
       ELSE IF s.node[s.node[i].root].spent >= Executions
       THEN CancelledTrees(s, {i}, "failed") ELSE Started(s, i)

Visited(s, i) ==
  IF i \notin Kept(s) THEN s
  ELSE Launches(Resumes(Reports(Expires(s, i), i), i), i)

(* The nodes up to this one have been visited. *)
Walked(n) ==
  LET after[i \in 0 .. MaxNodes] == IF i = 0 THEN Now ELSE Visited(after[i - 1], i)
  IN after[n]

Tick ==
  /\ Becomes(Walked(MaxNodes))
  /\ NoFault
  /\ UNCHANGED <<barred, expired, jammed, users>>

(* The save after a node was marked running fails: tick() ends there, and  *)
(* no turn is started.                                                     *)
TickFails(i) ==
  /\ Fault
  /\ LET s == Walked(i - 1)
         v == Visited(s, i)
     IN /\ s.node[i].status # "running" /\ v.node[i].status = "running"
        /\ Becomes([v EXCEPT !.turn = s.turn])
  /\ jammed' = jammed \union {i}
  /\ UNCHANGED <<barred, expired, users>>

-----------------------------------------------------------------------------
Bar(b) ==
  /\ b \in Barrable \ barred
  /\ barred' = barred \union {b}
  /\ NoFault
  /\ UNCHANGED <<node, turn, expired, jammed, users>>

LifetimePasses(r) ==
  /\ r \notin expired /\ \E i \in Active(Now) : node[i].root = r
  /\ expired' = expired \union {r}
  /\ NoFault
  /\ UNCHANGED <<node, turn, barred, jammed, users>>

(* Whatever had not ended has failed, and is never run again. *)
Restart ==
  /\ Fault
  /\ Becomes([Put(Now, Active(Now), "failed") EXCEPT !.turn = [p \in Places |-> Idle]])
  /\ UNCHANGED <<barred, expired, jammed, users>>

Next ==
  \/ \E p \in Places :
       \/ Stop(p) \/ Delete(p) \/ SetupEnds(p) \/ Hangs(p)
       \/ \E ok \in BOOLEAN : TurnEnds(p, ok)
       \/ \E b \in Bots : UserTurn(p, b) \/ (\E q \in Places : Asks(p, q, b))
  \/ Tick
  \/ \E i \in Ids : TickFails(i) \/ LifetimePasses(i)
  \/ \E b \in Bots : Bar(b)
  \/ Restart

Spec == Init /\ [][Next]_vars

(* Weak fairness of Tick and of GoesOn, with what enables them written out. *)
(* The timer ticks while a tick would change something; and of the turns   *)
(* that do not hang one goes on, which is enough, as a tree has no more    *)
(* turns than its executions.                                              *)
TickDue == Walked(MaxNodes) # Now
UnderWay == \E p \in Places : turn[p] # Idle /\ turn[p].step # "hung"
GoesOn == \E p \in Places : SetupEnds(p) \/ \E ok \in BOOLEAN : TurnEnds(p, ok)

Fairness ==
  /\ []<>(~TickDue) \/ []<><<Tick>>_vars
  /\ []<>(~UnderWay) \/ []<><<GoesOn>>_vars

FairSpec == Spec /\ Fairness

-----------------------------------------------------------------------------
(* Nobody is resumed before all have answered: who waits for teammates goes *)
(* on only when each of their requests has ended and is reported, however   *)
(* they ended and whatever was asked meanwhile.                             *)
ResumedWithAllAnswers ==
  [][\A i \in Ids :
       node[i].status \in {"waiting", "resume"} /\ node'[i].status \in {"resume", "running"}
       => \A c \in Children(Now, i) : Answered(Now, c)]_vars

(* A request's work and its process agree: a running request has its turn, *)
(* or its tick failed, and a turn in a direct thread whose request has     *)
(* ended by a stop, a timeout or a withdrawn route is being interrupted.   *)
WorkHasItsTurn ==
  /\ \A i \in Active(Now) \ jammed :
       node[i].status = "running" =>
         turn[node[i].at].own = "node" /\ turn[node[i].at].node = i
  /\ \A p \in Direct :
       turn[p].own = "node" /\ turn[p].can =>
         node[turn[p].node].status \in {"running", "gone"}

(* What a request ended with stands, and so does its report: no late       *)
(* answer, restart or second stop changes it.                              *)
EndsStand ==
  [][\A i \in Ids : Ended(Now, i) =>
       \/ node'[i].status = "gone"
       \/ /\ node'[i].status = node[i].status
          /\ node[i].reported => node'[i].reported]_vars

Concluded(i) ==
  node[i].status = "gone" \/ (Ended(Now, i) /\ node[i].reported)

(* Waiting for each other never blocks: while no turn hangs and no save     *)
(* failed, every request is answered and every turn that asked is resumed  *)
(* and ends, without any timeout.                                          *)
TeamsFinish ==
  Active(Now) # {} ~>
    \/ \A i \in Kept(Now) : Concluded(i)
    \/ jammed # {}
    \/ \E p \in Places : turn[p] # Idle /\ turn[p].step = "hung"

(* Whatever hangs, all of a tree ends and is reported once its lifetime    *)
(* has passed.                                                             *)
Expired == {i \in Kept(Now) : node[i].root \in expired}
LifetimeEndsAll ==
  Expired \intersect Active(Now) # {} ~> \A i \in Expired : Concluded(i)

=============================================================================
