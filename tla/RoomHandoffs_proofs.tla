-------------------------- MODULE RoomHandoffs_proofs -------------------------
(***************************************************************************)
(* Proofs about RoomHandoffs, for any bots, threads, limits and saved      *)
(* trees.                                                                  *)
(*                                                                         *)
(* The handlers compute with the record of nodes and turns, and tick() is  *)
(* a loop of such computations: what is proved of a state is proved of     *)
(* records, and what is proved of a step of two of them.                   *)
(***************************************************************************)
EXTENDS RoomHandoffs, Filters_proofs

-----------------------------------------------------------------------------
(* The inductive invariant. *)

Turn == [own : {"user", "node"}, bot : Bots, node : 0 .. MaxNodes,
         step : {"setup", "refused", "live", "hung"}, can : BOOLEAN, asked : BOOLEAN]

State == [node : [Ids -> Node \union {None}], turn : [Places -> Turn \union {Idle}]]

(* The nodes that have been created, in the order of their numbers. *)
Known(s) == {i \in Ids : s.node[i] # None}
Numbered(s) == \E n \in 0 .. MaxNodes : Known(s) = 1 .. n

(* A node comes after the one that asked for it; a bot's direct thread is  *)
(* its own; only what has ended is reported; and who is about to be        *)
(* resumed has all its answers.                                            *)
Grown(s) ==
  \A i \in Known(s) :
    LET n == s.node[i] IN
    /\ n.parent < i /\ n.root \in Known(s)
    /\ n.at \in Direct => n.bot = n.at[1]
    /\ n.parent # 0 /\ n.reported => n.status \in Over \union {"gone"}
    /\ n.status = "resume" => \A c \in Children(s, i) : Answered(s, c)

(* A turn is one of its thread's bot; a node's turn is where its node is,  *)
(* and may act only while that is running; a user's turn is at the root    *)
(* that it has become, which waits for nobody before it ends.              *)
Taken(s) ==
  \A p \in Places : s.turn[p] # Idle =>
    LET t == s.turn[p]
        n == s.node[t.node]
    IN /\ p \in Direct => t.bot = p[1]
       /\ t.own = "node" => /\ t.node \in Known(s) /\ n.at = p /\ n.bot = t.bot
                            /\ p \in Direct /\ t.can => n.status \in {"running", "gone"}
       /\ t.own = "user" /\ t.node # 0 =>
            /\ t.node \in Known(s) /\ n.at = p
            /\ n.status \in Over \union {"source", "gone"}

(* A running node has its turn, except for those of J. *)
Worked(s, J) ==
  \A i \in Ids \ J : s.node[i].status = "running" =>
    s.turn[s.node[i].at].own = "node" /\ s.turn[s.node[i].at].node = i

Fine(s, J) ==
  s \in State /\ Numbered(s) /\ Grown(s) /\ Taken(s) /\ Worked(s, J)

IInv == Fine(Now, jammed)

-----------------------------------------------------------------------------
(* Nodes and turns. *)

Unfinished == {"source", "queued", "running", "waiting", "resume"}

(* A node that is known has its type, and is active until it has ended or  *)
(* is gone.                                                                *)
LEMMA NodesOf ==
  ASSUME NEW s \in State
  PROVE  \A i \in Ids :
           /\ i \in Known(s) => s.node[i] \in Node
           /\ i \notin Known(s) => s.node[i] = None /\ s.node[i].status = "none"
           /\ i \in Known(s) <=> s.node[i].status # "none"
           /\ i \in Kept(s) <=> i \in Known(s) /\ s.node[i].status # "gone"
           /\ i \in Active(s) <=> s.node[i].status \in Unfinished
           /\ i \in Active(s) => i \in Known(s)
           /\ Ended(s, i) => i \in Known(s)
<1> SUFFICES ASSUME NEW i \in Ids
             PROVE  /\ i \in Known(s) => s.node[i] \in Node
                    /\ i \notin Known(s) => s.node[i] = None /\ s.node[i].status = "none"
                    /\ i \in Known(s) <=> s.node[i].status # "none"
                    /\ i \in Kept(s) <=> i \in Known(s) /\ s.node[i].status # "gone"
                    /\ i \in Active(s) <=> s.node[i].status \in Unfinished
                    /\ i \in Active(s) => i \in Known(s)
                    /\ Ended(s, i) => i \in Known(s)
  OBVIOUS
<1>1. s.node[i] \in Node \/ s.node[i] = None
  BY DEF State
<1>2. None.status = "none" /\ \A n \in Node : n.status # "none" /\ n # None
  BY DEF None, Node, Over
<1>3. s.node[i] \in Node => s.node[i].status \in Unfinished \union Over \union {"gone"}
  BY DEF Node, Unfinished, Over
<1>4. i \in Known(s) <=> s.node[i] \in Node
  BY <1>1, <1>2 DEF Known
<1> QED
  BY <1>1, <1>2, <1>3, <1>4 DEF Kept, Active, Ended, Unfinished, Over, Known

(* A turn has its type. *)
LEMMA TurnsOf ==
  ASSUME NEW s \in State, NEW p \in Places
  PROVE  /\ s.turn[p] # Idle => s.turn[p] \in Turn
         /\ s.turn[p] = Idle <=> s.turn[p].own = "none"
<1>1. s.turn[p] \in Turn \/ s.turn[p] = Idle
  BY DEF State
<1>2. Idle.own = "none" /\ \A t \in Turn : t.own # "none"
  BY DEF Idle, Turn
<1> QED
  BY <1>1, <1>2

WithStatus(n, status) == [n EXCEPT !.status = status]

(* A status is put to nodes that are known. *)
LEMMA PutAt ==
  ASSUME NEW s \in State, NEW nodes, nodes \intersect Ids \subseteq Known(s),
         NEW status \in Over \union Unfinished \union {"gone"}
  PROVE  /\ Put(s, nodes, status) \in State
         /\ Put(s, nodes, status).turn = s.turn
         /\ \A i \in Ids :
              /\ i \in nodes => Put(s, nodes, status).node[i] = WithStatus(s.node[i], status)
              /\ i \notin nodes => Put(s, nodes, status).node[i] = s.node[i]
<1> DEFINE ns == [i \in Ids |-> IF i \in nodes THEN WithStatus(s.node[i], status)
                                ELSE s.node[i]]
<1>1. s.node \in [Ids -> Node \union {None}] /\ s.turn \in [Places -> Turn \union {Idle}]
      /\ s = [node |-> s.node, turn |-> s.turn]
  BY DEF State
<1>2. ASSUME NEW i \in Ids
      PROVE  ns[i] \in Node \union {None}
  <2>1. CASE i \in nodes
    <3>1. s.node[i] \in Node
      BY <2>1, NodesOf
    <3>2. WithStatus(s.node[i], status) \in Node
      BY <3>1 DEF WithStatus, Node, Unfinished, Over
    <3> QED
      BY <2>1, <3>2
  <2>2. CASE i \notin nodes
    BY <1>1, <2>2
  <2> QED
    BY <2>1, <2>2
<1>3. ns \in [Ids -> Node \union {None}]
  BY <1>2
<1>4. Put(s, nodes, status) = [node |-> ns, turn |-> s.turn]
  BY <1>1 DEF Put, WithStatus
<1> HIDE DEF ns
<1>5. Put(s, nodes, status) \in State /\ Put(s, nodes, status).turn = s.turn
      /\ Put(s, nodes, status).node = ns
  BY <1>1, <1>3, <1>4 DEF State
<1> QED
  BY <1>5 DEF ns

(* A record whose status is replaced. *)
LEMMA StatusOf ==
  ASSUME NEW n \in Node, NEW status
  PROVE  LET m == WithStatus(n, status) IN
         /\ m.status = status /\ m.parent = n.parent /\ m.root = n.root /\ m.at = n.at
         /\ m.bot = n.bot /\ m.reported = n.reported
BY DEF WithStatus, Node

-----------------------------------------------------------------------------
(* What ends nodes: a stop, a timeout, a failure. *)

(* Of the nodes, some that were active have ended; ... *)
EndsNodes(s, v) ==
  \A i \in Ids :
    \/ v.node[i] = s.node[i]
    \/ /\ i \in Active(s) /\ v.node[i].status \in Over
       /\ v.node[i] = WithStatus(s.node[i], v.node[i].status)

(* ... of the turns, some are interrupted. *)
Interrupts(s, v, p) ==
  /\ s.turn[p] # Idle /\ v.turn[p] # Idle /\ ~v.turn[p].can
  /\ v.turn[p].own = s.turn[p].own /\ v.turn[p].bot = s.turn[p].bot
  /\ v.turn[p].node = s.turn[p].node

(* Active nodes end, and turns are interrupted: those of the nodes that    *)
(* end, and maybe others.                                                  *)
Ending(s, v) ==
  /\ v \in State
  /\ EndsNodes(s, v)
  /\ \A p \in Places : v.turn[p] = s.turn[p] \/ Interrupts(s, v, p)
  /\ \A p \in Places :
       p \in Direct /\ v.turn[p].own = "node" /\ v.turn[p].can =>
         v.node[v.turn[p].node] = s.node[v.turn[p].node]

(* What it leaves of a node. *)
LEMMA EndingNode ==
  ASSUME NEW s \in State, NEW v, Ending(s, v), NEW i \in Ids
  PROVE  /\ i \in Known(v) <=> i \in Known(s)
         /\ i \in Kept(v) <=> i \in Kept(s)
         /\ i \notin Active(s) => v.node[i] = s.node[i]
         /\ v.node[i].status = s.node[i].status \/ (i \in Active(s) /\ v.node[i].status \in Over)
         /\ i \in Known(s) =>
              /\ v.node[i].parent = s.node[i].parent /\ v.node[i].root = s.node[i].root
              /\ v.node[i].at = s.node[i].at /\ v.node[i].bot = s.node[i].bot
              /\ v.node[i].reported = s.node[i].reported
<1>1. v \in State
  BY DEF Ending
<1>2. CASE v.node[i] = s.node[i]
  BY <1>1, <1>2, NodesOf
<1>3. CASE /\ i \in Active(s) /\ v.node[i].status \in Over
           /\ v.node[i] = WithStatus(s.node[i], v.node[i].status)
  <2>1. s.node[i] \in Node /\ i \in Known(s) /\ i \in Kept(s)
    BY <1>3, NodesOf DEF Active
  <2>2. v.node[i].status \notin {"none", "gone"}
    BY <1>3 DEF Over
  <2>3. i \in Known(v) /\ i \in Kept(v)
    BY <1>1, <2>2, NodesOf
  <2> DEFINE st == v.node[i].status
  <2>4. v.node[i] = WithStatus(s.node[i], st)
    BY <1>3
  <2> HIDE DEF st
  <2>5. /\ v.node[i].parent = s.node[i].parent /\ v.node[i].root = s.node[i].root
        /\ v.node[i].at = s.node[i].at /\ v.node[i].bot = s.node[i].bot
        /\ v.node[i].reported = s.node[i].reported
    BY <2>1, <2>4, StatusOf
  <2> QED
    BY <1>3, <2>1, <2>3, <2>5
<1> QED
  BY <1>2, <1>3 DEF Ending, EndsNodes

(* So the children of a node are those of before. *)
LEMMA EndingChildren ==
  ASSUME NEW s \in State, NEW v, Ending(s, v), NEW i
  PROVE  /\ Children(v, i) = Children(s, i)
         /\ \A c \in Ids : Answered(s, c) => Answered(v, c)
<1>1. \A c \in Ids : c \in Kept(v) <=> c \in Kept(s)
  BY EndingNode
<1>2. \A c \in Kept(s) : c \in Ids /\ c \in Known(s)
  BY NodesOf DEF Kept
<1>3. \A c \in Kept(s) : v.node[c].parent = s.node[c].parent
  BY <1>2, EndingNode
<1>4. \A c \in Kept(v) : c \in Ids
  BY DEF Kept
<1>5. ASSUME NEW c \in Ids, Answered(s, c)
      PROVE  Answered(v, c)
  <2>1. c \notin Active(s)
    BY <1>5 DEF Active, Answered
  <2>2. v.node[c] = s.node[c]
    BY <2>1, EndingNode
  <2> QED
    BY <1>5, <2>2 DEF Answered, Ended
<1> QED
  BY <1>1, <1>2, <1>3, <1>4, <1>5 DEF Children, Parent

(* It keeps what is proved of a state. *)
LEMMA FineEnding ==
  ASSUME NEW s, NEW J, Fine(s, J), NEW v, Ending(s, v)
  PROVE  Fine(v, J)
<1>1. s \in State /\ v \in State
  BY DEF Fine, Ending
<1>2. \A i \in Ids :
         /\ i \in Known(v) <=> i \in Known(s)
         /\ v.node[i].status = s.node[i].status \/ (i \in Active(s) /\ v.node[i].status \in Over)
         /\ i \notin Active(s) => v.node[i] = s.node[i]
         /\ i \in Known(s) =>
              /\ v.node[i].parent = s.node[i].parent /\ v.node[i].root = s.node[i].root
              /\ v.node[i].at = s.node[i].at /\ v.node[i].bot = s.node[i].bot
              /\ v.node[i].reported = s.node[i].reported
  BY <1>1, EndingNode
<1>3. Known(v) = Known(s) /\ Known(s) \subseteq Ids
  BY <1>2 DEF Known
<1>4. Grown(v)
  <2> SUFFICES ASSUME NEW i \in Known(v)
               PROVE  /\ v.node[i].parent < i /\ v.node[i].root \in Known(v)
                      /\ v.node[i].at \in Direct => v.node[i].bot = v.node[i].at[1]
                      /\ v.node[i].parent # 0 /\ v.node[i].reported =>
                           v.node[i].status \in Over \union {"gone"}
                      /\ v.node[i].status = "resume" => \A c \in Children(v, i) : Answered(v, c)
    BY DEF Grown
  <2>1. i \in Known(s) /\ i \in Ids
    BY <1>3
  <2>2. /\ s.node[i].parent < i /\ s.node[i].root \in Known(s)
        /\ s.node[i].at \in Direct => s.node[i].bot = s.node[i].at[1]
        /\ s.node[i].parent # 0 /\ s.node[i].reported =>
             s.node[i].status \in Over \union {"gone"}
        /\ s.node[i].status = "resume" => \A c \in Children(s, i) : Answered(s, c)
    BY <2>1 DEF Fine, Grown
  <2>3. ASSUME v.node[i].status = "resume", NEW c \in Children(v, i)
        PROVE  Answered(v, c)
    <3>1. s.node[i].status = "resume"
      BY <1>2, <2>1, <2>3 DEF Over
    <3>2. c \in Children(s, i) /\ c \in Ids
      BY <1>1, <2>3, EndingChildren DEF Children, Kept
    <3> QED
      BY <1>1, <2>2, <3>1, <3>2, EndingChildren
  <2> QED
    BY <1>2, <1>3, <2>1, <2>2, <2>3
<1>5. Taken(v)
  <2> SUFFICES ASSUME NEW p \in Places, v.turn[p] # Idle
               PROVE  /\ p \in Direct => v.turn[p].bot = p[1]
                      /\ v.turn[p].own = "node" =>
                           /\ v.turn[p].node \in Known(v) /\ v.node[v.turn[p].node].at = p
                           /\ v.node[v.turn[p].node].bot = v.turn[p].bot
                           /\ p \in Direct /\ v.turn[p].can =>
                                v.node[v.turn[p].node].status \in {"running", "gone"}
                      /\ v.turn[p].own = "user" /\ v.turn[p].node # 0 =>
                           /\ v.turn[p].node \in Known(v) /\ v.node[v.turn[p].node].at = p
                           /\ v.node[v.turn[p].node].status \in Over \union {"source", "gone"}
    BY DEF Taken
  <2> DEFINE t == v.turn[p]
             j == t.node
  <2>1. /\ s.turn[p] # Idle /\ t.own = s.turn[p].own /\ t.bot = s.turn[p].bot
        /\ j = s.turn[p].node /\ (t.can => s.turn[p].can)
    BY DEF Ending, Interrupts
  <2>2. /\ p \in Direct => t.bot = p[1]
        /\ t.own = "node" => /\ j \in Known(s) /\ s.node[j].at = p /\ s.node[j].bot = t.bot
                             /\ p \in Direct /\ t.can =>
                                  s.node[j].status \in {"running", "gone"}
        /\ t.own = "user" /\ j # 0 =>
             /\ j \in Known(s) /\ s.node[j].at = p
             /\ s.node[j].status \in Over \union {"source", "gone"}
    <3> HIDE DEF t
    <3> QED
      BY <2>1 DEF Fine, Taken
  <2>3. p \in Direct /\ t.own = "node" /\ t.can => v.node[j] = s.node[j]
    BY DEF Ending
  <2> HIDE DEF t, j
  <2>4. t.own = "node" =>
          /\ j \in Known(v) /\ v.node[j].at = p /\ v.node[j].bot = t.bot
          /\ p \in Direct /\ t.can => v.node[j].status \in {"running", "gone"}
    BY <1>2, <1>3, <2>2, <2>3
  <2>5. t.own = "user" /\ j # 0 =>
          /\ j \in Known(v) /\ v.node[j].at = p
          /\ v.node[j].status \in Over \union {"source", "gone"}
    BY <1>2, <1>3, <2>2
  <2> QED
    BY <2>2, <2>4, <2>5 DEF t, j
<1>6. Worked(v, J)
  <2> SUFFICES ASSUME NEW i \in Ids \ J, v.node[i].status = "running"
               PROVE  v.turn[v.node[i].at].own = "node" /\ v.turn[v.node[i].at].node = i
    BY DEF Worked
  <2>1. s.node[i].status = "running"
    BY <1>2 DEF Over
  <2>2. s.turn[s.node[i].at].own = "node" /\ s.turn[s.node[i].at].node = i
    BY <2>1 DEF Fine, Worked
  <2>3. i \in Known(s) /\ s.node[i] \in Node
    BY <1>1, <2>1, NodesOf
  <2>4. v.node[i].at = s.node[i].at /\ s.node[i].at \in Places
    BY <1>2, <2>3 DEF Node
  <2> QED
    BY <2>2, <2>4 DEF Ending, Interrupts
<1>7. Numbered(v)
  BY <1>3 DEF Fine, Numbered
<1> QED
  BY <1>1, <1>4, <1>5, <1>6, <1>7 DEF Fine

(* What an interrupt does to the turns of some places. *)
LEMMA InterruptedAt ==
  ASSUME NEW s \in State, NEW places
  PROVE  /\ Interrupted(s, places) \in State
         /\ Interrupted(s, places).node = s.node
         /\ \A p \in Places :
              IF p \in places /\ s.turn[p] # Idle
              THEN Interrupts(s, Interrupted(s, places), p)
              ELSE Interrupted(s, places).turn[p] = s.turn[p]
<1> DEFINE hit(p) == [s.turn[p] EXCEPT !.can = FALSE,
                                       !.step = IF p \in Direct /\ @ = "setup" THEN "live" ELSE @]
           ts == [p \in Places |-> IF p \in places /\ s.turn[p] # Idle THEN hit(p) ELSE s.turn[p]]
           v == [node |-> s.node, turn |-> ts]
<1>1. s.node \in [Ids -> Node \union {None}] /\ s.turn \in [Places -> Turn \union {Idle}]
      /\ s = [node |-> s.node, turn |-> s.turn]
  BY DEF State
<1>2. ASSUME NEW p \in Places, s.turn[p] # Idle
      PROVE  /\ hit(p) \in Turn /\ ~hit(p).can /\ hit(p).own = s.turn[p].own
             /\ hit(p).bot = s.turn[p].bot /\ hit(p).node = s.turn[p].node
  <2>1. s.turn[p] \in Turn
    BY <1>2, TurnsOf
  <2> QED
    BY <2>1 DEF Turn
<1>3. Interrupted(s, places) = v
  <2>1. Interrupted(s, places) = [s EXCEPT !.turn = ts]
    BY DEF Interrupted
  <2> HIDE DEF ts
  <2>2. [s EXCEPT !.turn = ts] = [node |-> s.node, turn |-> ts]
    BY <1>1
  <2> QED
    BY <2>1, <2>2
<1> HIDE DEF hit
<1>4. ts \in [Places -> Turn \union {Idle}]
  BY <1>1, <1>2
<1>5. v \in State
  BY <1>1, <1>4 DEF State
<1>6. ASSUME NEW p \in Places
      PROVE  IF p \in places /\ s.turn[p] # Idle THEN Interrupts(s, v, p)
             ELSE v.turn[p] = s.turn[p]
  <2>1. CASE p \in places /\ s.turn[p] # Idle
    <3>1. v.turn[p] = hit(p)
      BY <2>1
    <3>2. hit(p) # Idle
      <4>1. hit(p).own # "none" /\ Idle.own = "none"
        BY <1>2, <2>1 DEF Idle, Turn
      <4> QED
        BY <4>1
    <3> HIDE DEF v
    <3> QED
      BY <1>2, <2>1, <3>1, <3>2 DEF Interrupts
  <2> QED
    BY <2>1
<1> QED
  BY <1>3, <1>5, <1>6

(* A thread is stopped where nodes may have ended just before: nothing but *)
(* ends comes of it, and no node ends whose turn runs elsewhere.           *)
LEMMA StoppedDirectAt ==
  ASSUME NEW s, NEW J, Fine(s, J), NEW u \in State, u.turn = s.turn, EndsNodes(s, u),
         NEW places \in SUBSET Places
  PROVE  LET v == StoppedDirect(u, places) IN
         /\ v \in State /\ EndsNodes(s, v)
         /\ \A p \in Places :
              IF p \in places /\ s.turn[p] # Idle THEN Interrupts(s, v, p)
              ELSE v.turn[p] = s.turn[p]
         /\ \A p \in Places \ places :
              p \in Direct /\ s.turn[p].own = "node" /\ s.turn[p].can =>
                v.node[s.turn[p].node] = u.node[s.turn[p].node]
         /\ \A i \in Ids : u.node[i].status \in Over => v.node[i] = u.node[i]
<1> DEFINE here == UNION {At(u, p) : p \in places}
           queued == {c \in Active(u) : Parent(u, c) \in here /\ u.node[c].status = "queued"}
           nodes == here \union queued
           w == Put(u, nodes, "cancelled")
           v == Interrupted(w, places)
<1>1. StoppedDirect(u, places) = v
  BY DEF StoppedDirect
<1>2. /\ \A i \in here : i \in Active(u) /\ u.node[i].at \in places
      /\ \A i \in queued : i \in Active(u) /\ u.node[i].status = "queued"
  BY DEF At
<1> HIDE DEF here, queued
<1>3. \A i \in nodes :
        /\ i \in Active(u) /\ i \in Ids
        /\ u.node[i].at \in places \/ u.node[i].status = "queued"
  BY <1>2 DEF Active, Kept
<1>4. /\ w \in State /\ w.turn = u.turn
      /\ \A i \in Ids :
           /\ i \in nodes => w.node[i] = WithStatus(u.node[i], "cancelled")
           /\ i \notin nodes => w.node[i] = u.node[i]
  <2>1. nodes \intersect Ids \subseteq Known(u)
    BY <1>3, NodesOf
  <2> HIDE DEF nodes
  <2>2. "cancelled" \in Over \union Unfinished \union {"gone"}
    BY DEF Over
  <2> QED
    BY <2>1, <2>2, PutAt
<1> HIDE DEF w, nodes
<1>5. /\ v \in State /\ v.node = w.node
      /\ \A p \in Places :
           IF p \in places /\ w.turn[p] # Idle THEN Interrupts(w, v, p)
           ELSE v.turn[p] = w.turn[p]
  BY <1>4, InterruptedAt
<1> HIDE DEF v
<1>6. s \in State
  BY DEF Fine
<1>7. ASSUME NEW i \in Ids, i \in Active(u)
      PROVE  u.node[i] = s.node[i] /\ i \in Active(s) /\ u.node[i] \in Node
  <2>1. u.node[i].status \in Unfinished /\ i \in Known(u) /\ u.node[i] \in Node
    BY <1>7, NodesOf
  <2>2. u.node[i] = s.node[i]
    BY <2>1 DEF EndsNodes, Unfinished, Over
  <2> QED
    BY <1>6, <2>1, <2>2, NodesOf
<1>8. EndsNodes(s, v)
  <2> SUFFICES ASSUME NEW i \in Ids, v.node[i] # s.node[i]
               PROVE  /\ i \in Active(s) /\ v.node[i].status \in Over
                      /\ v.node[i] = WithStatus(s.node[i], v.node[i].status)
    BY DEF EndsNodes
  <2>1. CASE i \in nodes
    <3>1. i \in Active(s) /\ u.node[i] = s.node[i] /\ u.node[i] \in Node
      BY <1>3, <1>7, <2>1
    <3>2. v.node[i] = WithStatus(s.node[i], "cancelled")
      BY <1>4, <1>5, <2>1, <3>1
    <3>3. v.node[i].status = "cancelled"
      BY <3>1, <3>2 DEF WithStatus, Node
    <3> QED
      BY <3>1, <3>2, <3>3 DEF Over
  <2>2. CASE i \notin nodes
    BY <1>4, <1>5, <2>2 DEF EndsNodes
  <2> QED
    BY <2>1, <2>2
<1>9. \A p \in Places :
        IF p \in places /\ s.turn[p] # Idle THEN Interrupts(s, v, p)
        ELSE v.turn[p] = s.turn[p]
  BY <1>4, <1>5 DEF Interrupts
<1>10. ASSUME NEW p \in Places \ places, p \in Direct, s.turn[p].own = "node", s.turn[p].can
       PROVE  v.node[s.turn[p].node] = u.node[s.turn[p].node]
  <2> DEFINE i == s.turn[p].node
  <2>1. /\ i \in Known(s) /\ s.node[i].at = p
        /\ s.node[i].status \in {"running", "gone"}
    BY <1>6, <1>10, TurnsOf DEF Fine, Taken
  <2> HIDE DEF i
  <2>2. i \in Ids
    BY <2>1 DEF Known
  <2>3. i \notin nodes
    <3> SUFFICES ASSUME i \in nodes PROVE FALSE
      OBVIOUS
    <3>1. u.node[i] = s.node[i]
      BY <1>3, <1>7, <2>2
    <3> QED
      BY <1>3, <1>10, <2>1, <3>1
  <2>4. w.node[i] = u.node[i]
    BY <1>4, <2>2, <2>3
  <2> QED
    BY <1>5, <2>4 DEF i
<1>11. ASSUME NEW i \in Ids, u.node[i].status \in Over
       PROVE  v.node[i] = u.node[i]
  <2>1. i \notin nodes
    BY <1>3, <1>11 DEF Active, Ended
  <2>2. w.node[i] = u.node[i]
    BY <1>4, <2>1
  <2> QED
    BY <1>5, <2>2
<1> QED
  BY <1>1, <1>5, <1>8, <1>9, <1>10, <1>11

(* Stop, pressed in a direct thread. *)
LEMMA StopEnds ==
  ASSUME NEW s, NEW J, Fine(s, J), NEW places \in SUBSET Places
  PROVE  Ending(s, StoppedDirect(s, places))
<1> DEFINE v == StoppedDirect(s, places)
<1>1. s \in State /\ EndsNodes(s, s)
  BY DEF Fine, EndsNodes
<1>2. /\ v \in State /\ EndsNodes(s, v)
      /\ \A p \in Places :
           IF p \in places /\ s.turn[p] # Idle THEN Interrupts(s, v, p)
           ELSE v.turn[p] = s.turn[p]
      /\ \A p \in Places \ places :
           p \in Direct /\ s.turn[p].own = "node" /\ s.turn[p].can =>
             v.node[s.turn[p].node] = s.node[s.turn[p].node]
  BY <1>1, StoppedDirectAt
<1> HIDE DEF v
<1>3. ASSUME NEW p \in Places, p \in Direct, v.turn[p].own = "node", v.turn[p].can
      PROVE  v.node[v.turn[p].node] = s.node[v.turn[p].node]
  <2>1. v.turn[p] # Idle
    BY <1>2, <1>3, TurnsOf
  <2>2. ~Interrupts(s, v, p)
    BY <1>3 DEF Interrupts
  <2>3. v.turn[p] = s.turn[p] /\ p \notin places
    BY <1>2, <2>1, <2>2
  <2> QED
    BY <1>2, <1>3, <2>3
<1> QED
  BY <1>2, <1>3 DEF Ending, v

(* An interrupt may follow. *)
LEMMA EndingInterrupted ==
  ASSUME NEW s \in State, NEW v, Ending(s, v), NEW places
  PROVE  Ending(s, Interrupted(v, places))
<1> DEFINE w == Interrupted(v, places)
<1>1. v \in State
  BY DEF Ending
<1>2. /\ w \in State /\ w.node = v.node
      /\ \A p \in Places :
           IF p \in places /\ v.turn[p] # Idle THEN Interrupts(v, w, p)
           ELSE w.turn[p] = v.turn[p]
  BY <1>1, InterruptedAt
<1> HIDE DEF w
<1>3. \A p \in Places : w.turn[p] = s.turn[p] \/ Interrupts(s, w, p)
  <2> SUFFICES ASSUME NEW p \in Places
               PROVE  w.turn[p] = s.turn[p] \/ Interrupts(s, w, p)
    OBVIOUS
  <2>1. v.turn[p] = s.turn[p] \/ Interrupts(s, v, p)
    BY DEF Ending
  <2>2. w.turn[p] = v.turn[p] \/ Interrupts(v, w, p)
    BY <1>2
  <2> QED
    BY <2>1, <2>2 DEF Interrupts
<1>4. ASSUME NEW p \in Places, p \in Direct, w.turn[p].own = "node", w.turn[p].can
      PROVE  w.node[w.turn[p].node] = s.node[w.turn[p].node]
  <2>1. w.turn[p] = v.turn[p]
    BY <1>2, <1>4 DEF Interrupts
  <2> QED
    BY <1>2, <1>4, <2>1 DEF Ending
<1> QED
  BY <1>2, <1>3, <1>4 DEF Ending, EndsNodes, w

(* cancelTree ends the nodes that have not ended, and what it must below. *)
LEMMA CancelledTreesEnding ==
  ASSUME NEW s, NEW J, Fine(s, J), NEW nodes, NEW status \in Over
  PROVE  LET v == CancelledTrees(s, nodes, status) IN
         /\ Ending(s, v)
         /\ \A i \in nodes : i \in Active(s) => v.node[i].status \in Over
<1> DEFINE below == Below(s, nodes)
           works == {p \in Direct : /\ s.turn[p].own = "node"
                                    /\ s.turn[p].node \in below
                                    /\ s.node[s.turn[p].node].status = "running"}
           u == Put(s, below, status)
           w == StoppedDirect(u, works)
<1>1. CancelledTrees(s, nodes, status) = w
  BY DEF CancelledTrees
<1>2. s \in State
  BY DEF Fine
<1>3. /\ \A i \in below : i \in Active(s)
      /\ \A i \in nodes : i \in Active(s) => i \in below
  BY DEF Below
<1>4. /\ \A p \in works : p \in Places
      /\ \A p \in Direct : p \in works <=> /\ s.turn[p].own = "node"
                                           /\ s.turn[p].node \in below
                                           /\ s.node[s.turn[p].node].status = "running"
  BY DEF Places
<1> HIDE DEF below, works
<1>5. /\ u \in State /\ u.turn = s.turn
      /\ \A i \in Ids :
           /\ i \in below => u.node[i] = WithStatus(s.node[i], status)
           /\ i \notin below => u.node[i] = s.node[i]
  <2>1. below \intersect Ids \subseteq Known(s)
    BY <1>2, <1>3, NodesOf
  <2>2. status \in Over \union Unfinished \union {"gone"}
    OBVIOUS
  <2> QED
    BY <1>2, <2>1, <2>2, PutAt
<1> HIDE DEF u
<1>6. \A i \in below : i \in Ids /\ u.node[i].status = status
                       /\ u.node[i] = WithStatus(s.node[i], status)
  <2> SUFFICES ASSUME NEW i \in below
               PROVE  i \in Ids /\ u.node[i].status = status
                      /\ u.node[i] = WithStatus(s.node[i], status)
    OBVIOUS
  <2>1. i \in Ids /\ i \in Active(s)
    BY <1>3 DEF Active, Kept
  <2>2. s.node[i] \in Node
    BY <1>2, <2>1, NodesOf
  <2>3. u.node[i] = WithStatus(s.node[i], status)
    BY <1>5, <2>1
  <2> QED
    BY <2>1, <2>2, <2>3, StatusOf
<1>7. EndsNodes(s, u)
  <2> SUFFICES ASSUME NEW i \in Ids, u.node[i] # s.node[i]
               PROVE  /\ i \in Active(s) /\ u.node[i].status \in Over
                      /\ u.node[i] = WithStatus(s.node[i], u.node[i].status)
    BY DEF EndsNodes
  <2>1. i \in below
    BY <1>5
  <2> QED
    BY <1>3, <1>6, <2>1
<1>8. /\ w \in State /\ EndsNodes(s, w)
      /\ \A p \in Places :
           IF p \in works /\ s.turn[p] # Idle THEN Interrupts(s, w, p)
           ELSE w.turn[p] = s.turn[p]
      /\ \A p \in Places \ works :
           p \in Direct /\ s.turn[p].own = "node" /\ s.turn[p].can =>
             w.node[s.turn[p].node] = u.node[s.turn[p].node]
      /\ \A i \in Ids : u.node[i].status \in Over => w.node[i] = u.node[i]
  <2>1. works \in SUBSET Places
    BY <1>4
  <2> QED
    BY <1>5, <1>7, <2>1, StoppedDirectAt
<1> HIDE DEF w
<1>11. ASSUME NEW p \in Places, p \in Direct, w.turn[p].own = "node", w.turn[p].can
       PROVE  w.node[w.turn[p].node] = s.node[w.turn[p].node]
  <2>1. w.turn[p] = s.turn[p] /\ s.turn[p] # Idle
    BY <1>2, <1>8, <1>11, TurnsOf DEF Interrupts
  <2>2. p \notin works
    BY <1>8, <1>11, <2>1 DEF Interrupts
  <2> DEFINE j == s.turn[p].node
  <2>3. j \in Known(s) /\ s.node[j].status \in {"running", "gone"}
    BY <1>11, <2>1 DEF Fine, Taken
  <2>4. j \in Ids
    BY <2>3 DEF Known
  <2>5. j \notin below
    <3> SUFFICES ASSUME j \in below PROVE FALSE
      OBVIOUS
    <3>1. j \in Active(s)
      BY <1>3
    <3>2. s.node[j].status = "running"
      BY <2>3, <3>1 DEF Active, Kept
    <3> QED
      BY <1>4, <1>11, <2>1, <2>2, <3>2
  <2>6. w.node[j] = u.node[j]
    BY <1>8, <1>11, <2>1, <2>2
  <2> HIDE DEF j
  <2>7. w.node[j] = s.node[j]
    BY <1>5, <2>4, <2>5, <2>6
  <2> QED
    BY <2>1, <2>7 DEF j
<1>12. ASSUME NEW i \in nodes, i \in Active(s)
       PROVE  w.node[i].status \in Over
  <2>1. i \in below
    BY <1>3, <1>12
  <2> QED
    BY <1>6, <1>8, <2>1
<1> QED
  BY <1>1, <1>8, <1>11, <1>12 DEF Ending, EndsNodes

-----------------------------------------------------------------------------
(* Nodes change in place: none appears, and each stays where it is. *)

InPlace(s, v) ==
  /\ v \in State
  /\ \A i \in Ids :
       /\ i \in Known(v) <=> i \in Known(s)
       /\ i \in Known(s) =>
            /\ v.node[i].parent = s.node[i].parent /\ v.node[i].root = s.node[i].root
            /\ v.node[i].at = s.node[i].at /\ v.node[i].bot = s.node[i].bot

(* What else must be looked at then: the status of a node and whether it   *)
(* is reported.                                                            *)
LEMMA FineInPlace ==
  ASSUME NEW s, NEW J, Fine(s, J), NEW v, InPlace(s, v), v.turn = s.turn, NEW K,
         \A i \in Known(s) : v.node[i].parent # 0 /\ v.node[i].reported =>
                               v.node[i].status \in Over \union {"gone"},
         \A i \in Known(s) : v.node[i].status = "resume" =>
                               \A c \in Children(v, i) : Answered(v, c),
         \A p \in Places : s.turn[p] # Idle =>
           /\ p \in Direct /\ s.turn[p].own = "node" /\ s.turn[p].can =>
                v.node[s.turn[p].node].status \in {"running", "gone"}
           /\ s.turn[p].own = "user" /\ s.turn[p].node # 0 =>
                v.node[s.turn[p].node].status \in Over \union {"source", "gone"},
         \A i \in Ids \ K : v.node[i].status = "running" =>
                              i \notin J /\ s.node[i].status = "running"
  PROVE  Fine(v, K)
<1>1. s \in State /\ v \in State
  BY DEF Fine, InPlace
<1>2. Known(v) = Known(s) /\ Known(s) \subseteq Ids
  BY DEF Known, InPlace
<1>3. \A i \in Known(s) :
        /\ v.node[i].parent = s.node[i].parent /\ v.node[i].root = s.node[i].root
        /\ v.node[i].at = s.node[i].at /\ v.node[i].bot = s.node[i].bot
  BY <1>2 DEF InPlace
<1>4. Grown(v)
  <2> SUFFICES ASSUME NEW i \in Known(s)
               PROVE  /\ v.node[i].parent < i /\ v.node[i].root \in Known(v)
                      /\ v.node[i].at \in Direct => v.node[i].bot = v.node[i].at[1]
                      /\ v.node[i].parent # 0 /\ v.node[i].reported =>
                           v.node[i].status \in Over \union {"gone"}
                      /\ v.node[i].status = "resume" => \A c \in Children(v, i) : Answered(v, c)
    BY <1>2 DEF Grown
  <2>1. /\ s.node[i].parent < i /\ s.node[i].root \in Known(s)
        /\ s.node[i].at \in Direct => s.node[i].bot = s.node[i].at[1]
    BY DEF Fine, Grown
  <2>2. v.node[i].parent < i /\ v.node[i].root \in Known(v)
    BY <1>2, <1>3, <2>1
  <2>3. v.node[i].at \in Direct => v.node[i].bot = v.node[i].at[1]
    BY <1>3, <2>1
  <2> QED
    BY <2>2, <2>3
<1>5. Taken(v)
  <2> SUFFICES ASSUME NEW p \in Places, s.turn[p] # Idle
               PROVE  /\ p \in Direct => s.turn[p].bot = p[1]
                      /\ s.turn[p].own = "node" =>
                           /\ s.turn[p].node \in Known(v) /\ v.node[s.turn[p].node].at = p
                           /\ v.node[s.turn[p].node].bot = s.turn[p].bot
                           /\ p \in Direct /\ s.turn[p].can =>
                                v.node[s.turn[p].node].status \in {"running", "gone"}
                      /\ s.turn[p].own = "user" /\ s.turn[p].node # 0 =>
                           /\ s.turn[p].node \in Known(v) /\ v.node[s.turn[p].node].at = p
                           /\ v.node[s.turn[p].node].status \in Over \union {"source", "gone"}
    BY DEF Taken
  <2> DEFINE t == s.turn[p]
             j == t.node
  <2>1. /\ p \in Direct => t.bot = p[1]
        /\ t.own = "node" => j \in Known(s) /\ s.node[j].at = p /\ s.node[j].bot = t.bot
        /\ t.own = "user" /\ j # 0 => j \in Known(s) /\ s.node[j].at = p
    BY DEF Fine, Taken
  <2>2. /\ p \in Direct /\ t.own = "node" /\ t.can =>
             v.node[j].status \in {"running", "gone"}
        /\ t.own = "user" /\ j # 0 => v.node[j].status \in Over \union {"source", "gone"}
    OBVIOUS
  <2> HIDE DEF t, j
  <2>3. /\ t.own = "node" =>
             /\ j \in Known(v) /\ v.node[j].at = p /\ v.node[j].bot = t.bot
             /\ p \in Direct /\ t.can => v.node[j].status \in {"running", "gone"}
        /\ t.own = "user" /\ j # 0 =>
             /\ j \in Known(v) /\ v.node[j].at = p
             /\ v.node[j].status \in Over \union {"source", "gone"}
    BY <1>2, <1>3, <2>1, <2>2
  <2> QED
    BY <2>1, <2>3 DEF t, j
<1>6. Worked(v, K)
  <2> SUFFICES ASSUME NEW i \in Ids \ K, v.node[i].status = "running"
               PROVE  v.turn[v.node[i].at].own = "node" /\ v.turn[v.node[i].at].node = i
    BY DEF Worked
  <2>1. i \notin J /\ s.node[i].status = "running"
    OBVIOUS
  <2>2. s.turn[s.node[i].at].own = "node" /\ s.turn[s.node[i].at].node = i
    BY <2>1 DEF Fine, Worked
  <2>3. v.node[i].at = s.node[i].at
    BY <1>1, <1>3, <2>1, NodesOf
  <2> QED
    BY <2>2, <2>3
<1>7. Numbered(v)
  BY <1>2 DEF Fine, Numbered
<1> QED
  BY <1>1, <1>4, <1>5, <1>6, <1>7 DEF Fine

(* What a put leaves in place. *)
LEMMA PutInPlace ==
  ASSUME NEW s \in State, NEW nodes, nodes \intersect Ids \subseteq Known(s),
         NEW status \in Over \union Unfinished \union {"gone"}
  PROVE  LET v == Put(s, nodes, status) IN
         /\ InPlace(s, v) /\ v.turn = s.turn
         /\ \A i \in Ids :
              /\ i \in nodes => v.node[i].status = status
              /\ i \notin nodes => v.node[i] = s.node[i]
              /\ v.node[i].status \in {s.node[i].status, status}
              /\ i \in Known(s) => v.node[i].reported = s.node[i].reported
<1> DEFINE v == Put(s, nodes, status)
<1>1. /\ v \in State /\ v.turn = s.turn
      /\ \A i \in Ids :
           /\ i \in nodes => v.node[i] = WithStatus(s.node[i], status)
           /\ i \notin nodes => v.node[i] = s.node[i]
  BY PutAt
<1> HIDE DEF v
<1>2. ASSUME NEW i \in Ids
      PROVE  /\ i \in Known(v) <=> i \in Known(s)
             /\ i \in Known(s) =>
                  /\ v.node[i].parent = s.node[i].parent /\ v.node[i].root = s.node[i].root
                  /\ v.node[i].at = s.node[i].at /\ v.node[i].bot = s.node[i].bot
                  /\ v.node[i].reported = s.node[i].reported
             /\ i \in nodes => v.node[i].status = status
  <2>1. CASE i \in nodes
    <3>1. s.node[i] \in Node /\ i \in Known(s)
      BY <2>1, NodesOf
    <3>2. v.node[i] = WithStatus(s.node[i], status)
      BY <1>1, <2>1
    <3>3. /\ v.node[i].status = status
          /\ v.node[i].parent = s.node[i].parent /\ v.node[i].root = s.node[i].root
          /\ v.node[i].at = s.node[i].at /\ v.node[i].bot = s.node[i].bot
          /\ v.node[i].reported = s.node[i].reported
      BY <3>1, <3>2, StatusOf
    <3>4. status # "none"
      BY DEF Over, Unfinished
    <3>5. i \in Known(v)
      BY <1>1, <3>3, <3>4, NodesOf
    <3> QED
      BY <3>1, <3>3, <3>5
  <2>2. CASE i \notin nodes
    BY <1>1, <2>2 DEF Known
  <2> QED
    BY <2>1, <2>2
<1>3. InPlace(s, v)
  BY <1>1, <1>2 DEF InPlace
<1>4. ASSUME NEW i \in Ids
      PROVE  /\ i \notin nodes => v.node[i] = s.node[i]
             /\ v.node[i].status \in {s.node[i].status, status}
  BY <1>1, <1>2
<1> QED
  BY <1>1, <1>2, <1>3, <1>4 DEF v

-----------------------------------------------------------------------------
(* What the tick does with one node. *)

(* What holds of every state when the tick has looked at node i, and of    *)
(* each of its steps there: the other nodes go on as they are, or end.     *)
Visits(s, v, i) ==
  /\ \A j \in Ids :
       /\ j \in Known(v) <=> j \in Known(s)
       /\ j \in Kept(v) <=> j \in Kept(s)
       /\ j \in Known(s) => v.node[j].parent = s.node[j].parent
       /\ j \in Known(s) /\ s.node[j].reported => v.node[j].reported
       /\ Ended(s, j) => v.node[j].status = s.node[j].status
  /\ \A j \in Ids \ {i} :
       /\ j \in Known(s) => v.node[j].reported = s.node[j].reported
       /\ v.node[j].status = s.node[j].status \/ v.node[j].status \in Over

(* These go together. *)
LEMMA VisitsTogether ==
  ASSUME NEW s \in State, NEW v \in State, NEW w, NEW i \in Ids,
         Visits(s, v, i), Visits(v, w, i)
  PROVE  Visits(s, w, i)
<1>1. ASSUME NEW j \in Ids
      PROVE  /\ j \in Known(w) <=> j \in Known(s)
             /\ j \in Kept(w) <=> j \in Kept(s)
             /\ j \in Known(s) => w.node[j].parent = s.node[j].parent
             /\ j \in Known(s) /\ s.node[j].reported => w.node[j].reported
             /\ Ended(s, j) => w.node[j].status = s.node[j].status
  BY DEF Visits, Ended
<1>2. ASSUME NEW j \in Ids \ {i}
      PROVE  /\ j \in Known(s) => w.node[j].reported = s.node[j].reported
             /\ w.node[j].status = s.node[j].status \/ w.node[j].status \in Over
  BY DEF Visits, Ended
<1> QED
  BY <1>1, <1>2 DEF Visits

(* The children of a node stay the same, and their answers. *)
LEMMA VisitsChildren ==
  ASSUME NEW s \in State, NEW v, NEW i \in Ids, Visits(s, v, i), NEW j
  PROVE  /\ Children(v, j) = Children(s, j)
         /\ \A c \in Children(s, j) : Answered(s, c) => Answered(v, c)
<1>1. \A c \in Kept(s) : c \in Ids /\ c \in Known(s)
  BY NodesOf DEF Kept
<1>2. \A c \in Kept(s) : v.node[c].parent = s.node[c].parent
  BY <1>1 DEF Visits
<1>3. \A c \in Ids : c \in Kept(v) <=> c \in Kept(s)
  BY DEF Visits
<1>4. \A c \in Kept(v) : c \in Ids
  BY DEF Kept
<1>5. ASSUME NEW c \in Kept(s), Answered(s, c)
      PROVE  Answered(v, c)
  BY <1>1, <1>5 DEF Answered, Visits, Ended
<1> QED
  BY <1>1, <1>2, <1>3, <1>4, <1>5 DEF Children, Parent

(* An end of nodes is a visit of any. *)
LEMMA EndingVisits ==
  ASSUME NEW s \in State, NEW v, Ending(s, v), NEW i \in Ids
  PROVE  Visits(s, v, i)
<1>1. ASSUME NEW j \in Ids
      PROVE  /\ j \in Known(v) <=> j \in Known(s)
             /\ j \in Kept(v) <=> j \in Kept(s)
             /\ j \in Known(s) => v.node[j].parent = s.node[j].parent
             /\ j \in Known(s) /\ s.node[j].reported => v.node[j].reported
             /\ Ended(s, j) => v.node[j].status = s.node[j].status
             /\ j \in Known(s) => v.node[j].reported = s.node[j].reported
             /\ v.node[j].status = s.node[j].status \/ v.node[j].status \in Over
  BY EndingNode DEF Active
<1> QED
  BY <1>1 DEF Visits

(* Nothing happens. *)
LEMMA EndingNothing ==
  ASSUME NEW s \in State
  PROVE  Ending(s, s) /\ \A i \in Ids : Visits(s, s, i)
BY DEF Ending, EndsNodes, Visits

(* A node is given up. *)
LEMMA ExpiresEnds ==
  ASSUME NEW s, NEW J, Fine(s, J), NEW i \in Ids
  PROVE  /\ Ending(s, Expires(s, i))
         /\ i \in Active(s) => Expires(s, i) = s \/ Expires(s, i).node[i].status \in Over
<1>1. s \in State
  BY DEF Fine
<1> DEFINE v == CancelledTrees(s, {i}, "failed")
<1>2. /\ Ending(s, v)
      /\ \A j \in {i} : j \in Active(s) => v.node[j].status \in Over
  <2>1. "failed" \in Over
    BY DEF Over
  <2> QED
    BY <2>1, CancelledTreesEnding
<1>3. Expires(s, i) \in {s, v}
  BY DEF Expires
<1> HIDE DEF v
<1> QED
  BY <1>1, <1>2, <1>3, EndingNothing

(* An end is reported. *)
LEMMA ReportsFine ==
  ASSUME NEW s, NEW J, Fine(s, J), NEW i \in Ids
  PROVE  LET v == Reports(s, i) IN
         /\ Fine(v, J) /\ Visits(s, v, i)
         /\ v.turn = s.turn
         /\ ~Ended(s, i) => v = s
<1>1. s \in State
  BY DEF Fine
<1>2. CASE ~Ended(s, i)
  BY <1>1, <1>2, EndingNothing DEF Reports
<1>3. CASE Ended(s, i)
  <2> DEFINE n == [s.node[i] EXCEPT !.reported = TRUE]
             ns == [s.node EXCEPT ![i] = n]
             v == [node |-> ns, turn |-> s.turn]
  <2>1. s.node \in [Ids -> Node \union {None}] /\ s.turn \in [Places -> Turn \union {Idle}]
        /\ s = [node |-> s.node, turn |-> s.turn]
    BY <1>1 DEF State
  <2>2. Reports(s, i) = v
    BY <1>3, <2>1 DEF Reports
  <2>3. s.node[i] \in Node /\ i \in Known(s)
    BY <1>1, <1>3, NodesOf
  <2>4. /\ n \in Node /\ n.status = s.node[i].status /\ n.parent = s.node[i].parent
        /\ n.root = s.node[i].root /\ n.at = s.node[i].at /\ n.bot = s.node[i].bot
        /\ n.reported
    BY <2>3 DEF Node
  <2>5. ns[i] = n /\ \A j \in Ids \ {i} : ns[j] = s.node[j]
    BY <2>1
  <2> HIDE DEF n
  <2>6. ns \in [Ids -> Node \union {None}]
    BY <2>1, <2>4
  <2> HIDE DEF ns
  <2>7. v \in State /\ v.node = ns /\ v.turn = s.turn
    BY <2>1, <2>6 DEF State
  <2> HIDE DEF v
  <2>8. \A j \in Ids :
          /\ v.node[j].status = s.node[j].status
          /\ j # i => v.node[j] = s.node[j]
          /\ j = i => v.node[j].reported
    BY <2>4, <2>5, <2>7
  <2>9. \A j \in Ids :
          /\ j \in Known(v) <=> j \in Known(s)
          /\ j \in Kept(v) <=> j \in Kept(s)
    BY <1>1, <2>7, <2>8, NodesOf
  <2>10. \A j \in Ids : j \in Known(s) =>
           /\ v.node[j].parent = s.node[j].parent /\ v.node[j].root = s.node[j].root
           /\ v.node[j].at = s.node[j].at /\ v.node[j].bot = s.node[j].bot
    <3> SUFFICES ASSUME NEW j \in Ids
                 PROVE  /\ v.node[j].parent = s.node[j].parent /\ v.node[j].root = s.node[j].root
                        /\ v.node[j].at = s.node[j].at /\ v.node[j].bot = s.node[j].bot
      OBVIOUS
    <3>1. CASE j = i
      BY <2>4, <2>5, <2>7, <3>1
    <3>2. CASE j # i
      BY <2>8, <3>2
    <3> QED
      BY <3>1, <3>2
  <2>11. InPlace(s, v)
    BY <2>7, <2>9, <2>10 DEF InPlace
  <2>12. Visits(s, v, i)
    BY <2>8, <2>9, <2>10 DEF Visits
  <2>13. Fine(v, J)
    <3>1. \A j \in Known(s) : j \in Ids
      BY DEF Known
    <3>2. \A j \in Known(s) : v.node[j].parent # 0 /\ v.node[j].reported =>
                                v.node[j].status \in Over \union {"gone"}
      <4> SUFFICES ASSUME NEW j \in Known(s), v.node[j].parent # 0, v.node[j].reported
                   PROVE  v.node[j].status \in Over \union {"gone"}
        OBVIOUS
      <4>1. CASE j = i
        BY <1>3, <2>8, <3>1, <4>1 DEF Ended
      <4>2. CASE j # i
        BY <2>8, <3>1, <4>2 DEF Fine, Grown
      <4> QED
        BY <4>1, <4>2
    <3>3. \A j \in Known(s) : v.node[j].status = "resume" =>
                                \A c \in Children(v, j) : Answered(v, c)
      <4> SUFFICES ASSUME NEW j \in Known(s), v.node[j].status = "resume",
                          NEW c \in Children(v, j)
                   PROVE  Answered(v, c)
        OBVIOUS
      <4>1. Children(v, j) = Children(s, j)
            /\ \A d \in Children(s, j) : Answered(s, d) => Answered(v, d)
        BY <1>1, <2>12, VisitsChildren
      <4>2. s.node[j].status = "resume"
        BY <2>8, <3>1
      <4>3. Answered(s, c)
        BY <4>1, <4>2 DEF Fine, Grown
      <4> QED
        BY <4>1, <4>3
    <3>4. \A p \in Places : s.turn[p] # Idle =>
            /\ p \in Direct /\ s.turn[p].own = "node" /\ s.turn[p].can =>
                 v.node[s.turn[p].node].status \in {"running", "gone"}
            /\ s.turn[p].own = "user" /\ s.turn[p].node # 0 =>
                 v.node[s.turn[p].node].status \in Over \union {"source", "gone"}
      <4> SUFFICES ASSUME NEW p \in Places, s.turn[p] # Idle
                   PROVE  /\ p \in Direct /\ s.turn[p].own = "node" /\ s.turn[p].can =>
                               v.node[s.turn[p].node].status \in {"running", "gone"}
                          /\ s.turn[p].own = "user" /\ s.turn[p].node # 0 =>
                               v.node[s.turn[p].node].status \in Over \union {"source", "gone"}
        OBVIOUS
      <4> DEFINE j == s.turn[p].node
      <4>1. /\ s.turn[p].own = "node" => j \in Known(s)
            /\ p \in Direct /\ s.turn[p].own = "node" /\ s.turn[p].can =>
                 s.node[j].status \in {"running", "gone"}
            /\ s.turn[p].own = "user" /\ j # 0 =>
                 j \in Known(s) /\ s.node[j].status \in Over \union {"source", "gone"}
        BY DEF Fine, Taken
      <4>2. j \in Known(s) => v.node[j].status = s.node[j].status
        BY <2>8, <3>1
      <4> QED
        BY <4>1, <4>2
    <3>5. \A j \in Ids \ J : v.node[j].status = "running" =>
                               j \notin J /\ s.node[j].status = "running"
      BY <2>8
    <3> QED
      BY <2>7, <2>11, <3>2, <3>3, <3>4, <3>5, FineInPlace
  <2> QED
    BY <1>3, <2>2, <2>7, <2>12, <2>13
<1> QED
  BY <1>2, <1>3

(* All have answered. *)
LEMMA ResumesFine ==
  ASSUME NEW s, NEW J, Fine(s, J), NEW i \in Ids
  PROVE  LET v == Resumes(s, i) IN
         /\ Fine(v, J) /\ Visits(s, v, i)
         /\ v.turn = s.turn
         /\ v.node[i].status \in {s.node[i].status, "resume"}
<1>1. s \in State
  BY DEF Fine
<1> DEFINE due == /\ s.node[i].status = "waiting"
                  /\ Children(s, i) # {}
                  /\ \A c \in Children(s, i) : Answered(s, c)
<1>2. CASE ~due
  BY <1>1, <1>2, EndingNothing DEF Resumes
<1>3. CASE due
  <2> DEFINE nodes == {i}
             v == Put(s, nodes, "resume")
  <2>1. Resumes(s, i) = v
    BY <1>3 DEF Resumes
  <2>2. i \in Known(s) /\ ~Ended(s, i) /\ i \in Kept(s)
    BY <1>1, <1>3, NodesOf DEF Over, Ended
  <2>3. "resume" \in Over \union Unfinished \union {"gone"}
    BY DEF Unfinished
  <2>4. nodes \intersect Ids \subseteq Known(s)
    BY <2>2
  <2> HIDE DEF nodes
  <2>5. /\ InPlace(s, v) /\ v.turn = s.turn
        /\ \A j \in Ids :
             /\ j \in nodes => v.node[j].status = "resume"
             /\ j \notin nodes => v.node[j] = s.node[j]
             /\ v.node[j].status \in {s.node[j].status, "resume"}
             /\ j \in Known(s) => v.node[j].reported = s.node[j].reported
    BY <1>1, <2>3, <2>4, PutInPlace
  <2> HIDE DEF v
  <2>6. /\ v.node[i].status = "resume"
        /\ \A j \in Ids : j # i => v.node[j] = s.node[j]
    BY <2>5 DEF nodes
  <2>7. v \in State /\ \A j \in Ids :
          /\ j \in Known(v) <=> j \in Known(s)
          /\ j \in Known(s) => v.node[j].parent = s.node[j].parent
    BY <2>5 DEF InPlace
  <2>8. \A j \in Ids : j \in Kept(v) <=> j \in Kept(s)
    BY <1>1, <2>2, <2>6, <2>7, NodesOf
  <2>9. Visits(s, v, i)
    BY <2>2, <2>5, <2>6, <2>7, <2>8 DEF Visits, Ended
  <2>10. Fine(v, J)
    <3>1. \A j \in Known(s) : j \in Ids
      BY DEF Known
    <3>2. \A j \in Known(s) : v.node[j].parent # 0 /\ v.node[j].reported =>
                                v.node[j].status \in Over \union {"gone"}
      <4> SUFFICES ASSUME NEW j \in Known(s), v.node[j].parent # 0, v.node[j].reported
                   PROVE  v.node[j].status \in Over \union {"gone"}
        OBVIOUS
      <4>1. s.node[j].parent # 0 /\ s.node[j].reported
        BY <2>5, <2>7, <3>1
      <4>2. s.node[j].status \in Over \union {"gone"}
        BY <4>1 DEF Fine, Grown
      <4>3. j # i
        BY <1>3, <4>2 DEF Over
      <4> QED
        BY <2>6, <3>1, <4>2, <4>3
    <3>3. \A j \in Known(s) : v.node[j].status = "resume" =>
                                \A c \in Children(v, j) : Answered(v, c)
      <4> SUFFICES ASSUME NEW j \in Known(s), v.node[j].status = "resume",
                          NEW c \in Children(v, j)
                   PROVE  Answered(v, c)
        OBVIOUS
      <4>1. Children(v, j) = Children(s, j)
            /\ \A d \in Children(s, j) : Answered(s, d) => Answered(v, d)
        BY <1>1, <2>9, VisitsChildren
      <4>2. CASE j = i
        BY <1>3, <4>1, <4>2
      <4>3. CASE j # i
        <5>1. s.node[j].status = "resume"
          BY <2>6, <3>1, <4>3
        <5>2. Answered(s, c)
          BY <4>1, <5>1 DEF Fine, Grown
        <5> QED
          BY <4>1, <5>2
      <4> QED
        BY <4>2, <4>3
    <3>4. \A p \in Places : s.turn[p] # Idle =>
            /\ p \in Direct /\ s.turn[p].own = "node" /\ s.turn[p].can =>
                 v.node[s.turn[p].node].status \in {"running", "gone"}
            /\ s.turn[p].own = "user" /\ s.turn[p].node # 0 =>
                 v.node[s.turn[p].node].status \in Over \union {"source", "gone"}
      <4> SUFFICES ASSUME NEW p \in Places, s.turn[p] # Idle
                   PROVE  /\ p \in Direct /\ s.turn[p].own = "node" /\ s.turn[p].can =>
                               v.node[s.turn[p].node].status \in {"running", "gone"}
                          /\ s.turn[p].own = "user" /\ s.turn[p].node # 0 =>
                               v.node[s.turn[p].node].status \in Over \union {"source", "gone"}
        OBVIOUS
      <4> DEFINE j == s.turn[p].node
      <4>1. /\ s.turn[p].own = "node" => j \in Known(s)
            /\ p \in Direct /\ s.turn[p].own = "node" /\ s.turn[p].can =>
                 s.node[j].status \in {"running", "gone"}
            /\ s.turn[p].own = "user" /\ j # 0 =>
                 j \in Known(s) /\ s.node[j].status \in Over \union {"source", "gone"}
        BY DEF Fine, Taken
      <4>2. s.node[j].status \in {"running", "gone", "source"} \union Over => j # i
        BY <1>3 DEF Over
      <4>3. j \in Known(s) /\ j # i => v.node[j].status = s.node[j].status
        BY <2>6, <3>1
      <4> QED
        BY <4>1, <4>2, <4>3
    <3>5. \A j \in Ids \ J : v.node[j].status = "running" =>
                               j \notin J /\ s.node[j].status = "running"
      BY <2>5
    <3> QED
      BY <2>5, <3>2, <3>3, <3>4, <3>5, FineInPlace
  <2> QED
    BY <2>1, <2>5, <2>9, <2>10
<1> QED
  BY <1>2, <1>3

(* A node that is marked running, before its turn is started. *)
Marked(s, i) == [Started(s, i) EXCEPT !.turn = s.turn]

(* The turn of a node. *)
NodeTurn(s, i) == [own |-> "node", bot |-> s.node[i].bot, node |-> i,
                   step |-> FirstStep(s, i), can |-> TRUE, asked |-> FALSE]

(* The mark changes the status of the node and the count of its root. *)
LEMMA MarkedAt ==
  ASSUME NEW s \in State, NEW i \in Known(s), s.node[i].root \in Known(s), ~Ended(s, i),
         i \in Kept(s)
  PROVE  LET v == Marked(s, i) IN
         /\ InPlace(s, v) /\ v.turn = s.turn
         /\ v.node[i].status = "running"
         /\ \A j \in Ids :
              /\ j # i => v.node[j].status = s.node[j].status
              /\ j \in Known(s) => v.node[j].reported = s.node[j].reported
         /\ Visits(s, v, i)
         /\ Started(s, i) = [node |-> v.node,
                             turn |-> [s.turn EXCEPT ![s.node[i].at] = NodeTurn(s, i)]]
<1> DEFINE r == s.node[i].root
           a == s.node[i].at
           n == WithStatus(s.node[i], "running")
           ns1 == [s.node EXCEPT ![i] = n]
           m == [ns1[r] EXCEPT !.spent = s.node[r].spent + 1]
           ns == [ns1 EXCEPT ![r] = m]
           ts == [s.turn EXCEPT ![a] = NodeTurn(s, i)]
           v == [node |-> ns, turn |-> s.turn]
<1>1. s.node \in [Ids -> Node \union {None}] /\ s.turn \in [Places -> Turn \union {Idle}]
      /\ s = [node |-> s.node, turn |-> s.turn]
  BY DEF State
<1>2. i \in Ids /\ r \in Ids /\ s.node[i] \in Node /\ s.node[r] \in Node
  BY NodesOf DEF Known
<1>3. Started(s, i) = [node |-> ns, turn |-> ts]
  <2> DEFINE s1 == [s EXCEPT !.node = ns1]
             s2 == [s1 EXCEPT !.node = [s1.node EXCEPT ![r] =
                       [s1.node[r] EXCEPT !.spent = s.node[r].spent + 1]]]
             s3 == [s2 EXCEPT !.turn = [s2.turn EXCEPT ![a] = NodeTurn(s, i)]]
  <2>1. Started(s, i) = s3
    BY DEF Started, NodeTurn, WithStatus
  <2> HIDE DEF ns1, r, a
  <2>2. s1 = [node |-> ns1, turn |-> s.turn]
    BY <1>1
  <2> HIDE DEF s1
  <2>3. s2 = [node |-> ns, turn |-> s.turn]
    BY <2>2
  <2> HIDE DEF s2, ns
  <2>4. s3 = [node |-> ns, turn |-> ts]
    BY <2>3
  <2> QED
    BY <2>1, <2>4
<1> HIDE DEF ts
<1>4. Marked(s, i) = v
  BY <1>3 DEF Marked
<1>5. /\ n \in Node /\ n.status = "running" /\ n.parent = s.node[i].parent
      /\ n.root = s.node[i].root /\ n.at = s.node[i].at /\ n.bot = s.node[i].bot
      /\ n.reported = s.node[i].reported
  BY <1>2 DEF WithStatus, Node
<1> HIDE DEF n, r
<1>6. ns1 \in [Ids -> Node \union {None}] /\ ns1[r] \in Node
      /\ ns1[i] = n /\ \A j \in Ids : j # i => ns1[j] = s.node[j]
  BY <1>1, <1>2, <1>5
<1> HIDE DEF ns1
<1>7. /\ m \in Node /\ m.status = ns1[r].status /\ m.parent = ns1[r].parent
      /\ m.root = ns1[r].root /\ m.at = ns1[r].at /\ m.bot = ns1[r].bot
      /\ m.reported = ns1[r].reported
  <2>1. s.node[r].spent \in Nat
    BY <1>2 DEF Node
  <2> QED
    BY <1>6, <2>1 DEF Node
<1> HIDE DEF m
<1>8. ns \in [Ids -> Node \union {None}]
      /\ ns[r] = m /\ \A j \in Ids : j # r => ns[j] = ns1[j]
  BY <1>2, <1>6, <1>7
<1> HIDE DEF ns
<1>9. v \in State /\ v.node = ns /\ v.turn = s.turn
  BY <1>1, <1>8 DEF State
<1> HIDE DEF v
<1>10. ASSUME NEW j \in Ids
       PROVE  /\ v.node[j].status = ns1[j].status /\ v.node[j].parent = ns1[j].parent
              /\ v.node[j].root = ns1[j].root /\ v.node[j].at = ns1[j].at
              /\ v.node[j].bot = ns1[j].bot /\ v.node[j].reported = ns1[j].reported
  <2>1. CASE j = r
    BY <1>7, <1>8, <1>9, <2>1
  <2>2. CASE j # r
    <3>1. v.node[j] = ns1[j]
      BY <1>8, <1>9, <2>2
    <3> QED
      BY <3>1
  <2> QED
    BY <2>1, <2>2
<1>11. ASSUME NEW j \in Ids
       PROVE  /\ j = i => v.node[j].status = "running"
              /\ j # i => v.node[j].status = s.node[j].status
              /\ v.node[j].parent = s.node[j].parent
              /\ v.node[j].root = s.node[j].root /\ v.node[j].at = s.node[j].at
              /\ v.node[j].bot = s.node[j].bot /\ v.node[j].reported = s.node[j].reported
  <2>1. CASE j = i
    BY <1>5, <1>6, <1>10, <2>1
  <2>2. CASE j # i
    <3>1. ns1[j] = s.node[j]
      BY <1>6, <2>2
    <3> QED
      BY <1>10, <2>2, <3>1
  <2> QED
    BY <2>1, <2>2
<1>12. ASSUME NEW j \in Ids
       PROVE  /\ j \in Known(v) <=> j \in Known(s)
              /\ j \in Kept(v) <=> j \in Kept(s)
  <2>1. j \in Known(v) <=> v.node[j].status # "none"
    BY <1>9, NodesOf
  <2>2. j \in Known(s) <=> s.node[j].status # "none"
    BY NodesOf
  <2>3. j \in Known(v) <=> j \in Known(s)
    BY <1>11, <2>1, <2>2
  <2>4. j \in Kept(v) <=> v.node[j].status \notin {"none", "gone"}
    BY DEF Kept
  <2>5. j \in Kept(s) <=> s.node[j].status \notin {"none", "gone"}
    BY DEF Kept
  <2> QED
    BY <1>11, <2>3, <2>4, <2>5
<1>13. InPlace(s, v)
  BY <1>9, <1>11, <1>12 DEF InPlace
<1>14. Visits(s, v, i)
  BY <1>11, <1>12 DEF Visits, Ended
<1>15. Started(s, i) = [node |-> v.node, turn |-> ts]
  BY <1>3, <1>9
<1> QED
  BY <1>2, <1>4, <1>9, <1>11, <1>13, <1>14, <1>15 DEF ts

(* What is said of the nodes alone. *)
LEMMA SameNodes ==
  ASSUME NEW s, NEW J, Fine(s, J), NEW v, v.node = s.node
  PROVE  /\ Known(v) = Known(s) /\ Numbered(v) /\ Grown(v)
         /\ Kept(v) = Kept(s) /\ \A i : Children(v, i) = Children(s, i)
         /\ \A i : Answered(v, i) <=> Answered(s, i)
<1>1. Known(v) = Known(s)
  BY DEF Known
<1>2. Numbered(v)
  BY <1>1 DEF Numbered, Fine
<1>3. Kept(v) = Kept(s)
  BY DEF Kept
<1>4. \A i : Children(v, i) = Children(s, i)
  BY <1>3 DEF Children, Parent
<1>5. \A i : Answered(v, i) <=> Answered(s, i)
  BY DEF Answered, Ended
<1>6. Grown(v)
  <2> SUFFICES ASSUME NEW i \in Known(s)
               PROVE  /\ s.node[i].parent < i /\ s.node[i].root \in Known(s)
                      /\ s.node[i].at \in Direct => s.node[i].bot = s.node[i].at[1]
                      /\ s.node[i].parent # 0 /\ s.node[i].reported =>
                           s.node[i].status \in Over \union {"gone"}
                      /\ s.node[i].status = "resume" => \A c \in Children(s, i) : Answered(v, c)
    BY <1>1, <1>4 DEF Grown
  <2>1. /\ s.node[i].parent < i /\ s.node[i].root \in Known(s)
        /\ s.node[i].at \in Direct => s.node[i].bot = s.node[i].at[1]
        /\ s.node[i].parent # 0 /\ s.node[i].reported =>
             s.node[i].status \in Over \union {"gone"}
        /\ s.node[i].status = "resume" => \A c \in Children(s, i) : Answered(s, c)
    BY DEF Fine, Grown
  <2> QED
    BY <1>5, <2>1
<1> QED
  BY <1>1, <1>2, <1>3, <1>4, <1>5, <1>6

(* The tick fails after the mark. *)
LEMMA MarkedFine ==
  ASSUME NEW s, NEW J, Fine(s, J), NEW i \in Ids, s.node[i].status \in {"queued", "resume"}
  PROVE  LET v == Marked(s, i) IN
         /\ Fine(v, J \union {i})
         /\ InPlace(s, v) /\ v.turn = s.turn
         /\ v.node[i].status = "running"
         /\ \A j \in Ids :
              /\ j # i => v.node[j].status = s.node[j].status
              /\ j \in Known(s) => v.node[j].reported = s.node[j].reported
         /\ Visits(s, v, i)
         /\ Started(s, i) = [node |-> v.node,
                             turn |-> [s.turn EXCEPT ![s.node[i].at] = NodeTurn(s, i)]]
<1>1. s \in State
  BY DEF Fine
<1>2. i \in Known(s) /\ ~Ended(s, i) /\ i \in Kept(s)
  BY <1>1, NodesOf DEF Over, Ended
<1>3. s.node[i].root \in Known(s)
  BY <1>2 DEF Fine, Grown
<1> DEFINE v == Marked(s, i)
<1>4. /\ InPlace(s, v) /\ v.turn = s.turn
      /\ v.node[i].status = "running"
      /\ \A j \in Ids :
           /\ j # i => v.node[j].status = s.node[j].status
           /\ j \in Known(s) => v.node[j].reported = s.node[j].reported
      /\ Visits(s, v, i)
      /\ Started(s, i) = [node |-> v.node,
                          turn |-> [s.turn EXCEPT ![s.node[i].at] = NodeTurn(s, i)]]
  BY <1>1, <1>2, <1>3, MarkedAt
<1> HIDE DEF v
<1>5. \A j \in Known(s) : j \in Ids
  BY DEF Known
<1>6. \A j \in Known(s) : v.node[j].parent # 0 /\ v.node[j].reported =>
                            v.node[j].status \in Over \union {"gone"}
  <2> SUFFICES ASSUME NEW j \in Known(s), v.node[j].parent # 0, v.node[j].reported
               PROVE  v.node[j].status \in Over \union {"gone"}
    OBVIOUS
  <2>1. s.node[j].parent # 0 /\ s.node[j].reported
    BY <1>4, <1>5 DEF InPlace
  <2>2. s.node[j].status \in Over \union {"gone"}
    BY <2>1 DEF Fine, Grown
  <2>3. j # i
    BY <2>2 DEF Over
  <2> QED
    BY <1>4, <1>5, <2>2, <2>3
<1>7. \A j \in Known(s) : v.node[j].status = "resume" =>
                            \A c \in Children(v, j) : Answered(v, c)
  <2> SUFFICES ASSUME NEW j \in Known(s), v.node[j].status = "resume",
                      NEW c \in Children(v, j)
               PROVE  Answered(v, c)
    OBVIOUS
  <2>1. Children(v, j) = Children(s, j)
        /\ \A d \in Children(s, j) : Answered(s, d) => Answered(v, d)
    BY <1>1, <1>4, VisitsChildren
  <2>2. s.node[j].status = "resume"
    BY <1>4, <1>5
  <2>3. Answered(s, c)
    BY <2>1, <2>2 DEF Fine, Grown
  <2> QED
    BY <2>1, <2>3
<1>8. \A p \in Places : s.turn[p] # Idle =>
        /\ p \in Direct /\ s.turn[p].own = "node" /\ s.turn[p].can =>
             v.node[s.turn[p].node].status \in {"running", "gone"}
        /\ s.turn[p].own = "user" /\ s.turn[p].node # 0 =>
             v.node[s.turn[p].node].status \in Over \union {"source", "gone"}
  <2> SUFFICES ASSUME NEW p \in Places, s.turn[p] # Idle
               PROVE  /\ p \in Direct /\ s.turn[p].own = "node" /\ s.turn[p].can =>
                           v.node[s.turn[p].node].status \in {"running", "gone"}
                      /\ s.turn[p].own = "user" /\ s.turn[p].node # 0 =>
                           v.node[s.turn[p].node].status \in Over \union {"source", "gone"}
    OBVIOUS
  <2> DEFINE j == s.turn[p].node
  <2>1. /\ s.turn[p].own = "node" => j \in Known(s)
        /\ p \in Direct /\ s.turn[p].own = "node" /\ s.turn[p].can =>
             s.node[j].status \in {"running", "gone"}
        /\ s.turn[p].own = "user" /\ j # 0 =>
             j \in Known(s) /\ s.node[j].status \in Over \union {"source", "gone"}
    BY DEF Fine, Taken
  <2>2. s.node[j].status \in {"running", "gone", "source"} \union Over => j # i
    BY DEF Over
  <2>3. j \in Known(s) /\ j # i => v.node[j].status = s.node[j].status
    BY <1>4, <1>5
  <2> QED
    BY <2>1, <2>2, <2>3
<1>9. \A j \in Ids \ (J \union {i}) : v.node[j].status = "running" =>
                                        j \notin J /\ s.node[j].status = "running"
  BY <1>4
<1>10. Fine(v, J \union {i})
  BY <1>4, <1>6, <1>7, <1>8, <1>9, FineInPlace
<1> QED
  BY <1>4, <1>10 DEF v

(* A turn is started where none is. *)
LEMMA StartedFine ==
  ASSUME NEW s, NEW J, Fine(s, J), NEW i \in Ids, s.node[i].status \in {"queued", "resume"},
         ~Busy(s, i)
  PROVE  LET v == Started(s, i) IN
         /\ Fine(v, J) /\ Visits(s, v, i)
         /\ v.node = Marked(s, i).node
<1> DEFINE m == Marked(s, i)
           a == s.node[i].at
           b == s.node[i].bot
           t == NodeTurn(s, i)
           ts == [s.turn EXCEPT ![a] = t]
           v == [node |-> m.node, turn |-> ts]
<1>1. /\ Fine(m, J \union {i})
      /\ InPlace(s, m) /\ m.turn = s.turn
      /\ m.node[i].status = "running"
      /\ \A j \in Ids :
           /\ j # i => m.node[j].status = s.node[j].status
           /\ j \in Known(s) => m.node[j].reported = s.node[j].reported
      /\ Visits(s, m, i)
      /\ Started(s, i) = v
  BY MarkedFine
<1>2. s \in State /\ m \in State
  BY <1>1 DEF Fine
<1>3. i \in Known(s) /\ s.node[i] \in Node /\ a \in Places /\ b \in Bots
  <2>1. i \in Known(s) /\ s.node[i] \in Node
    BY <1>2, NodesOf
  <2> QED
    BY <2>1 DEF Node
<1>4. m.node[i].at = a /\ m.node[i].bot = b /\ i \in Known(m)
  BY <1>1, <1>3 DEF InPlace
<1>5. a \in Direct => b = a[1]
  BY <1>3 DEF Fine, Grown
<1>6. /\ t \in Turn /\ t # Idle /\ t.own = "node" /\ t.bot = b /\ t.node = i
  <2>1. t \in Turn
    <3>1. FirstStep(s, i) \in {"setup", "refused"}
      BY DEF FirstStep
    <3> QED
      BY <1>3, <3>1 DEF NodeTurn, Turn, Ids
  <2>2. t.own = "node" /\ t.bot = b /\ t.node = i /\ Idle.own = "none"
    BY DEF NodeTurn, Idle
  <2>3. t # Idle
    <3> HIDE DEF t
    <3> QED
      BY <2>2
  <2> QED
    BY <2>1, <2>2, <2>3
<1> HIDE DEF m, t
<1>7. /\ ts \in [Places -> Turn \union {Idle}]
      /\ ts[a] = t /\ \A p \in Places : p # a => ts[p] = s.turn[p]
  BY <1>2, <1>3, <1>6 DEF State
<1>8. v \in State /\ v.node = m.node /\ v.turn = ts
  BY <1>2, <1>7 DEF State
<1> HIDE DEF v, ts
<1>9. Known(v) = Known(m) /\ Numbered(v) /\ Grown(v)
      /\ Kept(v) = Kept(m) /\ (\A j : Children(v, j) = Children(m, j))
      /\ \A j : Answered(v, j) <=> Answered(m, j)
  BY <1>1, <1>8, SameNodes
<1>10. Taken(v)
  <2> SUFFICES ASSUME NEW p \in Places, v.turn[p] # Idle
               PROVE  /\ p \in Direct => v.turn[p].bot = p[1]
                      /\ v.turn[p].own = "node" =>
                           /\ v.turn[p].node \in Known(v) /\ v.node[v.turn[p].node].at = p
                           /\ v.node[v.turn[p].node].bot = v.turn[p].bot
                           /\ p \in Direct /\ v.turn[p].can =>
                                v.node[v.turn[p].node].status \in {"running", "gone"}
                      /\ v.turn[p].own = "user" /\ v.turn[p].node # 0 =>
                           /\ v.turn[p].node \in Known(v) /\ v.node[v.turn[p].node].at = p
                           /\ v.node[v.turn[p].node].status \in Over \union {"source", "gone"}
    BY DEF Taken
  <2>1. CASE p = a
    <3>1. v.turn[p] = t
      BY <1>7, <1>8, <2>1
    <3> QED
      BY <1>1, <1>4, <1>5, <1>6, <1>8, <1>9, <2>1, <3>1
  <2>2. CASE p # a
    <3>1. v.turn[p] = m.turn[p]
      BY <1>1, <1>7, <1>8, <2>2
    <3> HIDE DEF a
    <3>2. Taken(m)
      BY <1>1 DEF Fine
    <3> DEFINE u == m.turn[p]
               j == u.node
    <3>3. /\ p \in Direct => u.bot = p[1]
          /\ u.own = "node" => /\ j \in Known(m) /\ m.node[j].at = p /\ m.node[j].bot = u.bot
                               /\ p \in Direct /\ u.can =>
                                    m.node[j].status \in {"running", "gone"}
          /\ u.own = "user" /\ j # 0 =>
               /\ j \in Known(m) /\ m.node[j].at = p
               /\ m.node[j].status \in Over \union {"source", "gone"}
      BY <3>1, <3>2 DEF Taken
    <3> HIDE DEF u, j
    <3>4. v.turn[p] = u /\ v.turn[p].node = j
      BY <3>1 DEF u, j
    <3> QED
      BY <1>8, <1>9, <3>3, <3>4
  <2> QED
    BY <2>1, <2>2
<1>11. Worked(v, J)
  <2> SUFFICES ASSUME NEW j \in Ids \ J, v.node[j].status = "running"
               PROVE  v.turn[v.node[j].at].own = "node" /\ v.turn[v.node[j].at].node = j
    BY DEF Worked
  <2>1. CASE j = i
    BY <1>4, <1>6, <1>7, <1>8, <2>1
  <2>2. CASE j # i
    <3>1. s.node[j].status = "running"
      BY <1>1, <1>8, <2>2
    <3>2. j \in Known(s) /\ s.node[j] \in Node
      BY <1>2, <3>1, NodesOf
    <3>3. s.turn[s.node[j].at].own = "node" /\ s.turn[s.node[j].at].node = j
      BY <3>1 DEF Fine, Worked
    <3>4. s.node[j].at \in Places /\ v.node[j].at = s.node[j].at
      BY <1>1, <1>8, <3>2 DEF InPlace, Node
    <3>5. s.node[j].at # a
      <4> SUFFICES ASSUME s.node[j].at = a PROVE FALSE
        OBVIOUS
      <4>1. s.turn[a] # Idle
        BY <1>2, <1>3, <3>3, TurnsOf
      <4> QED
        BY <4>1 DEF Busy
    <3> QED
      BY <1>7, <1>8, <3>3, <3>4, <3>5
  <2> QED
    BY <2>1, <2>2
<1>12. Visits(s, v, i)
  BY <1>1, <1>8, <1>9 DEF Visits, Ended
<1> QED
  BY <1>1, <1>8, <1>9, <1>10, <1>11, <1>12 DEF Fine, v, m

(* What comes of a node that may be started. *)
LEMMA LaunchesFine ==
  ASSUME NEW s, NEW J, Fine(s, J), NEW i \in Ids
  PROVE  LET v == Launches(s, i) IN
         /\ Fine(v, J) /\ Visits(s, v, i)
         /\ \/ Ending(s, v)
            \/ /\ s.node[i].status \in {"queued", "resume"}
               /\ v = Started(s, i) /\ v.node = Marked(s, i).node
         /\ s.node[i].status \notin {"queued", "resume"} => v = s
<1>1. s \in State
  BY DEF Fine
<1> DEFINE v == Launches(s, i)
           failed == CancelledTrees(s, {i}, "failed")
           cancelled == CancelledTrees(s, {i}, "cancelled")
<1>2. Ending(s, failed) /\ Ending(s, cancelled) /\ Ending(s, s)
  <2>1. "failed" \in Over /\ "cancelled" \in Over
    BY DEF Over
  <2> QED
    BY <1>1, <2>1, CancelledTreesEnding, EndingNothing
<1>3. \/ v \in {s, failed, cancelled}
      \/ v = Started(s, i) /\ ~Busy(s, i) /\ s.node[i].status \in {"queued", "resume"}
  <2> HIDE DEF failed, cancelled
  <2>1. CASE s.node[i].status \notin {"queued", "resume"} \/ AuthorAtWork(s, i)
    BY <2>1 DEF Launches
  <2>2. CASE ~(s.node[i].status \notin {"queued", "resume"} \/ AuthorAtWork(s, i))
    BY <2>2 DEF Launches, failed, cancelled
  <2> QED
    BY <2>1, <2>2
<1>4. s.node[i].status \notin {"queued", "resume"} => v = s
  BY DEF Launches
<1> HIDE DEF v, failed, cancelled
<1>5. CASE v \in {s, failed, cancelled}
  <2>1. Ending(s, v)
    BY <1>2, <1>5
  <2>2. Fine(v, J) /\ Visits(s, v, i)
    BY <1>1, <2>1, FineEnding, EndingVisits
  <2> QED
    BY <1>4, <2>1, <2>2 DEF v
<1>6. CASE v = Started(s, i) /\ ~Busy(s, i) /\ s.node[i].status \in {"queued", "resume"}
  <2>1. Fine(v, J) /\ Visits(s, v, i) /\ v.node = Marked(s, i).node
    BY <1>6, StartedFine
  <2> QED
    BY <1>4, <1>6, <2>1 DEF v
<1> QED
  BY <1>3, <1>5, <1>6

(* One node of the tick: what it keeps; that who goes on has all its       *)
(* answers; and what there is when the save fails.                         *)
LEMMA VisitedFine ==
  ASSUME NEW s, NEW J, Fine(s, J), NEW i \in Ids
  PROVE  LET v == Visited(s, i) IN
         /\ Fine(v, J) /\ Visits(s, v, i)
         /\ s.node[i].status \in {"waiting", "resume"} /\ v.node[i].status \in {"resume", "running"} =>
              \A c \in Children(s, i) : Answered(s, c)
         /\ s.node[i].status # "running" /\ v.node[i].status = "running" =>
              Fine([v EXCEPT !.turn = s.turn], J \union {i})
<1> DEFINE v == Visited(s, i)
           e == Expires(s, i)
           r == Reports(e, i)
           m == Resumes(r, i)
           l == Launches(m, i)
<1>1. s \in State
  BY DEF Fine
<1>2. CASE i \notin Kept(s)
  <2>1. v = s
    BY <1>2 DEF Visited
  <2>2. s.node[i].status \notin {"waiting", "resume"}
    BY <1>1, <1>2, NodesOf
  <2> QED
    BY <1>1, <2>1, <2>2, EndingNothing
<1>3. CASE i \in Kept(s)
  <2>1. v = l
    BY <1>3 DEF Visited
  <2> HIDE DEF v
  <2>2. Ending(s, e) /\ (i \in Active(s) => e = s \/ e.node[i].status \in Over)
    BY ExpiresEnds
  <2>3. e \in State /\ Fine(e, J) /\ Visits(s, e, i)
    BY <1>1, <2>2, FineEnding, EndingVisits DEF Fine
  <2> HIDE DEF e
  <2>4. /\ Fine(r, J) /\ Visits(e, r, i) /\ r.turn = e.turn
        /\ ~Ended(e, i) => r = e
    BY <2>3, ReportsFine
  <2>5. r \in State
    BY <2>4 DEF Fine
  <2> HIDE DEF r
  <2>6. /\ Fine(m, J) /\ Visits(r, m, i) /\ m.turn = r.turn
        /\ m.node[i].status \in {r.node[i].status, "resume"}
    BY <2>4, ResumesFine
  <2>7. /\ m \in State
        /\ m = r \/ (/\ r.node[i].status = "waiting"
                     /\ \A c \in Children(r, i) : Answered(r, c))
    BY <2>6 DEF Fine, m, Resumes
  <2> HIDE DEF m
  <2>8. /\ Fine(l, J) /\ Visits(m, l, i)
        /\ \/ Ending(m, l)
           \/ /\ m.node[i].status \in {"queued", "resume"}
              /\ l = Started(m, i) /\ l.node = Marked(m, i).node
        /\ m.node[i].status \notin {"queued", "resume"} => l = m
    BY <2>6, LaunchesFine
  <2> HIDE DEF l
  <2>9. Visits(e, l, i)
    <3>1. Visits(e, m, i)
      BY <2>3, <2>4, <2>5, <2>6, VisitsTogether
    <3> QED
      BY <2>3, <2>7, <2>8, <3>1, VisitsTogether
  <2>10. Visits(s, l, i)
    BY <1>1, <2>3, <2>9, VisitsTogether
  <2>11. ASSUME ~Ended(l, i)
         PROVE  e = s /\ r = s
    <3>1. ~Ended(e, i) /\ ~Ended(s, i)
      BY <2>9, <2>10, <2>11 DEF Visits, Ended
    <3>2. i \in Active(s)
      BY <1>3, <3>1 DEF Active
    <3> QED
      BY <2>2, <2>4, <3>1, <3>2 DEF Ended
  <2>12. ASSUME s.node[i].status \in {"waiting", "resume"}, l.node[i].status \in {"resume", "running"},
                NEW c \in Children(s, i)
         PROVE  Answered(s, c)
    <3>1. r = s
      BY <2>11, <2>12 DEF Ended, Over
    <3>2. CASE s.node[i].status = "resume"
      <4>1. i \in Known(s)
        BY <1>1, <3>2, NodesOf
      <4> QED
        BY <2>12, <3>2, <4>1 DEF Fine, Grown
    <3>3. CASE s.node[i].status = "waiting"
      <4>1. m # r
        BY <2>8, <2>12, <3>1, <3>3
      <4> QED
        BY <2>7, <2>12, <3>1, <4>1
    <3> QED
      BY <2>12, <3>2, <3>3
  <2>13. ASSUME s.node[i].status # "running", l.node[i].status = "running"
         PROVE  Fine([l EXCEPT !.turn = s.turn], J \union {i})
    <3>1. r = s
      BY <2>11, <2>13 DEF Ended, Over
    <3>2. m.turn = s.turn /\ m.node[i].status # "running"
      BY <2>6, <2>13, <3>1
    <3>3. ~Ending(m, l)
      BY <2>7, <2>13, <3>2, EndingNode DEF Over
    <3>4. m.node[i].status \in {"queued", "resume"} /\ l = Started(m, i)
      BY <2>8, <3>3
    <3>5. [l EXCEPT !.turn = s.turn] = Marked(m, i)
      BY <3>2, <3>4 DEF Marked
    <3>6. Fine(Marked(m, i), J \union {i})
      BY <2>6, <3>4, MarkedFine
    <3> QED
      BY <3>5, <3>6
  <2>14. s.node[i].status \in {"waiting", "resume"} /\ l.node[i].status \in {"resume", "running"} =>
           \A c \in Children(s, i) : Answered(s, c)
    BY <2>12
  <2>15. s.node[i].status # "running" /\ l.node[i].status = "running" =>
           Fine([l EXCEPT !.turn = s.turn], J \union {i})
    BY <2>13
  <2>16. Visited(s, i) = l
    BY <2>1 DEF v
  <2> QED
    BY <2>8, <2>10, <2>14, <2>15, <2>16
<1> QED
  BY <1>2, <1>3

(* The tick is a loop: it visits one node after the other. *)
LEMMA WalkedUnrolled ==
  ASSUME NEW J, Fine(Now, J)
  PROVE  /\ Walked(0) = Now
         /\ \A n \in 1 .. MaxNodes : Walked(n) = Visited(Walked(n - 1), n)
<1> DEFINE T == {s \in State : Fine(s, J)}
           step == [i \in 1 .. MaxNodes |-> [s \in T |-> Visited(s, i)]]
           next(f, i) == IF i = 0 THEN Now ELSE Visited(f[i - 1], i)
           after == CHOOSE f : f = [i \in 0 .. MaxNodes |-> next(f, i)]
<1>1. MaxNodes \in Nat
  BY HandoffsAssumption
<1>2. Now \in T
  BY DEF Fine
<1>3. ASSUME NEW i \in 1 .. MaxNodes, NEW s \in T
      PROVE  Visited(s, i) \in T
  <2>1. Fine(Visited(s, i), J)
    BY VisitedFine DEF Ids
  <2> QED
    BY <2>1 DEF Fine
<1> HIDE DEF T
<1>4. step \in [1 .. MaxNodes -> [T -> T]]
  BY <1>3
<1>5. PICK f : IsLoop(f, MaxNodes, T, Now, step)
  <2> HIDE DEF step
  <2> QED
    BY <1>1, <1>2, <1>4, LoopUnrolled
<1>6. ASSUME NEW i \in 1 .. MaxNodes
      PROVE  f[i] = Visited(f[i - 1], i)
  <2>1. i - 1 \in 0 .. MaxNodes
    BY <1>1
  <2>2. f[i - 1] \in T /\ f[i] = step[i][f[i - 1]]
    BY <1>5, <2>1 DEF IsLoop
  <2> QED
    BY <2>2
<1>7. f = [i \in 0 .. MaxNodes |-> next(f, i)]
  <2>1. \A i \in 0 .. MaxNodes : i = 0 \/ i \in 1 .. MaxNodes
    BY <1>1
  <2>2. f \in [0 .. MaxNodes -> T] /\ f[0] = Now
    BY <1>5 DEF IsLoop
  <2>3. \A i \in 0 .. MaxNodes : f[i] = next(f, i)
    BY <1>6, <2>1, <2>2
  <2> QED
    BY <2>2, <2>3
<1>8. after = [i \in 0 .. MaxNodes |-> next(after, i)]
  BY <1>7
<1>9. \A n : Walked(n) = after[n]
  BY DEF Walked
<1> HIDE DEF after
<1>10. after[0] = Now /\ \A n \in 1 .. MaxNodes : after[n] = Visited(after[n - 1], n)
  <2>1. 0 \in 0 .. MaxNodes /\ \A n \in 1 .. MaxNodes : n \in 0 .. MaxNodes /\ n # 0
    BY <1>1
  <2> QED
    BY <1>8, <2>1
<1> QED
  BY <1>9, <1>10

(* What holds when the nodes up to n have been visited. *)
Passed(s, n) ==
  /\ \A j \in Ids :
       /\ j \in Known(s) <=> j \in Known(Now)
       /\ j \in Kept(s) <=> j \in Kept(Now)
       /\ j \in Known(Now) => s.node[j].parent = node[j].parent
       /\ j \in Known(Now) /\ node[j].reported => s.node[j].reported
       /\ Ended(Now, j) => s.node[j].status = node[j].status
  /\ \A j \in Ids : j > n =>
       /\ j \in Known(Now) => s.node[j].reported = node[j].reported
       /\ s.node[j].status = node[j].status \/ s.node[j].status \in Over
  /\ \A j \in Ids :
       node[j].status \in {"waiting", "resume"} /\ s.node[j].status \in {"resume", "running"} =>
         \A c \in Children(Now, j) : Answered(Now, c)

(* The children of a node come after it: what is known of their answers    *)
(* when it is visited was so before the tick.                              *)
LEMMA WalkedFine ==
  ASSUME NEW J, Fine(Now, J)
  PROVE  \A n \in 0 .. MaxNodes : Fine(Walked(n), J) /\ Passed(Walked(n), n)
<1> DEFINE A == {n \in 0 .. MaxNodes : Fine(Walked(n), J) /\ Passed(Walked(n), n)}
<1>1. MaxNodes \in Nat /\ Ids = 1 .. MaxNodes
  BY HandoffsAssumption DEF Ids
<1>2. /\ Walked(0) = Now
      /\ \A n \in 1 .. MaxNodes : Walked(n) = Visited(Walked(n - 1), n)
  BY WalkedUnrolled
<1>3. Now \in State /\ Now.node = node
  BY DEF Fine, Now
<1>4. ASSUME NEW j \in Ids, NEW c \in Children(Now, j)
      PROVE  /\ c \in Ids /\ c \in Known(Now) /\ c \in Kept(Now) /\ node[c].parent = j
             /\ j < c /\ j # 0
  <2>1. c \in Ids /\ c \in Kept(Now) /\ node[c].parent = j
    BY <1>3 DEF Children, Parent, Kept
  <2>2. c \in Known(Now)
    BY <1>3, <2>1, NodesOf
  <2>3. node[c].parent < c
    BY <1>3, <2>2 DEF Fine, Grown
  <2> QED
    BY <1>1, <2>1, <2>2, <2>3
<1>5. 0 \in A
  <2>1. \A j \in Ids : node[j].status = "resume" => j \in Known(Now)
    BY <1>3, NodesOf
  <2>2. \A j \in Ids :
          node[j].status \in {"waiting", "resume"} /\ node[j].status \in {"resume", "running"} =>
            \A c \in Children(Now, j) : Answered(Now, c)
    BY <1>3, <2>1 DEF Fine, Grown
  <2>3. Passed(Now, 0)
    BY <1>3, <2>2 DEF Passed
  <2> QED
    BY <1>1, <1>2, <2>3
<1>6. ASSUME NEW n \in 0 .. MaxNodes, n \in A, n < MaxNodes
      PROVE  n + 1 \in A
  <2> DEFINE k == n + 1
             s == Walked(n)
             v == Walked(k)
  <2>1. k \in 1 .. MaxNodes /\ k \in 0 .. MaxNodes /\ k \in Ids /\ k - 1 = n
        /\ \A j \in Ids : j >= k => j > n
    BY <1>1, <1>6
  <2>2. v = Visited(s, k)
    BY <1>2, <2>1
  <2>3. Fine(s, J) /\ Passed(s, n)
    BY <1>6
  <2> HIDE DEF A, k, s, v
  <2>4. /\ Fine(v, J) /\ Visits(s, v, k)
        /\ s.node[k].status \in {"waiting", "resume"} /\ v.node[k].status \in {"resume", "running"} =>
             \A c \in Children(s, k) : Answered(s, c)
    BY <2>1, <2>2, <2>3, VisitedFine
  <2>5. ASSUME NEW j \in Ids
        PROVE  /\ j \in Known(v) <=> j \in Known(Now)
               /\ j \in Kept(v) <=> j \in Kept(Now)
               /\ j \in Known(Now) => v.node[j].parent = node[j].parent
               /\ j \in Known(Now) /\ node[j].reported => v.node[j].reported
               /\ Ended(Now, j) => v.node[j].status = node[j].status
    <3>1. /\ j \in Known(s) <=> j \in Known(Now)
          /\ j \in Kept(s) <=> j \in Kept(Now)
          /\ j \in Known(Now) => s.node[j].parent = node[j].parent
          /\ j \in Known(Now) /\ node[j].reported => s.node[j].reported
          /\ Ended(Now, j) => s.node[j].status = node[j].status
      BY <2>3 DEF Passed
    <3>2. /\ j \in Known(v) <=> j \in Known(s)
          /\ j \in Kept(v) <=> j \in Kept(s)
          /\ j \in Known(s) => v.node[j].parent = s.node[j].parent
          /\ j \in Known(s) /\ s.node[j].reported => v.node[j].reported
          /\ Ended(s, j) => v.node[j].status = s.node[j].status
      BY <2>4 DEF Visits
    <3> QED
      BY <1>3, <3>1, <3>2 DEF Ended
  <2>6. ASSUME NEW j \in Ids, j > k
        PROVE  /\ j \in Known(Now) => v.node[j].reported = node[j].reported
               /\ v.node[j].status = node[j].status \/ v.node[j].status \in Over
    <3>1. j # k /\ j > n
      BY <1>1, <2>1, <2>6
    <3>2. /\ j \in Known(s) <=> j \in Known(Now)
          /\ j \in Known(Now) => s.node[j].reported = node[j].reported
          /\ s.node[j].status = node[j].status \/ s.node[j].status \in Over
      BY <2>3, <3>1 DEF Passed
    <3>3. /\ j \in Known(s) => v.node[j].reported = s.node[j].reported
          /\ v.node[j].status = s.node[j].status \/ v.node[j].status \in Over
      BY <2>4, <3>1 DEF Visits
    <3> QED
      BY <3>2, <3>3
  <2>7. ASSUME NEW j \in Ids, node[j].status \in {"waiting", "resume"},
               v.node[j].status \in {"resume", "running"}, NEW c \in Children(Now, j)
        PROVE  Answered(Now, c)
    <3>1. CASE j # k
      <4>1. v.node[j].status = s.node[j].status \/ v.node[j].status \in Over
        BY <2>4, <3>1 DEF Visits
      <4>2. s.node[j].status \in {"resume", "running"}
        BY <2>7, <4>1 DEF Over
      <4> QED
        BY <2>3, <2>7, <4>2 DEF Passed
    <3>2. CASE j = k
      <4>1. k > n
        BY <1>1, <2>1
      <4>2. s.node[k].status = node[k].status \/ s.node[k].status \in Over
        BY <2>1, <2>3, <4>1 DEF Passed
      <4>3. s.node[k].status \notin Over
        BY <2>1, <2>4, <2>7, <3>2 DEF Visits, Ended, Over
      <4>4. \A d \in Children(s, k) : Answered(s, d)
        BY <2>4, <2>7, <3>2, <4>2, <4>3
      <4>5. /\ c \in Ids /\ c \in Known(Now) /\ c \in Kept(Now) /\ node[c].parent = k
            /\ k < c /\ k # 0
        BY <1>4, <2>7, <3>2
      <4>6. c \in Kept(s) /\ s.node[c].parent = k
        BY <2>3, <4>5 DEF Passed
      <4>7. s.node[c].reported
        BY <4>4, <4>6 DEF Children, Parent, Answered
      <4>8. c > n
        BY <1>1, <2>1, <4>5
      <4>9. node[c].reported
        BY <2>3, <4>5, <4>7, <4>8 DEF Passed
      <4>10. node[c].status \in Over \union {"gone"}
        BY <1>3, <4>5, <4>9 DEF Fine, Grown
      <4> QED
        BY <1>3, <4>5, <4>9, <4>10 DEF Answered, Ended, Kept
    <3> QED
      BY <3>1, <3>2
  <2>8. Passed(v, k)
    BY <2>5, <2>6, <2>7 DEF Passed
  <2> QED
    BY <2>1, <2>4, <2>8 DEF A, k, v
<1>7. ASSUME NEW n \in 0 .. MaxNodes
      PROVE  n \in A
  <2>1. n \in Nat /\ \A m \in 0 .. n : m \in A /\ m < n => m + 1 \in A
    BY <1>1, <1>6
  <2> HIDE DEF A
  <2> QED
    BY <1>5, <2>1, IntervalInduction
<1> QED
  BY <1>7

-----------------------------------------------------------------------------
(* The steps. *)

(* What a step may not do to a node, whatever it does to the others: the   *)
(* two action properties, of the record of nodes that it leaves.           *)
Lawful(v) ==
  /\ \A i \in Ids : Ended(Now, i) =>
       \/ v.node[i].status = "gone"
       \/ /\ v.node[i].status = node[i].status
          /\ node[i].reported => v.node[i].reported
  /\ \A i \in Ids :
       node[i].status \in {"waiting", "resume"} /\ v.node[i].status \in {"resume", "running"} =>
         \A c \in Children(Now, i) : Answered(Now, c)

(* All but the tick start nobody and touch no end. *)
LEMMA QuietLawful ==
  ASSUME NEW J, Fine(Now, J), NEW v,
         \A i \in Ids : Ended(Now, i) => v.node[i].status = "gone" \/ v.node[i] = node[i],
         \A i \in Ids : v.node[i].status \in {"resume", "running"} =>
                          v.node[i].status = node[i].status
  PROVE  Lawful(v)
<1>1. Now \in State /\ Now.node = node
  BY DEF Fine, Now
<1>2. ASSUME NEW i \in Ids, Ended(Now, i)
      PROVE  \/ v.node[i].status = "gone"
             \/ /\ v.node[i].status = node[i].status
                /\ node[i].reported => v.node[i].reported
  BY <1>2
<1>3. ASSUME NEW i \in Ids, node[i].status \in {"waiting", "resume"},
             v.node[i].status \in {"resume", "running"}, NEW c \in Children(Now, i)
      PROVE  Answered(Now, c)
  <2>1. node[i].status = "resume"
    BY <1>3
  <2>2. i \in Known(Now)
    BY <1>1, <2>1, NodesOf
  <2> QED
    BY <1>1, <1>3, <2>1, <2>2 DEF Fine, Grown
<1> QED
  BY <1>2, <1>3 DEF Lawful

(* So it is when nodes end. *)
LEMMA EndingLawful ==
  ASSUME NEW J, Fine(Now, J), NEW v, Ending(Now, v)
  PROVE  Lawful(v)
<1>1. Now \in State /\ Now.node = node
  BY DEF Fine, Now
<1>2. \A i \in Ids :
        /\ i \notin Active(Now) => v.node[i] = node[i]
        /\ v.node[i].status = node[i].status \/ v.node[i].status \in Over
  BY <1>1, EndingNode
<1>3. \A i \in Ids : Ended(Now, i) => v.node[i].status = "gone" \/ v.node[i] = node[i]
  BY <1>2 DEF Active
<1>4. \A i \in Ids : v.node[i].status \in {"resume", "running"} => v.node[i].status = node[i].status
  BY <1>2 DEF Over
<1> QED
  BY <1>3, <1>4, QuietLawful

(* The variables are what the handler has computed. *)
LEMMA BecomesNow ==
  ASSUME NEW v \in State, Becomes(v)
  PROVE  Now' = v
<1>1. v = [node |-> v.node, turn |-> v.turn]
  BY DEF State
<1> QED
  BY <1>1 DEF Becomes, Now

(* A step of which only ends come. *)
LEMMA EndingStep ==
  ASSUME IInv, NEW v, Ending(Now, v), Becomes(v), UNCHANGED jammed
  PROVE  IInv' /\ Lawful(Now')
<1>1. v \in State
  BY DEF Ending
<1>2. Now' = v
  BY <1>1, BecomesNow
<1>3. Fine(v, jammed) /\ Lawful(v)
  BY FineEnding, EndingLawful DEF IInv
<1> QED
  BY <1>2, <1>3 DEF IInv

(* Stop. *)
LEMMA StopStep ==
  ASSUME IInv, NEW p \in Places, Stop(p)
  PROVE  IInv' /\ Lawful(Now')
<1> DEFINE room == CancelledTrees(Now, At(Now, Room), "cancelled")
<1>1. Fine(Now, jammed) /\ Now \in State
  BY DEF IInv, Fine
<1>2. Ending(Now, Interrupted(room, {Room}))
  <2>1. Ending(Now, room)
    <3>1. "cancelled" \in Over
      BY DEF Over
    <3> QED
      BY <1>1, <3>1, CancelledTreesEnding
  <2> HIDE DEF room
  <2> QED
    BY <1>1, <2>1, EndingInterrupted
<1>3. Ending(Now, StoppedDirect(Now, {p}))
  BY <1>1, StopEnds
<1> DEFINE v == IF p = Room THEN Interrupted(room, {Room}) ELSE StoppedDirect(Now, {p})
<1>4. Ending(Now, v)
  BY <1>2, <1>3
<1>5. Becomes(v) /\ UNCHANGED jammed
  BY DEF Stop
<1> HIDE DEF v
<1> QED
  BY <1>4, <1>5, EndingStep

(* A thread is cleared away. *)
LEMMA DeleteStep ==
  ASSUME IInv, NEW p \in Places, Delete(p)
  PROVE  IInv' /\ Lawful(Now')
<1> DEFINE v == CancelledTrees(Now, At(Now, p), "cancelled")
<1>1. Fine(Now, jammed) /\ "cancelled" \in Over
  BY DEF IInv, Over
<1>2. Ending(Now, v)
  BY <1>1, CancelledTreesEnding
<1>3. Becomes(v) /\ UNCHANGED jammed
  BY DEF Delete
<1> HIDE DEF v
<1> QED
  BY <1>2, <1>3, EndingStep

(* The tick. *)
LEMMA TickStep ==
  ASSUME IInv, Tick
  PROVE  IInv' /\ Lawful(Now')
<1>1. MaxNodes \in Nat /\ Fine(Now, jammed)
  BY HandoffsAssumption DEF IInv
<1>2. MaxNodes \in 0 .. MaxNodes
  BY <1>1
<1> DEFINE v == Walked(MaxNodes)
<1>3. Fine(v, jammed) /\ Passed(v, MaxNodes)
  BY <1>1, <1>2, WalkedFine
<1>4. Becomes(v) /\ UNCHANGED jammed
  BY DEF Tick
<1> HIDE DEF v
<1>5. v \in State
  BY <1>3 DEF Fine
<1>6. Now' = v
  BY <1>4, <1>5, BecomesNow
<1>7. Lawful(v)
  <2>1. \A i \in Ids : Ended(Now, i) => i \in Known(Now)
    BY <1>1, NodesOf DEF Fine
  <2> QED
    BY <1>3, <2>1 DEF Passed, Lawful
<1> QED
  BY <1>3, <1>4, <1>6, <1>7 DEF IInv

(* The tick that fails. *)
LEMMA TickFailsStep ==
  ASSUME IInv, NEW i \in Ids, TickFails(i)
  PROVE  IInv' /\ Lawful(Now')
<1> DEFINE s == Walked(i - 1)
           v == Visited(s, i)
           w == [v EXCEPT !.turn = s.turn]
<1>1. MaxNodes \in Nat /\ Fine(Now, jammed)
  BY HandoffsAssumption DEF IInv
<1>2. i \in 1 .. MaxNodes /\ i \in 0 .. MaxNodes /\ i - 1 \in 0 .. MaxNodes
  BY <1>1 DEF Ids
<1>3. Walked(i) = v
  BY <1>1, <1>2, WalkedUnrolled
<1>4. Fine(v, jammed) /\ Passed(v, i) /\ Fine(s, jammed)
  BY <1>1, <1>2, <1>3, WalkedFine
<1>5. /\ s.node[i].status # "running" /\ v.node[i].status = "running"
      /\ Becomes(w) /\ jammed' = jammed \union {i}
  BY DEF TickFails
<1> HIDE DEF s
<1>6. Fine(w, jammed \union {i})
  BY <1>4, <1>5, VisitedFine
<1>7. w.node = v.node
  <2>1. v = [node |-> v.node, turn |-> v.turn]
    BY <1>4 DEF Fine, State
  <2> HIDE DEF v
  <2> QED
    BY <2>1
<1> HIDE DEF v, w
<1>8. w \in State
  BY <1>6 DEF Fine
<1>9. Now' = w
  BY <1>5, <1>8, BecomesNow
<1>10. Lawful(w)
  <2>1. \A j \in Ids : Ended(Now, j) => j \in Known(Now)
    BY <1>1, NodesOf DEF Fine
  <2> QED
    BY <1>4, <1>7, <2>1 DEF Passed, Lawful
<1> QED
  BY <1>5, <1>6, <1>9, <1>10 DEF IInv

(* One turn changes, and no node. *)
LEMMA TurnFine ==
  ASSUME NEW s, NEW J, Fine(s, J), NEW p \in Places, NEW u \in Turn \union {Idle}, NEW K,
         u # Idle =>
           /\ p \in Direct => u.bot = p[1]
           /\ u.own = "node" => /\ u.node \in Known(s) /\ s.node[u.node].at = p
                                /\ s.node[u.node].bot = u.bot
                                /\ p \in Direct /\ u.can =>
                                     s.node[u.node].status \in {"running", "gone"}
           /\ u.own = "user" /\ u.node # 0 =>
                /\ u.node \in Known(s) /\ s.node[u.node].at = p
                /\ s.node[u.node].status \in Over \union {"source", "gone"},
         \A i \in Ids \ K : s.node[i].status = "running" =>
           i \notin J /\ (s.node[i].at = p => u.own = "node" /\ u.node = i)
  PROVE  LET v == [s EXCEPT !.turn[p] = u] IN
         Fine(v, K) /\ v.node = s.node /\ v.turn = [s.turn EXCEPT ![p] = u]
<1> DEFINE ts == [s.turn EXCEPT ![p] = u]
           v == [node |-> s.node, turn |-> ts]
<1>1. s \in State /\ s.turn \in [Places -> Turn \union {Idle}] /\ s.node \in [Ids -> Node \union {None}]
      /\ s = [node |-> s.node, turn |-> s.turn]
  BY DEF Fine, State
<1>2. [s EXCEPT !.turn[p] = u] = v
  BY <1>1
<1>3. ts \in [Places -> Turn \union {Idle}] /\ ts[p] = u /\ \A q \in Places : q # p => ts[q] = s.turn[q]
  BY <1>1
<1> HIDE DEF ts
<1>4. v \in State /\ v.node = s.node /\ v.turn = ts
  BY <1>1, <1>3 DEF State
<1> HIDE DEF v
<1>5. Known(v) = Known(s) /\ Numbered(v) /\ Grown(v)
      /\ Kept(v) = Kept(s) /\ (\A i : Children(v, i) = Children(s, i))
      /\ \A i : Answered(v, i) <=> Answered(s, i)
  BY <1>4, SameNodes
<1>6. Taken(v)
  <2> SUFFICES ASSUME NEW q \in Places, v.turn[q] # Idle
               PROVE  /\ q \in Direct => v.turn[q].bot = q[1]
                      /\ v.turn[q].own = "node" =>
                           /\ v.turn[q].node \in Known(v) /\ v.node[v.turn[q].node].at = q
                           /\ v.node[v.turn[q].node].bot = v.turn[q].bot
                           /\ q \in Direct /\ v.turn[q].can =>
                                v.node[v.turn[q].node].status \in {"running", "gone"}
                      /\ v.turn[q].own = "user" /\ v.turn[q].node # 0 =>
                           /\ v.turn[q].node \in Known(v) /\ v.node[v.turn[q].node].at = q
                           /\ v.node[v.turn[q].node].status \in Over \union {"source", "gone"}
    BY DEF Taken
  <2>1. CASE q = p
    <3>1. v.turn[q] = u
      BY <1>3, <1>4, <2>1
    <3> QED
      BY <1>4, <1>5, <2>1, <3>1
  <2>2. CASE q # p
    <3>1. v.turn[q] = s.turn[q]
      BY <1>3, <1>4, <2>2
    <3>2. Taken(s)
      BY DEF Fine
    <3> DEFINE t == s.turn[q]
               j == t.node
    <3>3. /\ q \in Direct => t.bot = q[1]
          /\ t.own = "node" => /\ j \in Known(s) /\ s.node[j].at = q /\ s.node[j].bot = t.bot
                               /\ q \in Direct /\ t.can =>
                                    s.node[j].status \in {"running", "gone"}
          /\ t.own = "user" /\ j # 0 =>
               /\ j \in Known(s) /\ s.node[j].at = q
               /\ s.node[j].status \in Over \union {"source", "gone"}
      BY <3>1, <3>2 DEF Taken
    <3> HIDE DEF t, j
    <3>4. v.turn[q] = t /\ v.turn[q].node = j
      BY <3>1 DEF t, j
    <3> QED
      BY <1>4, <1>5, <3>3, <3>4
  <2> QED
    BY <2>1, <2>2
<1>7. Worked(v, K)
  <2> SUFFICES ASSUME NEW i \in Ids \ K, v.node[i].status = "running"
               PROVE  v.turn[v.node[i].at].own = "node" /\ v.turn[v.node[i].at].node = i
    BY DEF Worked
  <2>1. i \notin J /\ s.node[i].status = "running"
        /\ (s.node[i].at = p => u.own = "node" /\ u.node = i)
    BY <1>4
  <2>2. s.turn[s.node[i].at].own = "node" /\ s.turn[s.node[i].at].node = i
    BY <2>1 DEF Fine, Worked
  <2>3. s.node[i].at \in Places
    <3>1. s.node[i] \in Node
      BY <1>1, <2>1, NodesOf
    <3> QED
      BY <3>1 DEF Node
  <2> QED
    BY <1>3, <1>4, <2>1, <2>2, <2>3
<1>8. Fine(v, K)
  BY <1>4, <1>5, <1>6, <1>7 DEF Fine
<1> QED
  BY <1>2, <1>4, <1>8 DEF ts

(* What is true of a turn under way. *)
LEMMA TurnNode ==
  ASSUME NEW s, NEW J, Fine(s, J), NEW p \in Places, s.turn[p] # Idle
  PROVE  /\ s.turn[p] \in Turn
         /\ p \in Direct => s.turn[p].bot = p[1]
         /\ s.turn[p].own = "node" =>
              /\ s.turn[p].node \in Known(s) /\ s.node[s.turn[p].node].at = p
              /\ s.node[s.turn[p].node].bot = s.turn[p].bot
              /\ p \in Direct /\ s.turn[p].can =>
                   s.node[s.turn[p].node].status \in {"running", "gone"}
         /\ s.turn[p].own = "user" /\ s.turn[p].node # 0 =>
              /\ s.turn[p].node \in Known(s) /\ s.node[s.turn[p].node].at = p
              /\ s.node[s.turn[p].node].status \in Over \union {"source", "gone"}
<1>1. s.turn[p] \in Turn
  BY TurnsOf DEF Fine
<1>2. Taken(s)
  BY DEF Fine
<1> QED
  BY <1>1, <1>2 DEF Taken

(* A turn goes on. *)
LEMMA TurnGoesOn ==
  ASSUME NEW J, Fine(Now, J), NEW p \in Places, turn[p] # Idle, NEW step \in {"live", "hung"}
  PROVE  LET v == [Now EXCEPT !.turn[p].step = step] IN
         /\ Fine(v, J) /\ v.node = node /\ v.turn = [turn EXCEPT ![p].step = step]
<1> DEFINE u == [turn[p] EXCEPT !.step = step]
           s == Now
           v == [s EXCEPT !.turn[p] = u]
<1>1. s.turn = turn /\ s.node = node /\ s \in State
  BY DEF Fine, Now
<1>2. /\ turn[p] \in Turn
      /\ p \in Direct => turn[p].bot = p[1]
      /\ turn[p].own = "node" =>
           /\ turn[p].node \in Known(s) /\ node[turn[p].node].at = p
           /\ node[turn[p].node].bot = turn[p].bot
           /\ p \in Direct /\ turn[p].can =>
                node[turn[p].node].status \in {"running", "gone"}
      /\ turn[p].own = "user" /\ turn[p].node # 0 =>
           /\ turn[p].node \in Known(s) /\ node[turn[p].node].at = p
           /\ node[turn[p].node].status \in Over \union {"source", "gone"}
  BY <1>1, TurnNode
<1>3. /\ u \in Turn /\ u.bot = turn[p].bot /\ u.own = turn[p].own /\ u.node = turn[p].node
      /\ u.can = turn[p].can
  BY <1>2 DEF Turn
<1>4. [Now EXCEPT !.turn[p].step = step] = v /\ [turn EXCEPT ![p].step = step] = [turn EXCEPT ![p] = u]
  BY <1>1 DEF Now
<1> HIDE DEF u, s
<1>5. \A i \in Ids \ J : s.node[i].status = "running" =>
        i \notin J /\ (s.node[i].at = p => u.own = "node" /\ u.node = i)
  BY <1>1, <1>3 DEF Fine, Worked, s
<1>6. u # Idle =>
        /\ p \in Direct => u.bot = p[1]
        /\ u.own = "node" => /\ u.node \in Known(s) /\ s.node[u.node].at = p
                             /\ s.node[u.node].bot = u.bot
                             /\ p \in Direct /\ u.can =>
                                  s.node[u.node].status \in {"running", "gone"}
        /\ u.own = "user" /\ u.node # 0 =>
             /\ u.node \in Known(s) /\ s.node[u.node].at = p
             /\ s.node[u.node].status \in Over \union {"source", "gone"}
  BY <1>1, <1>2, <1>3
<1>7. Fine(v, J) /\ v.node = s.node /\ v.turn = [s.turn EXCEPT ![p] = u]
  <2>1. Fine(s, J) /\ u \in Turn \union {Idle}
    BY <1>3 DEF s
  <2> QED
    BY <2>1, <1>5, <1>6, TurnFine
<1> QED
  BY <1>1, <1>4, <1>7

(* A turn is over, whatever becomes of its node. *)
LEMMA TurnFreed ==
  ASSUME NEW J, Fine(Now, J), NEW p \in Places, turn[p] # Idle
  PROVE  LET v == [Now EXCEPT !.turn[p] = Idle] IN
         /\ Fine(v, IF turn[p].own = "node" THEN J \union {turn[p].node} ELSE J)
         /\ v.node = node /\ v.turn = [turn EXCEPT ![p] = Idle]
<1> DEFINE K == IF turn[p].own = "node" THEN J \union {turn[p].node} ELSE J
           s == Now
           v == [s EXCEPT !.turn[p] = Idle]
<1>1. s.turn = turn /\ s.node = node /\ s \in State /\ Fine(s, J)
  BY DEF Fine, Now
<1> HIDE DEF s
<1>2. \A i \in Ids \ K : s.node[i].status = "running" =>
        i \notin J /\ (s.node[i].at = p => Idle.own = "node" /\ Idle.node = i)
  BY <1>1 DEF Fine, Worked
<1>3. Fine(v, K) /\ v.node = s.node /\ v.turn = [s.turn EXCEPT ![p] = Idle]
  <2> HIDE DEF K
  <2> QED
    BY <1>1, <1>2, TurnFine
<1> QED
  BY <1>1, <1>3 DEF s

(* No turn is this node's. *)
Left(s, j) == \A p \in Places : s.turn[p] # Idle => s.turn[p].node # j

(* No other node changes. *)
OnlyAt(s, v, j) == \A i \in Ids : i # j => v.node[i] = s.node[i]

(* A running node or the root of a user's turn is settled, when it has no  *)
(* turn any more.                                                          *)
LEMMA SettledPut ==
  ASSUME NEW s, NEW K, Fine(s, K), NEW j \in Ids, s.node[j].status \in {"source", "running"},
         Left(s, j), NEW status \in {"waiting", "completed"}, NEW J, K \subseteq J \union {j}
  PROVE  LET v == Put(s, {j}, status) IN
         Fine(v, J) /\ v.node[j].status = status /\ OnlyAt(s, v, j)
<1> DEFINE nodes == {j}
           v == Put(s, nodes, status)
<1>1. s \in State
  BY DEF Fine
<1>2. j \in Known(s) /\ ~Ended(s, j)
  BY <1>1, NodesOf DEF Ended, Over
<1>3. nodes \intersect Ids \subseteq Known(s) /\ status \in Over \union Unfinished \union {"gone"}
  BY <1>2 DEF Over, Unfinished
<1> HIDE DEF nodes
<1>4. /\ InPlace(s, v) /\ v.turn = s.turn
      /\ \A i \in Ids :
           /\ i \in nodes => v.node[i].status = status
           /\ i \notin nodes => v.node[i] = s.node[i]
           /\ v.node[i].status \in {s.node[i].status, status}
           /\ i \in Known(s) => v.node[i].reported = s.node[i].reported
  BY <1>1, <1>3, PutInPlace
<1> HIDE DEF v
<1>5. v.node[j].status = status /\ \A i \in Ids : i # j => v.node[i] = s.node[i]
  BY <1>4 DEF nodes
<1>6. \A i \in Known(s) : i \in Ids
  BY DEF Known
<1>7. \A i \in Known(s) : v.node[i].parent # 0 /\ v.node[i].reported =>
                            v.node[i].status \in Over \union {"gone"}
  <2> SUFFICES ASSUME NEW i \in Known(s), v.node[i].parent # 0, v.node[i].reported
               PROVE  v.node[i].status \in Over \union {"gone"}
    OBVIOUS
  <2>1. s.node[i].parent # 0 /\ s.node[i].reported
    BY <1>4, <1>6 DEF InPlace
  <2>2. s.node[i].status \in Over \union {"gone"}
    BY <2>1 DEF Fine, Grown
  <2>3. i # j
    BY <2>2 DEF Over
  <2> QED
    BY <1>5, <1>6, <2>2, <2>3
<1>8. \A i \in Known(s) : v.node[i].status = "resume" =>
                            \A c \in Children(v, i) : Answered(v, c)
  <2> SUFFICES ASSUME NEW i \in Known(s), v.node[i].status = "resume",
                      NEW c \in Children(v, i)
               PROVE  Answered(v, c)
    OBVIOUS
  <2>1. i # j /\ s.node[i].status = "resume"
    BY <1>5, <1>6
  <2>2. c \in Ids /\ c \in Known(v) /\ v.node[c].status # "gone" /\ v.node[c].parent = i
    BY <1>4, NodesOf DEF Children, Parent, Kept, InPlace
  <2>3. c \in Known(s) /\ s.node[c].parent = i
    BY <1>4, <2>2 DEF InPlace
  <2>4. s.node[c].status # "gone"
    BY <1>5, <2>2
  <2>5. c \in Children(s, i)
    BY <1>1, <2>2, <2>3, <2>4, NodesOf DEF Children, Parent
  <2>6. Answered(s, c)
    BY <2>1, <2>5 DEF Fine, Grown
  <2>7. c # j
    BY <1>2, <2>6 DEF Answered
  <2> QED
    BY <1>5, <2>2, <2>6, <2>7 DEF Answered, Ended
<1>9. \A p \in Places : s.turn[p] # Idle =>
        /\ p \in Direct /\ s.turn[p].own = "node" /\ s.turn[p].can =>
             v.node[s.turn[p].node].status \in {"running", "gone"}
        /\ s.turn[p].own = "user" /\ s.turn[p].node # 0 =>
             v.node[s.turn[p].node].status \in Over \union {"source", "gone"}
  <2> SUFFICES ASSUME NEW p \in Places, s.turn[p] # Idle
               PROVE  /\ p \in Direct /\ s.turn[p].own = "node" /\ s.turn[p].can =>
                           v.node[s.turn[p].node].status \in {"running", "gone"}
                      /\ s.turn[p].own = "user" /\ s.turn[p].node # 0 =>
                           v.node[s.turn[p].node].status \in Over \union {"source", "gone"}
    OBVIOUS
  <2> DEFINE i == s.turn[p].node
  <2>1. /\ s.turn[p].own = "node" => i \in Known(s)
        /\ p \in Direct /\ s.turn[p].own = "node" /\ s.turn[p].can =>
             s.node[i].status \in {"running", "gone"}
        /\ s.turn[p].own = "user" /\ i # 0 =>
             i \in Known(s) /\ s.node[i].status \in Over \union {"source", "gone"}
    BY DEF Fine, Taken
  <2>2. i # j
    BY DEF Left
  <2>3. i \in Known(s) => v.node[i] = s.node[i]
    BY <1>5, <1>6, <2>2
  <2> QED
    BY <2>1, <2>3
<1>10. \A i \in Ids \ J : v.node[i].status = "running" =>
                            i \notin K /\ s.node[i].status = "running"
  BY <1>5
<1>11. Fine(v, J)
  BY <1>4, <1>7, <1>8, <1>9, <1>10, FineInPlace
<1> QED
  BY <1>5, <1>11 DEF v, nodes, OnlyAt

(* The end of a turn. *)
LEMMA AfterFine ==
  ASSUME NEW J, Fine(Now, J), NEW p \in Places, turn[p] # Idle, NEW ok \in BOOLEAN
  PROVE  Fine(After(p, ok), J) /\ Lawful(After(p, ok))
<1> DEFINE t == turn[p]
           j == t.node
           K == IF t.own = "node" THEN J \union {j} ELSE J
           s == [Now EXCEPT !.turn[p] = Idle]
           v == After(p, ok)
           failed == CancelledTrees(s, {j}, "failed")
           done == IF t.own = "node" /\ ~t.asked THEN "completed" ELSE "waiting"
           put == Put(s, {j}, done)
<1>1. Fine(s, K) /\ s.node = node /\ s.turn = [turn EXCEPT ![p] = Idle]
  BY TurnFreed
<1>2. Now \in State /\ Now.node = node /\ Now.turn = turn
  BY DEF Fine, Now
<1>3. /\ t \in Turn
      /\ t.own = "node" => j \in Known(Now) /\ node[j].at = p
      /\ t.own = "user" /\ j # 0 => j \in Known(Now) /\ node[j].at = p
  BY <1>2, TurnNode
<1> DEFINE busy == \/ t.own = "user" /\ j # 0 /\ node[j].status = "source"
                   \/ t.own = "node" /\ j # 0 /\ node[j].status = "running"
<1>4. v = IF ~busy THEN s ELSE IF ok THEN put ELSE failed
  <2>1. v = Settled(s, t, ok)
    BY DEF After
  <2>2. t.own = "node" => j # 0
    BY <1>3 DEF Known, Ids
  <2>3. t.own \in {"user", "node"}
    BY <1>3 DEF Turn
  <2> HIDE DEF s, failed, put, t, v
  <2>4. CASE ~busy
    BY <1>1, <2>1, <2>2, <2>4 DEF Settled
  <2>5. CASE t.own = "user" /\ j # 0 /\ node[j].status = "source"
    <3>1. v = IF ok THEN Put(s, {j}, "waiting") ELSE failed
      BY <1>1, <2>1, <2>5 DEF Settled, failed
    <3>2. put = Put(s, {j}, "waiting")
      BY <2>5 DEF put
    <3> QED
      BY <2>5, <3>1, <3>2
  <2>6. CASE t.own = "node" /\ j # 0 /\ node[j].status = "running"
    <3>1. v = IF ~ok THEN failed ELSE Put(s, {j}, IF t.asked THEN "waiting" ELSE "completed")
      BY <1>1, <2>1, <2>6 DEF Settled, failed
    <3>2. put = Put(s, {j}, IF t.asked THEN "waiting" ELSE "completed")
      BY <2>6 DEF put
    <3> QED
      BY <2>6, <3>1, <3>2
  <2> QED
    BY <2>4, <2>5, <2>6
<1> HIDE DEF s, v, failed, put, t, j
<1>5. s \in State
  BY <1>1 DEF Fine
<1>6. CASE ~busy
  <2>1. Fine(s, J)
    <3>1. Worked(s, J)
      <4> SUFFICES ASSUME NEW i \in Ids \ J, s.node[i].status = "running"
                   PROVE  s.turn[s.node[i].at].own = "node" /\ s.turn[s.node[i].at].node = i
        BY DEF Worked
      <4>1. i \notin K
        <5>1. t.own = "node" => j # 0
          BY <1>3 DEF Known, Ids
        <5> QED
          BY <1>1, <1>6, <5>1
      <4> HIDE DEF K
      <4> QED
        BY <1>1, <4>1 DEF Fine, Worked
    <3> HIDE DEF K
    <3> QED
      BY <1>1, <3>1 DEF Fine
  <2>2. Lawful(s)
    BY <1>1, QuietLawful
  <2> QED
    BY <1>4, <1>6, <2>1, <2>2 DEF v
<1>7. CASE busy
  <2>1. j \in Ids /\ j \in Known(Now) /\ node[j].at = p /\ node[j].status \in {"source", "running"}
    BY <1>3, <1>7 DEF Known
  <2>2. Left(s, j)
    <3> SUFFICES ASSUME NEW q \in Places, s.turn[q] # Idle, s.turn[q].node = j
                 PROVE  FALSE
      BY DEF Left
    <3>1. q # p /\ s.turn[q] = turn[q]
      BY <1>1, <1>2 DEF State
    <3>2. /\ turn[q] \in Turn
          /\ turn[q].own = "node" => node[j].at = q
          /\ turn[q].own = "user" /\ j # 0 => node[j].at = q
      BY <1>2, <3>1, TurnNode
    <3> QED
      BY <2>1, <3>1, <3>2 DEF Turn, Ids
  <2>3. K \subseteq J \union {j}
    OBVIOUS
  <2> HIDE DEF K
  <2>4. CASE ok
    <3>1. done \in {"waiting", "completed"}
      OBVIOUS
    <3> HIDE DEF done
    <3>2. Fine(put, J) /\ put.node[j].status = done /\ OnlyAt(s, put, j)
      <4>1. Fine(s, K) /\ j \in Ids /\ s.node[j].status \in {"source", "running"}
        BY <1>1, <2>1
      <4> USE DEF put
      <4> QED
        BY <2>2, <2>3, <3>1, <4>1, SettledPut
    <3>3. \A i \in Ids : Ended(Now, i) => put.node[i].status = "gone" \/ put.node[i] = node[i]
      <4>1. ~Ended(Now, j)
        BY <1>2, <2>1 DEF Ended, Over
      <4> QED
        BY <1>1, <3>2, <4>1 DEF OnlyAt
    <3>4. \A i \in Ids : put.node[i].status \in {"resume", "running"} =>
                           put.node[i].status = node[i].status
      BY <1>1, <3>1, <3>2 DEF OnlyAt
    <3>5. Lawful(put)
      BY <3>3, <3>4, QuietLawful
    <3> QED
      BY <1>4, <1>7, <2>4, <3>2, <3>5 DEF v
  <2>5. CASE ~ok
    <3>1. /\ Ending(s, failed)
          /\ \A i \in {j} : i \in Active(s) => failed.node[i].status \in Over
      <4>1. "failed" \in Over
        BY DEF Over
      <4> USE DEF failed
      <4> QED
        BY <1>1, <4>1, CancelledTreesEnding
    <3>2. Fine(failed, K)
      BY <1>1, <3>1, FineEnding
    <3>3. j \in Active(s)
      BY <1>1, <1>5, <2>1, NodesOf DEF Unfinished
    <3>4. failed.node[j].status # "running"
      BY <3>1, <3>3 DEF Over
    <3>5. Worked(failed, J)
      <4> SUFFICES ASSUME NEW i \in Ids \ J, failed.node[i].status = "running"
                   PROVE  failed.turn[failed.node[i].at].own = "node" /\ failed.turn[failed.node[i].at].node = i
        BY DEF Worked
      <4>1. i \notin K
        BY <2>3, <3>4
      <4> QED
        BY <3>2, <4>1 DEF Fine, Worked
    <3>6. Fine(failed, J)
      BY <3>2, <3>5 DEF Fine
    <3>7. \A i \in Ids :
            /\ i \notin Active(s) => failed.node[i] = s.node[i]
            /\ failed.node[i].status = s.node[i].status \/ failed.node[i].status \in Over
      BY <1>5, <3>1, EndingNode
    <3>8. \A i \in Ids : Ended(Now, i) => failed.node[i].status = "gone" \/ failed.node[i] = node[i]
      BY <1>1, <1>2, <3>7 DEF Active, Ended
    <3>9. \A i \in Ids : failed.node[i].status \in {"resume", "running"} =>
                           failed.node[i].status = node[i].status
      BY <1>1, <3>7 DEF Over
    <3>10. Lawful(failed)
      BY <3>8, <3>9, QuietLawful
    <3> QED
      BY <1>4, <1>7, <2>5, <3>6, <3>10 DEF v
  <2> QED
    BY <2>4, <2>5
<1> QED
  BY <1>6, <1>7

(* No node changes. *)
LEMMA SameLawful ==
  ASSUME NEW J, Fine(Now, J), NEW v, v.node = node
  PROVE  Lawful(v)
<1>1. \A i \in Ids : v.node[i] = node[i]
  OBVIOUS
<1> QED
  BY <1>1, QuietLawful

(* A step whose result is fine and lawful. *)
LEMMA FineStep ==
  ASSUME NEW v, Fine(v, jammed), Lawful(v), Becomes(v), UNCHANGED jammed
  PROVE  IInv' /\ Lawful(Now')
<1>1. v \in State
  BY DEF Fine
<1>2. Now' = v
  BY <1>1, BecomesNow
<1> QED
  BY <1>2 DEF IInv

(* The end of a turn. *)
LEMMA TurnEndsStep ==
  ASSUME IInv, NEW p \in Places, NEW ok \in BOOLEAN, TurnEnds(p, ok)
  PROVE  IInv' /\ Lawful(Now')
<1> DEFINE v == After(p, ok)
<1>1. Fine(v, jammed) /\ Lawful(v)
  BY AfterFine DEF IInv, TurnEnds
<1>2. Becomes(v) /\ UNCHANGED jammed
  BY DEF TurnEnds
<1> HIDE DEF v
<1> QED
  BY <1>1, <1>2, FineStep

(* The end of a turn's set-up. *)
LEMMA SetupEndsStep ==
  ASSUME IInv, NEW p \in Places, SetupEnds(p)
  PROVE  IInv' /\ Lawful(Now')
<1> DEFINE live == [Now EXCEPT !.turn[p].step = "live"]
           over == After(p, FALSE)
<1>1. turn[p] # Idle /\ Fine(Now, jammed)
  BY DEF IInv, SetupEnds
<1>2. Fine(over, jammed) /\ Lawful(over)
  BY <1>1, AfterFine
<1>3. Fine(live, jammed) /\ live.node = node
  BY <1>1, TurnGoesOn
<1>4. Becomes(over) \/ Becomes(live)
  BY DEF SetupEnds
<1>5. UNCHANGED jammed
  BY DEF SetupEnds
<1> HIDE DEF live, over
<1>6. Lawful(live)
  BY <1>1, <1>3, SameLawful
<1> QED
  BY <1>2, <1>3, <1>4, <1>5, <1>6, FineStep

(* A turn hangs. *)
LEMMA HangsStep ==
  ASSUME IInv, NEW p \in Places, Hangs(p)
  PROVE  IInv' /\ Lawful(Now')
<1> DEFINE v == [Now EXCEPT !.turn[p].step = "hung"]
<1>1. turn[p] # Idle /\ Fine(Now, jammed)
  BY DEF IInv, Hangs
<1>2. Fine(v, jammed) /\ v.node = node /\ v.turn = [turn EXCEPT ![p].step = "hung"]
  BY <1>1, TurnGoesOn
<1> HIDE DEF v
<1>3. Becomes(v) /\ UNCHANGED jammed
  BY <1>2 DEF Hangs, Becomes
<1>4. Lawful(v)
  BY <1>1, <1>2, SameLawful
<1> QED
  BY <1>2, <1>3, <1>4, FineStep

(* A user speaks. *)
LEMMA UserTurnStep ==
  ASSUME IInv, NEW p \in Places, NEW b \in Bots, UserTurn(p, b)
  PROVE  IInv' /\ Lawful(Now')
<1> DEFINE u == [own |-> "user", bot |-> b, node |-> 0, can |-> TRUE, asked |-> FALSE,
                 step |-> IF p = Room THEN "setup" ELSE "live"]
           s == Now
           v == [s EXCEPT !.turn[p] = u]
<1>1. Fine(s, jammed) /\ s.turn = turn /\ s.node = node /\ turn[p] = Idle
  BY DEF IInv, UserTurn, Now
<1>2. p \in Direct => b = p[1]
  BY HandoffsAssumption DEF UserTurn
<1>3. u \in Turn /\ u.own = "user" /\ u.bot = b /\ u.node = 0
  <2>1. MaxNodes \in Nat
    BY HandoffsAssumption
  <2> QED
    BY <2>1 DEF Turn
<1>4. turn' = [turn EXCEPT ![p] = u] /\ UNCHANGED <<node, jammed>>
  BY DEF UserTurn
<1> HIDE DEF u, s
<1>5. \A i \in Ids \ jammed : s.node[i].status = "running" =>
        i \notin jammed /\ (s.node[i].at = p => u.own = "node" /\ u.node = i)
  BY <1>1 DEF Fine, Worked, Idle
<1>6. Fine(v, jammed) /\ v.node = s.node /\ v.turn = [s.turn EXCEPT ![p] = u]
  BY <1>1, <1>2, <1>3, <1>5, TurnFine
<1> HIDE DEF v
<1>7. Becomes(v) /\ Lawful(v)
  <2>1. Becomes(v)
    BY <1>1, <1>4, <1>6 DEF Becomes
  <2>2. Lawful(v)
    BY <1>1, <1>6, SameLawful DEF s
  <2> QED
    BY <2>1, <2>2
<1> QED
  BY <1>4, <1>6, <1>7, FineStep

(* Neither node nor turn changes. *)
LEMMA SameStep ==
  ASSUME IInv, UNCHANGED <<node, turn, jammed>>
  PROVE  IInv' /\ Lawful(Now')
<1>1. Now' = Now /\ jammed' = jammed
  BY DEF Now
<1>2. Lawful(Now)
  BY SameLawful DEF IInv, Now
<1> QED
  BY <1>1, <1>2 DEF IInv

(* A restart: all that was active has failed, and no turn is left. *)
LEMMA RestartStep ==
  ASSUME IInv, Restart
  PROVE  IInv' /\ Lawful(Now')
<1> DEFINE s == Now
           nodes == Active(s)
           ts == [p \in Places |-> Idle]
           w == Put(s, nodes, "failed")
           v == [w EXCEPT !.turn = ts]
<1>1. Fine(s, jammed) /\ s \in State /\ s.node = node
  BY DEF IInv, Fine, Now
<1>2. Becomes(v) /\ UNCHANGED jammed
  BY DEF Restart
<1> HIDE DEF s
<1>3. nodes \intersect Ids \subseteq Known(s) /\ "failed" \in Over \union Unfinished \union {"gone"}
      /\ \A i \in Ids : i \in nodes <=> s.node[i].status \in Unfinished
  BY <1>1, NodesOf DEF Over
<1> HIDE DEF nodes
<1>4. /\ InPlace(s, w) /\ w.turn = s.turn
      /\ \A i \in Ids :
           /\ i \in nodes => w.node[i].status = "failed"
           /\ i \notin nodes => w.node[i] = s.node[i]
           /\ w.node[i].status \in {s.node[i].status, "failed"}
           /\ i \in Known(s) => w.node[i].reported = s.node[i].reported
  BY <1>1, <1>3, PutInPlace
<1>5. ts \in [Places -> Turn \union {Idle}] /\ \A p \in Places : ts[p] = Idle
  OBVIOUS
<1> HIDE DEF w, ts
<1>6. w \in State
  BY <1>4 DEF InPlace
<1>7. v \in State /\ v.node = w.node /\ v.turn = ts
  BY <1>5, <1>6 DEF State
<1> HIDE DEF v
<1>8. \A i \in Ids : /\ i \in Known(v) <=> i \in Known(s)
                     /\ v.node[i].status \notin Unfinished
  BY <1>3, <1>4, <1>7 DEF InPlace, Known, Unfinished
<1>9. Known(v) = Known(s) /\ \A i \in Known(s) : i \in Ids
  BY <1>8 DEF Known
<1>10. Grown(v)
  <2> SUFFICES ASSUME NEW i \in Known(s)
               PROVE  /\ v.node[i].parent < i /\ v.node[i].root \in Known(s)
                      /\ v.node[i].at \in Direct => v.node[i].bot = v.node[i].at[1]
                      /\ v.node[i].parent # 0 /\ v.node[i].reported =>
                           v.node[i].status \in Over \union {"gone"}
                      /\ v.node[i].status # "resume"
    BY <1>9 DEF Grown
  <2>1. /\ v.node[i].parent = s.node[i].parent /\ v.node[i].root = s.node[i].root
        /\ v.node[i].at = s.node[i].at /\ v.node[i].bot = s.node[i].bot
    BY <1>4, <1>7, <1>9 DEF InPlace
  <2>2. /\ s.node[i].parent < i /\ s.node[i].root \in Known(s)
        /\ s.node[i].at \in Direct => s.node[i].bot = s.node[i].at[1]
    BY <1>1 DEF Fine, Grown
  <2>3. v.node[i].status \in Over \union {"gone"}
    <3>1. v.node[i] \in Node
      BY <1>7, <1>9, NodesOf
    <3> QED
      BY <1>8, <1>9, <3>1 DEF Node, Unfinished
  <2>4. v.node[i].status # "resume"
    BY <2>3 DEF Over
  <2>5. v.node[i].at \in Direct => v.node[i].bot = v.node[i].at[1]
    BY <2>1, <2>2
  <2>6. v.node[i].parent < i /\ v.node[i].root \in Known(s)
    BY <2>1, <2>2
  <2> QED
    BY <2>3, <2>4, <2>5, <2>6
<1>11. Taken(v)
  BY <1>5, <1>7 DEF Taken
<1>12. Worked(v, jammed)
  BY <1>8 DEF Worked, Unfinished
<1>13. Numbered(v)
  BY <1>1, <1>9 DEF Fine, Numbered
<1>14. Fine(v, jammed)
  BY <1>7, <1>10, <1>11, <1>12, <1>13 DEF Fine
<1>15. Lawful(v)
  <2>1. \A i \in Ids : Ended(Now, i) => v.node[i].status = "gone" \/ v.node[i] = node[i]
    BY <1>1, <1>3, <1>4, <1>7 DEF Ended, Over, Unfinished, Now
  <2>2. \A i \in Ids : v.node[i].status \in {"resume", "running"} => v.node[i].status = node[i].status
    BY <1>8 DEF Unfinished
  <2> QED
    BY <1>1, <2>1, <2>2, QuietLawful DEF s
<1> QED
  BY <1>2, <1>14, <1>15, FineStep

(* Nodes are evicted. *)
LEMMA GoneFine ==
  ASSUME NEW s, NEW J, Fine(s, J), NEW nodes, nodes \subseteq Kept(s)
  PROVE  LET v == Put(s, nodes, "gone") IN
         /\ Fine(v, J) /\ v.turn = s.turn /\ Known(v) = Known(s)
         /\ \A i \in Ids : v.node[i].status = "gone" \/ v.node[i] = s.node[i]
<1> DEFINE v == Put(s, nodes, "gone")
<1>1. s \in State
  BY DEF Fine
<1>2. nodes \intersect Ids \subseteq Known(s) /\ "gone" \in Over \union Unfinished \union {"gone"}
  BY <1>1, NodesOf DEF Kept
<1>3. /\ InPlace(s, v) /\ v.turn = s.turn
      /\ \A i \in Ids :
           /\ i \in nodes => v.node[i].status = "gone"
           /\ i \notin nodes => v.node[i] = s.node[i]
           /\ v.node[i].status \in {s.node[i].status, "gone"}
           /\ i \in Known(s) => v.node[i].reported = s.node[i].reported
  BY <1>1, <1>2, PutInPlace
<1> HIDE DEF v
<1>4. \A i \in Ids : v.node[i].status = "gone" \/ v.node[i] = s.node[i]
  BY <1>3
<1>5. Known(v) = Known(s) /\ \A i \in Known(s) : i \in Ids
  BY <1>3 DEF Known, InPlace
<1>6. \A i \in Known(s) : v.node[i].parent # 0 /\ v.node[i].reported =>
                            v.node[i].status \in Over \union {"gone"}
  <2> SUFFICES ASSUME NEW i \in Known(s), v.node[i].status # "gone",
                      v.node[i].parent # 0, v.node[i].reported
               PROVE  v.node[i].status \in Over
    OBVIOUS
  <2>1. v.node[i] = s.node[i]
    BY <1>4, <1>5
  <2> QED
    BY <2>1 DEF Fine, Grown
<1>7. \A i \in Known(s) : v.node[i].status = "resume" =>
                            \A c \in Children(v, i) : Answered(v, c)
  <2> SUFFICES ASSUME NEW i \in Known(s), v.node[i].status = "resume",
                      NEW c \in Children(v, i)
               PROVE  Answered(v, c)
    OBVIOUS
  <2>1. s.node[i].status = "resume"
    BY <1>4, <1>5
  <2>2. c \in Ids /\ v.node[c].status \notin {"none", "gone"} /\ v.node[c].parent = i
    BY DEF Children, Parent, Kept
  <2>3. v.node[c] = s.node[c]
    BY <1>4, <2>2
  <2>4. c \in Children(s, i)
    BY <2>2, <2>3 DEF Children, Parent, Kept
  <2>5. Answered(s, c)
    BY <2>1, <2>4 DEF Fine, Grown
  <2> QED
    BY <2>3, <2>5 DEF Answered, Ended
<1>8. \A p \in Places : s.turn[p] # Idle =>
        /\ p \in Direct /\ s.turn[p].own = "node" /\ s.turn[p].can =>
             v.node[s.turn[p].node].status \in {"running", "gone"}
        /\ s.turn[p].own = "user" /\ s.turn[p].node # 0 =>
             v.node[s.turn[p].node].status \in Over \union {"source", "gone"}
  <2> SUFFICES ASSUME NEW p \in Places, s.turn[p] # Idle
               PROVE  /\ p \in Direct /\ s.turn[p].own = "node" /\ s.turn[p].can =>
                           v.node[s.turn[p].node].status \in {"running", "gone"}
                      /\ s.turn[p].own = "user" /\ s.turn[p].node # 0 =>
                           v.node[s.turn[p].node].status \in Over \union {"source", "gone"}
    OBVIOUS
  <2> DEFINE i == s.turn[p].node
  <2>1. /\ s.turn[p].own = "node" => i \in Known(s)
        /\ p \in Direct /\ s.turn[p].own = "node" /\ s.turn[p].can =>
             s.node[i].status \in {"running", "gone"}
        /\ s.turn[p].own = "user" /\ i # 0 =>
             i \in Known(s) /\ s.node[i].status \in Over \union {"source", "gone"}
    BY DEF Fine, Taken
  <2>2. i \in Known(s) => v.node[i].status \in {s.node[i].status, "gone"}
    BY <1>3, <1>5
  <2> QED
    BY <2>1, <2>2
<1>9. \A i \in Ids \ J : v.node[i].status = "running" =>
                           i \notin J /\ s.node[i].status = "running"
  BY <1>3
<1>10. Fine(v, J)
  BY <1>3, <1>6, <1>7, <1>8, <1>9, FineInPlace
<1> QED
  BY <1>3, <1>4, <1>5, <1>10 DEF v

(* The history is pruned. *)
LEMMA PrunedFine ==
  ASSUME NEW s, NEW J, Fine(s, J)
  PROVE  LET v == Pruned(s) IN
         /\ Fine(v, J) /\ v.turn = s.turn /\ Known(v) = Known(s)
         /\ \A i \in Ids : v.node[i].status = "gone" \/ v.node[i] = s.node[i]
<1> DEFINE roots == {i \in Kept(s) : Parent(s, i) = 0 /\ Ended(s, i)}
           kept[i \in 0 .. MaxNodes] ==
             IF i = 0 THEN Kept(s)
             ELSE IF i \in roots /\ Cardinality(kept[i - 1]) >= Keep
             THEN {j \in kept[i - 1] : s.node[j].root # i}
             ELSE kept[i - 1]
           nodes == Kept(s) \ kept[MaxNodes]
           v == Put(s, nodes, "gone")
<1>1. Pruned(s) \in {s, v}
  BY DEF Pruned
<1>2. nodes \subseteq Kept(s)
  OBVIOUS
<1> HIDE DEF nodes
<1>3. /\ Fine(v, J) /\ v.turn = s.turn /\ Known(v) = Known(s)
      /\ \A i \in Ids : v.node[i].status = "gone" \/ v.node[i] = s.node[i]
  BY <1>2, GoneFine
<1> HIDE DEF v
<1> QED
  BY <1>1, <1>3

(* Nodes are added behind those that are known: a root that is the turn of *)
(* a user, and a request; the turn is now that of the one who asks.        *)
Adds(s, v, p, me, child) ==
  LET t == s.turn[p]
      u == v.turn[p]
  IN /\ v \in State
     /\ \A i \in Known(s) : v.node[i] = s.node[i] /\ i < child
     /\ Known(v) = 1 .. child
     /\ me \in Known(v) /\ me < child
     /\ v.node[child].status = "queued" /\ v.node[child].parent = me
     /\ v.node[child].root \in Known(v) /\ ~v.node[child].reported
     /\ v.node[child].at \in Direct => v.node[child].bot = v.node[child].at[1]
     /\ me \notin Known(s) =>
          /\ t.own = "user"
          /\ v.node[me].status = "source" /\ v.node[me].parent = 0 /\ v.node[me].root = me
          /\ v.node[me].at = p /\ v.node[me].bot = t.bot
          /\ \A i \in Known(s) : i < me
          /\ Known(s) \union {me, child} = Known(v)
     /\ me \in Known(s) =>
          /\ me = t.node /\ Known(s) \union {child} = Known(v)
          /\ s.node[me].status \in Over \union {"source", "running", "gone"}
     /\ t # Idle /\ u # Idle
     /\ u.own = t.own /\ u.bot = t.bot /\ u.node = me /\ u.can = t.can
     /\ \A q \in Places : q # p => v.turn[q] = s.turn[q]

(* They keep what is proved of a state. *)
LEMMA AddsFine ==
  ASSUME NEW s, NEW J, Fine(s, J), NEW v, NEW p \in Places, NEW me, NEW child \in Ids,
         Adds(s, v, p, me, child)
  PROVE  Fine(v, J)
<1>1. s \in State /\ v \in State
  BY DEF Fine, Adds
<1>2. /\ \A i \in Known(s) : v.node[i] = s.node[i] /\ i < child
      /\ me \in Known(v) /\ me < child
      /\ child \in Known(v)
      /\ Known(v) \subseteq Ids /\ Known(s) \subseteq Ids /\ Known(s) \subseteq Known(v)
      /\ \A i \in Known(v) : i \in Known(s) \/ i = me \/ i = child
  BY DEF Adds, Known
<1>3. child \notin Known(s) /\ child \in Nat
  BY HandoffsAssumption, <1>2 DEF Ids
<1>4. Numbered(v)
  BY HandoffsAssumption DEF Numbered, Adds, Ids
<1>5. \A c \in Ids, i \in Ids : c \in Children(v, i) =>
        c \in Children(s, i) \/ (c = me /\ me \notin Known(s)) \/ (c = child /\ i = me)
  <2> SUFFICES ASSUME NEW c \in Ids, NEW i \in Ids, c \in Children(v, i),
                      ~(c = me /\ me \notin Known(s)), ~(c = child /\ i = me)
               PROVE  c \in Children(s, i)
    OBVIOUS
  <2>1. c \in Kept(v) /\ v.node[c].parent = i
    BY DEF Children, Parent
  <2>2. c \in Known(v) /\ v.node[c].status \notin {"none", "gone"}
    BY <1>1, <2>1, NodesOf
  <2>3. c # child
    BY <2>1 DEF Adds
  <2>4. v.node[c] = s.node[c]
    BY <1>2, <2>2, <2>3
  <2> QED
    BY <2>1, <2>2, <2>4 DEF Children, Parent, Kept
<1>6. Grown(v)
  <2> SUFFICES ASSUME NEW i \in Known(v)
               PROVE  /\ v.node[i].parent < i /\ v.node[i].root \in Known(v)
                      /\ v.node[i].at \in Direct => v.node[i].bot = v.node[i].at[1]
                      /\ v.node[i].parent # 0 /\ v.node[i].reported =>
                           v.node[i].status \in Over \union {"gone"}
                      /\ v.node[i].status = "resume" => \A c \in Children(v, i) : Answered(v, c)
    BY DEF Grown
  <2>1. CASE i \in Known(s)
    <3>1. v.node[i] = s.node[i] /\ i \in Ids
      BY <1>2, <2>1
    <3>2. /\ s.node[i].parent < i /\ s.node[i].root \in Known(s)
          /\ s.node[i].at \in Direct => s.node[i].bot = s.node[i].at[1]
          /\ s.node[i].parent # 0 /\ s.node[i].reported =>
               s.node[i].status \in Over \union {"gone"}
          /\ s.node[i].status = "resume" => \A c \in Children(s, i) : Answered(s, c)
      BY <2>1 DEF Fine, Grown
    <3>3. ASSUME s.node[i].status = "resume", NEW c \in Children(v, i)
          PROVE  Answered(v, c)
      <4>1. c \in Ids /\ v.node[c].parent = i
        BY DEF Children, Parent, Kept
      <4>2. i # me
        BY <2>1, <3>3 DEF Adds, Over
      <4>3. ~(c = me /\ me \notin Known(s))
        <5> SUFFICES ASSUME c = me, me \notin Known(s) PROVE FALSE
          OBVIOUS
        <5>1. v.node[c].parent = 0
          BY DEF Adds
        <5> QED
          BY <3>1, <4>1, <5>1, HandoffsAssumption DEF Ids
      <4>4. c \in Children(s, i)
        BY <1>5, <3>1, <4>1, <4>2, <4>3
      <4>5. Answered(s, c)
        BY <3>2, <3>3, <4>4
      <4>6. c \in Known(s)
        BY <1>1, <4>1, <4>5, NodesOf DEF Answered
      <4> QED
        BY <1>2, <4>5, <4>6 DEF Answered, Ended
    <3>4. v.node[i].parent < i /\ v.node[i].root \in Known(v)
      BY <1>2, <3>1, <3>2
    <3>5. /\ v.node[i].at \in Direct => v.node[i].bot = v.node[i].at[1]
          /\ v.node[i].parent # 0 /\ v.node[i].reported =>
               v.node[i].status \in Over \union {"gone"}
      BY <3>1, <3>2
    <3> QED
      BY <3>1, <3>3, <3>4, <3>5
  <2>2. CASE i = child
    <3>1. /\ v.node[i].status = "queued" /\ v.node[i].parent = me
          /\ v.node[i].root \in Known(v) /\ ~v.node[i].reported
      BY <2>2 DEF Adds
    <3>2. v.node[i].at \in Direct => v.node[i].bot = v.node[i].at[1]
      BY <2>2 DEF Adds
    <3> QED
      BY <1>2, <2>2, <3>1, <3>2
  <2>3. CASE i = me /\ me \notin Known(s)
    <3>1. /\ v.node[me].status = "source" /\ v.node[me].parent = 0 /\ v.node[me].root = me
          /\ v.node[me].at = p /\ v.node[me].bot = s.turn[p].bot
          /\ s.turn[p] # Idle
      BY <2>3 DEF Adds
    <3>2. p \in Direct => s.turn[p].bot = p[1]
      BY <3>1 DEF Fine, Taken
    <3>3. 0 < me
      BY <1>2, HandoffsAssumption DEF Ids
    <3>4. v.node[i].at \in Direct => v.node[i].bot = v.node[i].at[1]
      BY <2>3, <3>1, <3>2
    <3> QED
      BY <1>2, <2>3, <3>1, <3>3, <3>4
  <2> QED
    BY <1>2, <2>1, <2>2, <2>3
<1>7. Taken(v)
  <2> SUFFICES ASSUME NEW q \in Places, v.turn[q] # Idle
               PROVE  /\ q \in Direct => v.turn[q].bot = q[1]
                      /\ v.turn[q].own = "node" =>
                           /\ v.turn[q].node \in Known(v) /\ v.node[v.turn[q].node].at = q
                           /\ v.node[v.turn[q].node].bot = v.turn[q].bot
                           /\ q \in Direct /\ v.turn[q].can =>
                                v.node[v.turn[q].node].status \in {"running", "gone"}
                      /\ v.turn[q].own = "user" /\ v.turn[q].node # 0 =>
                           /\ v.turn[q].node \in Known(v) /\ v.node[v.turn[q].node].at = q
                           /\ v.node[v.turn[q].node].status \in Over \union {"source", "gone"}
    BY DEF Taken
  <2> DEFINE t == s.turn[q]
             u == v.turn[q]
  <2>1. t # Idle /\ u.own = t.own /\ u.bot = t.bot /\ (u.can => t.can)
    BY DEF Adds
  <2>2. /\ q \in Direct => t.bot = q[1]
        /\ t.own = "node" =>
             /\ t.node \in Known(s) /\ s.node[t.node].at = q /\ s.node[t.node].bot = t.bot
             /\ q \in Direct /\ t.can => s.node[t.node].status \in {"running", "gone"}
        /\ t.own = "user" /\ t.node # 0 =>
             /\ t.node \in Known(s) /\ s.node[t.node].at = q
             /\ s.node[t.node].status \in Over \union {"source", "gone"}
    BY <2>1, TurnNode
  <2>3. CASE u.node = t.node
    <3> DEFINE j == t.node
    <3> HIDE DEF t
    <3>1. j \in Known(s) => v.node[j] = s.node[j] /\ j \in Known(v)
      BY <1>2
    <3>2. /\ u.own = "node" => /\ j \in Known(v) /\ v.node[j].at = q /\ v.node[j].bot = u.bot
                               /\ q \in Direct /\ u.can =>
                                    v.node[j].status \in {"running", "gone"}
          /\ u.own = "user" /\ j # 0 =>
               /\ j \in Known(v) /\ v.node[j].at = q
               /\ v.node[j].status \in Over \union {"source", "gone"}
      BY <2>1, <2>2, <3>1
    <3> QED
      BY <2>1, <2>2, <2>3, <3>2
  <2>4. CASE u.node # t.node
    <3>1. q = p /\ u.node = me /\ me \notin Known(s)
      BY <2>4 DEF Adds
    <3>2. /\ t.own = "user" /\ v.node[me].status = "source" /\ v.node[me].at = p
      BY <3>1 DEF Adds
    <3> QED
      BY <1>2, <2>1, <2>2, <3>1, <3>2
  <2> QED
    BY <2>3, <2>4
<1>8. Worked(v, J)
  <2> SUFFICES ASSUME NEW i \in Ids \ J, v.node[i].status = "running"
               PROVE  v.turn[v.node[i].at].own = "node" /\ v.turn[v.node[i].at].node = i
    BY DEF Worked
  <2>1. i \in Known(v) /\ v.node[i] \in Node
    BY <1>1, NodesOf
  <2>2. i \in Known(s)
    BY <1>2, <2>1 DEF Adds
  <2>3. v.node[i] = s.node[i]
    BY <1>2, <2>2
  <2> DEFINE a == s.node[i].at
  <2>4. s.turn[a].own = "node" /\ s.turn[a].node = i /\ a \in Places
    BY <2>1, <2>3 DEF Fine, Worked, Node
  <2> HIDE DEF a
  <2>5. CASE a = p
    <3>1. me \in Known(s)
      BY <2>4, <2>5 DEF Adds
    <3>2. v.turn[p].own = "node" /\ v.turn[p].node = i
      BY <2>4, <2>5, <3>1 DEF Adds
    <3> QED
      BY <2>3, <2>5, <3>2 DEF a
  <2>6. CASE a # p
    BY <2>3, <2>4, <2>6 DEF Adds, a
  <2> QED
    BY <2>5, <2>6
<1> QED
  BY <1>1, <1>4, <1>6, <1>7, <1>8 DEF Fine

(* A turn asks. *)
LEMMA AsksStep ==
  ASSUME IInv, NEW p \in Places, NEW q \in Places, NEW b \in Bots, Asks(p, q, b)
  PROVE  IInv' /\ Lawful(Now')
<1> DEFINE t     == turn[p]
           s     == Pruned(Now)
           used  == Cardinality({i \in Ids : node[i] # None})
           fresh == Asking(p) = 0
           me    == IF fresh THEN used + 1 ELSE Asking(p)
           root  == IF fresh THEN me ELSE s.node[me].root
           child == IF fresh THEN used + 2 ELSE used + 1
           base  == [status |-> "source", at |-> p, bot |-> t.bot, parent |-> 0, root |-> root,
                     reported |-> TRUE, spent |-> 0, kind |-> "work"]
           asked == [base EXCEPT !.status = "queued", !.at = q, !.bot = b, !.parent = me,
                                 !.reported = FALSE,
                                 !.kind = IF p = Room /\ q = Room THEN "assignment" ELSE "work"]
           ns    == [i \in Ids |-> CASE i = child -> asked
                                     [] i = me /\ fresh -> base
                                     [] OTHER -> s.node[i]]
           u     == [t EXCEPT !.node = me, !.asked = TRUE]
           ts    == [turn EXCEPT ![p] = u]
           v     == [node |-> ns, turn |-> ts]
<1>1. Fine(Now, jammed) /\ Now \in State /\ Now.node = node /\ Now.turn = turn
  BY DEF IInv, Fine, Now
<1>2. /\ Fine(s, jammed) /\ s.turn = turn /\ Known(s) = Known(Now)
      /\ \A i \in Ids : s.node[i].status = "gone" \/ s.node[i] = node[i]
  BY <1>1, PrunedFine
<1>3. /\ t # Idle
      /\ t.own = "node" => node[t.node].status = "running"
      /\ q = Room \/ q = <<b, t.bot>>
      /\ child <= MaxNodes
      /\ node' = ns /\ UNCHANGED jammed
      /\ turn' = [turn EXCEPT ![p].node = me, ![p].asked = TRUE]
  BY DEF Asks
<1> HIDE DEF s
<1>4. /\ t \in Turn
      /\ t.own = "node" => t.node \in Known(Now)
      /\ t.own = "user" /\ t.node # 0 =>
           /\ t.node \in Known(Now)
           /\ node[t.node].status \in Over \union {"source", "gone"}
  BY <1>1, <1>3, TurnNode
<1>5. PICK n \in 0 .. MaxNodes : Known(Now) = 1 .. n
  BY <1>1 DEF Fine, Numbered
<1>6. MaxNodes \in Nat /\ n \in Nat /\ used = n
  <2>1. MaxNodes \in Nat /\ n \in Nat
    BY HandoffsAssumption
  <2>2. {i \in Ids : node[i] # None} = 1 .. n
    BY <1>1, <1>5 DEF Known
  <2>3. Cardinality(1 .. n) = n
    BY <2>1, FS_Interval
  <2> QED
    BY <2>1, <2>2, <2>3
<1> HIDE DEF used, t
<1>7. Asking(p) # 0 =>
        /\ Asking(p) = t.node /\ t.node \in Known(Now)
        /\ node[t.node].status \in Over \union {"source", "running"}
  BY <1>4, <1>3 DEF Asking, Turn, t
<1>8. Asking(p) = 0 => t.own = "user"
  <2>1. t.own = "node" => t.node # 0 /\ node[t.node].status # "gone"
    BY <1>3, <1>4 DEF Known, Ids
  <2> QED
    BY <1>4, <2>1 DEF Asking, Turn, t
<1>9. /\ fresh => me = n + 1 /\ child = n + 2 /\ root = me
      /\ ~fresh => me \in 1 .. n /\ child = n + 1 /\ root = s.node[me].root
                   /\ me = t.node /\ node[me].status \in Over \union {"source", "running"}
  BY <1>5, <1>6, <1>7
<1> HIDE DEF me, child, root, fresh
<1>10. /\ child \in Ids /\ child \in Nat /\ me \in 1 .. child /\ me < child /\ n < child
       /\ n < me \/ ~fresh
  BY <1>3, <1>6, <1>9 DEF Ids
<1>11. root \in 1 .. child /\ root \in Ids
  <2>1. ~fresh => root \in 1 .. n
    BY <1>2, <1>5, <1>9 DEF Fine, Grown
  <2> QED
    BY <1>3, <1>6, <1>9, <1>10, <2>1 DEF Ids
<1>12. /\ base \in Node /\ base.status = "source" /\ base.at = p /\ base.bot = t.bot
       /\ base.parent = 0 /\ base.root = root
  BY <1>4, <1>6, <1>11 DEF Node, Turn
<1>13. /\ asked \in Node /\ asked.status = "queued" /\ asked.at = q /\ asked.bot = b
       /\ asked.parent = me /\ asked.root = root /\ ~asked.reported
  <2>1. me \in 0 .. MaxNodes
    BY <1>3, <1>6, <1>10
  <2> DEFINE kind == IF p = Room /\ q = Room THEN "assignment" ELSE "work"
             a1 == [base EXCEPT !.status = "queued", !.at = q, !.bot = b]
             a2 == [a1 EXCEPT !.parent = me, !.reported = FALSE]
             a3 == [a2 EXCEPT !.kind = kind]
  <2>2. kind \in {"assignment", "work"}
    OBVIOUS
  <2>3. asked = a3
    OBVIOUS
  <2> HIDE DEF kind, asked, base
  <2>4. /\ a1 \in Node /\ a1.status = "queued" /\ a1.at = q /\ a1.bot = b /\ a1.root = root
    BY <1>12 DEF Node
  <2> HIDE DEF a1
  <2>5. /\ a2 \in Node /\ a2.status = "queued" /\ a2.at = q /\ a2.bot = b /\ a2.root = root
        /\ a2.parent = me /\ ~a2.reported
    BY <2>1, <2>4 DEF Node
  <2> HIDE DEF a2
  <2>6. /\ a3 \in Node /\ a3.status = "queued" /\ a3.at = q /\ a3.bot = b /\ a3.root = root
        /\ a3.parent = me /\ ~a3.reported
    BY <2>2, <2>5 DEF Node
  <2> HIDE DEF a3
  <2> QED
    BY <2>3, <2>6
<1>14. s \in State /\ s.node \in [Ids -> Node \union {None}]
  BY <1>2 DEF Fine, State
<1> HIDE DEF base, asked
<1>15. /\ ns \in [Ids -> Node \union {None}]
       /\ ns[child] = asked /\ (fresh => ns[me] = base)
       /\ \A i \in Ids : i # child /\ ~(i = me /\ fresh) => ns[i] = s.node[i]
  <2>1. \A i \in Ids : ns[i] = IF i = child THEN asked ELSE IF i = me /\ fresh THEN base ELSE s.node[i]
    <3> SUFFICES ASSUME NEW i \in Ids
                 PROVE  ns[i] = IF i = child THEN asked ELSE IF i = me /\ fresh THEN base ELSE s.node[i]
      OBVIOUS
    <3>1. me # child
      BY <1>10
    <3>2. CASE i = child
      BY <3>1, <3>2
    <3>3. CASE i = me /\ fresh
      BY <3>1, <3>3
    <3>4. CASE i # child /\ ~(i = me /\ fresh)
      BY <3>4
    <3> QED
      BY <3>2, <3>3, <3>4
  <2>2. me \in Ids
    BY <1>3, <1>6, <1>10 DEF Ids
  <2>3. \A i \in Ids : ns[i] \in Node \union {None}
    BY <1>12, <1>13, <1>14, <2>1
  <2> QED
    BY <1>10, <2>1, <2>2, <2>3
<1>16. /\ u \in Turn /\ u # Idle /\ u.own = t.own /\ u.bot = t.bot /\ u.node = me /\ u.can = t.can
  <2>1. me \in 0 .. MaxNodes
    BY <1>3, <1>6, <1>10
  <2>2. u \in Turn /\ u.own = t.own /\ u.bot = t.bot /\ u.node = me /\ u.can = t.can
    BY <1>4, <2>1 DEF Turn
  <2>3. Idle.own = "none" /\ u.own # "none"
    BY <1>4, <2>2 DEF Idle, Turn
  <2> HIDE DEF u
  <2> QED
    BY <2>2, <2>3
<1>17. turn \in [Places -> Turn \union {Idle}]
  BY <1>1 DEF State
<1>18. turn' = ts
  <2>1. [turn EXCEPT ![p].node = me, ![p].asked = TRUE] = [turn EXCEPT ![p] = u]
    BY <1>17 DEF t
  <2> QED
    BY <1>3, <2>1
<1> HIDE DEF u
<1>19. ts \in [Places -> Turn \union {Idle}] /\ ts[p] = u /\ \A r \in Places : r # p => ts[r] = turn[r]
  BY <1>16, <1>17
<1>20. node' = ns
  BY <1>3
<1> HIDE DEF ns, ts
<1>21. v \in State /\ v.node = ns /\ v.turn = ts
  BY <1>15, <1>19 DEF State
<1>22. Becomes(v)
  BY <1>18, <1>20, <1>21 DEF Becomes
<1> HIDE DEF v
<1>23. \A i \in 1 .. n : i \in Ids /\ v.node[i] = s.node[i] /\ i < child /\ (fresh => i < me)
  BY <1>6, <1>9, <1>10, <1>15, <1>21 DEF Ids
<1>24. Known(s) = 1 .. n
  BY <1>2, <1>5
<1>25. Known(v) = 1 .. child
  <2>1. ASSUME NEW i \in Ids
        PROVE  i \in Known(v) <=> i \in 1 .. child
    <3>1. CASE i \in 1 .. n
      <4>1. i \in Known(s) /\ i \in 1 .. child
        BY <1>6, <1>10, <1>24, <3>1
      <4>2. s.node[i] # None
        BY <4>1 DEF Known
      <4> QED
        BY <1>23, <3>1, <4>1, <4>2 DEF Known
    <3>2. CASE i = child
      <4>1. v.node[i] \in Node
        BY <1>13, <1>15, <1>21, <3>2
      <4> QED
        BY <1>10, <1>21, <3>2, <4>1, NodesOf DEF Node, Over, Known, None
    <3>3. CASE i = me /\ fresh
      <4>1. v.node[i] \in Node
        BY <1>12, <1>15, <1>21, <3>3
      <4> QED
        BY <1>10, <1>21, <3>3, <4>1, NodesOf DEF Node, Over, Known, None
    <3>4. CASE i \notin 1 .. n /\ i # child /\ ~(i = me /\ fresh)
      <4>1. i \notin Known(s)
        BY <1>24, <3>4
      <4>2. v.node[i] = None
        BY <1>14, <1>15, <1>21, <3>4, <4>1 DEF Known
      <4>3. i \notin 1 .. child
        BY <1>6, <1>9, <3>4 DEF Ids
      <4> QED
        BY <4>2, <4>3 DEF Known
    <3> QED
      BY <3>1, <3>2, <3>3, <3>4
  <2>2. \A i \in 1 .. child : i \in Ids
    BY <1>3, <1>6, <1>10 DEF Ids
  <2> QED
    BY <2>1, <2>2 DEF Known
<1>26. Adds(s, v, p, me, child)
  <2>1. \A i \in Known(s) : v.node[i] = s.node[i] /\ i < child
    BY <1>23, <1>24
  <2>2. me \in Known(v)
    BY <1>10, <1>25
  <2>3. /\ v.node[child].status = "queued" /\ v.node[child].parent = me
        /\ v.node[child].root \in Known(v) /\ ~v.node[child].reported
        /\ v.node[child].at \in Direct => v.node[child].bot = v.node[child].at[1]
    <3>1. q \in Direct => b = q[1]
      BY <1>3, HandoffsAssumption
    <3> QED
      BY <1>11, <1>13, <1>15, <1>21, <1>25, <3>1
  <2>4. me \notin Known(s) =>
          /\ t.own = "user"
          /\ v.node[me].status = "source" /\ v.node[me].parent = 0 /\ v.node[me].root = me
          /\ v.node[me].at = p /\ v.node[me].bot = t.bot
          /\ \A i \in Known(s) : i < me
          /\ Known(s) \union {me, child} = Known(v)
    <3> SUFFICES ASSUME me \notin Known(s)
                 PROVE  /\ t.own = "user"
                        /\ v.node[me].status = "source" /\ v.node[me].parent = 0 /\ v.node[me].root = me
                        /\ v.node[me].at = p /\ v.node[me].bot = t.bot
                        /\ \A i \in Known(s) : i < me
                        /\ Known(s) \union {me, child} = Known(v)
      OBVIOUS
    <3>1. fresh
      BY <1>9, <1>24
    <3>2. t.own = "user"
      BY <1>8, <3>1 DEF fresh
    <3>3. v.node[me] = base
      BY <1>15, <1>21, <3>1
    <3>4. \A i \in Known(s) : i < me
      BY <1>23, <1>24, <3>1
    <3>5. Known(s) \union {me, child} = Known(v)
      BY <1>6, <1>9, <1>24, <1>25, <3>1
    <3> QED
      BY <1>9, <1>12, <3>1, <3>2, <3>3, <3>4, <3>5
  <2>5. me \in Known(s) =>
          /\ me = t.node /\ Known(s) \union {child} = Known(v)
          /\ s.node[me].status \in Over \union {"source", "running", "gone"}
    <3> SUFFICES ASSUME me \in Known(s)
                 PROVE  /\ me = t.node /\ Known(s) \union {child} = Known(v)
                        /\ s.node[me].status \in Over \union {"source", "running", "gone"}
      OBVIOUS
    <3>1. ~fresh /\ me \in Ids
      BY <1>6, <1>9, <1>24 DEF Known
    <3>2. Known(s) \union {child} = Known(v)
      BY <1>6, <1>9, <1>24, <1>25, <3>1
    <3> QED
      BY <1>2, <1>9, <3>1, <3>2
  <2>6. /\ s.turn[p] # Idle /\ v.turn[p] # Idle
        /\ v.turn[p].own = s.turn[p].own /\ v.turn[p].bot = s.turn[p].bot
        /\ v.turn[p].node = me /\ v.turn[p].can = s.turn[p].can
        /\ \A r \in Places : r # p => v.turn[r] = s.turn[r]
    BY <1>2, <1>3, <1>16, <1>19, <1>21 DEF t
  <2>7. s.turn[p] = t
    BY <1>2 DEF t
  <2> QED
    BY <1>10, <1>21, <1>25, <2>1, <2>2, <2>3, <2>4, <2>5, <2>6, <2>7 DEF Adds
<1>27. Fine(v, jammed)
  BY <1>2, <1>10, <1>26, AddsFine
<1>28. Lawful(v)
  <2>1. \A i \in Ids : Ended(Now, i) => v.node[i].status = "gone" \/ v.node[i] = node[i]
    <3> SUFFICES ASSUME NEW i \in Ids, Ended(Now, i)
                 PROVE  v.node[i].status = "gone" \/ v.node[i] = node[i]
      OBVIOUS
    <3>1. i \in 1 .. n
      BY <1>1, <1>5, NodesOf
    <3> QED
      BY <1>2, <1>23, <3>1
  <2>2. \A i \in Ids : v.node[i].status \in {"resume", "running"} => v.node[i].status = node[i].status
    <3> SUFFICES ASSUME NEW i \in Ids, v.node[i].status \in {"resume", "running"}
                 PROVE  v.node[i].status = node[i].status
      OBVIOUS
    <3>1. i # child /\ ~(i = me /\ fresh)
      BY <1>12, <1>13, <1>15, <1>21
    <3>2. v.node[i] = s.node[i]
      BY <1>15, <1>21, <3>1
    <3> QED
      BY <1>2, <3>2
  <2> QED
    BY <1>1, <2>1, <2>2, QuietLawful
<1> QED
  BY <1>3, <1>22, <1>27, <1>28, FineStep

-----------------------------------------------------------------------------
(* The theorems. *)

(* The trees in the file are whole, and all their nodes have ended. *)
LEMMA InitIsFine == Init => IInv
<1> SUFFICES ASSUME Init PROVE IInv
  OBVIOUS
<1> DEFINE n == Len(Saved)
<1>1. /\ MaxNodes \in Nat /\ n \in 0 .. MaxNodes /\ DOMAIN Saved = 1 .. n
      /\ \A i \in 1 .. n :
           /\ Saved[i] \in Node /\ Saved[i].status \in Over
           /\ Saved[i].parent < i /\ Saved[i].root \in 1 .. n
           /\ Saved[i].at \in Direct => Saved[i].bot = Saved[i].at[1]
  BY HandoffsAssumption
<1> HIDE DEF n
<1>2. /\ node = [i \in Ids |-> IF i \in 1 .. n THEN Saved[i] ELSE None]
      /\ turn = [p \in Places |-> Idle]
      /\ Now.node = node /\ Now.turn = turn /\ Now = [node |-> node, turn |-> turn]
  BY <1>1 DEF Init, Now
<1>3. \A i \in Ids : node[i] = IF i \in 1 .. n THEN Saved[i] ELSE None
  BY <1>2
<1>4. 1 .. n \subseteq Ids
  BY <1>1 DEF Ids
<1>5. node \in [Ids -> Node \union {None}]
  BY <1>1, <1>2
<1>6. turn \in [Places -> Turn \union {Idle}]
  BY <1>2
<1>7. Now \in State
  BY <1>2, <1>5, <1>6 DEF State
<1>8. Known(Now) = 1 .. n
  <2>1. \A m \in Node : m # None
    BY DEF Node, None, Over
  <2>2. \A i \in Ids : i \in Known(Now) <=> i \in 1 .. n
    BY <1>1, <1>2, <1>3, <2>1 DEF Known
  <2> QED
    BY <1>4, <2>2 DEF Known
<1>9. Numbered(Now)
  BY <1>1, <1>8 DEF Numbered
<1>10. Grown(Now)
  <2> SUFFICES ASSUME NEW i \in 1 .. n
               PROVE  /\ node[i].parent < i /\ node[i].root \in 1 .. n
                      /\ node[i].at \in Direct => node[i].bot = node[i].at[1]
                      /\ node[i].parent # 0 /\ node[i].reported => node[i].status \in Over \union {"gone"}
                      /\ node[i].status # "resume"
    BY <1>2, <1>8 DEF Grown
  <2>1. node[i] = Saved[i]
    BY <1>3, <1>4
  <2> QED
    BY <1>1, <2>1 DEF Over
<1>11. Taken(Now)
  BY <1>2 DEF Taken
<1>12. Worked(Now, jammed)
  <2>1. \A i \in Ids : node[i].status # "running"
    BY <1>1, <1>3 DEF Over, None
  <2> QED
    BY <1>2, <2>1 DEF Worked
<1> QED
  BY <1>7, <1>9, <1>10, <1>11, <1>12 DEF IInv, Fine

(* Every step. *)
LEMMA StepIsFine == IInv /\ [Next]_vars => IInv' /\ Lawful(Now')
<1> SUFFICES ASSUME IInv, [Next]_vars
             PROVE  IInv' /\ Lawful(Now')
  OBVIOUS
<1>1. CASE \E p \in Places :
             \/ Stop(p) \/ Delete(p) \/ SetupEnds(p) \/ Hangs(p)
             \/ \E ok \in BOOLEAN : TurnEnds(p, ok)
             \/ \E b \in Bots : UserTurn(p, b) \/ (\E q \in Places : Asks(p, q, b))
  <2> PICK p \in Places :
             \/ Stop(p) \/ Delete(p) \/ SetupEnds(p) \/ Hangs(p)
             \/ \E ok \in BOOLEAN : TurnEnds(p, ok)
             \/ \E b \in Bots : UserTurn(p, b) \/ (\E q \in Places : Asks(p, q, b))
    BY <1>1
  <2>1. CASE Stop(p)
    BY <2>1, StopStep
  <2>2. CASE Delete(p)
    BY <2>2, DeleteStep
  <2>3. CASE SetupEnds(p)
    BY <2>3, SetupEndsStep
  <2>4. CASE Hangs(p)
    BY <2>4, HangsStep
  <2>5. CASE \E ok \in BOOLEAN : TurnEnds(p, ok)
    BY <2>5, TurnEndsStep
  <2>6. ASSUME NEW b \in Bots, UserTurn(p, b)
        PROVE  IInv' /\ Lawful(Now')
    BY <2>6, UserTurnStep
  <2>7. ASSUME NEW b \in Bots, NEW q \in Places, Asks(p, q, b)
        PROVE  IInv' /\ Lawful(Now')
    BY <2>7, AsksStep
  <2> QED
    BY <2>1, <2>2, <2>3, <2>4, <2>5, <2>6, <2>7
<1>2. CASE Tick
  BY <1>2, TickStep
<1>3. ASSUME NEW i \in Ids, TickFails(i)
      PROVE  IInv' /\ Lawful(Now')
  BY <1>3, TickFailsStep
<1>4. ASSUME NEW i \in Ids, LifetimePasses(i)
      PROVE  IInv' /\ Lawful(Now')
  BY <1>4, SameStep DEF LifetimePasses
<1>5. ASSUME NEW b \in Bots, Bar(b)
      PROVE  IInv' /\ Lawful(Now')
  BY <1>5, SameStep DEF Bar
<1>6. CASE Restart
  BY <1>6, RestartStep
<1>7. CASE UNCHANGED vars
  BY <1>7, SameStep DEF vars
<1> QED
  BY <1>1, <1>2, <1>3, <1>4, <1>5, <1>6, <1>7 DEF Next

(* The inductive invariant. *)
THEOREM HandoffsFine == Spec => []IInv
<1>1. IInv /\ [Next]_vars => IInv'
  BY StepIsFine
<1> QED
  BY InitIsFine, <1>1, PTL DEF Spec

(* A running request has its turn, but for a tick whose save failed; and a *)
(* turn in a direct thread that may still act belongs to a request that is *)
(* running, or was evicted (tick, interruptTurn, cancelTree).              *)
THEOREM WorkIsTurned == Spec => []WorkHasItsTurn
<1>1. IInv => WorkHasItsTurn
  <2> SUFFICES ASSUME IInv PROVE WorkHasItsTurn
    OBVIOUS
  <2>1. Now.node = node /\ Now.turn = turn /\ Now \in State
    BY DEF IInv, Fine, Now
  <2>2. ASSUME NEW i \in Active(Now) \ jammed, node[i].status = "running"
        PROVE  turn[node[i].at].own = "node" /\ turn[node[i].at].node = i
    BY <2>1, <2>2 DEF IInv, Fine, Worked, Active, Kept
  <2>3. ASSUME NEW p \in Direct, turn[p].own = "node", turn[p].can
        PROVE  node[turn[p].node].status \in {"running", "gone"}
    <3>1. p \in Places
      BY <2>3 DEF Places
    <3>2. Now.turn[p] # Idle
      BY <2>1, <2>3, <3>1, TurnsOf
    <3> QED
      BY <2>1, <2>3, <3>1, <3>2 DEF IInv, Fine, Taken
  <2> QED
    BY <2>2, <2>3 DEF WorkHasItsTurn
<1> QED
  BY HandoffsFine, <1>1, PTL

(* Nobody is resumed before all that they asked have ended and are         *)
(* reported, in whatever order the tick walks over the nodes.              *)
THEOREM AnswersFirst == Spec => ResumedWithAllAnswers
<1> DEFINE A == \A i \in Ids :
                  node[i].status \in {"waiting", "resume"} /\ node'[i].status \in {"resume", "running"}
                  => \A c \in Children(Now, i) : Answered(Now, c)
<1>1. IInv /\ [Next]_vars => [A]_vars
  <2> SUFFICES ASSUME IInv, [Next]_vars PROVE A
    OBVIOUS
  <2>1. Lawful(Now')
    BY StepIsFine
  <2>2. Now'.node = node'
    BY DEF Now
  <2> QED
    BY <2>1, <2>2 DEF Lawful
<1> QED
  BY HandoffsFine, <1>1, PTL DEF Spec, ResumedWithAllAnswers

(* What a request ended with stands, and its report: no late answer, tick, *)
(* second stop or restart changes either.                                  *)
THEOREM EndsAreFinal == Spec => EndsStand
<1> DEFINE A == \A i \in Ids : Ended(Now, i) =>
                  \/ node'[i].status = "gone"
                  \/ /\ node'[i].status = node[i].status
                     /\ node[i].reported => node'[i].reported
<1>1. IInv /\ [Next]_vars => [A]_vars
  <2> SUFFICES ASSUME IInv, [Next]_vars PROVE A
    OBVIOUS
  <2>1. Lawful(Now')
    BY StepIsFine
  <2>2. Now'.node = node'
    BY DEF Now
  <2> QED
    BY <2>1, <2>2 DEF Lawful
<1> QED
  BY HandoffsFine, <1>1, PTL DEF Spec, EndsStand

=============================================================================
