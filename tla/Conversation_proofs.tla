------------------------ MODULE Conversation_proofs -------------------------
(***************************************************************************)
(* A thread never has two provider processes at work, nobody but its       *)
(* latest turn frees it, and no message is said or run twice, lost after   *)
(* it was accepted, or back after it was cancelled: for any number of      *)
(* messages, requests, turns and faults.                                   *)
(*                                                                         *)
(* The bookkeeping of turns (DirectTurns) and what becomes of messages     *)
(* (FollowUps) meet only where a turn takes up words and where it settles  *)
(* them, so each has an invariant of its own, stated of a record.          *)
(***************************************************************************)
EXTENDS Conversation, FiniteSetTheorems, SequenceTheorems, TLAPS

-----------------------------------------------------------------------------
(* Turns. *)

AtWork == {"asked", "live", "wedged", "dying"}
Phases == {"new", "setup", "dispatching", "stopping", "ended"}
Turn ==
  [gen : 0 .. MaxTurns, busy : BOOLEAN,
   claim : [of : 0 .. MaxTurns, phase : {"setup", "dispatching"}],
   stage : [Gens -> Phases],
   quarantine : SUBSET Gens, retired : SUBSET Gens, bound : SUBSET Gens,
   completed : SUBSET Gens, settlers : SUBSET Gens,
   watched : BOOLEAN, grace : SUBSET Gens, frame : SUBSET Gens]
Providers == [Gens -> AtWork \union {"none", "hung", "over"}]

(* The claim is the latest generation's, and tells how far its dispatch is. *)
ClaimsOK(t) ==
  /\ t.claim = NoClaim \/ (t.claim.of = t.gen /\ t.gen # 0 /\ t.stage[t.gen] = t.claim.phase)
  /\ t.busy => t.gen # 0
  /\ \A g \in Gens : t.stage[g] = "new" <=> g > t.gen

(* A process at work is quarantined, or it is the latest turn's and keeps  *)
(* the thread busy; there is one at most.                                  *)
ProvidersOK(t, p) ==
  /\ \A g \in Gens : p[g] \in AtWork => g \in t.quarantine \/ (g = t.gen /\ t.busy)
  /\ \A g, h \in Gens : p[g] \in AtWork /\ p[h] \in AtWork => g = h
  /\ \A g \in Gens : t.stage[g] \in {"new", "setup"} => p[g] = "none"
  /\ \A g \in Gens : p[g] = "asked" => g \in t.quarantine \/ t.claim.of = g

(* What waits for a frame or a grace period to end: nothing of it is at    *)
(* work that is not quarantined or about to be gone.                       *)
WaitsOK(t, p) ==
  /\ t.watched => t.busy /\ t.stage[t.gen] # "setup"
  /\ t.gen \in t.frame \union t.grace => ~t.watched
  /\ \A g \in t.frame : p[g] = "over"
  /\ \A g \in t.grace : /\ t.stage[g] \notin {"new", "setup"}
                        /\ p[g] \in {"asked", "live", "wedged"} => g \in t.quarantine

TurnsOK(t, p) ==
  /\ t \in Turn /\ p \in Providers
  /\ ClaimsOK(t) /\ ProvidersOK(t, p) /\ WaitsOK(t, p)

(* While the server is down nothing is under way. *)
DownInv ==
  ~up => /\ ~ThreadBusy(turn) /\ ~turn.watched
         /\ turn.frame = {} /\ turn.grace = {} /\ turn.quarantine = {}
         /\ \A g \in Gens : turn.stage[g] \in {"new", "ended"} /\ provider[g] = "none"
         /\ asking = {} /\ other = "none" /\ chat.queue = {}

-----------------------------------------------------------------------------
(* Messages. *)

Statuses == {"none", "pending", "dispatching", "interrupted", "cancelled"}
Kinds == Words \union {"error", "notice"}
Entries == [send : Sends, kind : Kinds]
Chat == [queue : SUBSET Sends, rows : [Sends -> Statuses], log : Seq(Entries),
         synced : Nat, owned : BOOLEAN]
Requests == [send : Sends, by : Attempts, taken : BOOLEAN]

(* In what follows c is the chat, k what the generations carry, and h the  *)
(* history and the requests that a message is judged by.                   *)
Histories == [up : BOOLEAN, asking : SUBSET Requests, promised : SUBSET Sends,
              forgot : SUBSET Sends, withdrawn : SUBSET Sends]
History == [up |-> up, asking |-> asking, promised |-> promised,
            forgot |-> forgot, withdrawn |-> withdrawn]

Carried(k, s) == \E g \in Gens : s \in k[g]
Claims(c, s) == c.rows[s] \in {"dispatching", "interrupted"}
EntryKept(c, s, kind) == \E i \in 1 .. c.synced : c.log[i] = [send |-> s, kind |-> kind]

Unflushed(c, s) ==
  \E i \in DOMAIN c.log : i > c.synced /\ c.log[i] = [send |-> s, kind |-> "queued"]

(* The words of a message are there once ...                               *)
Once(c) ==
  \A i, j \in DOMAIN c.log :
    c.log[i].send = c.log[j].send /\ c.log[i].kind \in Words /\ c.log[j].kind \in Words
    => i = j

(* ... and not before their time; those of a claim come from the queue.    *)
SaidOK(c) ==
  /\ Once(c)
  /\ \A s \in c.queue : c.rows[s] = "pending"
  /\ \A s \in Sends : c.rows[s] = "pending" => ~InTranscript(c, s)
  /\ \A s \in Sends : Claims(c, s) => ~HasEntry(c, s, "sent") /\ ~HasEntry(c, s, "steered")

(* A claim names the turn that carries it; its row is not settled before   *)
(* its words are on the disk.                                              *)
ClaimedOK(c, k) ==
  /\ \A s \in Sends : Claims(c, s) => Carried(k, s)
  /\ c.owned => \A s \in Sends : Unflushed(c, s) => Claims(c, s)

(* While the server listens, rows, queue and transcript agree. *)
ListeningOK(c, h) ==
  h.up /\ c.owned => \A s \in Sends :
    /\ c.rows[s] = "pending" => s \in c.queue
    /\ c.rows[s] = "dispatching" => InTranscript(c, s)
    /\ c.rows[s] # "interrupted"

(* Turns carry different words; what was carried is claimed or said. *)
CarriedOK(c, k, h) ==
  \A s \in Sends \ h.forgot :
    /\ \A f, g \in Gens : s \in k[f] /\ s \in k[g] => f = g
    /\ Carried(k, s) => /\ c.rows[s] # "pending"
                        /\ c.owned => Claims(c, s) \/ InTranscript(c, s)

PromisesOK(c, k, h) ==
  c.owned => \A s \in h.promised :
    \/ c.rows[s] # "none"
    \/ EntryKept(c, s, "queued") /\ (Carried(k, s) \/ EntryKept(c, s, "error"))

(* A request that is open is for words that are nowhere yet. *)
AskingOK(c, h) ==
  /\ \A q, r \in h.asking : q.send = r.send => q = r
  /\ c.owned => \A q \in h.asking : c.rows[q.send] = "none" /\ ~InTranscript(c, q.send)

WithdrawnOK(c, h) ==
  \A s \in h.withdrawn : c.rows[s] = "cancelled" /\ ~InTranscript(c, s)

MessagesOK(c, k, h) ==
  /\ c \in Chat /\ c.synced <= Len(c.log)
  /\ k \in [Gens -> SUBSET Sends] /\ h \in Histories
  /\ SaidOK(c) /\ ClaimedOK(c, k) /\ ListeningOK(c, h)
  /\ CarriedOK(c, k, h) /\ PromisesOK(c, k, h) /\ AskingOK(c, h) /\ WithdrawnOK(c, h)

(* Generations that are still to come carry nothing. *)
Unused(t, k) == \A g \in Gens : g > t.gen => k[g] = {}

IInv ==
  /\ TurnsOK(turn, provider) /\ DownInv
  /\ MessagesOK(chat, carries, History) /\ Unused(turn, carries)

-----------------------------------------------------------------------------
(* What each operation of DirectTurns makes of the fields that matter. *)

IsTurn(r, gen, busy, claim, stage, quarantine, watched, grace, frame) ==
  /\ r \in Turn
  /\ r.gen = gen /\ r.busy = busy /\ r.claim = claim /\ r.stage = stage
  /\ r.quarantine = quarantine /\ r.watched = watched
  /\ r.grace = grace /\ r.frame = frame

(* startTurn takes the claim for a new generation. *)
LEMMA ClaimedFields ==
  ASSUME NEW t \in Turn, t.gen < MaxTurns
  PROVE  IsTurn(Claimed(t), t.gen + 1, TRUE, [of |-> t.gen + 1, phase |-> "setup"],
                [t.stage EXCEPT ![t.gen + 1] = "setup"],
                t.quarantine, t.watched, t.grace, t.frame)
<1> DEFINE g == t.gen + 1
           claim == [of |-> g, phase |-> "setup"]
           stage == [t.stage EXCEPT ![g] = "setup"]
           settlers == t.settlers \union {g}
           r == [t EXCEPT !.gen = g, !.busy = TRUE, !.stage = stage,
                          !.claim = claim, !.settlers = settlers]
<1>1. /\ g \in 0 .. MaxTurns /\ g \in Gens
      /\ claim \in [of : 0 .. MaxTurns, phase : {"setup", "dispatching"}]
      /\ settlers \in SUBSET Gens /\ stage \in [Gens -> Phases]
  BY MaxTurnsAssumption DEF Gens, Turn, Phases
<1>2. Claimed(t) = r
  BY DEF Claimed, Turn
<1> HIDE DEF g, claim, settlers, stage
<1>3. /\ r.gen = g /\ r.busy = TRUE /\ r.claim = claim /\ r.stage = stage
      /\ r.quarantine = t.quarantine /\ r.watched = t.watched
      /\ r.grace = t.grace /\ r.frame = t.frame
  BY <1>1 DEF Turn
<1>4. r \in Turn
  BY <1>1, <1>3 DEF Turn
<1> QED
  BY <1>2, <1>3, <1>4 DEF g, claim, stage, IsTurn

(* cancelDirectTurnDispatch frees the claim and, of a dispatch, guards the *)
(* handshake.                                                              *)
LEMMA UnclaimedFields ==
  ASSUME NEW t \in Turn, t.claim.phase = "setup" \/ t.claim.of \in Gens
  PROVE  IsTurn(Unclaimed(t), t.gen, t.busy, NoClaim, t.stage,
                IF t.claim.phase = "setup" THEN t.quarantine
                                           ELSE t.quarantine \union {t.claim.of},
                t.watched, t.grace, t.frame)
<1>1. NoClaim \in [of : 0 .. MaxTurns, phase : {"setup", "dispatching"}]
  BY MaxTurnsAssumption DEF NoClaim
<1>2. CASE t.claim.phase = "setup"
  <2> DEFINE r == [t EXCEPT !.claim = NoClaim]
  <2>1. /\ r \in Turn
        /\ r.gen = t.gen /\ r.busy = t.busy /\ r.claim = NoClaim /\ r.stage = t.stage
        /\ r.quarantine = t.quarantine /\ r.watched = t.watched
        /\ r.grace = t.grace /\ r.frame = t.frame
    BY <1>1 DEF Turn
  <2> QED
    BY <1>2, <2>1 DEF Unclaimed, IsTurn
<1>3. CASE t.claim.phase # "setup"
  <2> DEFINE quarantine == t.quarantine \union {t.claim.of}
             r == [t EXCEPT !.claim = NoClaim, !.quarantine = quarantine]
  <2>1. quarantine \in SUBSET Gens
    BY <1>3 DEF Turn
  <2>2. Unclaimed(t) = r
    BY <1>3 DEF Unclaimed, Turn
  <2> HIDE DEF quarantine
  <2>3. /\ r.gen = t.gen /\ r.busy = t.busy /\ r.claim = NoClaim /\ r.stage = t.stage
        /\ r.quarantine = quarantine /\ r.watched = t.watched
        /\ r.grace = t.grace /\ r.frame = t.frame
    BY <2>1, <1>1 DEF Turn
  <2>4. r \in Turn
    BY <2>1, <2>3, <1>1 DEF Turn
  <2> QED
    BY <1>3, <2>2, <2>3, <2>4 DEF quarantine, IsTurn
<1> QED
  BY <1>2, <1>3

(* markDirectTurnDispatching: the watchdog watches from here. *)
LEMMA DispatchingFields ==
  ASSUME NEW t \in Turn, NEW g \in Gens, t.claim.of = g
  PROVE  IsTurn(Dispatching(t, g), t.gen, t.busy, [of |-> g, phase |-> "dispatching"],
                [t.stage EXCEPT ![g] = "dispatching"],
                t.quarantine, TRUE, t.grace, t.frame)
<1> DEFINE claim == [t.claim EXCEPT !.phase = "dispatching"]
           stage == [t.stage EXCEPT ![g] = "dispatching"]
           r == [t EXCEPT !.claim = claim, !.stage = stage, !.watched = TRUE]
<1>1. /\ claim = [of |-> g, phase |-> "dispatching"]
      /\ claim \in [of : 0 .. MaxTurns, phase : {"setup", "dispatching"}]
      /\ stage \in [Gens -> Phases]
  BY DEF Turn, Phases
<1>2. Dispatching(t, g) = r
  BY DEF Dispatching, Turn
<1> HIDE DEF claim, stage
<1>3. /\ r.gen = t.gen /\ r.busy = t.busy /\ r.claim = claim /\ r.stage = stage
      /\ r.quarantine = t.quarantine /\ r.watched = TRUE
      /\ r.grace = t.grace /\ r.frame = t.frame
  BY <1>1 DEF Turn
<1>4. r \in Turn
  BY <1>1, <1>3 DEF Turn
<1> QED
  BY <1>1, <1>2, <1>3, <1>4 DEF stage, IsTurn

(* settleDirectFollowup leaves all of them alone. *)
LEMMA SettledFields ==
  ASSUME NEW t \in Turn, NEW g
  PROVE  IsTurn(FollowupSettled(t, g), t.gen, t.busy, t.claim, t.stage,
                t.quarantine, t.watched, t.grace, t.frame)
<1> DEFINE settlers == t.settlers \ {g}
           bound == t.bound \ {g}
           completed == t.completed \union (t.bound \intersect {g})
           retired == t.retired \union (t.bound \intersect {g})
           r == [t EXCEPT !.settlers = settlers, !.bound = bound,
                          !.completed = completed, !.retired = retired]
<1>1. /\ settlers \in SUBSET Gens /\ bound \in SUBSET Gens
      /\ completed \in SUBSET Gens /\ retired \in SUBSET Gens
  BY DEF Turn
<1>2. FollowupSettled(t, g) = t \/ FollowupSettled(t, g) = r
  BY DEF FollowupSettled, Turn
<1> HIDE DEF settlers, bound, completed, retired
<1>3. /\ r.gen = t.gen /\ r.busy = t.busy /\ r.claim = t.claim /\ r.stage = t.stage
      /\ r.quarantine = t.quarantine /\ r.watched = t.watched
      /\ r.grace = t.grace /\ r.frame = t.frame
  BY <1>1 DEF Turn
<1>4. r \in Turn
  BY <1>1, <1>3 DEF Turn
<1> QED
  BY <1>2, <1>3, <1>4 DEF IsTurn

(* The catch of the dispatch function of generation g. *)
LEMMA AbandonedFields ==
  ASSUME NEW t \in Turn, NEW g \in Gens
  PROVE  IsTurn(Abandoned(t, g), t.gen, t.busy /\ t.gen # g,
                IF t.claim.of = g THEN NoClaim ELSE t.claim,
                [t.stage EXCEPT ![g] = "ended"],
                t.quarantine \ {g}, t.watched /\ t.gen # g, t.grace, t.frame)
<1> DEFINE f == FollowupSettled(t, g)
           stage == [t.stage EXCEPT ![g] = "ended"]
           quarantine == t.quarantine \ {g}
           claim == IF t.claim.of = g THEN NoClaim ELSE t.claim
           watched == t.watched /\ t.gen # g
           busy == t.busy /\ t.gen # g
           r == [f EXCEPT !.stage = stage, !.quarantine = quarantine, !.claim = claim,
                          !.watched = watched, !.busy = busy]
<1>1. /\ stage \in [Gens -> Phases] /\ quarantine \in SUBSET Gens
      /\ claim \in [of : 0 .. MaxTurns, phase : {"setup", "dispatching"}]
      /\ watched \in BOOLEAN /\ busy \in BOOLEAN
  BY MaxTurnsAssumption DEF Turn, Phases, NoClaim
<1>2. IsTurn(f, t.gen, t.busy, t.claim, t.stage, t.quarantine, t.watched, t.grace, t.frame)
  BY SettledFields
<1> HIDE DEF f
<1>3. Abandoned(t, g) = [f EXCEPT !.stage[g] = "ended", !.quarantine = @ \ {g},
                                  !.claim = IF @.of = g THEN NoClaim ELSE @,
                                  !.watched = @ /\ t.gen # g, !.busy = @ /\ t.gen # g]
  BY DEF Abandoned, f
<1>4. Abandoned(t, g) = r
  BY <1>2, <1>3 DEF IsTurn, Turn
<1> HIDE DEF stage, quarantine, claim, watched, busy
<1>5. /\ r.gen = t.gen /\ r.busy = busy /\ r.claim = claim /\ r.stage = stage
      /\ r.quarantine = quarantine /\ r.watched = watched
      /\ r.grace = t.grace /\ r.frame = t.frame
  BY <1>1, <1>2 DEF IsTurn, Turn
<1>6. r \in Turn
  BY <1>1, <1>2, <1>5 DEF IsTurn, Turn
<1> QED
  BY <1>4, <1>5, <1>6 DEF stage, quarantine, claim, watched, busy, IsTurn

(* The provider's turn is bound to its generation, or was settled already. *)
LEMMA AcknowledgedFields ==
  ASSUME NEW t \in Turn, NEW g \in Gens
  PROVE  IsTurn(Acknowledged(t, g), t.gen, t.busy,
                IF t.claim.of = g THEN NoClaim ELSE t.claim,
                [t.stage EXCEPT ![g] = "ended"],
                t.quarantine, t.watched, t.grace, t.frame)
<1> DEFINE f == IF g \notin t.settlers THEN t
                ELSE IF g \in t.completed THEN FollowupSettled(t, g)
                ELSE [t EXCEPT !.bound = @ \union {g}]
           stage == [t.stage EXCEPT ![g] = "ended"]
           claim == IF t.claim.of = g THEN NoClaim ELSE t.claim
           r == [f EXCEPT !.stage = stage, !.claim = claim]
<1>1. /\ stage \in [Gens -> Phases]
      /\ claim \in [of : 0 .. MaxTurns, phase : {"setup", "dispatching"}]
  BY MaxTurnsAssumption DEF Turn, Phases, NoClaim
<1>2. IsTurn(f, t.gen, t.busy, t.claim, t.stage, t.quarantine, t.watched, t.grace, t.frame)
  <2> DEFINE bound == t.bound \union {g}
             b == [t EXCEPT !.bound = bound]
  <2>1. bound \in SUBSET Gens
    BY DEF Turn
  <2>2. f \in {t, FollowupSettled(t, g), b}
    BY DEF Turn
  <2> HIDE DEF bound, f
  <2>3. IsTurn(b, t.gen, t.busy, t.claim, t.stage, t.quarantine, t.watched, t.grace, t.frame)
    BY <2>1 DEF IsTurn, Turn
  <2>4. IsTurn(FollowupSettled(t, g), t.gen, t.busy, t.claim, t.stage,
               t.quarantine, t.watched, t.grace, t.frame)
    BY SettledFields
  <2>5. IsTurn(t, t.gen, t.busy, t.claim, t.stage, t.quarantine, t.watched, t.grace, t.frame)
    BY DEF IsTurn
  <2> HIDE DEF b
  <2> QED
    BY <2>2, <2>3, <2>4, <2>5
<1>3. Acknowledged(t, g) = [f EXCEPT !.stage[g] = "ended",
                                     !.claim = IF @.of = g THEN NoClaim ELSE @]
  BY DEF Acknowledged
<1> HIDE DEF f
<1>4. Acknowledged(t, g) = r
  BY <1>2, <1>3 DEF IsTurn, Turn
<1> HIDE DEF stage, claim
<1>5. /\ r.gen = t.gen /\ r.busy = t.busy /\ r.claim = claim /\ r.stage = stage
      /\ r.quarantine = t.quarantine /\ r.watched = t.watched
      /\ r.grace = t.grace /\ r.frame = t.frame
  BY <1>1, <1>2 DEF IsTurn, Turn
<1>6. r \in Turn
  BY <1>1, <1>2, <1>5 DEF IsTurn, Turn
<1> QED
  BY <1>4, <1>5, <1>6 DEF stage, claim, IsTurn

(* An event of a retired or quarantined turn. *)
LEMMA IgnoredFields ==
  ASSUME NEW t \in Turn, NEW g \in Gens
  PROVE  IsTurn(Ignored(t, g), t.gen, t.busy, t.claim, t.stage,
                t.quarantine, t.watched, t.grace, t.frame)
<1> DEFINE retired == t.retired \union {g}
           r == [t EXCEPT !.retired = retired]
<1>1. retired \in SUBSET Gens
  BY DEF Turn
<1>2. Ignored(t, g) = r
  BY DEF Ignored, Turn
<1> HIDE DEF retired
<1> QED
  BY <1>1, <1>2 DEF IsTurn, Turn

(* turn.completed *)
LEMMA CompletedFields ==
  ASSUME NEW t \in Turn, t.gen \in Gens, NEW g \in Gens, NEW framed \in BOOLEAN
  PROVE  IsTurn(Completed(t, g, framed), t.gen, t.busy /\ framed, t.claim, t.stage,
                t.quarantine, FALSE, t.grace,
                IF framed THEN t.frame \union {t.gen} ELSE t.frame)
<1> DEFINE bound == t.bound \ {g}
           b == [t EXCEPT !.bound = bound]
           f == IF g \in t.bound THEN FollowupSettled(b, g) ELSE t
           busy == t.busy /\ framed
           frame == IF framed THEN t.frame \union {t.gen} ELSE t.frame
           completed == f.completed \union {g}
           r == [f EXCEPT !.watched = FALSE, !.completed = completed, !.busy = busy,
                          !.frame = frame]
<1>1. busy \in BOOLEAN /\ frame \in SUBSET Gens
  BY DEF Turn
<1>2. IsTurn(f, t.gen, t.busy, t.claim, t.stage, t.quarantine, t.watched, t.grace, t.frame)
  <2>1. bound \in SUBSET Gens
    BY DEF Turn
  <2> HIDE DEF bound
  <2>2. IsTurn(b, t.gen, t.busy, t.claim, t.stage, t.quarantine, t.watched, t.grace, t.frame)
    BY <2>1 DEF IsTurn, Turn
  <2> HIDE DEF b
  <2>3. IsTurn(FollowupSettled(b, g), t.gen, t.busy, t.claim, t.stage,
               t.quarantine, t.watched, t.grace, t.frame)
    BY <2>2, SettledFields DEF IsTurn
  <2>4. IsTurn(t, t.gen, t.busy, t.claim, t.stage, t.quarantine, t.watched, t.grace, t.frame)
    BY DEF IsTurn
  <2> QED
    BY <2>3, <2>4
<1>3. Completed(t, g, framed)
        = [f EXCEPT !.watched = FALSE, !.completed = @ \union {g}, !.busy = @ /\ framed,
                    !.frame = IF framed THEN @ \union {t.gen} ELSE @]
  BY DEF Completed, Turn
<1> HIDE DEF f
<1>4. completed \in SUBSET Gens
  BY <1>2 DEF IsTurn, Turn
<1>5. Completed(t, g, framed) = r
  BY <1>2, <1>3 DEF IsTurn, Turn
<1> HIDE DEF busy, frame, completed
<1>6. /\ r.gen = t.gen /\ r.busy = busy /\ r.claim = t.claim /\ r.stage = t.stage
      /\ r.quarantine = t.quarantine /\ r.watched = FALSE
      /\ r.grace = t.grace /\ r.frame = frame
  BY <1>1, <1>2, <1>4 DEF IsTurn, Turn
<1>7. r \in Turn
  BY <1>1, <1>2, <1>4, <1>6 DEF IsTurn, Turn
<1> QED
  BY <1>5, <1>6, <1>7 DEF busy, frame, IsTurn

(* The last frame, the end of the grace period, and the two updates that   *)
(* the handlers make themselves.                                           *)
LEMMA FrameTakenFields ==
  ASSUME NEW t \in Turn, NEW g \in Gens
  PROVE  IsTurn(FrameTaken(t, g), t.gen, t.busy /\ t.gen # g, t.claim, t.stage,
                t.quarantine, t.watched, t.grace, t.frame \ {g})
<1> DEFINE frame == t.frame \ {g}
           busy == t.busy /\ t.gen # g
           r == [t EXCEPT !.frame = frame, !.busy = busy]
<1>1. frame \in SUBSET Gens /\ busy \in BOOLEAN
  BY DEF Turn
<1>2. FrameTaken(t, g) = r
  BY DEF FrameTaken, Turn
<1> HIDE DEF frame, busy
<1>3. /\ r.gen = t.gen /\ r.busy = busy /\ r.claim = t.claim /\ r.stage = t.stage
      /\ r.quarantine = t.quarantine /\ r.watched = t.watched
      /\ r.grace = t.grace /\ r.frame = frame
  BY <1>1 DEF Turn
<1>4. r \in Turn
  BY <1>1, <1>3 DEF Turn
<1> QED
  BY <1>2, <1>3, <1>4 DEF frame, busy, IsTurn

(* The grace period of a stalled turn is over. *)
LEMMA ReleasedFields ==
  ASSUME NEW t \in Turn, NEW g \in Gens
  PROVE  IsTurn(Released(t, g), t.gen, t.busy /\ t.gen # g, t.claim, t.stage,
                t.quarantine, t.watched, t.grace \ {g}, t.frame)
<1> DEFINE grace == t.grace \ {g}
           busy == t.busy /\ t.gen # g
           r == [t EXCEPT !.grace = grace, !.busy = busy]
<1>1. grace \in SUBSET Gens /\ busy \in BOOLEAN
  BY DEF Turn
<1>2. Released(t, g) = r
  BY DEF Released, Turn
<1> HIDE DEF grace, busy
<1>3. /\ r.gen = t.gen /\ r.busy = busy /\ r.claim = t.claim /\ r.stage = t.stage
      /\ r.quarantine = t.quarantine /\ r.watched = t.watched
      /\ r.grace = grace /\ r.frame = t.frame
  BY <1>1 DEF Turn
<1>4. r \in Turn
  BY <1>1, <1>3 DEF Turn
<1> QED
  BY <1>2, <1>3, <1>4 DEF grace, busy, IsTurn

(* A turn that was stopped in its handshake is interrupted again. *)
LEMMA StoppingFields ==
  ASSUME NEW t \in Turn, NEW g \in Gens
  PROVE  IsTurn([t EXCEPT !.stage[g] = "stopping"], t.gen, t.busy, t.claim,
                [t.stage EXCEPT ![g] = "stopping"],
                t.quarantine, t.watched, t.grace, t.frame)
<1> DEFINE stage == [t.stage EXCEPT ![g] = "stopping"]
           r == [t EXCEPT !.stage = stage]
<1>1. stage \in [Gens -> Phases]
  BY DEF Turn, Phases
<1>2. [t EXCEPT !.stage[g] = "stopping"] = r
  BY DEF Turn
<1> HIDE DEF stage
<1>3. IsTurn(r, t.gen, t.busy, t.claim, stage, t.quarantine, t.watched, t.grace, t.frame)
  BY <1>1 DEF IsTurn, Turn
<1> QED
  BY <1>2, <1>3 DEF stage

(* A handshake is waited for no longer. *)
LEMMA ExpiredFields ==
  ASSUME NEW t \in Turn, NEW g \in Gens
  PROVE  IsTurn([t EXCEPT !.quarantine = @ \ {g}], t.gen, t.busy, t.claim, t.stage,
                t.quarantine \ {g}, t.watched, t.grace, t.frame)
<1> DEFINE quarantine == t.quarantine \ {g}
           r == [t EXCEPT !.quarantine = quarantine]
<1>1. quarantine \in SUBSET Gens
  BY DEF Turn
<1>2. [t EXCEPT !.quarantine = @ \ {g}] = r
  BY DEF Turn
<1> HIDE DEF quarantine
<1>3. IsTurn(r, t.gen, t.busy, t.claim, t.stage, quarantine, t.watched, t.grace, t.frame)
  BY <1>1 DEF IsTurn, Turn
<1> QED
  BY <1>2, <1>3 DEF quarantine

(* onStall *)
LEMMA StalledFields ==
  ASSUME NEW t \in Turn, t.gen \in Gens, t.claim.phase = "setup" \/ t.claim.of \in Gens
  PROVE  IsTurn(Stalled(t), t.gen, t.busy, NoClaim, t.stage,
                IF t.claim.phase = "setup" THEN t.quarantine
                                           ELSE t.quarantine \union {t.claim.of},
                FALSE, t.grace \union {t.gen}, t.frame)
<1> DEFINE u == IF t.claim = NoClaim THEN t ELSE Unclaimed(t)
           quarantine == IF t.claim.phase = "setup" THEN t.quarantine
                         ELSE t.quarantine \union {t.claim.of}
           grace == t.grace \union {t.gen}
           r == [u EXCEPT !.watched = FALSE, !.grace = grace]
<1>1. grace \in SUBSET Gens
  BY DEF Turn
<1>2. IsTurn(u, t.gen, t.busy, NoClaim, t.stage, quarantine, t.watched, t.grace, t.frame)
  <2>1. CASE t.claim = NoClaim
    BY <2>1 DEF IsTurn, NoClaim
  <2>2. CASE t.claim # NoClaim
    BY <2>2, UnclaimedFields
  <2> QED
    BY <2>1, <2>2
<1>3. Stalled(t) = FollowupSettled([u EXCEPT !.watched = FALSE, !.grace = @ \union {t.gen}], t.gen)
  BY DEF Stalled
<1> HIDE DEF u, quarantine
<1>4. Stalled(t) = FollowupSettled(r, t.gen)
  BY <1>2, <1>3 DEF IsTurn, Turn
<1> HIDE DEF grace
<1>5. IsTurn(r, t.gen, t.busy, NoClaim, t.stage, quarantine, FALSE, grace, t.frame)
  <2>1. /\ r.gen = t.gen /\ r.busy = t.busy /\ r.claim = NoClaim /\ r.stage = t.stage
        /\ r.quarantine = quarantine /\ r.watched = FALSE
        /\ r.grace = grace /\ r.frame = t.frame
    BY <1>1, <1>2 DEF IsTurn, Turn
  <2>2. r \in Turn
    BY <1>1, <1>2, <2>1 DEF IsTurn, Turn
  <2> QED
    BY <2>1, <2>2 DEF IsTurn
<1> HIDE DEF r
<1>6. IsTurn(FollowupSettled(r, t.gen), r.gen, r.busy, r.claim, r.stage,
             r.quarantine, r.watched, r.grace, r.frame)
  BY <1>5, SettledFields DEF IsTurn
<1> QED
  BY <1>4, <1>5, <1>6 DEF quarantine, grace, IsTurn

(* A crash loses all of it. *)
LEMMA LostFields ==
  ASSUME NEW t \in Turn
  PROVE  IsTurn(TurnsLost(t), t.gen, FALSE, NoClaim,
                [g \in Gens |-> IF g <= t.gen THEN "ended" ELSE "new"],
                {}, FALSE, {}, {})
<1> DEFINE stage == [g \in Gens |-> IF g <= t.gen THEN "ended" ELSE "new"]
<1>1. stage \in [Gens -> Phases]
  BY DEF Phases
<1>2. NoClaim \in [of : 0 .. MaxTurns, phase : {"setup", "dispatching"}]
  BY MaxTurnsAssumption DEF NoClaim
<1>3. t.gen \in 0 .. MaxTurns
  BY DEF Turn
<1> HIDE DEF stage
<1>4. /\ Idle(t.gen, stage).gen = t.gen
      /\ Idle(t.gen, stage).busy = FALSE
      /\ Idle(t.gen, stage).claim = NoClaim
      /\ Idle(t.gen, stage).stage = stage
      /\ Idle(t.gen, stage).quarantine = {}
      /\ Idle(t.gen, stage).watched = FALSE
      /\ Idle(t.gen, stage).grace = {} /\ Idle(t.gen, stage).frame = {}
  BY DEF Idle
<1>5. Idle(t.gen, stage) \in Turn
  BY <1>1, <1>2, <1>3 DEF Idle, Turn
<1>6. TurnsLost(t) = Idle(t.gen, stage)
  BY DEF TurnsLost, stage
<1> QED
  BY <1>4, <1>5, <1>6 DEF IsTurn, stage

-----------------------------------------------------------------------------
(* Every operation keeps the invariant of turns, given what its handler    *)
(* has checked.                                                            *)

(* A new generation starts where no process is at work but quarantined.    *)
LEMMA ClaimKeeps ==
  ASSUME NEW t, NEW p, TurnsOK(t, p), ~ThreadBusy(t), t.gen < MaxTurns
  PROVE  TurnsOK(Claimed(t), p)
<1> DEFINE r == Claimed(t)
<1>1. IsTurn(r, t.gen + 1, TRUE, [of |-> t.gen + 1, phase |-> "setup"],
             [t.stage EXCEPT ![t.gen + 1] = "setup"],
             t.quarantine, t.watched, t.grace, t.frame)
  BY ClaimedFields DEF TurnsOK
<1> HIDE DEF r
<1>2. /\ t.gen \in Nat /\ t.gen + 1 \in Gens /\ t.gen \notin {t.gen + 1}
      /\ t.stage \in [Gens -> Phases] /\ t.grace \subseteq Gens /\ t.frame \subseteq Gens
      /\ t.busy = FALSE /\ t.claim = NoClaim /\ t.stage[t.gen + 1] = "new"
      /\ t.watched = FALSE
  BY MaxTurnsAssumption DEF TurnsOK, ClaimsOK, WaitsOK, Turn, Gens, ThreadBusy
<1>3. ClaimsOK(r)
  <2>1. ASSUME NEW h \in Gens PROVE r.stage[h] = "new" <=> h > r.gen
    <3>1. t.stage[h] = "new" <=> h > t.gen
      BY DEF TurnsOK, ClaimsOK
    <3>2. CASE h = t.gen + 1
      BY <1>1, <1>2, <3>2 DEF IsTurn
    <3>3. CASE h # t.gen + 1
      <4>1. r.stage[h] = t.stage[h]
        BY <1>1, <1>2, <3>3 DEF IsTurn
      <4>2. h > t.gen <=> h > t.gen + 1
        BY <1>2, <3>3 DEF Gens
      <4> QED
        BY <1>1, <3>1, <4>1, <4>2 DEF IsTurn
    <3> QED
      BY <3>2, <3>3
  <2>2. r.stage[r.gen] = r.claim.phase /\ r.claim.of = r.gen /\ r.gen # 0
    BY <1>1, <1>2 DEF IsTurn
  <2> QED
    BY <2>1, <2>2 DEF ClaimsOK
<1>4. ProvidersOK(r, p)
  BY <1>1, <1>2 DEF IsTurn, ProvidersOK, TurnsOK, NoClaim, Gens
<1>5. WaitsOK(r, p)
  BY <1>1, <1>2 DEF IsTurn, WaitsOK, TurnsOK
<1> QED
  BY <1>1, <1>3, <1>4, <1>5 DEF TurnsOK, IsTurn, r

(* The catch of a dispatch function whose provider is not at work, or not  *)
(* any more.                                                               *)
LEMMA AbandonKeeps ==
  ASSUME NEW t, NEW p, TurnsOK(t, p), NEW g \in Gens, t.stage[g] # "new",
         p[g] \in {"none", "over"}
  PROVE  TurnsOK(Abandoned(t, g), p)
<1> DEFINE r == Abandoned(t, g)
<1>1. IsTurn(r, t.gen, t.busy /\ t.gen # g, IF t.claim.of = g THEN NoClaim ELSE t.claim,
             [t.stage EXCEPT ![g] = "ended"],
             t.quarantine \ {g}, t.watched /\ t.gen # g, t.grace, t.frame)
  BY AbandonedFields DEF TurnsOK
<1> HIDE DEF r
<1>2. /\ t.gen \in Nat /\ t.stage \in [Gens -> Phases]
      /\ t.grace \subseteq Gens /\ t.frame \subseteq Gens
      /\ t.busy \in BOOLEAN /\ t.watched \in BOOLEAN
  BY DEF TurnsOK, Turn
<1>3. ClaimsOK(r)
  BY <1>1, <1>2 DEF IsTurn, ClaimsOK, TurnsOK, NoClaim, Gens
<1>4. ProvidersOK(r, p)
  BY <1>1, <1>2 DEF IsTurn, ProvidersOK, TurnsOK, AtWork, NoClaim
<1>5. WaitsOK(r, p)
  BY <1>1, <1>2 DEF IsTurn, WaitsOK, TurnsOK
<1> QED
  BY <1>1, <1>3, <1>4, <1>5 DEF TurnsOK, IsTurn, r

(* A bot that was not stopped meanwhile asks its provider. *)
LEMMA DispatchKeeps ==
  ASSUME NEW t, NEW p, TurnsOK(t, p), NEW g \in Gens, t.stage[g] = "setup",
         t.quarantine = {}, ClaimIsCurrent(t, g)
  PROVE  TurnsOK(Dispatching(t, g), [p EXCEPT ![g] = "asked"])
<1> DEFINE r == Dispatching(t, g)
           q == [p EXCEPT ![g] = "asked"]
<1>1. IsTurn(r, t.gen, t.busy, [of |-> g, phase |-> "dispatching"],
             [t.stage EXCEPT ![g] = "dispatching"],
             t.quarantine, TRUE, t.grace, t.frame)
  BY DispatchingFields DEF TurnsOK, ClaimIsCurrent
<1> HIDE DEF r
<1>2. /\ t.gen \in Nat /\ t.stage \in [Gens -> Phases] /\ p \in Providers
      /\ t.grace \subseteq Gens /\ t.frame \subseteq Gens
      /\ t.busy = TRUE /\ t.gen = g /\ g # 0
      /\ p[g] = "none" /\ \A h \in Gens : p[h] \notin AtWork
  <2>1. /\ t.gen \in Nat /\ t.stage \in [Gens -> Phases] /\ p \in Providers
        /\ t.grace \subseteq Gens /\ t.frame \subseteq Gens /\ g # 0
        /\ t.busy = TRUE /\ t.claim.of = g
    BY DEF TurnsOK, Turn, ClaimIsCurrent, Gens
  <2>2. t.gen = g
    BY <2>1 DEF TurnsOK, ClaimsOK, NoClaim
  <2>3. p[g] = "none"
    BY DEF TurnsOK, ProvidersOK
  <2>4. ASSUME NEW h \in Gens PROVE p[h] \notin AtWork
    BY <2>2, <2>3 DEF TurnsOK, ProvidersOK, AtWork
  <2> QED
    BY <2>1, <2>2, <2>3, <2>4
<1>3. q \in Providers /\ q[g] = "asked" /\ \A h \in Gens : h # g => q[h] = p[h]
  BY <1>2 DEF Providers, AtWork
<1> HIDE DEF q
<1>4. g \notin t.grace \union t.frame
  BY <1>2 DEF TurnsOK, WaitsOK
<1>5. ClaimsOK(r)
  BY <1>1, <1>2 DEF IsTurn, ClaimsOK, TurnsOK
<1>6. ProvidersOK(r, q)
  <2>1. r.claim.of = g /\ r.gen = g /\ r.busy
    BY <1>1, <1>2 DEF IsTurn
  <2>2. ASSUME NEW h \in Gens
        PROVE  /\ q[h] \in AtWork => h = g
               /\ r.stage[h] \in {"new", "setup"} => q[h] = "none"
               /\ q[h] = "asked" => h = g
    BY <1>1, <1>2, <1>3 DEF IsTurn, ProvidersOK, TurnsOK, AtWork
  <2> QED
    BY <2>1, <2>2 DEF ProvidersOK
<1>7. WaitsOK(r, q)
  BY <1>1, <1>2, <1>3, <1>4 DEF IsTurn, WaitsOK, TurnsOK
<1> QED
  BY <1>1, <1>3, <1>5, <1>6, <1>7 DEF TurnsOK, IsTurn, r, q

(* sendTurn answers: the claim is given back, the thread stays busy. *)
LEMMA AcknowledgeKeeps ==
  ASSUME NEW t, NEW p, TurnsOK(t, p), NEW g \in Gens, t.stage[g] = "dispatching",
         p[g] # "asked"
  PROVE  TurnsOK(Acknowledged(t, g), p)
<1> DEFINE r == Acknowledged(t, g)
<1>1. IsTurn(r, t.gen, t.busy, IF t.claim.of = g THEN NoClaim ELSE t.claim,
             [t.stage EXCEPT ![g] = "ended"],
             t.quarantine, t.watched, t.grace, t.frame)
  BY AcknowledgedFields DEF TurnsOK
<1> HIDE DEF r
<1>2. /\ t.gen \in Nat /\ t.stage \in [Gens -> Phases]
      /\ t.grace \subseteq Gens /\ t.frame \subseteq Gens
      /\ t.busy \in BOOLEAN /\ t.watched \in BOOLEAN
  BY DEF TurnsOK, Turn
<1>3. ClaimsOK(r)
  BY <1>1, <1>2 DEF IsTurn, ClaimsOK, TurnsOK, NoClaim, Gens
<1>4. ProvidersOK(r, p)
  BY <1>1, <1>2 DEF IsTurn, ProvidersOK, TurnsOK, AtWork, NoClaim
<1>5. WaitsOK(r, p)
  BY <1>1, <1>2 DEF IsTurn, WaitsOK, TurnsOK
<1> QED
  BY <1>1, <1>3, <1>4, <1>5 DEF TurnsOK, IsTurn, r

(* A late answer to a dispatch that was stopped. *)
LEMMA StoppingKeeps ==
  ASSUME NEW t, NEW p, TurnsOK(t, p), NEW g \in Gens, t.stage[g] = "dispatching",
         t.claim.of # g
  PROVE  TurnsOK([t EXCEPT !.stage[g] = "stopping"], p)
<1> DEFINE r == [t EXCEPT !.stage[g] = "stopping"]
<1>1. IsTurn(r, t.gen, t.busy, t.claim, [t.stage EXCEPT ![g] = "stopping"],
             t.quarantine, t.watched, t.grace, t.frame)
  BY StoppingFields DEF TurnsOK
<1> HIDE DEF r
<1>2. /\ t.gen \in Nat /\ t.stage \in [Gens -> Phases]
      /\ t.grace \subseteq Gens /\ t.frame \subseteq Gens
  BY DEF TurnsOK, Turn
<1>3. ClaimsOK(r)
  BY <1>1, <1>2 DEF IsTurn, ClaimsOK, TurnsOK, NoClaim, Gens
<1>4. ProvidersOK(r, p)
  BY <1>1, <1>2 DEF IsTurn, ProvidersOK, TurnsOK
<1>5. WaitsOK(r, p)
  BY <1>1, <1>2 DEF IsTurn, WaitsOK, TurnsOK
<1> QED
  BY <1>1, <1>3, <1>4, <1>5 DEF TurnsOK, IsTurn, r

(* An event that is ignored changes nothing that matters here. *)
LEMMA IgnoreKeeps ==
  ASSUME NEW t, NEW p, TurnsOK(t, p), NEW g \in Gens
  PROVE  TurnsOK(Ignored(t, g), p) /\ Ignored(t, g).stage = t.stage
<1> DEFINE r == Ignored(t, g)
<1>1. IsTurn(r, t.gen, t.busy, t.claim, t.stage,
             t.quarantine, t.watched, t.grace, t.frame)
  BY IgnoredFields DEF TurnsOK
<1> HIDE DEF r
<1> QED
  BY <1>1 DEF IsTurn, TurnsOK, ClaimsOK, ProvidersOK, WaitsOK, r

(* Nor does the settling of a follow-up. *)
LEMMA SettleKeeps ==
  ASSUME NEW t, NEW p, TurnsOK(t, p), NEW g
  PROVE  TurnsOK(FollowupSettled(t, g), p)
<1> DEFINE r == FollowupSettled(t, g)
<1>1. IsTurn(r, t.gen, t.busy, t.claim, t.stage,
             t.quarantine, t.watched, t.grace, t.frame)
  BY SettledFields DEF TurnsOK
<1> HIDE DEF r
<1> QED
  BY <1>1 DEF IsTurn, TurnsOK, ClaimsOK, ProvidersOK, WaitsOK, r

(* turn.completed frees the thread when no process is at work but in the   *)
(* quarantine.                                                             *)
LEMMA CompleteKeeps ==
  ASSUME NEW t, NEW p, TurnsOK(t, p), NEW framed \in BOOLEAN,
         t.gen \in Gens, p[t.gen] = "over", NEW g \in Gens,
         \A h \in Gens : p[h] \notin AtWork
  PROVE  TurnsOK(Completed(t, g, framed), p)
<1> DEFINE r == Completed(t, g, framed)
<1>1. IsTurn(r, t.gen, t.busy /\ framed, t.claim, t.stage, t.quarantine, FALSE, t.grace,
             IF framed THEN t.frame \union {t.gen} ELSE t.frame)
  BY CompletedFields DEF TurnsOK
<1> HIDE DEF r
<1>2. ClaimsOK(r)
  BY <1>1 DEF IsTurn, ClaimsOK, TurnsOK
<1>3. ProvidersOK(r, p)
  BY <1>1 DEF IsTurn, ProvidersOK, TurnsOK, AtWork
<1>4. WaitsOK(r, p)
  BY <1>1 DEF IsTurn, WaitsOK, TurnsOK
<1> QED
  BY <1>1, <1>2, <1>3, <1>4 DEF TurnsOK, IsTurn, r

(* A screen frame frees its own turn only, which is over. *)
LEMMA FrameKeeps ==
  ASSUME NEW t, NEW p, TurnsOK(t, p), NEW g \in Gens, g \in t.frame
  PROVE  TurnsOK(FrameTaken(t, g), p)
<1> DEFINE r == FrameTaken(t, g)
<1>1. IsTurn(r, t.gen, t.busy /\ t.gen # g, t.claim, t.stage,
             t.quarantine, t.watched, t.grace, t.frame \ {g})
  BY FrameTakenFields DEF TurnsOK
<1> HIDE DEF r
<1>2. p[g] = "over"
  BY DEF TurnsOK, WaitsOK
<1>3. ClaimsOK(r)
  BY <1>1 DEF IsTurn, ClaimsOK, TurnsOK
<1>4. ProvidersOK(r, p)
  BY <1>1, <1>2 DEF IsTurn, ProvidersOK, TurnsOK, AtWork
<1>5. WaitsOK(r, p)
  BY <1>1 DEF IsTurn, WaitsOK, TurnsOK
<1> QED
  BY <1>1, <1>3, <1>4, <1>5 DEF TurnsOK, IsTurn, r

(* The grace period of a stalled turn ends when its process is gone or in  *)
(* the quarantine.                                                         *)
LEMMA ReleaseKeeps ==
  ASSUME NEW t, NEW p, TurnsOK(t, p), NEW g \in Gens, g \in t.grace, p[g] # "dying"
  PROVE  TurnsOK(Released(t, g), p)
<1> DEFINE r == Released(t, g)
<1>1. IsTurn(r, t.gen, t.busy /\ t.gen # g, t.claim, t.stage,
             t.quarantine, t.watched, t.grace \ {g}, t.frame)
  BY ReleasedFields DEF TurnsOK
<1> HIDE DEF r
<1>2. p[g] \in AtWork => g \in t.quarantine
  BY DEF TurnsOK, WaitsOK, AtWork
<1>3. ClaimsOK(r)
  BY <1>1 DEF IsTurn, ClaimsOK, TurnsOK
<1>4. ProvidersOK(r, p)
  BY <1>1, <1>2 DEF IsTurn, ProvidersOK, TurnsOK
<1>5. WaitsOK(r, p)
  BY <1>1 DEF IsTurn, WaitsOK, TurnsOK
<1> QED
  BY <1>1, <1>3, <1>4, <1>5 DEF TurnsOK, IsTurn, r

(* The quarantine of a handshake that hangs. *)
LEMMA ExpireKeeps ==
  ASSUME NEW t, NEW p, TurnsOK(t, p), NEW g \in Gens, p[g] = "hung"
  PROVE  TurnsOK([t EXCEPT !.quarantine = @ \ {g}], p)
<1> DEFINE r == [t EXCEPT !.quarantine = @ \ {g}]
<1>1. IsTurn(r, t.gen, t.busy, t.claim, t.stage,
             t.quarantine \ {g}, t.watched, t.grace, t.frame)
  BY ExpiredFields DEF TurnsOK
<1> HIDE DEF r
<1>2. ClaimsOK(r)
  BY <1>1 DEF IsTurn, ClaimsOK, TurnsOK
<1>3. ProvidersOK(r, p)
  BY <1>1 DEF IsTurn, ProvidersOK, TurnsOK, AtWork
<1>4. WaitsOK(r, p)
  BY <1>1 DEF IsTurn, WaitsOK, TurnsOK
<1> QED
  BY <1>1, <1>2, <1>3, <1>4 DEF TurnsOK, IsTurn, r

(* What a process may become without a word to the server. *)

(* A provider moves on: it starts, hangs, falls silent or is over. *)
LEMMA MoveKeeps ==
  ASSUME NEW t, NEW p, TurnsOK(t, p), NEW g \in Gens, NEW to \in AtWork \union {"hung", "over"},
         p[g] \in AtWork, to # "asked",
         to \in {"live", "wedged"} => p[g] = "asked" \/ (p[g] = "live" /\ to = "wedged")
  PROVE  TurnsOK(t, [p EXCEPT ![g] = to])
<1> DEFINE q == [p EXCEPT ![g] = to]
<1>1. p \in Providers
  BY DEF TurnsOK
<1>2. q \in Providers /\ q[g] = to /\ \A h \in Gens : h # g => q[h] = p[h]
  BY <1>1 DEF Providers
<1> HIDE DEF q
<1>3. \A h \in Gens : q[h] \in AtWork => p[h] \in AtWork
  BY <1>2
<1>4. ProvidersOK(t, q)
  <2>1. ASSUME NEW h \in Gens, t.stage[h] \in {"new", "setup"} PROVE q[h] = "none"
    BY <1>2, <2>1 DEF TurnsOK, ProvidersOK, AtWork
  <2>2. ASSUME NEW h \in Gens, q[h] = "asked" PROVE h \in t.quarantine \/ t.claim.of = h
    BY <1>2, <2>2 DEF TurnsOK, ProvidersOK
  <2> QED
    BY <1>3, <2>1, <2>2 DEF TurnsOK, ProvidersOK
<1>5. WaitsOK(t, q)
  <2>1. ASSUME NEW h \in t.frame PROVE q[h] = "over"
    BY <1>2 DEF TurnsOK, WaitsOK, AtWork, Turn
  <2>2. ASSUME NEW h \in t.grace, q[h] \in {"asked", "live", "wedged"} PROVE h \in t.quarantine
    BY <1>2, <2>2 DEF TurnsOK, WaitsOK, Turn
  <2> QED
    BY <2>1, <2>2 DEF TurnsOK, WaitsOK
<1> QED
  BY <1>2, <1>4, <1>5 DEF TurnsOK, q

(* An interrupt: what is live or silent is about to be gone. *)
LEMMA InterruptKeeps ==
  ASSUME NEW t, NEW p, TurnsOK(t, p), NEW g \in Gens
  PROVE  TurnsOK(t, [p EXCEPT ![g] = InterruptTurn(@)])
<1>1. CASE p[g] \in {"live", "wedged"}
  <2>1. p \in Providers /\ p[g] \in AtWork /\ InterruptTurn(p[g]) = "dying"
    BY <1>1 DEF TurnsOK, AtWork, InterruptTurn
  <2>2. TurnsOK(t, [p EXCEPT ![g] = "dying"])
    BY <2>1, MoveKeeps DEF AtWork
  <2> QED
    BY <2>1, <2>2
<1>2. CASE p[g] \notin {"live", "wedged"}
  <2>1. [p EXCEPT ![g] = InterruptTurn(@)] = p
    BY <1>2 DEF InterruptTurn, TurnsOK, Providers
  <2> QED
    BY <2>1
<1> QED
  BY <1>1, <1>2


(* The stop button: a claim is cancelled, what is live is interrupted, or, *)
(* while it answers the handshake, not.                                    *)
LEMMA StopKeeps ==
  ASSUME NEW t, NEW p, TurnsOK(t, p), ThreadBusy(t)
  PROVE  LET u == IF t.claim = NoClaim THEN t ELSE Unclaimed(t) IN
         /\ TurnsOK(u, p)
         /\ TurnsOK(u, [p EXCEPT ![t.gen] = InterruptTurn(@)])
<1> DEFINE u == IF t.claim = NoClaim THEN t ELSE Unclaimed(t)
<1>1. /\ t \in Turn /\ p \in Providers /\ t.gen \in Gens
      /\ t.claim.phase = "setup" \/ t.claim.of = t.gen
  BY DEF TurnsOK, Turn, ClaimsOK, ThreadBusy, NoClaim, Gens
<1> DEFINE quarantine == IF t.claim.phase = "setup" THEN t.quarantine
                         ELSE t.quarantine \union {t.claim.of}
<1>2. IsTurn(u, t.gen, t.busy, NoClaim, t.stage, quarantine, t.watched, t.grace, t.frame)
  BY <1>1, UnclaimedFields DEF IsTurn, NoClaim
<1>3. \A g \in t.quarantine : g \in quarantine
  OBVIOUS
<1>4. t.claim.of \in Gens => t.claim.of \in quarantine \/ t.stage[t.claim.of] = "setup"
  BY DEF TurnsOK, ClaimsOK, NoClaim, Gens
<1> HIDE DEF u, quarantine
<1>5. ClaimsOK(u)
  BY <1>2 DEF IsTurn, TurnsOK, ClaimsOK
<1>6. ProvidersOK(u, p)
  BY <1>2, <1>3, <1>4 DEF IsTurn, TurnsOK, ProvidersOK
<1>7. WaitsOK(u, p)
  BY <1>2, <1>3 DEF IsTurn, TurnsOK, WaitsOK
<1>8. TurnsOK(u, p)
  BY <1>1, <1>2, <1>5, <1>6, <1>7 DEF TurnsOK, IsTurn
<1>9. TurnsOK(u, [p EXCEPT ![t.gen] = InterruptTurn(@)])
  BY <1>1, <1>8, InterruptKeeps DEF Providers
<1> QED
  BY <1>8, <1>9 DEF u

(* The watchdog: as a stop, and a grace period begins.                     *)
LEMMA StallKeeps ==
  ASSUME NEW t, NEW p, TurnsOK(t, p), t.watched, p[t.gen] \notin {"live", "dying"}
  PROVE  TurnsOK(Stalled(t), [p EXCEPT ![t.gen] = InterruptTurn(@)])
<1> DEFINE r == Stalled(t)
           q == [p EXCEPT ![t.gen] = InterruptTurn(@)]
           quarantine == IF t.claim.phase = "setup" THEN t.quarantine
                         ELSE t.quarantine \union {t.claim.of}
<1>1. /\ t \in Turn /\ p \in Providers /\ t.gen \in Gens
      /\ t.claim.phase = "setup" \/ t.claim.of = t.gen
  BY DEF TurnsOK, Turn, ClaimsOK, WaitsOK, NoClaim, Gens
<1>2. IsTurn(r, t.gen, t.busy, NoClaim, t.stage, quarantine, FALSE,
             t.grace \union {t.gen}, t.frame)
  BY <1>1, StalledFields
<1>3. \A g \in t.quarantine : g \in quarantine
  OBVIOUS
<1>4. /\ t.claim.of \in Gens => t.claim.of \in quarantine \/ t.stage[t.claim.of] = "setup"
      /\ t.stage[t.gen] \notin {"new", "setup"}
      /\ p[t.gen] = "asked" => t.gen \in quarantine
  <2>1. t.claim.of \in Gens => t.claim.of \in quarantine \/ t.stage[t.claim.of] = "setup"
    BY DEF TurnsOK, ClaimsOK, NoClaim, Gens
  <2>2. t.stage[t.gen] \notin {"new", "setup"}
    BY <1>1 DEF TurnsOK, WaitsOK, ClaimsOK, Turn, Gens
  <2>3. p[t.gen] = "asked" => t.gen \in t.quarantine \/ t.claim.of = t.gen
    BY <1>1 DEF TurnsOK, ProvidersOK
  <2> QED
    BY <1>1, <1>3, <2>1, <2>2, <2>3
<1>5. TurnsOK(t, q)
  BY <1>1, InterruptKeeps
<1>6. q[t.gen] \in {"asked", "live", "wedged"} => t.gen \in quarantine
  BY <1>1, <1>4 DEF InterruptTurn, Providers
<1> HIDE DEF r, q, quarantine
<1>7. ClaimsOK(r)
  BY <1>2, <1>5 DEF IsTurn, TurnsOK, ClaimsOK
<1>8. ProvidersOK(r, q)
  BY <1>2, <1>3, <1>4, <1>5 DEF IsTurn, TurnsOK, ProvidersOK
<1>9. WaitsOK(r, q)
  <2>1. ASSUME NEW g \in r.grace
        PROVE  /\ r.stage[g] \notin {"new", "setup"}
               /\ q[g] \in {"asked", "live", "wedged"} => g \in r.quarantine
    BY <1>2, <1>3, <1>4, <1>5, <1>6 DEF IsTurn, TurnsOK, WaitsOK
  <2>2. \A g \in r.frame : q[g] = "over"
    BY <1>2, <1>5 DEF IsTurn, TurnsOK, WaitsOK
  <2> QED
    BY <1>2, <2>1, <2>2 DEF IsTurn, WaitsOK
<1> QED
  BY <1>2, <1>5, <1>7, <1>8, <1>9 DEF TurnsOK, IsTurn, r, q

(* A crash takes every process and all of the bookkeeping. *)
LEMMA LoseKeeps ==
  ASSUME NEW t, NEW p, TurnsOK(t, p)
  PROVE  TurnsOK(TurnsLost(t), [g \in Gens |-> "none"])
<1> DEFINE r == TurnsLost(t)
           q == [g \in Gens |-> "none"]
           stage == [g \in Gens |-> IF g <= t.gen THEN "ended" ELSE "new"]
<1>1. IsTurn(r, t.gen, FALSE, NoClaim, stage, {}, FALSE, {}, {})
  BY LostFields DEF TurnsOK
<1>2. t.gen \in 0 .. MaxTurns
  BY DEF TurnsOK, Turn
<1>3. \A g \in Gens : stage[g] = "new" <=> g > t.gen
  BY <1>2, MaxTurnsAssumption DEF Gens
<1>4. q \in Providers /\ \A g \in Gens : q[g] = "none"
  BY DEF Providers
<1> HIDE DEF r, q, stage
<1>5. ClaimsOK(r)
  BY <1>1, <1>3 DEF IsTurn, ClaimsOK
<1>6. ProvidersOK(r, q)
  BY <1>1, <1>4 DEF IsTurn, ProvidersOK, AtWork
<1>7. WaitsOK(r, q)
  BY <1>1 DEF IsTurn, WaitsOK
<1> QED
  BY <1>1, <1>4, <1>5, <1>6, <1>7 DEF TurnsOK, IsTurn, r, q

-----------------------------------------------------------------------------
(* The invariant of turns holds in every state. *)

(* The drain that ends a handler leaves the turn alone or starts the next. *)
LEMMA DrainKeeps ==
  ASSUME NEW t, NEW c, NEW free, TurnsOK(t, provider'), Drain(t, c, free)
  PROVE  TurnsOK(turn', provider')
<1>1. turn' = t \/ (~ThreadBusy(t) /\ t.gen < MaxTurns /\ turn' = Claimed(t))
  <2>1. t.gen \in 0 .. MaxTurns
    BY DEF TurnsOK, Turn
  <2> QED
    BY <2>1, MaxTurnsAssumption DEF Drain
<1>2. CASE turn' = t
  BY <1>2
<1>3. CASE ~ThreadBusy(t) /\ t.gen < MaxTurns /\ turn' = Claimed(t)
  BY <1>3, ClaimKeeps
<1> QED
  BY <1>1, <1>2, <1>3

(* A turn settles, and the queue is drained or not. *)
LEMMA ThenKeeps ==
  ASSUME NEW t, TurnsOK(t, provider'), Then(t) \/ Only(t)
  PROVE  TurnsOK(turn', provider')
  BY DrainKeeps DEF Then, Only

(* The catch of a dispatch function. *)
LEMMA AbandonStep ==
  ASSUME NEW g \in Gens, NEW t, TurnsOK(t, provider'), t.stage[g] # "new",
         provider'[g] \in {"none", "over"}, Abandon(t, g)
  PROVE  TurnsOK(turn', provider')
<1>1. TurnsOK(Abandoned(t, g), provider')
  BY AbandonKeeps
<1> QED
  BY <1>1, ThenKeeps DEF Abandon

(* One case for each action that has to do with turns. *)
LEMMA TurnStep ==
  ASSUME TurnsOK(turn, provider), DownInv, [Next]_vars
  PROVE  TurnsOK(turn', provider')
<1>1. ASSUME turn' = turn, provider' = provider
      PROVE  TurnsOK(turn', provider')
  BY <1>1
<1>2. ASSUME NEW s, StartOrQueue(s), provider' = provider
      PROVE  TurnsOK(turn', provider')
  <2>1. turn' = turn \/ (~ThreadBusy(turn) /\ turn.gen < MaxTurns /\ turn' = Claimed(turn))
    BY <1>2 DEF StartOrQueue, Queue, Refuse
  <2> QED
    BY <1>2, <2>1, ClaimKeeps
<1>3. ASSUME NEW s \in Sends, NEW a \in Attempts, Send(s, a)
      PROVE  TurnsOK(turn', provider')
  BY <1>1, <1>2, <1>3 DEF Send, Queue, Refuse
<1>4. ASSUME NEW s \in Sends, CancelQueued(s) \/ RecoverRow(s)
      PROVE  TurnsOK(turn', provider')
  BY <1>1, <1>4 DEF CancelQueued, RecoverRow
<1>5. ASSUME NEW q \in asking, SteerTaken(q) \/ SteerReturns(q)
      PROVE  TurnsOK(turn', provider')
  BY <1>1, <1>2, <1>5 DEF SteerTaken, SteerReturns, Refuse, Queue
<1>6. CASE DeleteTask
  <2>1. TurnsOK(FollowupSettled(turn, turn.gen), provider)
    BY SettleKeeps
  <2> QED
    BY <1>6, <2>1 DEF DeleteTask
<1>7. CASE Stop
  BY <1>7, StopKeeps DEF Stop
<1>8. CASE Stall
  <2>1. TurnsOK(Stalled(turn), provider')
    BY <1>8, StallKeeps DEF Stall
  <2> QED
    BY <1>8, <2>1, ThenKeeps DEF Stall
<1>9. ASSUME NEW g \in Gens, ProviderSteps(g)
      PROVE  TurnsOK(turn', provider')
  <2>1. ASSUME NEW as \in {"live", "hung"}, ProviderStarts(g, as)
        PROVE  TurnsOK(turn', provider')
    BY <2>1, MoveKeeps DEF ProviderStarts, AtWork
  <2>2. CASE ProviderRefuses(g)
    <3>1. TurnsOK(turn, provider')
      BY <2>2, MoveKeeps DEF ProviderRefuses, AtWork
    <3>2. provider'[g] = "over" /\ turn.stage[g] # "new"
      BY <2>2 DEF ProviderRefuses, TurnsOK, Providers, ProvidersOK
    <3> QED
      BY <2>2, <3>1, <3>2, AbandonStep DEF ProviderRefuses
  <2>3. ASSUME NEW framed \in BOOLEAN, Completes(g, framed)
        PROVE  TurnsOK(turn', provider')
    <3>1. TurnsOK(turn, provider')
      BY <2>3, MoveKeeps DEF Completes, AtWork
    <3>2. CASE Quarantined(turn, g)
      <4>1. TurnsOK(Ignored(turn, g), provider')
        BY <3>1, IgnoreKeeps
      <4> QED
        BY <2>3, <3>2, <4>1, ThenKeeps DEF Completes
    <3>3. CASE ~Quarantined(turn, g)
      <4>1. turn.gen = g
        BY <2>3, <3>3 DEF Completes, Quarantined, TurnsOK, ProvidersOK, AtWork
      <4>2. provider'[g] = "over" /\ \A h \in Gens : provider'[h] \notin AtWork
        BY <2>3 DEF Completes, TurnsOK, ProvidersOK, Providers, AtWork
      <4>3. TurnsOK(Completed(turn, g, framed), provider')
        BY <3>1, <4>1, <4>2, CompleteKeeps
      <4> QED
        BY <2>3, <3>3, <4>3, ThenKeeps DEF Completes
    <3> QED
      BY <3>2, <3>3
  <2> QED
    BY <1>9, <2>1, <2>2, <2>3 DEF ProviderSteps
<1>10. ASSUME NEW g \in Gens, SetupEnds(g) \/ SetupFails(g)
       PROVE  TurnsOK(turn', provider')
  <2>1. turn.stage[g] = "setup" /\ provider[g] = "none"
    BY <1>10 DEF SetupEnds, SetupFails, TurnsOK, ProvidersOK
  <2>2. CASE SetupEnds(g) /\ ClaimIsCurrent(turn, g)
    BY <2>2, DispatchKeeps DEF SetupEnds
  <2>3. CASE Abandon(turn, g) /\ UNCHANGED provider
    BY <2>1, <2>3, AbandonStep
  <2> QED
    BY <1>10, <2>2, <2>3 DEF SetupEnds, SetupFails
<1>11. ASSUME NEW g \in Gens, Answers(g)
       PROVE  TurnsOK(turn', provider')
  <2>1. turn.stage[g] = "dispatching" /\ provider[g] # "asked"
    BY <1>11 DEF Answers
  <2>2. CASE turn.claim.of = g
    <3>1. TurnsOK(Acknowledged(turn, g), provider)
      BY <2>1, AcknowledgeKeeps
    <3> QED
      BY <1>11, <2>2, <3>1, ThenKeeps DEF Answers
  <2>3. CASE turn.claim.of # g
    <3>1. TurnsOK([turn EXCEPT !.stage[g] = "stopping"], provider)
      BY <2>1, <2>3, StoppingKeeps
    <3> QED
      BY <1>11, <2>3, <3>1, InterruptKeeps DEF Answers
  <2> QED
    BY <2>2, <2>3
<1>12. ASSUME NEW g \in Gens, StopSettles(g)
       PROVE  TurnsOK(turn', provider')
  <2>1. TurnsOK(Ignored(turn, g), provider) /\ Ignored(turn, g).stage = turn.stage
    BY IgnoreKeeps
  <2> QED
    BY <1>12, <2>1, AbandonStep DEF StopSettles
<1>13. ASSUME NEW g \in Gens, FrameArrives(g)
       PROVE  TurnsOK(turn', provider')
  <2>1. TurnsOK(FrameTaken(turn, g), provider)
    BY <1>13, FrameKeeps DEF FrameArrives
  <2> QED
    BY <1>13, <2>1, ThenKeeps DEF FrameArrives
<1>14. ASSUME NEW g \in Gens, GraceEnds(g)
       PROVE  TurnsOK(turn', provider')
  <2>1. TurnsOK(Released(turn, g), provider)
    BY <1>14, ReleaseKeeps DEF GraceEnds
  <2> QED
    BY <1>14, <2>1, ThenKeeps DEF GraceEnds
<1>15. ASSUME NEW g \in Gens, QuarantineExpires(g)
       PROVE  TurnsOK(turn', provider')
  BY <1>15, ExpireKeeps DEF QuarantineExpires
<1>16. ASSUME NEW g \in Gens, Wedges(g)
       PROVE  TurnsOK(turn', provider')
  <2>1. TurnsOK(turn, [provider EXCEPT ![g] = IF provider[g] = "live" THEN "wedged" ELSE "over"])
    BY <1>16, MoveKeeps DEF Wedges, AtWork
  <2> QED
    BY <1>16, <2>1 DEF Wedges
<1>17. CASE OtherEnds \/ Listen
  BY <1>17, DrainKeeps DEF OtherEnds, Listen
<1>18. CASE Crash
  BY <1>18, LoseKeeps DEF Crash
<1>19. CASE ChannelWaits \/ ChannelEnds \/ (\E kind \in {"threads", "channel"} : OtherBegins(kind))
  BY <1>1, <1>19 DEF ChannelWaits, ChannelEnds, OtherBegins
<1>20. CASE UNCHANGED vars
  BY <1>1, <1>20 DEF vars
<1> QED
  BY <1>3, <1>4, <1>5, <1>6, <1>7, <1>8, <1>9, <1>10, <1>11, <1>12, <1>13, <1>14,
     <1>15, <1>16, <1>17, <1>18, <1>19, <1>20 DEF Next, ServerSteps

(* Only a crash takes the server down, and until it listens again only the *)
(* recovery is at work.                                                    *)
LEMMA DownStep ==
  ASSUME TurnsOK(turn, provider), DownInv, [Next]_vars
  PROVE  /\ DownInv'
         /\ ~up => \/ UNCHANGED vars \/ Crash \/ Listen
                   \/ \E s \in Sends : RecoverRow(s)
<1>1. CASE Crash
  <2>1. IsTurn(turn', turn.gen, FALSE, NoClaim,
               [g \in Gens |-> IF g <= turn.gen THEN "ended" ELSE "new"],
               {}, FALSE, {}, {})
    BY <1>1, LostFields DEF Crash, TurnsOK
  <2>2. \A g \in Gens : turn'.stage[g] \in {"new", "ended"} /\ provider'[g] = "none"
    BY <1>1, <2>1 DEF IsTurn, Crash
  <2>3. chat'.queue = {}
    BY <1>1 DEF Crash
  <2>4. ~ThreadBusy(turn') /\ ~turn'.watched
        /\ turn'.frame = {} /\ turn'.grace = {} /\ turn'.quarantine = {}
    BY <2>1 DEF IsTurn, ThreadBusy
  <2> QED
    BY <1>1, <2>2, <2>3, <2>4 DEF Crash, DownInv
<1>2. CASE up /\ ~Crash
  <2>1. up' = TRUE
    BY <1>2 DEF Next, vars, Send, CancelQueued, RecoverRow, SteerTaken, SteerReturns,
       DeleteTask, Stop, Stall, ProviderSteps, ProviderStarts, ProviderRefuses, Completes,
       ServerSteps, SetupEnds, Answers, StopSettles, FrameArrives, GraceEnds,
       QuarantineExpires, SetupFails, Wedges, OtherBegins, ChannelWaits, OtherEnds, ChannelEnds,
       Listen
  <2> QED
    BY <1>2, <2>1 DEF DownInv
<1>3. CASE ~up /\ ~Crash
  <2>1. UNCHANGED vars \/ Listen \/ \E s \in Sends : RecoverRow(s)
    <3>1. /\ asking = {} /\ other = "none" /\ ~ThreadBusy(turn) /\ ~turn.watched
          /\ turn.frame = {} /\ turn.grace = {} /\ turn.quarantine = {}
          /\ \A g \in Gens : turn.stage[g] \in {"new", "ended"} /\ provider[g] = "none"
      BY <1>3 DEF DownInv
    <3>2. \A g \in Gens : ~ProviderSteps(g) /\ ~ServerSteps(g) /\ ~SetupFails(g) /\ ~Wedges(g)
      BY <3>1 DEF ProviderSteps, ProviderStarts, ProviderRefuses, Completes,
         ServerSteps, SetupEnds, Answers, StopSettles, FrameArrives, GraceEnds,
         QuarantineExpires, SetupFails, Wedges
    <3>3. ~Stop /\ ~Stall /\ ~ChannelWaits /\ ~OtherEnds /\ ~ChannelEnds /\ ~DeleteTask
          /\ \A kind \in {"threads", "channel"} : ~OtherBegins(kind)
      BY <1>3, <3>1 DEF Stop, Stall, ChannelWaits, OtherEnds, ChannelEnds, DeleteTask, OtherBegins
    <3>4. \A s \in Sends : ~CancelQueued(s) /\ \A a \in Attempts : ~Send(s, a)
      BY <1>3 DEF CancelQueued, Send
    <3> QED
      BY <1>3, <3>1, <3>2, <3>3, <3>4 DEF Next
  <2>2. CASE UNCHANGED vars
    BY <2>2 DEF vars, DownInv
  <2>3. CASE Listen
    BY <2>3 DEF Listen, DownInv
  <2>4. ASSUME NEW s \in Sends, RecoverRow(s) PROVE DownInv'
    <3>1. chat'.queue = chat.queue
      BY <2>4 DEF RecoverRow, RowMarked, RowTold, RowsSet, Appended
    <3> QED
      BY <2>4, <3>1 DEF RecoverRow, DownInv
  <2> QED
    BY <1>3, <2>1, <2>2, <2>3, <2>4
<1> QED
  BY <1>1, <1>2, <1>3

-----------------------------------------------------------------------------
(* The transcript, rows and queue after each operation of FollowUps.       *)

(* SetToSeq lists a finite set: everything, and everything once. *)
LEMMA ListedOnce ==
  ASSUME NEW S, IsFiniteSet(S)
  PROVE  LET q == SetToSeq(S) IN
         /\ q \in Seq(S) /\ Len(q) = Cardinality(S) /\ Cardinality(S) \in Nat
         /\ \A i, j \in 1 .. Len(q) : q[i] = q[j] => i = j
         /\ \A x \in S : \E i \in 1 .. Len(q) : q[i] = x
<1> DEFINE n == Cardinality(S)
           q == SetToSeq(S)
<1>1. n \in Nat /\ ExistsBijection(1 .. n, S)
  BY FS_CardinalityType
<1>2. \E f \in [1 .. n -> S] : IsInjective(f)
  BY <1>1 DEF ExistsBijection, Bijection, Injection
<1>3. q \in [1 .. n -> S] /\ IsInjective(q)
  BY <1>2 DEF SetToSeq
<1>4. q \in Injection(1 .. n, S)
  BY <1>3 DEF Injection
<1>5. IsFiniteSet(1 .. n) /\ Cardinality(1 .. n) = n
  BY <1>1, FS_Interval
<1>6. q \in Surjection(1 .. n, S)
  BY <1>4, <1>5, FS_Injection
<1> HIDE DEF q, n
<1>7. q \in Seq(S) /\ Len(q) = n
  BY <1>1, <1>3
<1>8. \A x \in S : \E i \in 1 .. n : q[i] = x
  BY <1>6 DEF Surjection
<1>9. \A i, j \in 1 .. n : q[i] = q[j] => i = j
  BY <1>3 DEF IsInjective
<1> QED
  BY <1>1, <1>7, <1>8, <1>9 DEF q, n

(* The entries of a set of messages are finitely many. *)
LEMMA EntriesFinite ==
  ASSUME NEW sends \in SUBSET Sends, NEW kind \in Kinds
  PROVE  LET S == {[send |-> s, kind |-> kind] : s \in sends} IN
         IsFiniteSet(S) /\ S \subseteq Entries
<1> DEFINE S == {[send |-> s, kind |-> kind] : s \in sends}
           f == [s \in sends |-> [send |-> s, kind |-> kind]]
<1>1. IsFiniteSet(sends)
  BY SendsAssumption, FS_Subset
<1>2. f \in Surjection(sends, S)
  BY DEF Surjection
<1>3. IsFiniteSet(S)
  BY <1>1, <1>2, FS_Surjection
<1> QED
  BY <1>3 DEF Entries

IsChat(r, queue, rows, log, synced, owned) ==
  /\ r \in Chat
  /\ r.queue = queue /\ r.rows = rows /\ r.log = log /\ r.synced = synced /\ r.owned = owned

(* log ends with one entry of that kind for each of the messages. *)
Extends(new, old, sends, kind) ==
  /\ new \in Seq(Entries) /\ Len(new) >= Len(old)
  /\ \A i \in 1 .. Len(old) : new[i] = old[i]
  /\ \A i \in (Len(old) + 1) .. Len(new) : \E s \in sends : new[i] = [send |-> s, kind |-> kind]
  /\ \A i, j \in (Len(old) + 1) .. Len(new) : new[i] = new[j] => i = j
  /\ \A s \in sends : \E i \in (Len(old) + 1) .. Len(new) : new[i] = [send |-> s, kind |-> kind]

(* The transcript grows by one entry for each message, and nothing else changes. *)
LEMMA AppendedFields ==
  ASSUME NEW c \in Chat, NEW sends \in SUBSET Sends, NEW kind \in Kinds
  PROVE  LET a == Appended(c, sends, kind) IN
         /\ IsChat(a, c.queue, c.rows, a.log, c.synced, c.owned)
         /\ Extends(a.log, c.log, sends, kind)
<1> DEFINE S == {[send |-> s, kind |-> kind] : s \in sends}
           q == SetToSeq(S)
           log == c.log \o q
           a == [c EXCEPT !.log = log]
<1>1. IsFiniteSet(S) /\ S \subseteq Entries
  BY EntriesFinite
<1>2. /\ q \in Seq(S) /\ Len(q) \in Nat
      /\ \A i, j \in 1 .. Len(q) : q[i] = q[j] => i = j
      /\ \A x \in S : \E i \in 1 .. Len(q) : q[i] = x
  BY <1>1, ListedOnce
<1>3. Appended(c, sends, kind) = a
  BY DEF Appended, Chat
<1>4. \A x \in S : \E s \in sends : x = [send |-> s, kind |-> kind]
  OBVIOUS
<1>5. \A s \in sends : [send |-> s, kind |-> kind] \in S
  OBVIOUS
<1> HIDE DEF q, S
<1>6. c.log \in Seq(Entries) /\ Len(c.log) \in Nat
  BY DEF Chat
<1>7. q \in Seq(Entries)
  BY <1>1, <1>2
<1>8. log \in Seq(Entries) /\ Len(log) = Len(c.log) + Len(q)
  BY <1>6, <1>7
<1>9. \A i \in 1 .. Len(c.log) : log[i] = c.log[i]
  BY <1>6, <1>7
<1>10. \A i \in (Len(c.log) + 1) .. Len(log) :
         i - Len(c.log) \in 1 .. Len(q) /\ log[i] = q[i - Len(c.log)]
  BY <1>2, <1>6, <1>7, <1>8
<1>11. \A i \in 1 .. Len(q) : i + Len(c.log) \in (Len(c.log) + 1) .. Len(log)
                              /\ log[i + Len(c.log)] = q[i]
  BY <1>2, <1>6, <1>7, <1>8
<1>12. \A i \in 1 .. Len(q) : q[i] \in S
  BY <1>2
<1> HIDE DEF log
<1>13. Extends(log, c.log, sends, kind)
  <2>1. \A i \in (Len(c.log) + 1) .. Len(log) :
          \E s \in sends : log[i] = [send |-> s, kind |-> kind]
    BY <1>4, <1>10, <1>12
  <2>2. ASSUME NEW i \in (Len(c.log) + 1) .. Len(log), NEW j \in (Len(c.log) + 1) .. Len(log),
               log[i] = log[j]
        PROVE  i = j
    <3> DEFINE x == i - Len(c.log)
               y == j - Len(c.log)
    <3>1. x \in 1 .. Len(q) /\ y \in 1 .. Len(q) /\ log[i] = q[x] /\ log[j] = q[y]
      BY <1>10
    <3>2. i \in Nat /\ j \in Nat
      BY <1>6, <1>8, <1>2
    <3> HIDE DEF x, y
    <3>3. x = y
      BY <1>2, <2>2, <3>1
    <3> QED
      BY <1>6, <3>2, <3>3 DEF x, y
  <2>3. ASSUME NEW s \in sends
        PROVE  \E i \in (Len(c.log) + 1) .. Len(log) : log[i] = [send |-> s, kind |-> kind]
    <3>1. PICK i \in 1 .. Len(q) : q[i] = [send |-> s, kind |-> kind]
      BY <1>2, <1>5
    <3>2. /\ i + Len(c.log) \in (Len(c.log) + 1) .. Len(log)
          /\ log[i + Len(c.log)] = [send |-> s, kind |-> kind]
      BY <1>11, <3>1
    <3> QED
      BY <3>2
  <2>4. Len(log) >= Len(c.log)
    BY <1>2, <1>6, <1>8
  <2> QED
    BY <1>8, <1>9, <2>1, <2>2, <2>3, <2>4 DEF Extends
<1>14. IsChat(a, c.queue, c.rows, log, c.synced, c.owned)
  <2>1. a.queue = c.queue /\ a.rows = c.rows /\ a.log = log /\ a.synced = c.synced
        /\ a.owned = c.owned
    BY DEF Chat
  <2>2. a \in Chat
    BY <1>8, <2>1 DEF Chat
  <2> QED
    BY <2>1, <2>2 DEF IsChat
<1> QED
  BY <1>3, <1>13, <1>14 DEF IsChat

(* settleChatFollowups *)
LEMMA RowsSetFields ==
  ASSUME NEW c \in Chat, NEW sends \in SUBSET Sends, NEW status \in Statuses
  PROVE  IsChat(RowsSet(c, sends, status), c.queue,
                [s \in Sends |-> IF s \in sends THEN status ELSE c.rows[s]],
                c.log, IF sends = {} THEN c.synced ELSE Len(c.log), c.owned)
<1> DEFINE rows == [s \in Sends |-> IF s \in sends THEN status ELSE c.rows[s]]
           synced == Len(c.log)
           r == [c EXCEPT !.rows = rows, !.synced = synced]
<1>1. rows \in [Sends -> Statuses] /\ synced \in Nat
  BY DEF Chat
<1>2. CASE sends = {}
  <2>1. rows = c.rows
    BY <1>2 DEF Chat
  <2> QED
    BY <1>2, <2>1 DEF RowsSet, IsChat
<1>3. CASE sends # {}
  <2>1. RowsSet(c, sends, status) = r
    BY <1>3 DEF RowsSet, Chat
  <2> HIDE DEF rows, synced
  <2>2. r.queue = c.queue /\ r.rows = rows /\ r.log = c.log /\ r.synced = synced
        /\ r.owned = c.owned
    BY DEF Chat
  <2>3. r \in Chat
    BY <1>1, <2>2 DEF Chat
  <2> QED
    BY <1>3, <2>1, <2>2, <2>3 DEF IsChat, rows, synced
<1> QED
  BY <1>2, <1>3

(* The queue is memory: it changes alone. *)
LEMMA RequeuedFields ==
  ASSUME NEW c \in Chat, NEW queue \in SUBSET Sends
  PROVE  IsChat([c EXCEPT !.queue = queue], queue, c.rows, c.log, c.synced, c.owned)
  BY DEF Chat, IsChat

-----------------------------------------------------------------------------
(* What can be said of a transcript that has grown, or been flushed.       *)

(* An entry of the transcript is its message and its kind. *)
LEMMA Entry ==
  ASSUME NEW c \in Chat, NEW i \in DOMAIN c.log
  PROVE  /\ i \in 1 .. Len(c.log) /\ Len(c.log) \in Nat /\ c.synced \in Nat
         /\ c.log[i] \in Entries
         /\ c.log[i] = [send |-> c.log[i].send, kind |-> c.log[i].kind]
<1>1. c.log \in Seq(Entries) /\ c.synced \in Nat
  BY DEF Chat
<1>2. i \in 1 .. Len(c.log) /\ Len(c.log) \in Nat /\ c.log[i] \in Entries
  BY <1>1
<1>3. \A e \in Entries : e = [send |-> e.send, kind |-> e.kind]
  BY DEF Entries
<1> QED
  BY <1>1, <1>2, <1>3

(* A message is in the transcript when one of three kinds of entry is. *)
LEMMA TranscriptIsEntries ==
  ASSUME NEW c \in Chat, NEW s \in Sends
  PROVE  InTranscript(c, s) <=> \E kind \in Words : HasEntry(c, s, kind)
<1>1. ASSUME NEW i \in DOMAIN c.log, c.log[i].send = s, c.log[i].kind \in Words
      PROVE  \E kind \in Words : HasEntry(c, s, kind)
  BY <1>1, Entry DEF HasEntry
<1>2. ASSUME NEW kind \in Words, HasEntry(c, s, kind)
      PROVE  InTranscript(c, s)
  BY <1>2 DEF HasEntry, InTranscript
<1> QED
  BY <1>1, <1>2 DEF InTranscript

(* The same transcript, perhaps flushed. *)
LEMMA SameLog ==
  ASSUME NEW c \in Chat, NEW a \in Chat, a.log = c.log, c.synced <= Len(c.log),
         a.synced = c.synced \/ a.synced = Len(c.log)
  PROVE  /\ Once(a) <=> Once(c)
         /\ \A s \in Sends :
              /\ InTranscript(a, s) <=> InTranscript(c, s)
              /\ Unflushed(a, s) => Unflushed(c, s)
              /\ \A kind : /\ HasEntry(a, s, kind) <=> HasEntry(c, s, kind)
                           /\ EntryKept(c, s, kind) => EntryKept(a, s, kind)
         /\ a.synced <= Len(a.log)
<1>1. c.synced \in Nat /\ a.synced \in Nat /\ Len(c.log) \in Nat /\ a.synced >= c.synced
  BY DEF Chat
<1>2. ASSUME NEW s PROVE Unflushed(a, s) => Unflushed(c, s)
  BY <1>1, Entry DEF Unflushed
<1>3. ASSUME NEW s, NEW kind PROVE EntryKept(c, s, kind) => EntryKept(a, s, kind)
  BY <1>1 DEF EntryKept
<1> QED
  BY <1>1, <1>2, <1>3 DEF Once, InTranscript, HasEntry

(* One with more in it. *)
LEMMA Grown ==
  ASSUME NEW c \in Chat, NEW a \in Chat, NEW sends \in SUBSET Sends, NEW kind \in Kinds,
         Extends(a.log, c.log, sends, kind), c.synced <= Len(c.log), a.synced = c.synced
  PROVE  /\ \A s \in Sends : \A k \in Kinds :
              /\ HasEntry(a, s, k) <=> HasEntry(c, s, k) \/ (s \in sends /\ k = kind)
              /\ EntryKept(c, s, k) => EntryKept(a, s, k)
         /\ \A s \in Sends :
              /\ InTranscript(a, s) <=> InTranscript(c, s) \/ (s \in sends /\ kind \in Words)
              /\ Unflushed(a, s) => Unflushed(c, s) \/ (s \in sends /\ kind = "queued")
         /\ a.synced <= Len(a.log)
<1> DEFINE m == Len(c.log)
           n == Len(a.log)
<1>1. /\ m \in Nat /\ n \in Nat /\ m <= n /\ DOMAIN c.log = 1 .. m /\ DOMAIN a.log = 1 .. n
      /\ c.synced \in Nat
  BY DEF Chat, Extends
<1>2. \A i \in 1 .. m : a.log[i] = c.log[i]
  BY DEF Extends
<1>3. \A i \in (m + 1) .. n : \E s \in sends : a.log[i] = [send |-> s, kind |-> kind]
  BY DEF Extends
<1>4. \A s \in sends : \E i \in (m + 1) .. n : a.log[i] = [send |-> s, kind |-> kind]
  BY DEF Extends
<1> HIDE DEF m, n
<1>5. \A i : i \in 1 .. n <=> i \in 1 .. m \/ i \in (m + 1) .. n
  BY <1>1
<1>6. ASSUME NEW s \in Sends, NEW k \in Kinds
      PROVE  HasEntry(a, s, k) <=> HasEntry(c, s, k) \/ (s \in sends /\ k = kind)
  <2>1. ASSUME NEW i \in 1 .. n, a.log[i] = [send |-> s, kind |-> k]
        PROVE  HasEntry(c, s, k) \/ (s \in sends /\ k = kind)
    <3>1. CASE i \in 1 .. m
      BY <1>1, <1>2, <2>1, <3>1 DEF HasEntry
    <3>2. CASE i \in (m + 1) .. n
      <4>1. PICK x \in sends : a.log[i] = [send |-> x, kind |-> kind]
        BY <1>3, <3>2
      <4>2. x = s /\ k = kind
        BY <2>1, <4>1
      <4> QED
        BY <4>2
    <3> QED
      BY <1>5, <3>1, <3>2
  <2>2. HasEntry(c, s, k) => HasEntry(a, s, k)
    BY <1>1, <1>2, <1>5 DEF HasEntry
  <2>3. s \in sends /\ k = kind => HasEntry(a, s, k)
    BY <1>1, <1>4, <1>5 DEF HasEntry
  <2> QED
    BY <1>1, <2>1, <2>2, <2>3 DEF HasEntry
<1>7. ASSUME NEW s \in Sends
      PROVE  InTranscript(a, s) <=> InTranscript(c, s) \/ (s \in sends /\ kind \in Words)
  BY <1>6, TranscriptIsEntries DEF Kinds
<1>8. ASSUME NEW s \in Sends, Unflushed(a, s)
      PROVE  Unflushed(c, s) \/ (s \in sends /\ kind = "queued")
  <2>1. PICK i \in 1 .. n : i > a.synced /\ a.log[i] = [send |-> s, kind |-> "queued"]
    BY <1>1, <1>8 DEF Unflushed
  <2>2. CASE i \in 1 .. m
    BY <1>1, <1>2, <2>1, <2>2 DEF Unflushed
  <2>3. CASE i \in (m + 1) .. n
    <3>1. PICK x \in sends : a.log[i] = [send |-> x, kind |-> kind]
      BY <1>3, <2>3
    <3>2. x = s /\ kind = "queued"
      BY <2>1, <3>1
    <3> QED
      BY <3>2
  <2> QED
    BY <1>5, <2>2, <2>3
<1>9. ASSUME NEW s \in Sends, NEW k \in Kinds, EntryKept(c, s, k)
      PROVE  EntryKept(a, s, k)
  <2>1. PICK i \in 1 .. c.synced : c.log[i] = [send |-> s, kind |-> k]
    BY <1>9 DEF EntryKept
  <2>2. i \in 1 .. m
    BY <1>1, <2>1 DEF m
  <2> QED
    BY <1>2, <2>1, <2>2 DEF EntryKept
<1>10. a.synced <= Len(a.log)
  BY <1>1 DEF m, n
<1> QED
  BY <1>6, <1>7, <1>8, <1>9, <1>10

(* Words that are appended once are there once. *)
LEMMA GrownOnce ==
  ASSUME NEW c \in Chat, NEW a \in Chat, NEW sends \in SUBSET Sends, NEW kind \in Kinds,
         Extends(a.log, c.log, sends, kind), Once(c),
         kind \in Words => \A s \in sends : ~InTranscript(c, s)
  PROVE  Once(a)
<1> DEFINE m == Len(c.log)
           n == Len(a.log)
<1>1. m \in Nat /\ n \in Nat /\ m <= n /\ DOMAIN c.log = 1 .. m /\ DOMAIN a.log = 1 .. n
  BY DEF Chat, Extends
<1>2. \A i \in 1 .. m : a.log[i] = c.log[i]
  BY DEF Extends
<1>3. \A i \in (m + 1) .. n : \E s \in sends : a.log[i] = [send |-> s, kind |-> kind]
  BY DEF Extends
<1>4. \A i, j \in (m + 1) .. n : a.log[i] = a.log[j] => i = j
  BY DEF Extends
<1> HIDE DEF m, n
<1>5. \A i \in (m + 1) .. n : a.log[i].send \in sends /\ a.log[i].kind = kind
                              /\ a.log[i] = [send |-> a.log[i].send, kind |-> kind]
  <2> SUFFICES ASSUME NEW i \in (m + 1) .. n
               PROVE  /\ a.log[i].send \in sends /\ a.log[i].kind = kind
                      /\ a.log[i] = [send |-> a.log[i].send, kind |-> kind]
    OBVIOUS
  <2>1. PICK s \in sends : a.log[i] = [send |-> s, kind |-> kind]
    BY <1>3
  <2>2. a.log[i].send = s /\ a.log[i].kind = kind
    BY <2>1
  <2> QED
    BY <2>1, <2>2
<1>6. ASSUME NEW i \in 1 .. m, NEW j \in (m + 1) .. n, a.log[i].send = a.log[j].send,
             a.log[i].kind \in Words, a.log[j].kind \in Words
      PROVE  FALSE
  <2>1. c.log[i].send \in sends /\ kind \in Words /\ c.log[i].kind \in Words
    BY <1>2, <1>5, <1>6
  <2>2. InTranscript(c, c.log[i].send)
    BY <1>1, <2>1 DEF InTranscript
  <2> QED
    BY <2>1, <2>2
<1>7. ASSUME NEW i \in 1 .. n, NEW j \in 1 .. n, a.log[i].send = a.log[j].send,
             a.log[i].kind \in Words, a.log[j].kind \in Words
      PROVE  i = j
  <2>1. CASE i \in 1 .. m /\ j \in 1 .. m
    BY <1>1, <1>2, <1>7, <2>1 DEF Once
  <2>2. CASE i \in (m + 1) .. n /\ j \in (m + 1) .. n
    <3>1. a.log[i] = a.log[j]
      BY <1>5, <1>7, <2>2
    <3> QED
      BY <1>4, <2>2, <3>1
  <2>3. CASE i \in 1 .. m /\ j \in (m + 1) .. n
    BY <1>6, <1>7, <2>3
  <2>4. CASE j \in 1 .. m /\ i \in (m + 1) .. n
    BY <1>6, <1>7, <2>4
  <2>5. (i \in 1 .. m \/ i \in (m + 1) .. n) /\ (j \in 1 .. m \/ j \in (m + 1) .. n)
    BY <1>1
  <2> QED
    BY <2>1, <2>2, <2>3, <2>4, <2>5
<1> QED
  BY <1>1, <1>7 DEF Once

(* What is flushed is kept, all of it. *)
LEMMA AllFlushed ==
  ASSUME NEW a \in Chat, a.synced = Len(a.log)
  PROVE  \A s \in Sends : /\ ~Unflushed(a, s)
                          /\ \A kind : EntryKept(a, s, kind) <=> HasEntry(a, s, kind)
<1>1. Len(a.log) \in Nat /\ DOMAIN a.log = 1 .. Len(a.log)
  BY DEF Chat
<1> QED
  BY <1>1 DEF Unflushed, EntryKept, HasEntry

(* The same words, perhaps flushed; everything flushed. *)
SameWords(a, c) ==
  /\ a.synced <= Len(a.log)
  /\ Once(a) <=> Once(c)
  /\ \A s \in Sends :
       /\ InTranscript(a, s) <=> InTranscript(c, s)
       /\ Unflushed(a, s) => Unflushed(c, s)
       /\ \A kind : /\ HasEntry(a, s, kind) <=> HasEntry(c, s, kind)
                    /\ EntryKept(c, s, kind) => EntryKept(a, s, kind)

Kept(a) ==
  \A s \in Sends : /\ ~Unflushed(a, s)
                   /\ \A kind : EntryKept(a, s, kind) <=> HasEntry(a, s, kind)

(* A write of rows. *)
LEMMA RowsSetFacts ==
  ASSUME NEW c \in Chat, c.synced <= Len(c.log),
         NEW sends \in SUBSET Sends, NEW status \in Statuses
  PROVE  LET r == RowsSet(c, sends, status) IN
         /\ r \in Chat /\ r.queue = c.queue /\ r.owned = c.owned /\ r.log = c.log
         /\ \A s \in Sends : r.rows[s] = IF s \in sends THEN status ELSE c.rows[s]
         /\ SameWords(r, c)
         /\ sends # {} => Kept(r) /\ r.synced = Len(r.log)
<1> DEFINE r == RowsSet(c, sends, status)
<1>1. IsChat(r, c.queue, [s \in Sends |-> IF s \in sends THEN status ELSE c.rows[s]],
             c.log, IF sends = {} THEN c.synced ELSE Len(c.log), c.owned)
  BY RowsSetFields
<1> HIDE DEF r
<1>2. r \in Chat /\ r.log = c.log /\ (r.synced = c.synced \/ r.synced = Len(c.log))
  BY <1>1 DEF IsChat
<1>3. SameWords(r, c)
  BY <1>2, SameLog DEF SameWords
<1>4. sends # {} => Kept(r) /\ r.synced = Len(r.log)
  BY <1>1, <1>2, AllFlushed DEF Kept, IsChat
<1>5. /\ r.queue = c.queue /\ r.owned = c.owned
      /\ \A s \in Sends : r.rows[s] = IF s \in sends THEN status ELSE c.rows[s]
  BY <1>1 DEF IsChat
<1> QED
  BY <1>2, <1>3, <1>4, <1>5 DEF r

(* A write of rows that takes messages out of the queue or puts them in. *)
LEMMA RequeuedFacts ==
  ASSUME NEW c \in Chat, c.synced <= Len(c.log), NEW queue \in SUBSET Sends
  PROVE  LET r == [c EXCEPT !.queue = queue] IN
         /\ r \in Chat /\ r.queue = queue /\ r.owned = c.owned
         /\ r.rows = c.rows /\ r.log = c.log /\ r.synced = c.synced
         /\ SameWords(r, c)
<1> DEFINE r == [c EXCEPT !.queue = queue]
<1>1. IsChat(r, queue, c.rows, c.log, c.synced, c.owned)
  BY RequeuedFields
<1> HIDE DEF r
<1>2. SameWords(r, c)
  BY <1>1, SameLog DEF SameWords, IsChat
<1> QED
  BY <1>1, <1>2 DEF IsChat, r

-----------------------------------------------------------------------------
(* Every operation keeps the invariant of messages, given what its handler *)
(* has checked.                                                            *)

(* A turn has settled: the words of its claims are on the disk by then. *)
LEMMA RetireKeeps ==
  ASSUME NEW c, NEW k, NEW h, MessagesOK(c, k, h), h.up, NEW sends \in SUBSET Sends
  PROVE  MessagesOK(Retired(c, sends), k, h)
<1> DEFINE S == {s \in sends : c.rows[s] = "dispatching"}
           r == Retired(c, sends)
<1>1. /\ r \in Chat /\ r.queue = c.queue /\ r.owned = c.owned
      /\ \A s \in Sends : r.rows[s] = IF s \in S THEN "none" ELSE c.rows[s]
      /\ SameWords(r, c)
      /\ S # {} => Kept(r)
  BY RowsSetFacts DEF Retired, MessagesOK, Statuses
<1>2. \A s \in Sends : s \in S => c.rows[s] = "dispatching"
  OBVIOUS
<1>3. c \in Chat /\ c.queue \subseteq Sends /\ c.owned \in BOOLEAN
  BY DEF MessagesOK, Chat
<1> HIDE DEF S, r
<1>4. SaidOK(r)
  BY <1>1, <1>2, <1>3 DEF SaidOK, MessagesOK, SameWords, Claims
<1>5. ClaimedOK(r, k)
  BY <1>1, <1>2 DEF ClaimedOK, MessagesOK, SameWords, Claims, Kept
<1>6. ListeningOK(r, h)
  BY <1>1, <1>2 DEF ListeningOK, MessagesOK, SameWords
<1>7. CarriedOK(r, k, h)
  BY <1>1, <1>2 DEF CarriedOK, ListeningOK, MessagesOK, SameWords, Claims
<1>8. PromisesOK(r, k, h)
  <2> SUFFICES ASSUME r.owned, NEW s \in h.promised, r.rows[s] = "none"
               PROVE  EntryKept(r, s, "queued") /\ (Carried(k, s) \/ EntryKept(r, s, "error"))
    BY DEF PromisesOK
  <2>1. s \in Sends
    BY DEF MessagesOK, Histories
  <2>2. CASE s \in S
    <3>1. Claims(c, s) /\ InTranscript(c, s)
      BY <1>1, <1>2, <2>1, <2>2 DEF MessagesOK, ListeningOK, Claims
    <3>2. HasEntry(c, s, "queued")
      BY <1>3, <2>1, <3>1, TranscriptIsEntries DEF MessagesOK, SaidOK, Words
    <3> QED
      BY <1>1, <2>1, <2>2, <3>1, <3>2 DEF MessagesOK, ClaimedOK, SameWords, Kept
  <2>3. CASE s \notin S
    BY <1>1, <2>1, <2>3 DEF MessagesOK, PromisesOK, SameWords
  <2> QED
    BY <2>2, <2>3
<1>9. AskingOK(r, h)
  BY <1>1, <1>2 DEF AskingOK, MessagesOK, SameWords, Histories, Requests
<1>10. WithdrawnOK(r, h)
  BY <1>1, <1>2 DEF WithdrawnOK, MessagesOK, SameWords, Histories
<1> QED
  BY <1>1, <1>4, <1>5, <1>6, <1>7, <1>8, <1>9, <1>10 DEF MessagesOK, SameWords, r

(* A message that is nowhere yet. *)
New(c, s, h) ==
  /\ c.owned /\ c.rows[s] = "none" /\ ~InTranscript(c, s)
  /\ \A q \in h.asking : q.send # s

(* The history after a step that only adds a promise. *)
Promising(h, s) ==
  [up |-> h.up, asking |-> h.asking, promised |-> h.promised \union {s},
   forgot |-> h.forgot, withdrawn |-> h.withdrawn]

(* Words for a busy bot: the row is written, then the queue has them. *)
LEMMA QueueKeeps ==
  ASSUME NEW c, NEW k, NEW h, MessagesOK(c, k, h), h.up, NEW s \in Sends, New(c, s, h)
  PROVE  MessagesOK(Queued(c, s), k, Promising(h, s))
<1> DEFINE b == RowsSet(c, {s}, "pending")
           r == Queued(c, s)
           queue == c.queue \union {s}
           j == Promising(h, s)
<1>1. /\ b \in Chat /\ b.queue = c.queue /\ b.owned = c.owned
      /\ \A x \in Sends : b.rows[x] = IF x \in {s} THEN "pending" ELSE c.rows[x]
      /\ SameWords(b, c) /\ Kept(b)
  <2> DEFINE S == {s}
  <2>1. S \in SUBSET Sends /\ S # {} /\ "pending" \in Statuses
    BY DEF Statuses
  <2>2. b = RowsSet(c, S, "pending")
    OBVIOUS
  <2>3. c \in Chat /\ c.synced <= Len(c.log)
    BY DEF MessagesOK
  <2> HIDE DEF S, b
  <2>4. /\ b \in Chat /\ b.queue = c.queue /\ b.owned = c.owned
        /\ \A x \in Sends : b.rows[x] = IF x \in S THEN "pending" ELSE c.rows[x]
        /\ SameWords(b, c) /\ Kept(b)
    BY <2>1, <2>2, <2>3, RowsSetFacts DEF Statuses
  <2> QED
    BY <2>4 DEF S
<1>2. queue \in SUBSET Sends
  BY DEF MessagesOK, Chat
<1>3. r = [b EXCEPT !.queue = b.queue \union {s}]
  BY DEF Queued
<1>4. b.queue \union {s} = queue
  BY <1>1
<1> HIDE DEF b, r, queue
<1>5. /\ r \in Chat /\ r.queue = queue /\ r.owned = b.owned
      /\ r.rows = b.rows /\ r.log = b.log /\ r.synced = b.synced /\ SameWords(r, b)
  BY <1>1, <1>2, <1>3, <1>4, RequeuedFacts DEF SameWords
<1>6. /\ r.owned = c.owned /\ SameWords(r, c)
      /\ \A x \in Sends : r.rows[x] = IF x = s THEN "pending" ELSE c.rows[x]
  BY <1>1, <1>5 DEF SameWords
<1>7. \A x \in Sends : ~Unflushed(r, x)
  BY <1>1, <1>5 DEF SameWords, Kept
<1>8. /\ j \in Histories /\ j.up = h.up /\ j.asking = h.asking /\ j.forgot = h.forgot
      /\ j.withdrawn = h.withdrawn /\ \A x : x \in j.promised <=> x \in h.promised \/ x = s
  BY DEF Promising, MessagesOK, Histories
<1> HIDE DEF j
<1>9. \A x : x \in queue <=> x \in c.queue \/ x = s
  BY DEF queue
<1>10. SaidOK(r)
  BY <1>5, <1>6, <1>9, <1>2 DEF SaidOK, MessagesOK, SameWords, Claims, New
<1>11. ClaimedOK(r, k)
  BY <1>6, <1>7 DEF ClaimedOK, MessagesOK, Claims
<1>12. ListeningOK(r, j)
  BY <1>5, <1>6, <1>8, <1>9 DEF ListeningOK, MessagesOK, SameWords
<1>13. CarriedOK(r, k, j)
  BY <1>6, <1>8 DEF CarriedOK, MessagesOK, SameWords, Claims, New
<1>14. PromisesOK(r, k, j)
  BY <1>6, <1>8 DEF PromisesOK, MessagesOK, SameWords, Histories
<1>15. AskingOK(r, j)
  BY <1>6, <1>8 DEF AskingOK, MessagesOK, SameWords, Histories, Requests, New
<1>16. WithdrawnOK(r, j)
  BY <1>6, <1>8 DEF WithdrawnOK, MessagesOK, SameWords, Histories, New
<1>17. r.synced <= Len(r.log)
  BY <1>6 DEF SameWords
<1> QED
  BY <1>5, <1>8, <1>10, <1>11, <1>12, <1>13, <1>14, <1>15, <1>16, <1>17 DEF MessagesOK, r, j

(* Words that go to the provider: as a turn of their own ... *)
LEMMA SendKeeps ==
  ASSUME NEW c, NEW k, NEW h, MessagesOK(c, k, h), h.up, NEW s \in Sends, New(c, s, h),
         NEW g \in Gens, k[g] = {}
  PROVE  MessagesOK(Appended(c, {s}, "sent"), [k EXCEPT ![g] = {s}], h)
<1> DEFINE r == Appended(c, {s}, "sent")
           l == [k EXCEPT ![g] = {s}]
<1>1. {s} \in SUBSET Sends /\ "sent" \in Kinds /\ "sent" \in Words
  BY DEF Kinds, Words
<1>2. /\ c \in Chat /\ c.synced <= Len(c.log)
      /\ IsChat(r, c.queue, c.rows, r.log, c.synced, c.owned)
      /\ Extends(r.log, c.log, {s}, "sent")
  BY <1>1, AppendedFields DEF MessagesOK
<1> HIDE DEF r
<1>3. r \in Chat /\ r.queue = c.queue /\ r.rows = c.rows /\ r.owned = c.owned /\ r.synced = c.synced
  BY <1>2 DEF IsChat
<1>4. /\ \A x \in Sends : \A kind \in Kinds :
           /\ HasEntry(r, x, kind) <=> HasEntry(c, x, kind) \/ (x \in {s} /\ kind = "sent")
           /\ EntryKept(c, x, kind) => EntryKept(r, x, kind)
      /\ \A x \in Sends :
           /\ InTranscript(r, x) <=> InTranscript(c, x) \/ (x \in {s} /\ "sent" \in Words)
           /\ Unflushed(r, x) => Unflushed(c, x) \/ (x \in {s} /\ "sent" = "queued")
      /\ r.synced <= Len(r.log)
  BY <1>1, <1>2, <1>3, Grown
<1>5. Once(r)
  <2> DEFINE S == {s}
  <2>1. S \in SUBSET Sends /\ "sent" \in Kinds /\ Extends(r.log, c.log, S, "sent")
    BY <1>1, <1>2
  <2>2. Once(c) /\ \A x \in S : ~InTranscript(c, x)
    BY DEF MessagesOK, SaidOK, New
  <2> HIDE DEF S
  <2> QED
    BY <1>2, <1>3, <2>1, <2>2, GrownOnce
<1>6. /\ l \in [Gens -> SUBSET Sends] /\ l[g] = {s} /\ \A f \in Gens : f # g => l[f] = k[f]
  BY DEF MessagesOK
<1> HIDE DEF l
<1>7. \A x \in Sends : Carried(l, x) <=> Carried(k, x) \/ x = s
  BY <1>6 DEF Carried
<1>8. SaidOK(r)
  BY <1>1, <1>3, <1>4, <1>5 DEF SaidOK, MessagesOK, Claims, New, Kinds, Words
<1>9. ClaimedOK(r, l)
  BY <1>3, <1>4, <1>7 DEF ClaimedOK, MessagesOK, Claims
<1>10. ListeningOK(r, h)
  BY <1>3, <1>4 DEF ListeningOK, MessagesOK
<1>11. CarriedOK(r, l, h)
  <2> SUFFICES ASSUME NEW x \in Sends \ h.forgot
               PROVE  /\ \A e, f \in Gens : x \in l[e] /\ x \in l[f] => e = f
                      /\ Carried(l, x) => /\ r.rows[x] # "pending"
                                          /\ r.owned => Claims(r, x) \/ InTranscript(r, x)
    BY DEF CarriedOK
  <2>1. CASE x = s
    <3>1. ~Carried(k, x)
      BY <2>1 DEF MessagesOK, CarriedOK, New, Claims
    <3> QED
      BY <1>1, <1>3, <1>4, <1>6, <2>1, <3>1 DEF Carried, New
  <2>2. CASE x # s
    BY <1>3, <1>4, <1>6, <1>7, <2>2 DEF MessagesOK, CarriedOK, Claims
  <2> QED
    BY <2>1, <2>2
<1>12. PromisesOK(r, l, h)
  BY <1>3, <1>4, <1>7 DEF PromisesOK, MessagesOK, Histories, Kinds, Words
<1>13. AskingOK(r, h)
  BY <1>3, <1>4 DEF AskingOK, MessagesOK, Histories, Requests, New
<1>14. WithdrawnOK(r, h)
  BY <1>3, <1>4 DEF WithdrawnOK, MessagesOK, Histories, New
<1> QED
  BY <1>3, <1>4, <1>6, <1>8, <1>9, <1>10, <1>11, <1>12, <1>13, <1>14 DEF MessagesOK, r, l

(* ... or into the one that runs. *)
LEMMA SteerKeeps ==
  ASSUME NEW c, NEW k, NEW h, MessagesOK(c, k, h), h.up, NEW s \in Sends, New(c, s, h)
  PROVE  MessagesOK(Appended(c, {s}, "steered"), k, h)
<1> DEFINE r == Appended(c, {s}, "steered")
<1>1. {s} \in SUBSET Sends /\ "steered" \in Kinds /\ "steered" \in Words
  BY DEF Kinds, Words
<1>2. /\ c \in Chat /\ c.synced <= Len(c.log)
      /\ IsChat(r, c.queue, c.rows, r.log, c.synced, c.owned)
      /\ Extends(r.log, c.log, {s}, "steered")
  BY <1>1, AppendedFields DEF MessagesOK
<1> HIDE DEF r
<1>3. r \in Chat /\ r.queue = c.queue /\ r.rows = c.rows /\ r.owned = c.owned /\ r.synced = c.synced
  BY <1>2 DEF IsChat
<1>4. /\ \A x \in Sends : \A kind \in Kinds :
           /\ HasEntry(r, x, kind) <=> HasEntry(c, x, kind) \/ (x \in {s} /\ kind = "steered")
           /\ EntryKept(c, x, kind) => EntryKept(r, x, kind)
      /\ \A x \in Sends :
           /\ InTranscript(r, x) <=> InTranscript(c, x) \/ (x \in {s} /\ "steered" \in Words)
           /\ Unflushed(r, x) => Unflushed(c, x) \/ (x \in {s} /\ "steered" = "queued")
      /\ r.synced <= Len(r.log)
  BY <1>1, <1>2, <1>3, Grown
<1>5. Once(r)
  <2> DEFINE S == {s}
  <2>1. S \in SUBSET Sends /\ "steered" \in Kinds /\ Extends(r.log, c.log, S, "steered")
    BY <1>1, <1>2
  <2>2. Once(c) /\ \A x \in S : ~InTranscript(c, x)
    BY DEF MessagesOK, SaidOK, New
  <2> HIDE DEF S
  <2> QED
    BY <1>2, <1>3, <2>1, <2>2, GrownOnce
<1>6. SaidOK(r)
  BY <1>1, <1>3, <1>4, <1>5 DEF SaidOK, MessagesOK, Claims, New, Kinds, Words
<1>7. ClaimedOK(r, k)
  BY <1>3, <1>4 DEF ClaimedOK, MessagesOK, Claims
<1>8. ListeningOK(r, h)
  BY <1>3, <1>4 DEF ListeningOK, MessagesOK
<1>9. CarriedOK(r, k, h)
  BY <1>3, <1>4 DEF CarriedOK, MessagesOK, Claims
<1>10. PromisesOK(r, k, h)
  BY <1>3, <1>4 DEF PromisesOK, MessagesOK, Histories, Kinds, Words
<1>11. AskingOK(r, h)
  BY <1>3, <1>4 DEF AskingOK, MessagesOK, Histories, Requests, New
<1>12. WithdrawnOK(r, h)
  BY <1>3, <1>4 DEF WithdrawnOK, MessagesOK, Histories, New
<1> QED
  BY <1>3, <1>4, <1>6, <1>7, <1>8, <1>9, <1>10, <1>11, <1>12 DEF MessagesOK, r

(* The user takes a queued message back: a tombstone remains. *)
LEMMA CancelKeeps ==
  ASSUME NEW c, NEW k, NEW h, MessagesOK(c, k, h), h.up, NEW s \in c.queue,
         NEW j \in Histories, j.up = h.up, j.asking = h.asking, j.promised = h.promised,
         j.forgot = h.forgot, j.withdrawn = h.withdrawn \union {s}
  PROVE  MessagesOK(Cancelled(c, s), k, j)
<1> DEFINE S == {s}
           b == RowsSet(c, S, "cancelled")
           r == Cancelled(c, s)
           queue == c.queue \ {s}
<1>1. c \in Chat /\ c.synced <= Len(c.log) /\ S \in SUBSET Sends /\ S # {} /\ s \in Sends
  BY DEF MessagesOK, Chat
<1>2. r = [b EXCEPT !.queue = b.queue \ {s}]
  BY DEF Cancelled
<1> HIDE DEF S
<1>3. /\ b \in Chat /\ b.queue = c.queue /\ b.owned = c.owned
      /\ \A x \in Sends : b.rows[x] = IF x \in S THEN "cancelled" ELSE c.rows[x]
      /\ SameWords(b, c) /\ Kept(b)
  BY <1>1, RowsSetFacts DEF Statuses
<1>4. queue \in SUBSET Sends /\ b.queue \ {s} = queue
  BY <1>1, <1>3 DEF Chat
<1> HIDE DEF b, r, queue
<1>5. /\ r \in Chat /\ r.queue = queue /\ r.owned = b.owned
      /\ r.rows = b.rows /\ r.log = b.log /\ r.synced = b.synced /\ SameWords(r, b)
  BY <1>2, <1>3, <1>4, RequeuedFacts DEF SameWords
<1>6. /\ r.owned = c.owned /\ SameWords(r, c)
      /\ \A x \in Sends : r.rows[x] = IF x = s THEN "cancelled" ELSE c.rows[x]
  BY <1>3, <1>5 DEF SameWords, S
<1>7. \A x \in Sends : ~Unflushed(r, x)
  BY <1>3, <1>5 DEF SameWords, Kept
<1>8. c.rows[s] = "pending" /\ ~InTranscript(c, s)
  BY <1>1 DEF MessagesOK, SaidOK
<1>9. \A x \in queue : x \in c.queue /\ x # s /\ x \in Sends
  BY <1>1, <1>4 DEF queue
<1>10. \A x : x \in c.queue /\ x # s => x \in queue
  BY DEF queue
<1>11. SaidOK(r)
  BY <1>5, <1>6, <1>8, <1>9 DEF SaidOK, MessagesOK, SameWords, Claims
<1>12. ClaimedOK(r, k)
  BY <1>6, <1>7 DEF ClaimedOK, MessagesOK, Claims
<1>13. ListeningOK(r, j)
  BY <1>5, <1>6, <1>10 DEF ListeningOK, MessagesOK, SameWords
<1>14. CarriedOK(r, k, j)
  BY <1>6, <1>8 DEF CarriedOK, MessagesOK, SameWords, Claims
<1>15. PromisesOK(r, k, j)
  BY <1>6 DEF PromisesOK, MessagesOK, SameWords, Histories
<1>16. AskingOK(r, j)
  BY <1>6, <1>8 DEF AskingOK, MessagesOK, SameWords, Histories, Requests
<1>17. WithdrawnOK(r, j)
  BY <1>6, <1>8, <1>1 DEF WithdrawnOK, MessagesOK, SameWords, Histories
<1>18. r.synced <= Len(r.log)
  BY <1>6 DEF SameWords
<1> QED
  BY <1>5, <1>11, <1>12, <1>13, <1>14, <1>15, <1>16, <1>17, <1>18 DEF MessagesOK, r

(* The bot or the thread is gone: what waits is cancelled. *)
LEMMA DiscardKeeps ==
  ASSUME NEW c, NEW k, NEW h, MessagesOK(c, k, h), h.up, ~c.owned
  PROVE  MessagesOK(Discarded(c), k, h)
<1> DEFINE b == RowsSet(c, c.queue, "cancelled")
           r == Discarded(c)
<1>1. c \in Chat /\ c.synced <= Len(c.log) /\ c.queue \in SUBSET Sends
  BY DEF MessagesOK, Chat
<1>2. r = [b EXCEPT !.queue = {}]
  BY DEF Discarded
<1>3. /\ b \in Chat /\ b.queue = c.queue /\ b.owned = c.owned
      /\ \A x \in Sends : b.rows[x] = IF x \in c.queue THEN "cancelled" ELSE c.rows[x]
      /\ SameWords(b, c)
  BY <1>1, RowsSetFacts DEF Statuses
<1> HIDE DEF b, r
<1>4. /\ r \in Chat /\ r.queue = {} /\ r.owned = b.owned
      /\ r.rows = b.rows /\ r.log = b.log /\ r.synced = b.synced /\ SameWords(r, b)
  BY <1>2, <1>3, RequeuedFacts DEF SameWords
<1>5. /\ r.owned = c.owned /\ SameWords(r, c)
      /\ \A x \in Sends : r.rows[x] = IF x \in c.queue THEN "cancelled" ELSE c.rows[x]
  BY <1>3, <1>4 DEF SameWords
<1>6. SaidOK(r)
  BY <1>4, <1>5 DEF SaidOK, MessagesOK, SameWords, Claims
<1>7. ClaimedOK(r, k)
  BY <1>5 DEF ClaimedOK, MessagesOK, Claims
<1>8. CarriedOK(r, k, h)
  BY <1>5 DEF CarriedOK, MessagesOK
<1>9. WithdrawnOK(r, h)
  BY <1>5 DEF WithdrawnOK, MessagesOK, SameWords, Histories
<1>10. ListeningOK(r, h) /\ PromisesOK(r, k, h) /\ AskingOK(r, h)
  BY <1>5 DEF ListeningOK, PromisesOK, AskingOK, MessagesOK
<1>11. r.synced <= Len(r.log)
  BY <1>5 DEF SameWords
<1> QED
  BY <1>4, <1>6, <1>7, <1>8, <1>9, <1>10, <1>11 DEF MessagesOK, r

(* The drain hands the queue to a new turn: the claim first, then the      *)
(* words.                                                                  *)
LEMMA TakenFacts ==
  ASSUME NEW c \in Chat, c.synced <= Len(c.log)
  PROVE  LET r == Taken(c) IN
         /\ r \in Chat /\ r.queue = {} /\ r.owned = c.owned /\ r.synced <= Len(r.log)
         /\ \A x \in Sends : r.rows[x] = IF x \in c.queue THEN "dispatching" ELSE c.rows[x]
         /\ \A x \in Sends : \A kind \in Kinds :
              /\ HasEntry(r, x, kind) <=> HasEntry(c, x, kind) \/ (x \in c.queue /\ kind = "queued")
              /\ EntryKept(c, x, kind) => EntryKept(r, x, kind)
         /\ \A x \in Sends :
              /\ InTranscript(r, x) <=> InTranscript(c, x) \/ x \in c.queue
              /\ Unflushed(r, x) => Unflushed(c, x) \/ x \in c.queue
         /\ Once(c) /\ (\A x \in c.queue : ~InTranscript(c, x)) => Once(r)
<1> DEFINE b == RowsSet(c, c.queue, "dispatching")
           d == [b EXCEPT !.queue = {}]
           r == Taken(c)
<1>1. c.queue \in SUBSET Sends /\ "queued" \in Kinds /\ "queued" \in Words
  BY DEF Chat, Kinds, Words
<1>2. r = Appended(d, c.queue, "queued")
  BY DEF Taken
<1>3. /\ b \in Chat /\ b.queue = c.queue /\ b.owned = c.owned
      /\ \A x \in Sends : b.rows[x] = IF x \in c.queue THEN "dispatching" ELSE c.rows[x]
      /\ SameWords(b, c)
  BY <1>1, RowsSetFacts DEF Statuses
<1> HIDE DEF b, r
<1>4. /\ d \in Chat /\ d.queue = {} /\ d.owned = b.owned
      /\ d.rows = b.rows /\ d.log = b.log /\ d.synced = b.synced /\ SameWords(d, b)
  BY <1>3, RequeuedFacts DEF SameWords
<1> HIDE DEF d
<1>5. /\ d.owned = c.owned /\ SameWords(d, c) /\ d.synced <= Len(d.log)
      /\ \A x \in Sends : d.rows[x] = IF x \in c.queue THEN "dispatching" ELSE c.rows[x]
  BY <1>3, <1>4 DEF SameWords
<1>6. IsChat(r, d.queue, d.rows, r.log, d.synced, d.owned) /\ Extends(r.log, d.log, c.queue, "queued")
  BY <1>1, <1>2, <1>4, AppendedFields
<1>7. r \in Chat /\ r.queue = {} /\ r.owned = c.owned /\ r.rows = d.rows /\ r.synced = d.synced
  BY <1>4, <1>5, <1>6 DEF IsChat
<1>8. /\ \A x \in Sends : \A kind \in Kinds :
           /\ HasEntry(r, x, kind) <=> HasEntry(d, x, kind) \/ (x \in c.queue /\ kind = "queued")
           /\ EntryKept(d, x, kind) => EntryKept(r, x, kind)
      /\ \A x \in Sends :
           /\ InTranscript(r, x) <=> InTranscript(d, x) \/ (x \in c.queue /\ "queued" \in Words)
           /\ Unflushed(r, x) => Unflushed(d, x) \/ (x \in c.queue /\ "queued" = "queued")
      /\ r.synced <= Len(r.log)
  BY <1>1, <1>4, <1>5, <1>6, <1>7, Grown
<1>9. Once(c) /\ (\A x \in c.queue : ~InTranscript(c, x)) => Once(r)
  <2> SUFFICES ASSUME Once(c), \A x \in c.queue : ~InTranscript(c, x)
               PROVE  Once(r)
    OBVIOUS
  <2>1. Once(d) /\ \A x \in c.queue : ~InTranscript(d, x)
    BY <1>1, <1>5 DEF SameWords
  <2> QED
    BY <1>1, <1>4, <1>6, <1>7, <2>1, GrownOnce
<1> QED
  BY <1>1, <1>5, <1>7, <1>8, <1>9 DEF SameWords, r

(* A turn takes the whole queue. *)
LEMMA TakeKeeps ==
  ASSUME NEW c, NEW k, NEW h, MessagesOK(c, k, h), h.up, c.owned, NEW g \in Gens, k[g] = {}
  PROVE  MessagesOK(Taken(c), [k EXCEPT ![g] = c.queue], h)
<1> DEFINE r == Taken(c)
           l == [k EXCEPT ![g] = c.queue]
<1>1. c \in Chat /\ c.queue \in SUBSET Sends
  BY DEF MessagesOK, Chat
<1>2. \A x \in c.queue : c.rows[x] = "pending" /\ ~InTranscript(c, x) /\ x \in Sends
  BY <1>1 DEF MessagesOK, SaidOK
<1>3. /\ r \in Chat /\ r.queue = {} /\ r.owned = c.owned /\ r.synced <= Len(r.log)
      /\ \A x \in Sends : r.rows[x] = IF x \in c.queue THEN "dispatching" ELSE c.rows[x]
      /\ \A x \in Sends : \A kind \in Kinds :
           /\ HasEntry(r, x, kind) <=> HasEntry(c, x, kind) \/ (x \in c.queue /\ kind = "queued")
           /\ EntryKept(c, x, kind) => EntryKept(r, x, kind)
      /\ \A x \in Sends :
           /\ InTranscript(r, x) <=> InTranscript(c, x) \/ x \in c.queue
           /\ Unflushed(r, x) => Unflushed(c, x) \/ x \in c.queue
      /\ Once(r)
  BY <1>2, TakenFacts DEF MessagesOK, SaidOK
<1> HIDE DEF r
<1>4. /\ l \in [Gens -> SUBSET Sends] /\ l[g] = c.queue /\ \A f \in Gens : f # g => l[f] = k[f]
  BY <1>1 DEF MessagesOK
<1> HIDE DEF l
<1>5. \A x \in Sends : Carried(l, x) <=> Carried(k, x) \/ x \in c.queue
  BY <1>4 DEF Carried
<1>6. SaidOK(r)
  <2>1. \A x \in Sends : InTranscript(c, x) \/ ~(HasEntry(c, x, "sent") \/ HasEntry(c, x, "steered"))
    BY <1>1, TranscriptIsEntries DEF Words
  <2> QED
    BY <1>2, <1>3, <2>1 DEF SaidOK, MessagesOK, Claims, Kinds, Words
<1>7. ClaimedOK(r, l)
  BY <1>3, <1>5 DEF ClaimedOK, MessagesOK, Claims
<1>8. ListeningOK(r, h)
  BY <1>3 DEF ListeningOK, MessagesOK
<1>9. CarriedOK(r, l, h)
  <2> SUFFICES ASSUME NEW x \in Sends \ h.forgot
               PROVE  /\ \A e, f \in Gens : x \in l[e] /\ x \in l[f] => e = f
                      /\ Carried(l, x) => /\ r.rows[x] # "pending"
                                          /\ r.owned => Claims(r, x) \/ InTranscript(r, x)
    BY DEF CarriedOK
  <2>1. CASE x \in c.queue
    <3>1. ~Carried(k, x)
      BY <1>2, <2>1 DEF MessagesOK, CarriedOK
    <3> QED
      BY <1>3, <1>4, <2>1, <3>1 DEF Carried
  <2>2. CASE x \notin c.queue
    BY <1>3, <1>4, <1>5, <2>2 DEF MessagesOK, CarriedOK, Claims
  <2> QED
    BY <2>1, <2>2
<1>10. PromisesOK(r, l, h)
  BY <1>3, <1>5 DEF PromisesOK, MessagesOK, Histories, Kinds, Words
<1>11. AskingOK(r, h)
  BY <1>2, <1>3 DEF AskingOK, MessagesOK, Histories, Requests
<1>12. WithdrawnOK(r, h)
  BY <1>2, <1>3 DEF WithdrawnOK, MessagesOK, Histories
<1> QED
  BY <1>3, <1>4, <1>6, <1>7, <1>8, <1>9, <1>10, <1>11, <1>12 DEF MessagesOK, r, l

(* The turn is refused: an error follows the words, and the claim is over. *)
LEMMA RefuseKeeps ==
  ASSUME NEW c, NEW k, NEW h, MessagesOK(c, k, h), h.up, c.owned, c.queue # {}
  PROVE  MessagesOK(Retired(Appended(Taken(c), c.queue, "error"), c.queue), k, h)
<1> DEFINE d == Taken(c)
           e == Appended(d, c.queue, "error")
           S == {s \in c.queue : e.rows[s] = "dispatching"}
           r == Retired(e, c.queue)
<1>1. /\ c \in Chat /\ c.queue \in SUBSET Sends
      /\ "error" \in Kinds /\ "error" \notin Words /\ "none" \in Statuses
  BY DEF MessagesOK, Chat, Kinds, Words, Statuses
<1>2. \A x \in c.queue : c.rows[x] = "pending" /\ ~InTranscript(c, x) /\ x \in Sends
  BY <1>1 DEF MessagesOK, SaidOK
<1>3. /\ d \in Chat /\ d.queue = {} /\ d.owned = c.owned /\ d.synced <= Len(d.log)
      /\ \A x \in Sends : d.rows[x] = IF x \in c.queue THEN "dispatching" ELSE c.rows[x]
      /\ \A x \in Sends : \A kind \in Kinds :
           /\ HasEntry(d, x, kind) <=> HasEntry(c, x, kind) \/ (x \in c.queue /\ kind = "queued")
           /\ EntryKept(c, x, kind) => EntryKept(d, x, kind)
      /\ \A x \in Sends : InTranscript(d, x) <=> InTranscript(c, x) \/ x \in c.queue
      /\ Once(d)
  BY <1>2, TakenFacts DEF MessagesOK, SaidOK
<1> HIDE DEF d
<1>4. IsChat(e, d.queue, d.rows, e.log, d.synced, d.owned) /\ Extends(e.log, d.log, c.queue, "error")
  BY <1>1, <1>3, AppendedFields
<1> HIDE DEF e
<1>5. e \in Chat /\ e.queue = {} /\ e.owned = c.owned /\ e.rows = d.rows /\ e.synced = d.synced
  BY <1>3, <1>4 DEF IsChat
<1>6. /\ \A x \in Sends : \A kind \in Kinds :
           /\ HasEntry(e, x, kind) <=> HasEntry(d, x, kind) \/ (x \in c.queue /\ kind = "error")
           /\ EntryKept(d, x, kind) => EntryKept(e, x, kind)
      /\ \A x \in Sends :
           /\ InTranscript(e, x) <=> InTranscript(d, x) \/ (x \in c.queue /\ "error" \in Words)
           /\ Unflushed(e, x) => Unflushed(d, x) \/ (x \in c.queue /\ "error" = "queued")
      /\ e.synced <= Len(e.log)
  BY <1>1, <1>3, <1>4, <1>5, Grown
<1>7. Once(e)
  BY <1>1, <1>3, <1>4, <1>5, GrownOnce
<1>8. S = c.queue
  BY <1>2, <1>3, <1>5
<1>9. r = RowsSet(e, c.queue, "none")
  BY <1>8 DEF Retired
<1> HIDE DEF r, S
<1>10. /\ r \in Chat /\ r.queue = e.queue /\ r.owned = e.owned
       /\ \A x \in Sends : r.rows[x] = IF x \in c.queue THEN "none" ELSE e.rows[x]
       /\ SameWords(r, e) /\ Kept(r)
  <2>1. e \in Chat /\ e.synced <= Len(e.log)
    BY <1>5, <1>6
  <2> DEFINE w == RowsSet(e, c.queue, "none")
  <2>2. /\ w \in Chat /\ w.queue = e.queue /\ w.owned = e.owned
        /\ \A x \in Sends : w.rows[x] = IF x \in c.queue THEN "none" ELSE e.rows[x]
        /\ SameWords(w, e) /\ Kept(w)
    BY <1>1, <2>1, RowsSetFacts DEF Statuses
  <2> QED
    BY <1>9, <2>2
<1>11. /\ r.queue = {} /\ r.owned = c.owned /\ r.synced <= Len(r.log) /\ Once(r)
       /\ \A x \in Sends :
            /\ r.rows[x] = IF x \in c.queue THEN "none" ELSE c.rows[x]
            /\ InTranscript(r, x) <=> InTranscript(c, x) \/ x \in c.queue
            /\ ~Unflushed(r, x)
  BY <1>1, <1>3, <1>5, <1>6, <1>7, <1>10 DEF SameWords, Kept
<1>12. \A x \in Sends : \A kind \in Kinds :
         /\ HasEntry(r, x, kind) <=> \/ HasEntry(c, x, kind)
                                     \/ x \in c.queue /\ kind \in {"queued", "error"}
         /\ EntryKept(c, x, kind) => EntryKept(r, x, kind)
  BY <1>3, <1>6, <1>10 DEF SameWords
<1>13. \A x \in c.queue : EntryKept(r, x, "queued") /\ EntryKept(r, x, "error")
  BY <1>2, <1>10, <1>12 DEF Kept, Kinds, Words
<1>14. SaidOK(r)
  BY <1>11, <1>12 DEF SaidOK, MessagesOK, Claims, Kinds, Words
<1>15. ClaimedOK(r, k)
  BY <1>11 DEF ClaimedOK, MessagesOK, Claims
<1>16. ListeningOK(r, h)
  BY <1>11 DEF ListeningOK, MessagesOK
<1>17. CarriedOK(r, k, h)
  BY <1>11 DEF CarriedOK, MessagesOK, Claims
<1>18. PromisesOK(r, k, h)
  BY <1>11, <1>12, <1>13 DEF PromisesOK, MessagesOK, Histories, Kinds, Words
<1>19. AskingOK(r, h)
  BY <1>2, <1>11 DEF AskingOK, MessagesOK, Histories, Requests
<1>20. WithdrawnOK(r, h)
  BY <1>2, <1>11 DEF WithdrawnOK, MessagesOK, Histories
<1> QED
  BY <1>10, <1>11, <1>14, <1>15, <1>16, <1>17, <1>18, <1>19, <1>20 DEF MessagesOK, r, e, d

(* The task is deleted, and its transcript with it. *)
LEMMA DeleteKeeps ==
  ASSUME NEW c, NEW k, NEW h, MessagesOK(c, k, h)
  PROVE  MessagesOK([c EXCEPT !.owned = FALSE, !.log = <<>>, !.synced = 0], k, h)
<1> DEFINE r == [c EXCEPT !.owned = FALSE, !.log = <<>>, !.synced = 0]
<1>1. c \in Chat
  BY DEF MessagesOK
<1>2. /\ r.queue = c.queue /\ r.rows = c.rows /\ r.log = <<>> /\ r.synced = 0 /\ r.owned = FALSE
  BY <1>1 DEF Chat
<1>3. r \in Chat
  <2>1. <<>> \in Seq(Entries) /\ 0 \in Nat /\ FALSE \in BOOLEAN
    OBVIOUS
  <2> QED
    BY <1>1, <2>1 DEF Chat
<1> HIDE DEF r
<1>4. Len(r.log) = 0 /\ DOMAIN r.log = {}
  BY <1>2
<1>5. Once(r) /\ \A s : ~InTranscript(r, s) /\ \A kind : ~HasEntry(r, s, kind)
  BY <1>4 DEF Once, InTranscript, HasEntry
<1>6. SaidOK(r)
  BY <1>1, <1>2, <1>5 DEF SaidOK, MessagesOK
<1>7. ClaimedOK(r, k) /\ ListeningOK(r, h) /\ PromisesOK(r, k, h) /\ AskingOK(r, h)
  BY <1>2 DEF ClaimedOK, ListeningOK, PromisesOK, AskingOK, MessagesOK, Claims
<1>8. CarriedOK(r, k, h) /\ WithdrawnOK(r, h)
  BY <1>2, <1>5 DEF CarriedOK, WithdrawnOK, MessagesOK
<1> QED
  BY <1>2, <1>3, <1>4, <1>6, <1>7, <1>8 DEF MessagesOK, r

(* A power failure takes an end of the transcript that was not flushed. *)
LostWords(c, n) ==
  {c.log[i].send : i \in {j \in (n + 1) .. Len(c.log) : c.log[j].kind \in {"sent", "steered"}}}

(* A crash: the memory is gone, and with it what was not flushed. *)
LEMMA CrashKeeps ==
  ASSUME NEW c, NEW k, NEW h, MessagesOK(c, k, h), NEW n \in c.synced .. Len(c.log),
         NEW j \in Histories, ~j.up, j.asking = {}, j.promised = h.promised,
         j.forgot = h.forgot \union LostWords(c, n), j.withdrawn = h.withdrawn
  PROVE  MessagesOK([c EXCEPT !.queue = {}, !.log = SubSeq(@, 1, n), !.synced = n], k, j)
<1> DEFINE log == SubSeq(c.log, 1, n)
           r == [c EXCEPT !.queue = {}, !.log = log, !.synced = n]
<1>1. c \in Chat /\ c.log \in Seq(Entries) /\ c.synced \in Nat /\ Len(c.log) \in Nat
  BY DEF MessagesOK, Chat
<1>2. n \in Nat /\ n <= Len(c.log) /\ c.synced <= n
  BY <1>1
<1>3. log \in Seq(Entries) /\ Len(log) = n /\ \A i \in 1 .. n : log[i] = c.log[i]
  BY <1>1, <1>2
<1> HIDE DEF log
<1>4. r.queue = {} /\ r.rows = c.rows /\ r.log = log /\ r.synced = n /\ r.owned = c.owned
  BY <1>1 DEF Chat
<1>5. r \in Chat
  BY <1>1, <1>2, <1>3, <1>4 DEF Chat
<1> HIDE DEF r
<1>6. /\ DOMAIN r.log = 1 .. n /\ DOMAIN c.log = 1 .. Len(c.log)
      /\ \A i \in 1 .. n : i \in 1 .. Len(c.log) /\ r.log[i] = c.log[i]
  BY <1>1, <1>2, <1>3, <1>4
<1>7. \A s : \A kind : HasEntry(r, s, kind) => HasEntry(c, s, kind)
  BY <1>6 DEF HasEntry
<1>8. \A s : InTranscript(r, s) => InTranscript(c, s)
  BY <1>6 DEF InTranscript
<1>9. MessagesOK(c, k, h) => Once(r)
  BY <1>6 DEF MessagesOK, SaidOK, Once
<1>10. \A s : \A kind : EntryKept(c, s, kind) => EntryKept(r, s, kind)
  BY <1>1, <1>2, <1>4, <1>6 DEF EntryKept
<1>11. \A s \in Sends : ~Unflushed(r, s)
  BY <1>2, <1>4, <1>6 DEF Unflushed
<1>12. ASSUME NEW s \in Sends, InTranscript(c, s), s \notin LostWords(c, n)
       PROVE  InTranscript(r, s) \/ Unflushed(c, s)
  <2>1. PICK i \in DOMAIN c.log : c.log[i].send = s /\ c.log[i].kind \in Words
    BY <1>12 DEF InTranscript
  <2>2. i \in 1 .. Len(c.log) /\ c.log[i] = [send |-> s, kind |-> c.log[i].kind]
    BY <1>1, <2>1, Entry
  <2>3. CASE i <= n
    BY <1>2, <1>6, <2>1, <2>2, <2>3 DEF InTranscript
  <2>4. CASE i > n
    <3>1. i \in (n + 1) .. Len(c.log)
      BY <1>1, <1>2, <2>2, <2>4
    <3>2. c.log[i].kind = "queued"
      BY <1>12, <2>1, <3>1 DEF LostWords, Words
    <3>3. i > c.synced
      BY <1>1, <1>2, <2>2, <2>4
    <3> QED
      BY <2>1, <2>2, <3>2, <3>3 DEF Unflushed
  <2> QED
    BY <1>2, <2>2, <2>3, <2>4
<1>13. SaidOK(r)
  BY <1>4, <1>7, <1>8, <1>9 DEF SaidOK, MessagesOK, Claims
<1>14. ClaimedOK(r, k)
  BY <1>4, <1>11 DEF ClaimedOK, MessagesOK, Claims
<1>15. ListeningOK(r, j) /\ AskingOK(r, j)
  BY DEF ListeningOK, AskingOK
<1>16. CarriedOK(r, k, j)
  <2> SUFFICES ASSUME NEW s \in Sends, s \notin h.forgot, s \notin LostWords(c, n)
               PROVE  /\ \A f, g \in Gens : s \in k[f] /\ s \in k[g] => f = g
                      /\ Carried(k, s) => /\ r.rows[s] # "pending"
                                          /\ r.owned => Claims(r, s) \/ InTranscript(r, s)
    BY DEF CarriedOK
  <2>1. Carried(k, s) /\ c.owned => Claims(c, s) \/ InTranscript(c, s)
    BY DEF MessagesOK, CarriedOK
  <2>2. c.owned /\ Unflushed(c, s) => Claims(c, s)
    BY DEF MessagesOK, ClaimedOK
  <2>3. Carried(k, s) /\ c.owned => Claims(c, s) \/ InTranscript(r, s)
    BY <1>12, <2>1, <2>2
  <2> QED
    BY <1>4, <2>3 DEF MessagesOK, CarriedOK, Claims
<1>17. PromisesOK(r, k, j)
  BY <1>4, <1>10 DEF PromisesOK, MessagesOK
<1>18. WithdrawnOK(r, j)
  BY <1>4, <1>8 DEF WithdrawnOK, MessagesOK
<1>19. [c EXCEPT !.queue = {}, !.log = SubSeq(@, 1, n), !.synced = n] = r
  BY <1>1 DEF r, log, Chat
<1>20. r.synced <= Len(r.log)
  BY <1>2, <1>3, <1>4
<1> QED
  BY <1>5, <1>13, <1>14, <1>15, <1>16, <1>17, <1>18, <1>19, <1>20 DEF MessagesOK

(* The recovery marks a row, or cancels it with its thread gone. *)
LEMMA MarkKeeps ==
  ASSUME NEW c, NEW k, NEW h, MessagesOK(c, k, h), ~h.up, NEW s \in Sends, Claims(c, s)
  PROVE  MessagesOK(RowMarked(c, s), k, h)
<1> DEFINE S == {s}
           status == IF c.owned THEN "interrupted" ELSE "cancelled"
           r == RowsSet(c, S, status)
<1>1. c \in Chat /\ c.synced <= Len(c.log) /\ S \in SUBSET Sends /\ status \in Statuses
  BY DEF MessagesOK, Statuses
<1>2. S # {} /\ \A x \in Sends : x \in S <=> x = s
  OBVIOUS
<1>3. r = RowMarked(c, s)
  BY DEF RowMarked
<1>4. /\ status \notin {"pending", "dispatching", "none"}
      /\ c.owned => status = "interrupted"
      /\ status \in {"interrupted", "cancelled"}
  OBVIOUS
<1> HIDE DEF S, status
<1>5. /\ r \in Chat /\ r.queue = c.queue /\ r.owned = c.owned
      /\ \A x \in Sends : r.rows[x] = IF x = s THEN status ELSE c.rows[x]
      /\ SameWords(r, c) /\ Kept(r)
  <2>1. /\ r \in Chat /\ r.queue = c.queue /\ r.owned = c.owned /\ r.log = c.log
        /\ \A x \in Sends : r.rows[x] = IF x \in S THEN status ELSE c.rows[x]
        /\ SameWords(r, c)
        /\ S # {} => Kept(r) /\ r.synced = Len(r.log)
    BY <1>1, RowsSetFacts
  <2> QED
    BY <1>2, <2>1
<1> HIDE DEF r
<1>6. c.rows[s] \in {"dispatching", "interrupted"}
  BY DEF Claims
<1>7. SaidOK(r)
  BY <1>4, <1>5, <1>6 DEF SaidOK, MessagesOK, SameWords, Claims, Chat
<1>8. ClaimedOK(r, k)
  BY <1>4, <1>5, <1>6 DEF ClaimedOK, MessagesOK, Claims, Kept
<1>9. ListeningOK(r, h)
  BY DEF ListeningOK
<1>10. CarriedOK(r, k, h)
  BY <1>4, <1>5, <1>6 DEF CarriedOK, MessagesOK, SameWords, Claims
<1>11. PromisesOK(r, k, h)
  BY <1>4, <1>5, <1>6 DEF PromisesOK, MessagesOK, SameWords, Histories
<1>12. AskingOK(r, h)
  BY <1>4, <1>5, <1>6 DEF AskingOK, MessagesOK, SameWords, Histories, Requests
<1>13. WithdrawnOK(r, h)
  BY <1>4, <1>5, <1>6 DEF WithdrawnOK, MessagesOK, SameWords, Histories
<1> QED
  BY <1>3, <1>5, <1>7, <1>8, <1>9, <1>10, <1>11, <1>12, <1>13 DEF MessagesOK, SameWords

(* What the recovery appends for an interrupted row, where it is missing. *)
LEMMA ToldFacts ==
  ASSUME NEW c, NEW k, NEW h, MessagesOK(c, k, h), NEW s \in Sends, Claims(c, s)
  PROVE  LET r == RowTold(c, s) IN
         /\ r \in Chat /\ r.queue = c.queue /\ r.owned = c.owned /\ r.rows = c.rows
         /\ r.synced <= Len(r.log) /\ Once(r) /\ HasEntry(r, s, "queued")
         /\ \A x \in Sends : \A kind \in Words :
              /\ HasEntry(c, x, kind) => HasEntry(r, x, kind)
              /\ HasEntry(r, x, kind) => HasEntry(c, x, kind) \/ (x = s /\ kind = "queued")
         /\ \A x \in Sends : \A kind \in Kinds : EntryKept(c, x, kind) => EntryKept(r, x, kind)
         /\ \A x \in Sends :
              /\ InTranscript(r, x) <=> InTranscript(c, x) \/ x = s
              /\ Unflushed(r, x) => Unflushed(c, x) \/ x = s
<1> DEFINE S == {s}
           a == Appended(c, S, "queued")
           w == IF HasEntry(c, s, "queued") THEN c ELSE a
           n == Appended(w, S, "notice")
           r == RowTold(c, s)
<1>1. /\ c \in Chat /\ c.synced <= Len(c.log) /\ S \in SUBSET Sends /\ Once(c)
      /\ "queued" \in Kinds /\ "queued" \in Words /\ "notice" \in Kinds /\ "notice" \notin Words
      /\ Words \subseteq Kinds
  BY DEF MessagesOK, SaidOK, Kinds, Words
<1>2. \A x \in Sends : x \in S <=> x = s
  OBVIOUS
<1>3. InTranscript(c, s) => HasEntry(c, s, "queued")
  BY <1>1, TranscriptIsEntries DEF MessagesOK, SaidOK, Words
<1>4. HasEntry(c, s, "queued") => InTranscript(c, s)
  BY <1>1, TranscriptIsEntries
<1>5. r = w \/ r = n
  BY DEF RowTold
<1> HIDE DEF S, r
<1>6. /\ IsChat(w, c.queue, c.rows, w.log, c.synced, c.owned)
      /\ Once(w) /\ HasEntry(w, s, "queued") /\ w.synced <= Len(w.log)
      /\ \A x \in Sends : \A kind \in Kinds :
           /\ HasEntry(w, x, kind) <=> HasEntry(c, x, kind) \/ (x = s /\ kind = "queued")
           /\ EntryKept(c, x, kind) => EntryKept(w, x, kind)
      /\ \A x \in Sends :
           /\ InTranscript(w, x) <=> InTranscript(c, x) \/ x = s
           /\ Unflushed(w, x) => Unflushed(c, x) \/ x = s
  <2>1. CASE HasEntry(c, s, "queued")
    BY <1>1, <1>4, <2>1 DEF IsChat
  <2>2. CASE ~HasEntry(c, s, "queued")
    <3>1. w = a
      BY <2>2
    <3>2. IsChat(a, c.queue, c.rows, a.log, c.synced, c.owned) /\ Extends(a.log, c.log, S, "queued")
      BY <1>1, AppendedFields
    <3> HIDE DEF w, a
    <3>3. a \in Chat /\ a.synced = c.synced
      BY <3>2 DEF IsChat
    <3>4. /\ \A x \in Sends : \A kind \in Kinds :
               /\ HasEntry(a, x, kind) <=> HasEntry(c, x, kind) \/ (x \in S /\ kind = "queued")
               /\ EntryKept(c, x, kind) => EntryKept(a, x, kind)
          /\ \A x \in Sends :
               /\ InTranscript(a, x) <=> InTranscript(c, x) \/ (x \in S /\ "queued" \in Words)
               /\ Unflushed(a, x) => Unflushed(c, x) \/ (x \in S /\ "queued" = "queued")
          /\ a.synced <= Len(a.log)
      BY <1>1, <3>2, <3>3, Grown
    <3>5. \A x \in S : ~InTranscript(c, x)
      BY <1>1, <1>2, <1>3, <2>2
    <3>6. Once(a)
      BY <1>1, <3>2, <3>3, <3>5, GrownOnce
    <3> QED
      BY <1>1, <1>2, <3>1, <3>2, <3>4, <3>6
  <2> QED
    BY <2>1, <2>2
<1> HIDE DEF w
<1>7. /\ w \in Chat /\ w.queue = c.queue /\ w.rows = c.rows
      /\ w.synced = c.synced /\ w.owned = c.owned
  BY <1>6 DEF IsChat
<1>8. CASE r = w
  BY <1>1, <1>6, <1>7, <1>8 DEF r
<1>9. CASE r = n
  <2>1. IsChat(n, w.queue, w.rows, n.log, w.synced, w.owned) /\ Extends(n.log, w.log, S, "notice")
    BY <1>1, <1>7, AppendedFields
  <2> HIDE DEF n
  <2>2. /\ n \in Chat /\ n.queue = c.queue /\ n.rows = c.rows
        /\ n.synced = w.synced /\ n.owned = c.owned
    BY <1>7, <2>1 DEF IsChat
  <2>3. /\ \A x \in Sends : \A kind \in Kinds :
             /\ HasEntry(n, x, kind) <=> HasEntry(w, x, kind) \/ (x \in S /\ kind = "notice")
             /\ EntryKept(w, x, kind) => EntryKept(n, x, kind)
        /\ \A x \in Sends :
             /\ InTranscript(n, x) <=> InTranscript(w, x) \/ (x \in S /\ "notice" \in Words)
             /\ Unflushed(n, x) => Unflushed(w, x) \/ (x \in S /\ "notice" = "queued")
        /\ n.synced <= Len(n.log)
    BY <1>1, <1>6, <1>7, <2>1, <2>2, Grown
  <2>4. Once(n)
    BY <1>1, <1>6, <1>7, <2>1, <2>2, GrownOnce
  <2> QED
    BY <1>1, <1>6, <1>9, <2>2, <2>3, <2>4 DEF r
<1> QED
  BY <1>5, <1>8, <1>9

(* The recovery appends what is missing. *)
LEMMA TellKeeps ==
  ASSUME NEW c, NEW k, NEW h, MessagesOK(c, k, h), ~h.up, c.owned, NEW s \in Sends, Claims(c, s)
  PROVE  MessagesOK(RowTold(c, s), k, h)
<1> DEFINE r == RowTold(c, s)
<1>1. /\ r \in Chat /\ r.queue = c.queue /\ r.owned = c.owned /\ r.rows = c.rows
      /\ r.synced <= Len(r.log) /\ Once(r)
      /\ \A x \in Sends : \A kind \in Words :
           HasEntry(r, x, kind) => HasEntry(c, x, kind) \/ (x = s /\ kind = "queued")
      /\ \A x \in Sends : \A kind \in Kinds : EntryKept(c, x, kind) => EntryKept(r, x, kind)
      /\ \A x \in Sends :
           /\ InTranscript(r, x) <=> InTranscript(c, x) \/ x = s
           /\ Unflushed(r, x) => Unflushed(c, x) \/ x = s
  BY ToldFacts
<1> HIDE DEF r
<1>2. SaidOK(r)
  BY <1>1 DEF SaidOK, MessagesOK, Claims, Words
<1>3. ClaimedOK(r, k)
  BY <1>1 DEF ClaimedOK, MessagesOK, Claims
<1>4. ListeningOK(r, h)
  BY DEF ListeningOK
<1>5. CarriedOK(r, k, h)
  BY <1>1 DEF CarriedOK, MessagesOK, Claims
<1>6. PromisesOK(r, k, h)
  BY <1>1 DEF PromisesOK, MessagesOK, Histories, Kinds, Words
<1>7. AskingOK(r, h)
  BY <1>1 DEF AskingOK, MessagesOK, Histories, Requests, Claims
<1>8. WithdrawnOK(r, h)
  BY <1>1 DEF WithdrawnOK, MessagesOK, Histories, Claims
<1> QED
  BY <1>1, <1>2, <1>3, <1>4, <1>5, <1>6, <1>7, <1>8 DEF MessagesOK, r

(* The row of what is told is settled: the words are on the disk. *)
LEMMA ForgetKeeps ==
  ASSUME NEW c, NEW k, NEW h, MessagesOK(c, k, h), ~h.up, c.owned, NEW s \in Sends,
         Claims(c, s), RowTold(c, s) = c
  PROVE  MessagesOK(RowsSet(c, {s}, "none"), k, h)
<1> DEFINE S == {s}
           r == RowsSet(c, S, "none")
<1>1. c \in Chat /\ c.synced <= Len(c.log) /\ S \in SUBSET Sends
  BY DEF MessagesOK
<1>2. S # {} /\ \A x \in Sends : x \in S <=> x = s
  OBVIOUS
<1>3. HasEntry(c, s, "queued") /\ InTranscript(c, s)
  BY ToldFacts
<1> HIDE DEF S
<1>4. /\ r \in Chat /\ r.queue = c.queue /\ r.owned = c.owned
      /\ \A x \in Sends : r.rows[x] = IF x \in S THEN "none" ELSE c.rows[x]
      /\ SameWords(r, c) /\ Kept(r)
  <2>1. /\ r \in Chat /\ r.queue = c.queue /\ r.owned = c.owned /\ r.log = c.log
        /\ \A x \in Sends : r.rows[x] = IF x \in S THEN "none" ELSE c.rows[x]
        /\ SameWords(r, c)
        /\ S # {} => Kept(r) /\ r.synced = Len(r.log)
    BY <1>1, RowsSetFacts DEF Statuses
  <2> QED
    BY <1>2, <2>1
<1>5. /\ \A x \in Sends : r.rows[x] = IF x = s THEN "none" ELSE c.rows[x]
      /\ EntryKept(r, s, "queued") /\ InTranscript(r, s)
  BY <1>2, <1>3, <1>4 DEF SameWords, Kept
<1> HIDE DEF r
<1>6. SaidOK(r)
  BY <1>4, <1>5 DEF SaidOK, MessagesOK, SameWords, Claims, Chat
<1>7. ClaimedOK(r, k)
  BY <1>4, <1>5 DEF ClaimedOK, MessagesOK, Claims, Kept
<1>8. ListeningOK(r, h)
  BY DEF ListeningOK
<1>9. CarriedOK(r, k, h)
  BY <1>4, <1>5 DEF CarriedOK, MessagesOK, SameWords, Claims
<1>10. PromisesOK(r, k, h)
  BY <1>4, <1>5 DEF PromisesOK, MessagesOK, ClaimedOK, SameWords, Histories
<1>11. AskingOK(r, h)
  BY <1>3, <1>4, <1>5 DEF AskingOK, MessagesOK, SameWords, Histories, Requests
<1>12. WithdrawnOK(r, h)
  BY <1>3, <1>4, <1>5 DEF WithdrawnOK, MessagesOK, SameWords, Histories
<1> QED
  BY <1>4, <1>6, <1>7, <1>8, <1>9, <1>10, <1>11, <1>12 DEF MessagesOK, SameWords, r, S

(* The queue is what the rows say; no claim is left from before. *)
LEMMA RestoreKeeps ==
  ASSUME NEW c, NEW k, NEW h, MessagesOK(c, k, h), Interrupted(c) = {},
         NEW j \in Histories, j.asking = h.asking, j.promised = h.promised,
         j.forgot = h.forgot, j.withdrawn = h.withdrawn
  PROVE  MessagesOK(Restored(c), k, j)
<1> DEFINE Q == {s \in Sends : c.rows[s] = "pending"}
           r == [c EXCEPT !.queue = Q]
<1>1. c \in Chat /\ c.synced <= Len(c.log) /\ Q \in SUBSET Sends /\ r = Restored(c)
  BY DEF MessagesOK, Restored
<1>2. \A s \in Sends : /\ s \in Q <=> c.rows[s] = "pending"
                       /\ c.rows[s] # "dispatching" /\ c.rows[s] # "interrupted"
  BY DEF Interrupted
<1> HIDE DEF Q
<1>3. /\ r \in Chat /\ r.queue = Q /\ r.owned = c.owned
      /\ r.rows = c.rows /\ r.log = c.log /\ r.synced = c.synced /\ SameWords(r, c)
  BY <1>1, RequeuedFacts
<1> HIDE DEF r
<1>4. SaidOK(r)
  BY <1>1, <1>2, <1>3 DEF SaidOK, MessagesOK, SameWords, Claims
<1>5. ClaimedOK(r, k)
  BY <1>3 DEF ClaimedOK, MessagesOK, SameWords, Claims
<1>6. ListeningOK(r, j)
  BY <1>2, <1>3 DEF ListeningOK
<1>7. CarriedOK(r, k, j)
  BY <1>3 DEF CarriedOK, MessagesOK, SameWords, Claims
<1>8. PromisesOK(r, k, j)
  BY <1>3 DEF PromisesOK, MessagesOK, SameWords, Histories
<1>9. AskingOK(r, j)
  BY <1>3 DEF AskingOK, MessagesOK, SameWords, Histories, Requests
<1>10. WithdrawnOK(r, j)
  BY <1>3 DEF WithdrawnOK, MessagesOK, SameWords, Histories
<1> QED
  BY <1>1, <1>3, <1>4, <1>5, <1>6, <1>7, <1>8, <1>9, <1>10 DEF MessagesOK, SameWords

(* Requests are opened and answered. *)
LEMMA AskKeeps ==
  ASSUME NEW c, NEW k, NEW h, MessagesOK(c, k, h),
         NEW j \in Histories, j.up = h.up, j.promised = h.promised,
         j.forgot = h.forgot, j.withdrawn = h.withdrawn, AskingOK(c, j)
  PROVE  MessagesOK(c, k, j)
BY DEF MessagesOK, ListeningOK, CarriedOK, PromisesOK, WithdrawnOK

-----------------------------------------------------------------------------
(* A step keeps the invariant of messages. *)

(* A new message is nowhere yet. *)
LEMMA FreshIsNew ==
  ASSUME NEW s \in Sends, NEW a, MessagesOK(chat, carries, History), up,
         Fresh(s), Sequenced(s, a)
  PROVE  New(chat, s, History)
<1>1. chat.rows[s] \in Statuses /\ History.up /\ History.asking = asking
  BY DEF MessagesOK, Chat, History
<1> QED
  BY <1>1 DEF Fresh, Sequenced, New, MessagesOK, ListeningOK, Statuses

(* The queue is drained, whatever the turn and the chat are by then. *)
LEMMA DrainSays ==
  ASSUME NEW t \in Turn, NEW c, NEW free, NEW h, MessagesOK(c, carries, h), h.up,
         Unused(t, carries), Drain(t, c, free)
  PROVE  MessagesOK(chat', carries', h) /\ Unused(turn', carries')
<1>1. CASE ~c.owned /\ turn' = t /\ chat' = Discarded(c) /\ UNCHANGED carries
  BY <1>1, DiscardKeeps
<1>2. CASE turn' = t /\ chat' = c /\ UNCHANGED carries
  BY <1>2
<1>3. CASE /\ c.owned /\ c.queue # {} /\ t.gen < MaxTurns
           /\ turn' = Claimed(t) /\ chat' = Taken(c)
           /\ carries' = [carries EXCEPT ![t.gen + 1] = c.queue]
  <2>1. t.gen \in 0 .. MaxTurns /\ t.gen + 1 \in Gens /\ t.gen + 1 > t.gen
    BY <1>3, MaxTurnsAssumption DEF Gens, Turn
  <2>2. carries[t.gen + 1] = {}
    BY <2>1 DEF Unused
  <2>3. MessagesOK(chat', carries', h)
    BY <1>3, <2>1, <2>2, TakeKeeps
  <2>4. turn'.gen = t.gen + 1
    BY <1>3, ClaimedFields DEF IsTurn
  <2>5. carries \in [Gens -> SUBSET Sends]
    BY DEF MessagesOK
  <2>6. \A g \in Gens : g > t.gen + 1 => g > t.gen /\ g # t.gen + 1
    BY <2>1 DEF Gens
  <2> QED
    BY <1>3, <2>3, <2>4, <2>5, <2>6 DEF Unused
<1>4. CASE /\ c.owned /\ c.queue # {} /\ turn' = t /\ UNCHANGED carries
           /\ chat' = Retired(Appended(Taken(c), c.queue, "error"), c.queue)
  BY <1>4, RefuseKeeps
<1> QED
  BY <1>1, <1>2, <1>3, <1>4 DEF Drain

(* What is drained, or not, when a turn of the thread settles. *)
LEMMA ThenSays ==
  ASSUME NEW t \in Turn, t.gen = turn.gen, TurnsOK(turn, provider),
         MessagesOK(chat, carries, History), Unused(turn, carries), up,
         Then(t) \/ Only(t)
  PROVE  MessagesOK(chat', carries', History) /\ Unused(turn', carries')
<1> DEFINE gone == turn.settlers \ t.settlers
           S == UNION {carries[g] : g \in gone}
<1>1. gone \subseteq Gens
  BY DEF TurnsOK, Turn
<1>2. S \in SUBSET Sends
  BY <1>1 DEF MessagesOK
<1>3. Settling(t) = Retired(chat, S) /\ History.up
  BY DEF Settling, History
<1> HIDE DEF S, gone
<1>4. MessagesOK(Settling(t), carries, History)
  BY <1>2, <1>3, RetireKeeps
<1>5. Unused(t, carries)
  BY DEF Unused
<1>6. CASE Only(t)
  BY <1>4, <1>5, <1>6 DEF Only
<1>7. CASE Then(t)
  BY <1>3, <1>4, <1>5, <1>7, DrainSays DEF Then
<1> QED
  BY <1>6, <1>7

(* startOrQueueDirectMessage, with the requests that are then still open. *)
LEMMA StartSays ==
  ASSUME NEW s \in Sends, NEW h, MessagesOK(chat, carries, h), h.up, New(chat, s, h),
         TurnsOK(turn, provider), Unused(turn, carries), StartOrQueue(s) \/ Queue(s)
  PROVE  /\ Unused(turn', carries')
         /\ \/ MessagesOK(chat', carries', h) /\ UNCHANGED promised
            \/ MessagesOK(chat', carries', Promising(h, s)) /\ promised' = promised \union {s}
<1>1. CASE Queue(s)
  BY <1>1, QueueKeeps DEF Queue, Unused
<1>2. CASE Refuse
  BY <1>2 DEF Refuse, Unused
<1>3. CASE /\ turn.gen < MaxTurns /\ turn' = Claimed(turn)
           /\ chat' = Appended(chat, {s}, "sent")
           /\ carries' = [carries EXCEPT ![turn.gen + 1] = {s}]
           /\ UNCHANGED promised
  <2>1. turn \in Turn /\ turn.gen \in 0 .. MaxTurns
    BY DEF TurnsOK, Turn
  <2>2. turn.gen + 1 \in Gens /\ turn.gen + 1 > turn.gen
    BY <1>3, <2>1, MaxTurnsAssumption DEF Gens
  <2>3. carries[turn.gen + 1] = {}
    BY <2>2 DEF Unused
  <2>4. MessagesOK(chat', carries', h)
    BY <1>3, <2>2, <2>3, SendKeeps
  <2>5. turn'.gen = turn.gen + 1
    BY <1>3, <2>1, ClaimedFields DEF IsTurn
  <2>6. carries \in [Gens -> SUBSET Sends]
    BY DEF MessagesOK
  <2>7. \A g \in Gens : g > turn.gen + 1 => g > turn.gen /\ g # turn.gen + 1
    BY <2>1 DEF Gens
  <2> QED
    BY <1>3, <2>4, <2>5, <2>6, <2>7 DEF Unused
<1> QED
  BY <1>1, <1>2, <1>3 DEF StartOrQueue

(* Requests: a message is sent, or steered into the turn under way. *)
LEMMA AskStep ==
  ASSUME TurnsOK(turn, provider), DownInv, MessagesOK(chat, carries, History),
         Unused(turn, carries),
         \/ \E s \in Sends : \E a \in Attempts : Send(s, a)
         \/ \E q \in asking : SteerTaken(q) \/ SteerReturns(q)
  PROVE  MessagesOK(chat', carries', History') /\ Unused(turn', carries')
<1>1. /\ History \in Histories /\ History.up = up /\ History.asking = asking
      /\ History.promised = promised /\ History.forgot = forgot
      /\ History.withdrawn = withdrawn
  BY DEF MessagesOK, History
<1>2. /\ up \in BOOLEAN /\ asking \subseteq Requests /\ promised \subseteq Sends
      /\ forgot \subseteq Sends /\ withdrawn \subseteq Sends
  BY <1>1 DEF Histories
<1>3. /\ History'.up = up' /\ History'.asking = asking' /\ History'.promised = promised'
      /\ History'.forgot = forgot' /\ History'.withdrawn = withdrawn'
      /\ History' = [up |-> up', asking |-> asking', promised |-> promised',
                     forgot |-> forgot', withdrawn |-> withdrawn']
  BY DEF History
<1>4. ASSUME NEW s \in Sends, NEW a \in Attempts, Send(s, a)
      PROVE  MessagesOK(chat', carries', History') /\ Unused(turn', carries')
  <2>1. New(chat, s, History) /\ up
    BY <1>4, FreshIsNew DEF Send
  <2>2. CASE (StartOrQueue(s) \/ Queue(s)) /\ UNCHANGED asking
    <3>1. /\ Unused(turn', carries')
          /\ \/ MessagesOK(chat', carries', History) /\ UNCHANGED promised
             \/ /\ MessagesOK(chat', carries', Promising(History, s))
                /\ promised' = promised \union {s}
      BY <1>1, <2>1, <2>2, StartSays
    <3>2. up' = up /\ asking' = asking /\ forgot' = forgot /\ withdrawn' = withdrawn
      BY <1>4, <2>2 DEF Send
    <3>3. promised' = promised => History' = History
      BY <3>2 DEF History
    <3>4. promised' = promised \union {s} => History' = Promising(History, s)
      BY <1>1, <1>3, <3>2 DEF Promising
    <3> QED
      BY <3>1, <3>3, <3>4
  <2>3. CASE asking' = asking \union {[send |-> s, by |-> a, taken |-> FALSE]} /\ Refuse
    <3> DEFINE q == [send |-> s, by |-> a, taken |-> FALSE]
    <3>1. q \in Requests /\ q.send = s
      BY DEF Requests
    <3> HIDE DEF q
    <3>2. asking' = asking \union {q}
      BY <2>3 DEF q
    <3>3. /\ up' = up /\ promised' = promised /\ forgot' = forgot /\ withdrawn' = withdrawn
          /\ UNCHANGED <<turn, chat, carries>>
      BY <1>4, <2>3 DEF Send, Refuse
    <3>4. History' \in Histories
      BY <1>2, <1>3, <3>1, <3>2, <3>3 DEF Histories
    <3>5. AskingOK(chat, History)
      BY DEF MessagesOK
    <3>6. AskingOK(chat, History')
      BY <1>1, <1>3, <2>1, <3>1, <3>2, <3>5 DEF AskingOK, New
    <3>7. MessagesOK(chat, carries, History')
      BY <1>1, <1>3, <3>3, <3>4, <3>6, AskKeeps
    <3> QED
      BY <3>3, <3>7 DEF Unused
  <2> QED
    BY <1>4, <2>2, <2>3 DEF Send
<1>5. ASSUME NEW q \in asking, SteerTaken(q)
      PROVE  MessagesOK(chat', carries', History') /\ Unused(turn', carries')
  <2> DEFINE r == [q EXCEPT !.taken = TRUE]
  <2>1. r \in Requests /\ r.send = q.send
    BY <1>2 DEF Requests
  <2>2. asking' = (asking \ {q}) \union {r}
    BY <1>5 DEF SteerTaken
  <2> HIDE DEF r
  <2>3. /\ up' = up /\ promised' = promised /\ forgot' = forgot /\ withdrawn' = withdrawn
        /\ UNCHANGED <<turn, chat, carries>>
    BY <1>5 DEF SteerTaken, history
  <2>4. History' \in Histories
    BY <1>2, <1>3, <2>1, <2>2, <2>3 DEF Histories
  <2>5. AskingOK(chat, History)
    BY DEF MessagesOK
  <2>6. AskingOK(chat, History')
    BY <1>1, <1>3, <2>1, <2>2, <2>5 DEF AskingOK
  <2>7. MessagesOK(chat, carries, History')
    BY <1>1, <1>3, <2>3, <2>4, <2>6, AskKeeps
  <2> QED
    BY <2>3, <2>7 DEF Unused
<1>6. ASSUME NEW q \in asking, SteerReturns(q)
      PROVE  MessagesOK(chat', carries', History') /\ Unused(turn', carries')
  <2> DEFINE j == [up |-> up, asking |-> asking \ {q}, promised |-> promised,
                   forgot |-> forgot, withdrawn |-> withdrawn]
             s == q.send
  <2>1. /\ j \in Histories /\ j.up = up /\ j.asking = asking \ {q} /\ j.promised = promised
        /\ j.forgot = forgot /\ j.withdrawn = withdrawn
    BY <1>2 DEF Histories
  <2>2. /\ asking' = asking \ {q} /\ up' = up
        /\ forgot' = forgot /\ withdrawn' = withdrawn
    BY <1>6 DEF SteerReturns
  <2>3. /\ promised' = promised => History' = j
        /\ promised' = promised \union {s} => History' = Promising(j, s)
    BY <1>3, <2>1, <2>2 DEF Promising
  <2> HIDE DEF j
  <2>4. AskingOK(chat, History)
    BY DEF MessagesOK
  <2>5. AskingOK(chat, j)
    BY <1>1, <2>1, <2>4 DEF AskingOK
  <2>6. MessagesOK(chat, carries, j)
    BY <1>1, <2>1, <2>5, AskKeeps
  <2>7. s \in Sends /\ up /\ j.up
    BY <1>2, <2>1 DEF Requests, DownInv
  <2>8. chat.owned => New(chat, s, j)
    BY <1>1, <2>1, <2>4 DEF AskingOK, New
  <2>9. CASE Refuse
    BY <2>3, <2>6, <2>9 DEF Refuse, Unused
  <2>10. CASE chat.owned /\ chat' = Appended(chat, {s}, "steered") /\ UNCHANGED <<turn, carries, promised>>
    <3>1. MessagesOK(Appended(chat, {s}, "steered"), carries, j)
      BY <2>6, <2>7, <2>8, <2>10, SteerKeeps
    <3> QED
      BY <2>3, <2>10, <3>1 DEF Unused
  <2>11. CASE chat.owned /\ (Queue(s) \/ StartOrQueue(s))
    <3>1. /\ Unused(turn', carries')
          /\ \/ MessagesOK(chat', carries', j) /\ UNCHANGED promised
             \/ /\ MessagesOK(chat', carries', Promising(j, s))
                /\ promised' = promised \union {s}
      BY <2>6, <2>7, <2>8, <2>11, StartSays
    <3> QED
      BY <2>3, <3>1
  <2> QED
    BY <1>6, <2>9, <2>10, <2>11 DEF SteerReturns
<1> QED
  BY <1>4, <1>5, <1>6

(* The recovery of one row. *)
LEMMA RecoverKeeps ==
  ASSUME MessagesOK(chat, carries, History), NEW s \in Sends, RecoverRow(s)
  PROVE  MessagesOK(chat', carries, History)
<1>1. ~History.up /\ Claims(chat, s)
  BY DEF RecoverRow, History, Interrupted, Claims
<1>2. CASE chat' = RowMarked(chat, s)
  BY <1>1, <1>2, MarkKeeps
<1>3. CASE chat.owned /\ chat' = RowTold(chat, s)
  BY <1>1, <1>3, TellKeeps
<1>4. CASE chat.owned /\ RowTold(chat, s) = chat /\ chat' = RowsSet(chat, {s}, "none")
  BY <1>1, <1>4, ForgetKeeps
<1> QED
  BY <1>2, <1>3, <1>4 DEF RecoverRow

(* What only moves the turns: they settle, and the queue may be drained.   *)
LEMMA SettleStep ==
  ASSUME TurnsOK(turn, provider), MessagesOK(chat, carries, History),
         Unused(turn, carries), up, NEW g \in Gens,
         \/ SetupEnds(g) \/ SetupFails(g) \/ ProviderRefuses(g) \/ Answers(g)
         \/ StopSettles(g) \/ (\E framed \in BOOLEAN : Completes(g, framed))
         \/ FrameArrives(g) \/ GraceEnds(g)
  PROVE  MessagesOK(chat', carries', History') /\ Unused(turn', carries')
<1>1. turn \in Turn
  BY DEF TurnsOK
<1>2. ASSUME NEW t \in Turn, t.gen = turn.gen, Then(t) \/ Only(t)
      PROVE  MessagesOK(chat', carries', History) /\ Unused(turn', carries')
  BY <1>2, ThenSays
<1>3. ASSUME NEW t \in Turn, t.gen = turn.gen, Abandon(t, g)
      PROVE  MessagesOK(chat', carries', History) /\ Unused(turn', carries')
  <2>1. Abandoned(t, g) \in Turn /\ Abandoned(t, g).gen = turn.gen
    <3>1. IsTurn(Abandoned(t, g), t.gen, t.busy /\ t.gen # g,
                 IF t.claim.of = g THEN NoClaim ELSE t.claim,
                 [t.stage EXCEPT ![g] = "ended"],
                 t.quarantine \ {g}, t.watched /\ t.gen # g, t.grace, t.frame)
      BY <1>3, AbandonedFields
    <3> QED
      BY <1>3, <3>1 DEF IsTurn
  <2> QED
    BY <1>2, <1>3, <2>1 DEF Abandon
<1>4. ASSUME UNCHANGED <<chat, carries>>, turn'.gen = turn.gen
      PROVE  MessagesOK(chat', carries', History) /\ Unused(turn', carries')
  BY <1>4 DEF Unused
<1>5. Ignored(turn, g) \in Turn /\ Ignored(turn, g).gen = turn.gen
  BY <1>1, IgnoredFields DEF IsTurn
<1>6. CASE SetupEnds(g)
  <2>1. turn.claim.of = g => Dispatching(turn, g).gen = turn.gen
    BY <1>1, DispatchingFields DEF IsTurn
  <2> QED
    BY <1>1, <1>3, <1>4, <1>6, <2>1 DEF SetupEnds, ClaimIsCurrent, History
<1>7. CASE SetupFails(g) \/ ProviderRefuses(g)
  BY <1>1, <1>3, <1>7 DEF SetupFails, ProviderRefuses, History
<1>8. CASE Answers(g)
  <2>1. Acknowledged(turn, g) \in Turn /\ Acknowledged(turn, g).gen = turn.gen
    BY <1>1, AcknowledgedFields DEF IsTurn
  <2>2. [turn EXCEPT !.stage[g] = "stopping"].gen = turn.gen
    BY <1>1, StoppingFields DEF IsTurn
  <2> QED
    BY <1>2, <1>4, <1>8, <2>1, <2>2 DEF Answers, History
<1>9. CASE StopSettles(g)
  BY <1>3, <1>5, <1>9 DEF StopSettles, History
<1>10. ASSUME NEW framed \in BOOLEAN, Completes(g, framed)
       PROVE  MessagesOK(chat', carries', History') /\ Unused(turn', carries')
  <2>1. turn.gen \in Gens
    BY <1>1, <1>10 DEF Completes, TurnsOK, ProvidersOK, ClaimsOK, Turn, Gens
  <2>2. Completed(turn, g, framed) \in Turn /\ Completed(turn, g, framed).gen = turn.gen
    BY <1>1, <2>1, CompletedFields DEF IsTurn
  <2> QED
    BY <1>2, <1>5, <1>10, <2>2 DEF Completes, History
<1>11. CASE FrameArrives(g)
  <2>1. FrameTaken(turn, g) \in Turn /\ FrameTaken(turn, g).gen = turn.gen
    BY <1>1, FrameTakenFields DEF IsTurn
  <2> QED
    BY <1>2, <1>11, <2>1 DEF FrameArrives, History
<1>12. CASE GraceEnds(g)
  <2>1. Released(turn, g) \in Turn /\ Released(turn, g).gen = turn.gen
    BY <1>1, ReleasedFields DEF IsTurn
  <2> QED
    BY <1>2, <1>12, <2>1 DEF GraceEnds, History
<1> QED
  BY <1>6, <1>7, <1>8, <1>9, <1>10, <1>11, <1>12

(* One case for each action that has to do with messages. *)
LEMMA MessageStep ==
  ASSUME TurnsOK(turn, provider), DownInv, MessagesOK(chat, carries, History),
         Unused(turn, carries), [Next]_vars
  PROVE  MessagesOK(chat', carries', History') /\ Unused(turn', carries')
<1>1. turn \in Turn
  BY DEF TurnsOK
<1>2. /\ History \in Histories /\ History.up = up /\ History.asking = asking
      /\ History.promised = promised /\ History.forgot = forgot
      /\ History.withdrawn = withdrawn
  BY DEF MessagesOK, History
<1>3. /\ up \in BOOLEAN /\ asking \subseteq Requests /\ promised \subseteq Sends
      /\ forgot \subseteq Sends /\ withdrawn \subseteq Sends
  BY <1>2 DEF Histories
<1>4. /\ History'.up = up' /\ History'.asking = asking' /\ History'.promised = promised'
      /\ History'.forgot = forgot' /\ History'.withdrawn = withdrawn'
  BY DEF History
<1>5. ASSUME UNCHANGED <<chat, carries, up, asking, promised, forgot, withdrawn>>,
             turn'.gen = turn.gen
      PROVE  MessagesOK(chat', carries', History') /\ Unused(turn', carries')
  BY <1>5 DEF Unused, History
<1>6. ASSUME NEW s \in Sends, RecoverRow(s)
      PROVE  MessagesOK(chat', carries', History') /\ Unused(turn', carries')
  <2>1. MessagesOK(chat', carries, History)
    BY <1>6, RecoverKeeps
  <2> QED
    BY <1>6, <2>1 DEF RecoverRow, History, history, Unused
<1>7. ASSUME NEW s \in Sends, CancelQueued(s)
      PROVE  MessagesOK(chat', carries', History') /\ Unused(turn', carries')
  <2>1. /\ up /\ s \in chat.queue /\ up' = up /\ asking' = asking /\ promised' = promised
        /\ forgot' = forgot /\ withdrawn' = withdrawn \union {s}
    BY <1>7 DEF CancelQueued
  <2>2. History' \in Histories
    BY <1>3, <1>4, <2>1 DEF Histories, History
  <2>3. MessagesOK(Cancelled(chat, s), carries, History')
    BY <1>2, <1>4, <2>1, <2>2, CancelKeeps
  <2> QED
    BY <1>7, <2>3 DEF CancelQueued, Unused
<1>8. CASE Crash
  <2>1. PICK n \in chat.synced .. Len(chat.log) :
          /\ chat' = [chat EXCEPT !.queue = {}, !.log = SubSeq(@, 1, n), !.synced = n]
          /\ forgot' = forgot \union LostWords(chat, n)
    BY <1>8 DEF Crash, Unsynced, LostWords
  <2>2. /\ up' = FALSE /\ asking' = {} /\ promised' = promised /\ withdrawn' = withdrawn
        /\ carries' = carries /\ turn' = TurnsLost(turn)
    BY <1>8 DEF Crash
  <2>3. LostWords(chat, n) \subseteq Sends
    <3>1. chat.log \in Seq(Entries) /\ chat.synced \in Nat
      BY DEF MessagesOK, Chat
    <3>2. \A i \in (n + 1) .. Len(chat.log) : i \in 1 .. Len(chat.log)
      BY <3>1
    <3>3. \A i \in 1 .. Len(chat.log) : chat.log[i] \in Entries
      BY <3>1
    <3>4. \A i \in 1 .. Len(chat.log) : chat.log[i].send \in Sends
      BY <3>3 DEF Entries
    <3> QED
      BY <3>2, <3>4 DEF LostWords
  <2>4. History' \in Histories
    BY <1>3, <2>1, <2>2, <2>3 DEF Histories, History
  <2>5. MessagesOK(chat', carries, History')
    BY <1>2, <1>4, <2>1, <2>2, <2>4, CrashKeeps
  <2>6. turn'.gen = turn.gen
    BY <1>1, <2>2, LostFields DEF IsTurn
  <2> QED
    BY <2>2, <2>5, <2>6 DEF Unused
<1>9. CASE Listen
  <2>1. /\ up' = TRUE /\ asking' = asking /\ promised' = promised
        /\ forgot' = forgot /\ withdrawn' = withdrawn
        /\ Interrupted(chat) = {} /\ Drain(turn, Restored(chat), TRUE)
    BY <1>9 DEF Listen
  <2>2. History' \in Histories /\ History'.up
    BY <1>3, <1>4, <2>1 DEF Histories, History
  <2>3. MessagesOK(Restored(chat), carries, History')
    BY <1>2, <1>4, <2>1, <2>2, RestoreKeeps
  <2> QED
    BY <1>1, <2>1, <2>2, <2>3, DrainSays
<1>10. CASE OtherEnds
  <2>1. up /\ Drain(turn, chat, TRUE) /\ History' = History
    BY <1>10 DEF OtherEnds, DownInv, History
  <2> QED
    BY <1>1, <1>2, <2>1, DrainSays
<1>11. CASE up /\ DeleteTask
  <2> DEFINE t == FollowupSettled(turn, turn.gen)
             S == UNION {carries[g] : g \in turn.settlers \ t.settlers}
             c == Retired(chat, S)
  <2>1. t.gen = turn.gen
    BY <1>1, SettledFields DEF IsTurn
  <2>2. S \in SUBSET Sends
    BY <1>1 DEF MessagesOK, Turn
  <2>3. /\ turn' = t /\ UNCHANGED <<carries, up, asking, promised, forgot, withdrawn>>
        /\ chat' = [c EXCEPT !.owned = FALSE, !.log = <<>>, !.synced = 0]
    BY <1>11 DEF DeleteTask, Settling, history
  <2> HIDE DEF t, S
  <2>4. MessagesOK(c, carries, History)
    BY <1>2, <1>11, <2>2, RetireKeeps
  <2> HIDE DEF c
  <2>5. MessagesOK(chat', carries, History)
    BY <2>3, <2>4, DeleteKeeps
  <2> QED
    BY <2>1, <2>3, <2>5 DEF Unused, History
<1>12. CASE Stop
  <2>1. turn.claim # NoClaim => turn.claim.of \in Gens
    BY DEF TurnsOK, ClaimsOK, Turn, Gens
  <2>2. turn.claim # NoClaim => Unclaimed(turn).gen = turn.gen
    BY <1>1, <2>1, UnclaimedFields DEF IsTurn
  <2> QED
    BY <1>5, <1>12, <2>2 DEF Stop, history
<1>13. CASE up /\ Stall
  <2>1. turn.gen \in Gens
    BY <1>13 DEF Stall, TurnsOK, ClaimsOK, WaitsOK, Turn, Gens
  <2>2. turn.claim.phase = "setup" \/ turn.claim.of \in Gens
    BY <2>1 DEF TurnsOK, ClaimsOK, NoClaim
  <2>3. Stalled(turn) \in Turn /\ Stalled(turn).gen = turn.gen
    BY <1>1, <2>1, <2>2, StalledFields DEF IsTurn
  <2> QED
    BY <1>13, <2>3, ThenSays DEF Stall, History
<1>14. ASSUME up, NEW g \in Gens,
              ProviderSteps(g) \/ ServerSteps(g) \/ SetupFails(g) \/ Wedges(g)
       PROVE  MessagesOK(chat', carries', History') /\ Unused(turn', carries')
  <2>1. CASE (\E as \in {"live", "hung"} : ProviderStarts(g, as)) \/ Wedges(g)
    BY <1>5, <2>1 DEF ProviderStarts, Wedges, history
  <2>2. CASE QuarantineExpires(g)
    <3>1. [turn EXCEPT !.quarantine = @ \ {g}].gen = turn.gen
      BY <1>1, ExpiredFields DEF IsTurn
    <3> QED
      BY <1>5, <2>2, <3>1 DEF QuarantineExpires, history
  <2> QED
    BY <1>14, <2>1, <2>2, SettleStep DEF ProviderSteps, ServerSteps
<1>15. CASE ChannelWaits \/ ChannelEnds \/ (\E kind \in {"threads", "channel"} : OtherBegins(kind))
  BY <1>5, <1>15 DEF ChannelWaits, ChannelEnds, OtherBegins, history
<1>16. CASE UNCHANGED vars
  BY <1>5, <1>16 DEF vars
<1>17. CASE \/ \E s \in Sends : \E a \in Attempts : Send(s, a)
            \/ \E q \in asking : SteerTaken(q) \/ SteerReturns(q)
  BY <1>17, AskStep
<1>18. up \/ UNCHANGED vars \/ Crash \/ Listen \/ \E s \in Sends : RecoverRow(s)
  BY DownStep
<1>19. CASE up
  BY <1>6, <1>7, <1>8, <1>9, <1>10, <1>11, <1>12, <1>13, <1>14, <1>15, <1>16, <1>17, <1>19
     DEF Next
<1> QED
  BY <1>6, <1>8, <1>9, <1>16, <1>18, <1>19

-----------------------------------------------------------------------------
(* The invariant, and what follows from it. *)

(* Nothing has been sent yet. *)
LEMMA InitEstablishes == Init => IInv
<1> SUFFICES ASSUME Init PROVE IInv
  OBVIOUS
<1>1. TurnsOK(turn, provider)
  BY MaxTurnsAssumption DEF Init, TurnsInit, Idle, NoClaim, TurnsOK, Turn, Providers, Phases,
     ClaimsOK, ProvidersOK, WaitsOK, AtWork, Gens
<1>2. DownInv
  BY DEF Init, DownInv
<1>3. /\ chat.queue = {} /\ chat.log = <<>> /\ chat.synced = 0 /\ chat.owned = TRUE
      /\ \A s \in Sends : chat.rows[s] = "none"
  BY DEF Init, ChatInit
<1>4. chat \in Chat
  <2>1. <<>> \in Seq(Entries) /\ 0 \in Nat /\ TRUE \in BOOLEAN /\ {} \in SUBSET Sends
    OBVIOUS
  <2>2. [s \in Sends |-> "none"] \in [Sends -> Statuses]
    BY DEF Statuses
  <2> QED
    BY <2>1, <2>2 DEF Init, ChatInit, Chat
<1>5. Len(chat.log) = 0 /\ DOMAIN chat.log = {}
  BY <1>3
<1>6. \A s : ~InTranscript(chat, s) /\ ~Unflushed(chat, s) /\ \A kind : ~HasEntry(chat, s, kind)
  BY <1>5 DEF InTranscript, Unflushed, HasEntry
<1>7. carries \in [Gens -> SUBSET Sends] /\ \A g \in Gens : carries[g] = {}
  BY DEF Init
<1>8. /\ History \in Histories /\ History.asking = {} /\ History.promised = {}
      /\ History.withdrawn = {}
  BY DEF Init, History, Histories
<1>9. SaidOK(chat) /\ ClaimedOK(chat, carries) /\ ListeningOK(chat, History)
  BY <1>3, <1>5, <1>6 DEF SaidOK, Once, ClaimedOK, Claims, ListeningOK
<1>10. /\ CarriedOK(chat, carries, History) /\ PromisesOK(chat, carries, History)
       /\ AskingOK(chat, History) /\ WithdrawnOK(chat, History)
  BY <1>7, <1>8 DEF CarriedOK, Carried, PromisesOK, AskingOK, WithdrawnOK
<1> QED
  BY <1>1, <1>2, <1>3, <1>4, <1>5, <1>7, <1>8, <1>9, <1>10 DEF IInv, MessagesOK, Unused

(* Whatever happens, the bookkeeping of turns and the messages stay sound. *)
THEOREM IInvHolds == Spec => []IInv
<1>1. IInv /\ [Next]_vars => IInv'
  <2> SUFFICES ASSUME IInv, [Next]_vars PROVE IInv'
    OBVIOUS
  <2>1. TurnsOK(turn', provider')
    BY TurnStep DEF IInv
  <2>2. DownInv'
    BY DownStep DEF IInv
  <2>3. MessagesOK(chat', carries', History') /\ Unused(turn', carries')
    BY MessageStep DEF IInv
  <2> QED
    BY <2>1, <2>2, <2>3 DEF IInv
<1> QED
  BY <1>1, InitEstablishes, PTL DEF Spec

(* At most one of its kind. *)
LEMMA AtMostOne ==
  ASSUME NEW S, \A x, y \in S : x = y
  PROVE  Cardinality(S) <= 1
<1>1. CASE S = {}
  BY <1>1, FS_EmptySet
<1>2. CASE S # {}
  <2>1. PICK x \in S : TRUE
    BY <1>2
  <2>2. S = {x}
    BY <2>1
  <2> QED
    BY <2>2, FS_Singleton
<1> QED
  BY <1>1, <1>2

(* A thread never has two provider processes at work at once (startTurn,   *)
(* PendingTurnCancellations, the grace period of the watchdog).            *)
THEOREM NoTwoProvidersAtWork == Spec => []OneProviderTurn
<1>1. IInv => OneProviderTurn
  BY AtMostOne DEF IInv, TurnsOK, ProvidersOK, AtWork, OneProviderTurn
<1> QED
  BY <1>1, IInvHolds, PTL

(* A thread is freed only when the provider of its latest turn is at rest  *)
(* or its events are quarantined.                                          *)
THEOREM TurnsKeepTheirThread == Spec => ThreadKeptByItsTurn
<1>1. /\ IInv /\ IInv'
      => (ThreadBusy(turn) /\ ~ThreadBusy(turn')
          => \/ provider'[turn.gen] \notin {"live", "wedged", "dying"}
             \/ turn.gen \in turn'.quarantine)
  <2> SUFFICES ASSUME IInv, IInv', ThreadBusy(turn), ~ThreadBusy(turn'),
                      provider'[turn.gen] \in {"live", "wedged", "dying"}
               PROVE  turn.gen \in turn'.quarantine
    OBVIOUS
  <2>1. turn.gen \in Gens
    BY DEF IInv, TurnsOK, ClaimsOK, ThreadBusy, Turn, Gens
  <2>2. TurnsOK(turn', provider')
    BY DEF IInv
  <2> QED
    BY <2>1, <2>2 DEF TurnsOK, ProvidersOK, AtWork, ThreadBusy
<1> QED
  BY <1>1, IInvHolds, PTL DEF Spec, ThreadKeptByItsTurn

(* The words of a message are in the transcript at most once, however      *)
(* often it is retried, queued, steered, recovered.                        *)
THEOREM WordsAreSaidOnce == Spec => []SaidOnce
<1>1. IInv => SaidOnce
  <2> SUFFICES ASSUME IInv, NEW s \in Sends
               PROVE  Cardinality({i \in DOMAIN chat.log :
                        chat.log[i].send = s /\ chat.log[i].kind \in Words}) <= 1
    BY DEF SaidOnce
  <2> DEFINE S == {i \in DOMAIN chat.log : chat.log[i].send = s /\ chat.log[i].kind \in Words}
  <2>1. \A i, j \in S : i = j
    BY DEF IInv, MessagesOK, SaidOK, Once
  <2> HIDE DEF S
  <2>2. Cardinality(S) <= 1
    BY <2>1, AtMostOne
  <2> QED
    BY <2>2 DEF S
<1> QED
  BY <1>1, IInvHolds, PTL

(* No turn runs words that another has run: the claim of a row is on the   *)
(* disk before its turn starts, and a retry is recognised.                 *)
THEOREM WordsRunOnce == Spec => []RunOnce
<1>1. IInv => RunOnce
  <2> SUFFICES ASSUME IInv, NEW s \in Sends \ forgot
               PROVE  Cardinality({g \in Gens : s \in carries[g]}) <= 1
    BY DEF RunOnce
  <2> DEFINE S == {g \in Gens : s \in carries[g]}
  <2>1. \A f, g \in S : f = g
    BY DEF IInv, MessagesOK, CarriedOK, History
  <2> HIDE DEF S
  <2>2. Cardinality(S) <= 1
    BY <2>1, AtMostOne
  <2> QED
    BY <2>2 DEF S
<1> QED
  BY <1>1, IInvHolds, PTL

(* A message answered as queued is never lost: it waits on the disk, was   *)
(* cancelled, or is in the transcript, and either a turn ran it or an      *)
(* error says that none did.                                               *)
THEOREM PromisesAreKept == Spec => []PromisesKept
<1>1. IInv => PromisesKept
  <2> SUFFICES ASSUME IInv, chat.owned, NEW s \in promised, chat.rows[s] = "none"
               PROVE  /\ HasEntry(chat, s, "queued")
                      /\ \/ \E g \in Gens : s \in carries[g]
                         \/ HasEntry(chat, s, "error")
    BY DEF PromisesKept
  <2>1. chat.log \in Seq(Entries) /\ chat.synced \in Nat /\ chat.synced <= Len(chat.log)
    BY DEF IInv, MessagesOK, Chat
  <2>2. 1 .. chat.synced \subseteq DOMAIN chat.log
    BY <2>1
  <2>3. \A kind : EntryKept(chat, s, kind) => HasEntry(chat, s, kind)
    BY <2>2 DEF EntryKept, HasEntry
  <2> QED
    BY <2>3 DEF IInv, MessagesOK, PromisesOK, Carried, History
<1> QED
  BY <1>1, IInvHolds, PTL

(* A cancelled message stays out of the queue and of the transcript: its   *)
(* tombstone outlives retries and restarts.                                *)
THEOREM CancelledStaysCancelled == Spec => []CancelledStaysOut
<1>1. IInv => CancelledStaysOut
  BY DEF IInv, MessagesOK, WithdrawnOK, SaidOK, History, CancelledStaysOut
<1> QED
  BY <1>1, IInvHolds, PTL

=============================================================================
