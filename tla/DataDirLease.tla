---------------------------- MODULE DataDirLease ----------------------------
(***************************************************************************)
(* The lease on a data directory (electron/data-dir-lease.mjs): processes  *)
(* agree through hard links in the directory on the one that owns it.      *)
(*                                                                         *)
(* An owner is a desktop, a standalone server or a setup command.  The     *)
(* desktop delegates to a utility server, its child, which takes a lease   *)
(* of the same kind in a subdirectory.  A lease whose owner is dead is     *)
(* retired by the one process that wins an election for that owner; the    *)
(* winner's record is kept for ever, and if the winner dies too its        *)
(* successor is elected at a path derived from the dead winner.            *)
(*                                                                         *)
(* A record's token is unique, so a process, which asks for a lease once,  *)
(* stands for its token.  One file operation is one step.  All processes   *)
(* run on one host in one boot: records of another boot read as dead, and  *)
(* records of another host only ever refuse.                               *)
(***************************************************************************)
EXTENDS Naturals, FiniteSets

CONSTANTS
  Owners,          \* processes that want the directory for themselves
  Children,        \* utility servers a desktop may start
  Former,          \* the process that held the directory before, now dead
  MaxGenerations,  \* MAX_REAPER_GENERATIONS
  MaxDeaths        \* bound on the processes that are killed

Processes == Owners \union Children
Everyone == Processes \union {Former}
None == "none"

ASSUME LeaseAssumption ==
  /\ Owners \intersect Children = {}
  /\ Former \notin Processes
  /\ None \notin Everyone
  /\ MaxGenerations \in Nat \ {0}

Generations == 0 .. MaxGenerations - 1

VARIABLES
  lease,    \* per directory: whose record is at the lease's path
  reaper,   \* per retired owner and generation: whose election record exists
  pc,       \* per process: its next file operation, or how it ended
  target,   \* per process: the dead owner it wants to retire
  gen,      \* per process: the generation of its election
  boss,     \* per child: the desktop whose capability it was given
  dead,     \* processes that are no more
  reused    \* dead processes whose pid some other program has now

vars == <<lease, reaper, pc, target, gen, boss, dead, reused>>

Dirs == {"main", "child"}
DirOf(p) == IF p \in Children THEN "child" ELSE "main"

Init ==
  /\ lease = [d \in Dirs |-> IF d = "main" THEN Former ELSE None]
  /\ reaper = [t \in Everyone |-> [g \in Generations |-> None]]
  /\ pc = [p \in Processes |-> "off"]
  /\ target = [p \in Processes |-> Former]
  /\ gen = [p \in Processes |-> 0]
  /\ boss = [c \in Children |-> None]
  /\ dead = {Former}
  /\ reused \in SUBSET {Former}

(* process.kill(pid, 0): a pid in use again reads as alive. *)
LooksAlive(p) == p \notin dead \/ p \in reused

(* The records a process goes by when it holds, or is giving up, a lease. *)
Held == {"confirm", "holding", "check", "unlinkOwn"}
Holds(p) == p \notin dead /\ pc[p] \in Held

Goes(p, step) == pc' = [pc EXCEPT ![p] = step]
Runs(p, step) == p \notin dead /\ pc[p] = step

-----------------------------------------------------------------------------
(* Acquiring. *)

Start(p) ==
  /\ Runs(p, "off")
  /\ p \in Owners
  /\ Goes(p, "guard")
  /\ UNCHANGED <<lease, reaper, target, gen, boss, dead, reused>>

(* The desktop that holds the directory starts a server with its token. *)
Delegate(p, c) ==
  /\ Runs(p, "holding")
  /\ p \in Owners
  /\ Runs(c, "off")
  /\ c \in Children
  /\ boss' = [boss EXCEPT ![c] = p]
  /\ Goes(c, "validate")
  /\ UNCHANGED <<lease, reaper, target, gen, dead, reused>>

(* assertNoLiveDelegatedChild, before acquiring. *)
ChildLooksAlive == lease["child"] # None /\ LooksAlive(lease["child"])
Guard(p) ==
  /\ Runs(p, "guard")
  /\ Goes(p, IF ChildLooksAlive THEN "refused" ELSE "link")
  /\ UNCHANGED <<lease, reaper, target, gen, boss, dead, reused>>

(* matchesLiveParent: the capability is that of the owner of the directory. *)
ParentMatches(c) == lease["main"] = boss[c] /\ LooksAlive(boss[c])
Validate(c) ==
  /\ Runs(c, "validate")
  /\ Goes(c, IF ParentMatches(c) THEN "link" ELSE "refused")
  /\ UNCHANGED <<lease, reaper, target, gen, boss, dead, reused>>

(* linkSync puts the record at the lease's path unless one is there. *)
Link(p) ==
  /\ Runs(p, "link")
  /\ IF lease[DirOf(p)] = None
     THEN /\ lease' = [lease EXCEPT ![DirOf(p)] = p]
          /\ Goes(p, IF p \in Children THEN "confirm" ELSE "holding")
     ELSE /\ Goes(p, "read")
          /\ UNCHANGED lease
  /\ UNCHANGED <<reaper, target, gen, boss, dead, reused>>

(* readOwner: gone by now, alive, or dead and to be retired. *)
ReadOwner(p) ==
  /\ Runs(p, "read")
  /\ LET owner == lease[DirOf(p)] IN
     IF owner = None
     THEN Goes(p, "link") /\ UNCHANGED <<target, gen>>
     ELSE IF LooksAlive(owner)
     THEN Goes(p, "refused") /\ UNCHANGED <<target, gen>>
     ELSE /\ Goes(p, "elect")
          /\ target' = [target EXCEPT ![p] = owner]
          /\ gen' = [gen EXCEPT ![p] = 0]
  /\ UNCHANGED <<lease, reaper, boss, dead, reused>>

(* claimReaperAuthority: publish the election record of this generation. *)
Elect(p) ==
  /\ Runs(p, "elect")
  /\ IF reaper[target[p]][gen[p]] = None
     THEN /\ reaper' = [reaper EXCEPT ![target[p]][gen[p]] = p]
          /\ Goes(p, "recheck")
     ELSE Goes(p, "readReaper") /\ UNCHANGED reaper
  /\ UNCHANGED <<lease, target, gen, boss, dead, reused>>

(* Another was elected: it is at work, or dead and has a successor. *)
ReadReaper(p) ==
  /\ Runs(p, "readReaper")
  /\ IF ~LooksAlive(reaper[target[p]][gen[p]]) /\ gen[p] + 1 \in Generations
     THEN Goes(p, "elect") /\ gen' = [gen EXCEPT ![p] = @ + 1]
     ELSE Goes(p, "refused") /\ UNCHANGED gen
  /\ UNCHANGED <<lease, reaper, target, boss, dead, reused>>

(* Seeded fault: the elected process goes by what it read before the election. *)
RecheckSkipped(p) ==
  /\ Runs(p, "recheck")
  /\ Goes(p, "unlink")
  /\ UNCHANGED <<lease, reaper, target, gen, boss, dead, reused>>

(* retireDeadOwner reads the lease again once it is elected. *)
Recheck(p) ==
  /\ Runs(p, "recheck")
  /\ Goes(p, CASE lease[DirOf(p)] # target[p] -> "link"
               [] lease[DirOf(p)] = target[p] /\ LooksAlive(target[p]) -> "refused"
               [] OTHER -> "unlink")
  /\ UNCHANGED <<lease, reaper, target, gen, boss, dead, reused>>

(* Seeded fault: no second attempt at the link after a recovery. *)
UnlinkLastAttempt(p) ==
  /\ Runs(p, "unlink")
  /\ lease' = [lease EXCEPT ![DirOf(p)] = None]
  /\ Goes(p, "refused")
  /\ UNCHANGED <<reaper, target, gen, boss, dead, reused>>

(* unlinkExact removes whatever record is at the path. *)
Unlink(p) ==
  /\ Runs(p, "unlink")
  /\ lease' = [lease EXCEPT ![DirOf(p)] = None]
  /\ Goes(p, "link")
  /\ UNCHANGED <<reaper, target, gen, boss, dead, reused>>

(* A child that got its lease asks again whether its parent is the owner. *)
Confirm(c) ==
  /\ Runs(c, "confirm")
  /\ Goes(c, IF ParentMatches(c) THEN "holding" ELSE "check")
  /\ UNCHANGED <<lease, reaper, target, gen, boss, dead, reused>>

-----------------------------------------------------------------------------
(* Releasing and dying. *)

(* release(): an owner is refused while a child of its directory lives, and *)
(* then goes on holding it.                                                 *)
Release(p) ==
  /\ Runs(p, "holding")
  /\ p \in Owners => ~ChildLooksAlive
  /\ Goes(p, "check")
  /\ UNCHANGED <<lease, reaper, target, gen, boss, dead, reused>>

CheckOwn(p) ==
  /\ Runs(p, "check")
  /\ lease[DirOf(p)] = p
  /\ Goes(p, "unlinkOwn")
  /\ UNCHANGED <<lease, reaper, target, gen, boss, dead, reused>>

UnlinkOwn(p) ==
  /\ Runs(p, "unlinkOwn")
  /\ lease' = [lease EXCEPT ![DirOf(p)] = None]
  /\ Goes(p, "released")
  /\ UNCHANGED <<reaper, target, gen, boss, dead, reused>>

(* A process is killed, or exits; its pid may be taken by another program. *)
Die(p) ==
  /\ p \notin dead
  /\ pc[p] # "off"
  /\ Cardinality(dead) < 1 + MaxDeaths
  /\ dead' = dead \union {p}
  /\ reused' \in {reused, reused \union {p}}
  /\ UNCHANGED <<lease, reaper, pc, target, gen, boss>>

Acquires(p) ==
  \/ Guard(p) \/ Validate(p) \/ Link(p) \/ ReadOwner(p) \/ Elect(p)
  \/ ReadReaper(p) \/ Recheck(p) \/ Unlink(p) \/ Confirm(p)

Releases(p) == CheckOwn(p) \/ UnlinkOwn(p)

Next ==
  \E p \in Processes :
    \/ Start(p)
    \/ \E c \in Children : Delegate(p, c)
    \/ Acquires(p)
    \/ Release(p)
    \/ Releases(p)
    \/ Die(p)

Spec == Init /\ [][Next]_vars

-----------------------------------------------------------------------------
TypeOK ==
  /\ lease \in [Dirs -> Everyone \union {None}]
  /\ reaper \in [Everyone -> [Generations -> Processes \union {None}]]
  /\ pc \in [Processes -> {"off", "guard", "validate", "link", "read", "elect",
                           "readReaper", "recheck", "unlink", "confirm",
                           "holding", "check", "unlinkOwn", "released", "refused"}]
  /\ target \in [Processes -> Everyone]
  /\ gen \in [Processes -> Generations]
  /\ boss \in [Children -> Owners \union {None}]
  /\ dead \subseteq Everyone
  /\ reused \subseteq dead

(* Whoever holds a lease and lives finds its own record at the lease's     *)
(* path: nobody retires a living owner, however stale what it goes by, and *)
(* so no two living processes hold the same lease.                         *)
HoldersKeepTheirLease ==
  \A p \in Processes : Holds(p) => lease[DirOf(p)] = p

(* Recovery does not refuse everybody: when all who asked for the          *)
(* directory have been refused, somebody was killed on the way or a pid    *)
(* was reused.                                                             *)
NotAllRefused ==
  LET asked == {p \in Owners : pc[p] # "off"} IN
  asked # {} /\ dead = {Former} /\ reused = {} =>
    \E p \in asked : pc[p] # "refused"

=============================================================================
