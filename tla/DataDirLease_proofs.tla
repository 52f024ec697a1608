------------------------- MODULE DataDirLease_proofs ------------------------
(***************************************************************************)
(* The lease is exclusive for any number of processes, generations and     *)
(* deaths.  The argument: an elected process that is alive is the only one *)
(* elected for its dead owner, because every generation before its own was *)
(* won by a process that is dead by now (Elections); so between its        *)
(* recheck and its unlink the record at the path cannot change (Retiring), *)
(* and what it removes is the record of a dead process.                    *)
(***************************************************************************)
EXTENDS DataDirLease, TLAPS

(* Elected processes have a published record; a process that is at a later *)
(* generation has seen that all the earlier winners are dead; what is to   *)
(* be retired is dead.                                                     *)
Electing == {"elect", "readReaper", "recheck", "unlink"}
Elections ==
  \A p \in Processes :
    pc[p] \in Electing =>
      /\ target[p] \in dead
      /\ \A g \in Generations :
           g < gen[p] => reaper[target[p]][g] \in dead
      /\ pc[p] # "elect" => reaper[target[p]][gen[p]] # None
      /\ pc[p] \in {"recheck", "unlink"} => reaper[target[p]][gen[p]] = p

(* An elected process in a directory is about to retire what is there. *)
Retiring ==
  \A p \in Processes :
    Runs(p, "unlink") => lease[DirOf(p)] = target[p]

IInv ==
  /\ TypeOK
  /\ Elections
  /\ Retiring
  /\ HoldersKeepTheirLease

-----------------------------------------------------------------------------
(* Nobody has come to the directory yet. *)
LEMMA InitIInv == Init => IInv
<1> SUFFICES ASSUME Init PROVE IInv
  OBVIOUS
<1> USE LeaseAssumption
<1>1. TypeOK
  BY DEF Init, TypeOK, Everyone, Processes, Generations
<1>2. \A p \in Processes : pc[p] = "off"
  BY DEF Init
<1> QED
  BY <1>1, <1>2 DEF IInv, Elections, Electing, Retiring, HoldersKeepTheirLease, Holds, Held, Runs

(* Types are preserved by every step. *)
LEMMA TypeOKStep ==
  ASSUME TypeOK, [Next]_vars
  PROVE  TypeOK'
<1> USE LeaseAssumption
<1>1. ASSUME NEW p \in Processes, Start(p)
      PROVE  TypeOK'
  BY <1>1 DEF TypeOK, Start, Runs, Goes
<1>2. ASSUME NEW p \in Processes, NEW c \in Children, Delegate(p, c)
      PROVE  TypeOK'
  BY <1>2 DEF TypeOK, Delegate, Runs, Goes, Processes
<1>3. ASSUME NEW p \in Processes, Guard(p)
      PROVE  TypeOK'
  BY <1>3 DEF TypeOK, Guard, Runs, Goes
<1>4. ASSUME NEW p \in Processes, Validate(p)
      PROVE  TypeOK'
  BY <1>4 DEF TypeOK, Validate, Runs, Goes
<1>5. ASSUME NEW p \in Processes, Link(p)
      PROVE  TypeOK'
  BY <1>5 DEF TypeOK, Link, Runs, Goes, DirOf, Dirs, Everyone, Processes
<1>6. ASSUME NEW p \in Processes, ReadOwner(p)
      PROVE  TypeOK'
  <2>1. lease[DirOf(p)] \in Everyone \union {None}
    BY DEF TypeOK, DirOf, Dirs
  <2>2. 0 \in Generations
    BY DEF Generations
  <2>3. target' \in [Processes -> Everyone]
    BY <1>6, <2>1 DEF TypeOK, ReadOwner
  <2>4. gen' \in [Processes -> Generations]
    BY <1>6, <2>2 DEF TypeOK, ReadOwner
  <2> QED
    BY <1>6, <2>3, <2>4 DEF TypeOK, ReadOwner, Runs, Goes
<1>7. ASSUME NEW p \in Processes, Elect(p)
      PROVE  TypeOK'
  <2>1. target[p] \in Everyone /\ gen[p] \in Generations
    BY DEF TypeOK
  <2>2. reaper' \in [Everyone -> [Generations -> Processes \union {None}]]
    <3> DEFINE record == [reaper[target[p]] EXCEPT ![gen[p]] = p]
    <3>1. record \in [Generations -> Processes \union {None}]
      BY <2>1 DEF TypeOK
    <3>2. reaper' = reaper \/ reaper' = [reaper EXCEPT ![target[p]] = record]
      BY <1>7 DEF Elect
    <3> HIDE DEF record
    <3> QED
      BY <3>1, <3>2, <2>1 DEF TypeOK
  <2> QED
    BY <1>7, <2>2 DEF TypeOK, Elect, Goes
<1>8. ASSUME NEW p \in Processes, ReadReaper(p)
      PROVE  TypeOK'
  <2>1. gen' \in [Processes -> Generations]
    BY <1>8 DEF TypeOK, ReadReaper
  <2>2. pc' = [pc EXCEPT ![p] = "elect"] \/ pc' = [pc EXCEPT ![p] = "refused"]
    BY <1>8 DEF ReadReaper, Goes
  <2> QED
    BY <1>8, <2>1, <2>2 DEF TypeOK, ReadReaper
<1>9. ASSUME NEW p \in Processes, Recheck(p)
      PROVE  TypeOK'
  BY <1>9 DEF TypeOK, Recheck, Runs, Goes
<1>10. ASSUME NEW p \in Processes, Unlink(p)
      PROVE  TypeOK'
  BY <1>10 DEF TypeOK, Unlink, Runs, Goes, DirOf, Dirs
<1>11. ASSUME NEW p \in Processes, Confirm(p)
      PROVE  TypeOK'
  BY <1>11 DEF TypeOK, Confirm, Runs, Goes
<1>12. ASSUME NEW p \in Processes, Release(p)
      PROVE  TypeOK'
  BY <1>12 DEF TypeOK, Release, Runs, Goes
<1>13. ASSUME NEW p \in Processes, CheckOwn(p)
      PROVE  TypeOK'
  BY <1>13 DEF TypeOK, CheckOwn, Runs, Goes
<1>14. ASSUME NEW p \in Processes, UnlinkOwn(p)
      PROVE  TypeOK'
  BY <1>14 DEF TypeOK, UnlinkOwn, Runs, Goes, DirOf, Dirs
<1>15. ASSUME NEW p \in Processes, Die(p)
      PROVE  TypeOK'
  BY <1>15 DEF TypeOK, Die, Runs, Goes, Everyone, Processes
<1>16. CASE UNCHANGED vars
  BY <1>16 DEF TypeOK, vars
<1> QED
  BY <1>1, <1>2, <1>3, <1>4, <1>5, <1>6, <1>7, <1>8, <1>9, <1>10, <1>11, <1>12, <1>13, <1>14, <1>15, <1>16 DEF Next, Acquires, Releases

(* Deaths are final and records are never removed, so what an election
   rests on stays true. *)
LEMMA ElectionsStep ==
  ASSUME IInv, [Next]_vars
  PROVE  Elections'
<1> USE LeaseAssumption DEF IInv
<1>1. ASSUME NEW p \in Processes, Start(p)
      PROVE  Elections'
  BY <1>1 DEF Elections, Electing, TypeOK, Start, Runs, Goes
<1>2. ASSUME NEW p \in Processes, NEW c \in Children, Delegate(p, c)
      PROVE  Elections'
  BY <1>2 DEF Elections, Electing, TypeOK, Delegate, Runs, Goes
<1>3. ASSUME NEW p \in Processes, Guard(p)
      PROVE  Elections'
  BY <1>3 DEF Elections, Electing, TypeOK, Guard, Runs, Goes
<1>4. ASSUME NEW p \in Processes, Validate(p)
      PROVE  Elections'
  BY <1>4 DEF Elections, Electing, TypeOK, Validate, Runs, Goes
<1>5. ASSUME NEW p \in Processes, Link(p)
      PROVE  Elections'
  BY <1>5 DEF Elections, Electing, TypeOK, Link, Runs, Goes
<1>6. ASSUME NEW p \in Processes, ReadOwner(p)
      PROVE  Elections'
  <2>1. UNCHANGED <<reaper, dead>>
    BY <1>6 DEF ReadOwner
  <2>2. \A q \in Processes \ {p} :
          pc'[q] = pc[q] /\ target'[q] = target[q] /\ gen'[q] = gen[q]
    BY <1>6 DEF ReadOwner, Goes, TypeOK
  <2>3. pc'[p] \in Electing =>
          pc'[p] = "elect" /\ gen'[p] = 0 /\ target'[p] \in dead
    BY <1>6 DEF ReadOwner, Goes, TypeOK, LooksAlive, Electing
  <2>4. \A g \in Generations : ~(g < 0)
    BY DEF Generations
  <2> QED
    BY <2>1, <2>2, <2>3, <2>4 DEF Elections, Electing
<1>7. ASSUME NEW p \in Processes, Elect(p)
      PROVE  Elections'
  <2>1. UNCHANGED <<target, gen, dead>>
    BY <1>7 DEF Elect
  <2>2. \A q \in Processes \ {p} : pc'[q] = pc[q]
    BY <1>7 DEF Elect, Goes, TypeOK
  <2>3. target[p] \in Everyone /\ gen[p] \in Generations
    BY DEF TypeOK
  <2>4. \A w \in Everyone, g \in Generations :
          reaper[w][g] # None => reaper'[w][g] = reaper[w][g]
    BY <1>7, <2>3 DEF Elect, TypeOK
  <2>5. None \notin dead
    BY DEF TypeOK
  <2>6. /\ pc[p] = "elect"
        /\ pc'[p] \in {"recheck", "readReaper"}
        /\ reaper'[target[p]][gen[p]] # None
        /\ pc'[p] = "recheck" => reaper'[target[p]][gen[p]] = p
    BY <1>7, <2>3 DEF Elect, Goes, Runs, TypeOK, Everyone
  <2>7. ASSUME NEW q \in Processes, pc'[q] \in Electing
        PROVE  /\ target[q] \in dead
               /\ \A g \in Generations : g < gen[q] => reaper'[target[q]][g] \in dead
    <3>1. pc[q] \in Electing
      BY <2>2, <2>6, <2>7 DEF Electing
    <3>2. target[q] \in Everyone
      BY DEF TypeOK
    <3> QED
      BY <3>1, <3>2, <2>4, <2>5 DEF Elections
  <2>8. ASSUME NEW q \in Processes, q # p, pc'[q] \in Electing
        PROVE  /\ pc[q] # "elect" => reaper'[target[q]][gen[q]] # None
               /\ pc[q] \in {"recheck", "unlink"} => reaper'[target[q]][gen[q]] = q
    <3>1. pc[q] \in Electing /\ target[q] \in Everyone /\ gen[q] \in Generations
      BY <2>2, <2>8 DEF TypeOK
    <3>2. pc[q] \in {"recheck", "unlink"} => pc[q] # "elect"
      OBVIOUS
    <3> QED
      BY <3>1, <3>2, <2>4 DEF Elections
  <2> QED
    BY <2>1, <2>2, <2>6, <2>7, <2>8 DEF Elections
<1>8. ASSUME NEW p \in Processes, ReadReaper(p)
      PROVE  Elections'
  <2>1. UNCHANGED <<target, reaper, dead>>
    BY <1>8 DEF ReadReaper
  <2>2. \A q \in Processes \ {p} : pc'[q] = pc[q] /\ gen'[q] = gen[q]
    BY <1>8 DEF ReadReaper, Goes, TypeOK
  <2>3. pc[p] = "readReaper" /\ gen[p] \in Generations
    BY <1>8 DEF ReadReaper, Runs, TypeOK
  <2>4. pc'[p] \in Electing =>
          /\ pc'[p] = "elect"
          /\ gen'[p] = gen[p] + 1
          /\ reaper[target[p]][gen[p]] \in dead
    BY <1>8 DEF ReadReaper, Goes, TypeOK, LooksAlive, Electing
  <2>5. /\ target[p] \in dead
        /\ \A g \in Generations : g < gen[p] => reaper[target[p]][g] \in dead
    BY <2>3 DEF Elections, Electing
  <2>6. \A g \in Generations : g < gen[p] + 1 => g < gen[p] \/ g = gen[p]
    BY <2>3 DEF Generations
  <2> QED
    BY <2>1, <2>2, <2>4, <2>5, <2>6 DEF Elections
<1>9. ASSUME NEW p \in Processes, Recheck(p)
      PROVE  Elections'
  BY <1>9 DEF Elections, Electing, TypeOK, Recheck, Runs, Goes
<1>10. ASSUME NEW p \in Processes, Unlink(p)
      PROVE  Elections'
  BY <1>10 DEF Elections, Electing, TypeOK, Unlink, Runs, Goes
<1>11. ASSUME NEW p \in Processes, Confirm(p)
      PROVE  Elections'
  BY <1>11 DEF Elections, Electing, TypeOK, Confirm, Runs, Goes
<1>12. ASSUME NEW p \in Processes, Release(p)
      PROVE  Elections'
  BY <1>12 DEF Elections, Electing, TypeOK, Release, Runs, Goes
<1>13. ASSUME NEW p \in Processes, CheckOwn(p)
      PROVE  Elections'
  BY <1>13 DEF Elections, Electing, TypeOK, CheckOwn, Runs, Goes
<1>14. ASSUME NEW p \in Processes, UnlinkOwn(p)
      PROVE  Elections'
  BY <1>14 DEF Elections, Electing, TypeOK, UnlinkOwn, Runs, Goes
<1>15. ASSUME NEW p \in Processes, Die(p)
      PROVE  Elections'
  BY <1>15 DEF Elections, Electing, TypeOK, Die, Runs, Goes
<1>16. CASE UNCHANGED vars
  BY <1>16 DEF Elections, vars
<1> QED
  BY <1>1, <1>2, <1>3, <1>4, <1>5, <1>6, <1>7, <1>8, <1>9, <1>10, <1>11, <1>12, <1>13, <1>14, <1>15, <1>16 DEF Next, Acquires, Releases

(* Of the living, one process at most has been elected for an owner. *)
LEMMA OneElected ==
  ASSUME IInv,
         NEW p \in Processes, NEW q \in Processes,
         p \notin dead, q \notin dead,
         pc[p] \in {"recheck", "unlink"}, pc[q] \in {"recheck", "unlink"},
         target[p] = target[q]
  PROVE  p = q
<1>1. gen[p] \in Generations /\ gen[q] \in Generations
  BY DEF IInv, TypeOK
<1>2. gen[p] < gen[q] \/ gen[q] < gen[p] \/ gen[p] = gen[q]
  BY <1>1 DEF Generations
<1>3. /\ reaper[target[p]][gen[p]] = p /\ reaper[target[q]][gen[q]] = q
      /\ \A g \in Generations : g < gen[p] => reaper[target[p]][g] \in dead
      /\ \A g \in Generations : g < gen[q] => reaper[target[q]][g] \in dead
  BY DEF IInv, Elections, Electing
<1> QED
  BY <1>1, <1>2, <1>3

(* Nobody changes a record that an elected process is about to remove. *)
LEMMA RetiringStep ==
  ASSUME IInv, [Next]_vars
  PROVE  Retiring'
<1> USE LeaseAssumption DEF IInv
<1>1. ASSUME NEW p \in Processes, Start(p)
      PROVE  Retiring'
  BY <1>1 DEF Retiring, TypeOK, Start, Runs, Goes
<1>2. ASSUME NEW p \in Processes, NEW c \in Children, Delegate(p, c)
      PROVE  Retiring'
  BY <1>2 DEF Retiring, TypeOK, Delegate, Runs, Goes
<1>3. ASSUME NEW p \in Processes, Guard(p)
      PROVE  Retiring'
  BY <1>3 DEF Retiring, TypeOK, Guard, Runs, Goes
<1>4. ASSUME NEW p \in Processes, Validate(p)
      PROVE  Retiring'
  BY <1>4 DEF Retiring, TypeOK, Validate, Runs, Goes
<1>5. ASSUME NEW p \in Processes, Link(p)
      PROVE  Retiring'
  <2>1. \A q \in Processes \ {p} : pc'[q] = pc[q]
    BY <1>5 DEF Link, Goes, TypeOK
  <2>2. pc'[p] # "unlink" /\ UNCHANGED <<target, dead>>
    BY <1>5 DEF Link, Goes, TypeOK
  <2>3. ASSUME NEW q \in Processes, Runs(q, "unlink")
        PROVE  lease[DirOf(q)] # None
    BY <2>3 DEF Retiring, TypeOK
  <2>4. \A d \in Dirs : lease[d] # None => lease'[d] = lease[d]
    BY <1>5 DEF Link, TypeOK, DirOf, Dirs
  <2>5. \A q \in Processes : DirOf(q) \in Dirs
    BY DEF DirOf, Dirs
  <2> QED
    BY <2>1, <2>2, <2>3, <2>4, <2>5 DEF Retiring, Runs
<1>6. ASSUME NEW p \in Processes, ReadOwner(p)
      PROVE  Retiring'
  BY <1>6 DEF Retiring, TypeOK, ReadOwner, Runs, Goes
<1>7. ASSUME NEW p \in Processes, Elect(p)
      PROVE  Retiring'
  BY <1>7 DEF Retiring, TypeOK, Elect, Runs, Goes
<1>8. ASSUME NEW p \in Processes, ReadReaper(p)
      PROVE  Retiring'
  BY <1>8 DEF Retiring, TypeOK, ReadReaper, Runs, Goes
<1>9. ASSUME NEW p \in Processes, Recheck(p)
      PROVE  Retiring'
  BY <1>9 DEF Retiring, TypeOK, Recheck, Runs, Goes
<1>10. ASSUME NEW p \in Processes, Unlink(p)
      PROVE  Retiring'
  <2>1. UNCHANGED <<target, dead>> /\ \A q \in Processes : q # p => pc'[q] = pc[q]
    BY <1>10 DEF Unlink, Goes, TypeOK
  <2>2. pc'[p] # "unlink" /\ Runs(p, "unlink")
    BY <1>10 DEF Unlink, Goes, TypeOK
  <2>3. ASSUME NEW q \in Processes, q # p, Runs(q, "unlink")
        PROVE  DirOf(q) # DirOf(p)
    BY <2>2, <2>3, OneElected DEF Retiring, Runs
  <2>4. \A d \in Dirs : d # DirOf(p) => lease'[d] = lease[d]
    BY <1>10 DEF Unlink, TypeOK, DirOf, Dirs
  <2>5. \A q \in Processes : DirOf(q) \in Dirs
    BY DEF DirOf, Dirs
  <2> QED
    BY <2>1, <2>2, <2>3, <2>4, <2>5 DEF Retiring, Runs
<1>11. ASSUME NEW p \in Processes, Confirm(p)
      PROVE  Retiring'
  BY <1>11 DEF Retiring, TypeOK, Confirm, Runs, Goes
<1>12. ASSUME NEW p \in Processes, Release(p)
      PROVE  Retiring'
  BY <1>12 DEF Retiring, TypeOK, Release, Runs, Goes
<1>13. ASSUME NEW p \in Processes, CheckOwn(p)
      PROVE  Retiring'
  BY <1>13 DEF Retiring, TypeOK, CheckOwn, Runs, Goes
<1>14. ASSUME NEW p \in Processes, UnlinkOwn(p)
      PROVE  Retiring'
  <2>1. UNCHANGED <<target, dead>> /\ \A q \in Processes : q # p => pc'[q] = pc[q]
    BY <1>14 DEF UnlinkOwn, Goes, TypeOK
  <2>2. pc'[p] # "unlink" /\ lease[DirOf(p)] = p /\ p \notin dead
    BY <1>14 DEF UnlinkOwn, Goes, TypeOK, HoldersKeepTheirLease, Holds, Held, Runs
  <2>3. ASSUME NEW q \in Processes, Runs(q, "unlink")
        PROVE  DirOf(q) # DirOf(p)
    <3>1. target[q] \in dead /\ lease[DirOf(q)] = target[q]
      BY <2>3 DEF Elections, Electing, Runs, Retiring
    <3> QED
      BY <3>1, <2>2
  <2>4. \A d \in Dirs : d # DirOf(p) => lease'[d] = lease[d]
    BY <1>14 DEF UnlinkOwn, TypeOK, DirOf, Dirs
  <2>5. \A q \in Processes : DirOf(q) \in Dirs
    BY DEF DirOf, Dirs
  <2> QED
    BY <2>1, <2>2, <2>3, <2>4, <2>5 DEF Retiring, Runs
<1>15. ASSUME NEW p \in Processes, Die(p)
      PROVE  Retiring'
  BY <1>15 DEF Retiring, TypeOK, Die, Runs, Goes
<1>16. CASE UNCHANGED vars
  BY <1>16 DEF Retiring, vars, Runs
<1> QED
  BY <1>1, <1>2, <1>3, <1>4, <1>5, <1>6, <1>7, <1>8, <1>9, <1>10, <1>11, <1>12, <1>13, <1>14, <1>15, <1>16 DEF Next, Acquires, Releases

(* Nobody removes the record of a living holder. *)
LEMMA HoldersStep ==
  ASSUME IInv, [Next]_vars
  PROVE  HoldersKeepTheirLease'
<1> USE LeaseAssumption DEF IInv
<1>1. ASSUME NEW p \in Processes, Start(p)
      PROVE  HoldersKeepTheirLease'
  BY <1>1 DEF HoldersKeepTheirLease, Holds, Held, TypeOK, Start, Runs, Goes
<1>2. ASSUME NEW p \in Processes, NEW c \in Children, Delegate(p, c)
      PROVE  HoldersKeepTheirLease'
  BY <1>2 DEF HoldersKeepTheirLease, Holds, Held, TypeOK, Delegate, Runs, Goes
<1>3. ASSUME NEW p \in Processes, Guard(p)
      PROVE  HoldersKeepTheirLease'
  BY <1>3 DEF HoldersKeepTheirLease, Holds, Held, TypeOK, Guard, Runs, Goes
<1>4. ASSUME NEW p \in Processes, Validate(p)
      PROVE  HoldersKeepTheirLease'
  BY <1>4 DEF HoldersKeepTheirLease, Holds, Held, TypeOK, Validate, Runs, Goes
<1>5. ASSUME NEW p \in Processes, Link(p)
      PROVE  HoldersKeepTheirLease'
  <2>1. UNCHANGED dead /\ \A q \in Processes : q # p => pc'[q] = pc[q]
    BY <1>5 DEF Link, Goes, TypeOK
  <2>2. \A q \in Processes : DirOf(q) \in Dirs /\ q # None
    BY DEF DirOf, Dirs, Everyone
  <2>3. \A d \in Dirs : lease[d] # None => lease'[d] = lease[d]
    BY <1>5 DEF Link, TypeOK, DirOf, Dirs
  <2>4. pc'[p] \in Held => lease'[DirOf(p)] = p
    BY <1>5, <2>2 DEF Link, Goes, TypeOK, Held
  <2>5. ASSUME NEW q \in Processes, q # p, Holds(q)'
        PROVE  lease'[DirOf(q)] = q
    BY <2>1, <2>2, <2>3, <2>5 DEF HoldersKeepTheirLease, Holds
  <2> QED
    BY <2>4, <2>5 DEF HoldersKeepTheirLease, Holds
<1>6. ASSUME NEW p \in Processes, ReadOwner(p)
      PROVE  HoldersKeepTheirLease'
  BY <1>6 DEF HoldersKeepTheirLease, Holds, Held, TypeOK, ReadOwner, Runs, Goes
<1>7. ASSUME NEW p \in Processes, Elect(p)
      PROVE  HoldersKeepTheirLease'
  BY <1>7 DEF HoldersKeepTheirLease, Holds, Held, TypeOK, Elect, Runs, Goes
<1>8. ASSUME NEW p \in Processes, ReadReaper(p)
      PROVE  HoldersKeepTheirLease'
  BY <1>8 DEF HoldersKeepTheirLease, Holds, Held, TypeOK, ReadReaper, Runs, Goes
<1>9. ASSUME NEW p \in Processes, Recheck(p)
      PROVE  HoldersKeepTheirLease'
  BY <1>9 DEF HoldersKeepTheirLease, Holds, Held, TypeOK, Recheck, Runs, Goes
<1>10. ASSUME NEW p \in Processes, Unlink(p)
      PROVE  HoldersKeepTheirLease'
  <2>1. UNCHANGED dead /\ \A q \in Processes : q # p => pc'[q] = pc[q]
    BY <1>10 DEF Unlink, Goes, TypeOK
  <2>2. Runs(p, "unlink") /\ pc'[p] = "link"
    BY <1>10 DEF Unlink, Goes, TypeOK
  <2>3. target[p] \in dead /\ lease[DirOf(p)] = target[p]
    BY <2>2 DEF Elections, Electing, Runs, Retiring
  <2>4. ASSUME NEW q \in Processes, Holds(q)
        PROVE  DirOf(q) # DirOf(p)
    BY <2>3, <2>4 DEF HoldersKeepTheirLease, Holds
  <2>5. \A d \in Dirs : d # DirOf(p) => lease'[d] = lease[d]
    BY <1>10 DEF Unlink, TypeOK, DirOf, Dirs
  <2>6. \A q \in Processes : DirOf(q) \in Dirs
    BY DEF DirOf, Dirs
  <2>7. ASSUME NEW q \in Processes, Holds(q)'
        PROVE  lease'[DirOf(q)] = q
    <3>1. q # p
      BY <2>2, <2>7 DEF Holds, Held
    <3>2. Holds(q)
      BY <3>1, <2>1, <2>7 DEF Holds
    <3> QED
      BY <3>2, <2>4, <2>5, <2>6 DEF HoldersKeepTheirLease
  <2> QED
    BY <2>7 DEF HoldersKeepTheirLease
<1>11. ASSUME NEW p \in Processes, Confirm(p)
      PROVE  HoldersKeepTheirLease'
  BY <1>11 DEF HoldersKeepTheirLease, Holds, Held, TypeOK, Confirm, Runs, Goes
<1>12. ASSUME NEW p \in Processes, Release(p)
      PROVE  HoldersKeepTheirLease'
  BY <1>12 DEF HoldersKeepTheirLease, Holds, Held, TypeOK, Release, Runs, Goes
<1>13. ASSUME NEW p \in Processes, CheckOwn(p)
      PROVE  HoldersKeepTheirLease'
  BY <1>13 DEF HoldersKeepTheirLease, Holds, Held, TypeOK, CheckOwn, Runs, Goes
<1>14. ASSUME NEW p \in Processes, UnlinkOwn(p)
      PROVE  HoldersKeepTheirLease'
  <2>1. UNCHANGED dead /\ \A q \in Processes : q # p => pc'[q] = pc[q]
    BY <1>14 DEF UnlinkOwn, Goes, TypeOK
  <2>2. Runs(p, "unlinkOwn") /\ pc'[p] = "released"
    BY <1>14 DEF UnlinkOwn, Goes, TypeOK
  <2>3. lease[DirOf(p)] = p
    BY <2>2 DEF HoldersKeepTheirLease, Holds, Held, Runs
  <2>4. ASSUME NEW q \in Processes, q # p, Holds(q)
        PROVE  DirOf(q) # DirOf(p)
    BY <2>3, <2>4 DEF HoldersKeepTheirLease
  <2>5. \A d \in Dirs : d # DirOf(p) => lease'[d] = lease[d]
    BY <1>14 DEF UnlinkOwn, TypeOK, DirOf, Dirs
  <2>6. \A q \in Processes : DirOf(q) \in Dirs
    BY DEF DirOf, Dirs
  <2>7. ASSUME NEW q \in Processes, Holds(q)'
        PROVE  lease'[DirOf(q)] = q
    <3>1. q # p
      BY <2>2, <2>7 DEF Holds, Held
    <3>2. Holds(q)
      BY <3>1, <2>1, <2>7 DEF Holds
    <3> QED
      BY <3>1, <3>2, <2>4, <2>5, <2>6 DEF HoldersKeepTheirLease
  <2> QED
    BY <2>7 DEF HoldersKeepTheirLease
<1>15. ASSUME NEW p \in Processes, Die(p)
      PROVE  HoldersKeepTheirLease'
  BY <1>15 DEF HoldersKeepTheirLease, Holds, Held, TypeOK, Die, Runs, Goes
<1>16. CASE UNCHANGED vars
  BY <1>16 DEF HoldersKeepTheirLease, Holds, Held, vars
<1> QED
  BY <1>1, <1>2, <1>3, <1>4, <1>5, <1>6, <1>7, <1>8, <1>9, <1>10, <1>11, <1>12, <1>13, <1>14, <1>15, <1>16 DEF Next, Acquires, Releases

(* The invariant of elections and leases holds for any number of processes. *)
THEOREM IInvHolds == Spec => []IInv
<1>1. IInv /\ [Next]_vars => IInv'
  BY TypeOKStep, ElectionsStep, RetiringStep, HoldersStep DEF IInv
<1> QED
  BY <1>1, InitIInv, PTL DEF Spec

-----------------------------------------------------------------------------
(* Recovery makes progress: unless somebody dies or a pid is reused, some   *)
(* owner gets the directory.  Until it does no server has been started, and *)
(* either the former owner's record is untouched and nobody was refused, or *)
(* the one elected process is on its way from the election to the lease.    *)
Won == {"holding", "check", "unlinkOwn", "released"}
Winner == \E p \in Owners : pc[p] \in Won

Untouched ==
  /\ lease["main"] = Former
  /\ reaper[Former][0] = None
  /\ \A p \in Owners : pc[p] # "refused"

Recovering(q) ==
  /\ reaper[Former][0] = q
  /\ \/ pc[q] \in {"recheck", "unlink"} /\ lease["main"] = Former
     \/ pc[q] = "link" /\ lease["main"] = None

NobodyYet ==
  /\ \A c \in Children : pc[c] = "off"
  /\ lease["child"] = None
  /\ Untouched \/ \E q \in Owners : Recovering(q)

Calm == dead = {Former} /\ reused = {}

Progress ==
  /\ Former \in dead
  /\ \A p \in Owners : pc[p] \notin {"validate", "confirm"}
  /\ Calm /\ ~Winner => NobodyYet

(* At first only the former owner has been there, and it is dead. *)
LEMMA InitProgress == Init => Progress
<1> SUFFICES ASSUME Init PROVE Progress
  OBVIOUS
<1> USE LeaseAssumption
<1>1. 0 \in Generations /\ Former \in Everyone
  BY DEF Generations, Everyone
<1>2. Untouched
  BY <1>1 DEF Init, Untouched, Dirs, Processes
<1> QED
  BY <1>2 DEF Init, Progress, NobodyYet, Processes, Dirs

(* An owner stays out of the steps of a child, and one that got the        *)
(* directory is never refused afterwards.                                  *)
LEMMA OwnersStep ==
  ASSUME TypeOK, Progress, [Next]_vars
  PROVE  /\ Former \in dead'
         /\ \A q \in Owners : pc'[q] \notin {"validate", "confirm"}
         /\ Winner => Winner'
         /\ Calm' => Calm
<1> USE LeaseAssumption
<1> DEFINE Kept(q) == /\ pc'[q] \notin {"validate", "confirm"}
                      /\ pc[q] \in Won => pc'[q] \in Won
<1>1. dead \subseteq dead' /\ reused \subseteq reused'
  BY DEF Next, Acquires, Releases, Start, Delegate, Guard, Validate, Link, ReadOwner, Elect, ReadReaper, Recheck, Unlink, Confirm, Release, CheckOwn, UnlinkOwn, Die, vars
<1>2. ASSUME NEW q \in Owners PROVE Kept(q)
  <2>1. q \in Processes /\ q \notin Children /\ pc[q] \notin {"validate", "confirm"}
    BY DEF Progress, Processes
  <2>2. ASSUME NEW p \in Processes, NEW c \in Children, Delegate(p, c)
        PROVE  Kept(q)
    BY <2>1, <2>2 DEF TypeOK, Delegate, Goes
  <2>3. ASSUME NEW p \in Processes, Validate(p) \/ Confirm(p)
        PROVE  Kept(q)
    <3>1. p # q
      BY <2>1, <2>3 DEF Validate, Confirm, Runs
    <3> QED
      BY <2>1, <2>3, <3>1 DEF TypeOK, Validate, Confirm, Goes
  <2>4. ASSUME NEW p \in Processes, Link(p)
        PROVE  Kept(q)
    BY <2>1, <2>4 DEF TypeOK, Link, Runs, Goes, Won
  <2>5. ASSUME NEW p \in Processes, Start(p) \/ Guard(p) \/ ReadOwner(p) \/ Unlink(p)
        PROVE  Kept(q)
    BY <2>1, <2>5 DEF TypeOK, Start, Guard, ReadOwner, Unlink, Runs, Goes, Won
  <2>6. ASSUME NEW p \in Processes, Elect(p) \/ ReadReaper(p) \/ Recheck(p)
        PROVE  Kept(q)
    BY <2>1, <2>6 DEF TypeOK, Elect, ReadReaper, Recheck, Runs, Goes, Won
  <2>7. ASSUME NEW p \in Processes, Release(p) \/ CheckOwn(p) \/ UnlinkOwn(p) \/ Die(p)
        PROVE  Kept(q)
    BY <2>1, <2>7 DEF TypeOK, Release, CheckOwn, UnlinkOwn, Die, Runs, Goes, Won
  <2>8. CASE UNCHANGED vars
    BY <2>1, <2>8 DEF vars
  <2> HIDE DEF Kept
  <2> QED
    BY <2>2, <2>3, <2>4, <2>5, <2>6, <2>7, <2>8 DEF Next, Acquires, Releases
<1> QED
  BY <1>1, <1>2 DEF Progress, Winner, Calm

(* While all is calm there is one election, the one for the former owner,  *)
(* and it has one generation.                                              *)
LEMMA OneElection ==
  ASSUME IInv, Calm, NEW p \in Owners, pc[p] \in Electing
  PROVE  /\ target[p] = Former /\ gen[p] = 0
         /\ pc[p] # "elect" => reaper[Former][0] # None
         /\ pc[p] \in {"recheck", "unlink"} => reaper[Former][0] = p
         /\ reaper[Former][0] \in Processes \union {None}
<1> USE LeaseAssumption
<1>1. p \in Processes /\ 0 \in Generations /\ Former \in Everyone /\ Former \notin Processes /\ Former # None
  BY DEF Processes, Generations, Everyone
<1>2. target[p] = Former /\ gen[p] \in Generations
  BY <1>1 DEF IInv, TypeOK, Elections, Calm
<1>3. reaper[Former][0] \in Processes \union {None}
  BY <1>1 DEF IInv, TypeOK
<1>4. 0 < gen[p] => reaper[Former][0] = Former
  BY <1>1, <1>2 DEF IInv, Elections, Calm
<1>5. gen[p] = 0
  BY <1>1, <1>2, <1>3, <1>4 DEF Generations
<1> QED
  BY <1>1, <1>2, <1>3, <1>5 DEF IInv, Elections

(* Until an owner wins, the lease is as the dead one left it, or one owner *)
(* is recovering it.                                                       *)
LEMMA NobodyYetStep ==
  ASSUME IInv, Progress, [Next]_vars, Calm', ~Winner'
  PROVE  NobodyYet'
<1> USE LeaseAssumption
<1>1. Calm /\ ~Winner /\ NobodyYet
  BY OwnersStep DEF Progress, IInv
<1>2. /\ TypeOK /\ Calm
      /\ \A c \in Children : pc[c] = "off"
      /\ \A p \in Owners : pc[p] \notin {"validate", "confirm"} \union Won
      /\ lease["child"] = None
  BY <1>1 DEF IInv, NobodyYet, Progress, Winner
<1>3. /\ \A p \in Owners : p \in Processes /\ p # None /\ p # Former /\ DirOf(p) = "main"
      /\ Former # None /\ Former \in Everyone /\ 0 \in Generations
      /\ "main" \in Dirs /\ "child" \in Dirs
  BY DEF Processes, Everyone, Generations, DirOf, Dirs
<1>4. ASSUME NEW p \in Processes, Guard(p) \/ Validate(p) \/ Link(p) \/ ReadOwner(p) \/ Elect(p)
                                  \/ ReadReaper(p) \/ Recheck(p) \/ Unlink(p) \/ Confirm(p)
      PROVE  p \in Owners
  BY <1>2, <1>4 DEF Processes, Runs, Guard, Validate, Link, ReadOwner, Elect, ReadReaper, Recheck, Unlink, Confirm
<1>5. ASSUME NEW p \in Owners, NEW step, Goes(p, step)
      PROVE  /\ pc'[p] = step
             /\ \A q \in Processes : q # p => pc'[q] = pc[q]
             /\ \A c \in Children : pc'[c] = "off"
  BY <1>2, <1>3, <1>5 DEF Goes, TypeOK, Processes
<1>6. ASSUME NEW p \in Processes, Start(p)
      PROVE  NobodyYet'
  <2>1. p \in Owners /\ Goes(p, "guard") /\ UNCHANGED <<lease, reaper>> /\ pc[p] = "off"
    BY <1>6 DEF Start, Runs
  <2>2. pc'[p] = "guard" /\ (\A q \in Owners : q # p => pc'[q] = pc[q]) /\ \A c \in Children : pc'[c] = "off"
    BY <2>1, <1>3, <1>5
  <2> QED
    BY <1>1, <2>1, <2>2 DEF NobodyYet, Untouched, Recovering
<1>7. ASSUME NEW p \in Processes, Guard(p)
      PROVE  NobodyYet'
  <2>1. p \in Owners /\ Goes(p, "link") /\ UNCHANGED <<lease, reaper>> /\ pc[p] = "guard"
    BY <1>2, <1>4, <1>7 DEF Guard, Runs, ChildLooksAlive
  <2>2. pc'[p] = "link" /\ (\A q \in Owners : q # p => pc'[q] = pc[q]) /\ \A c \in Children : pc'[c] = "off"
    BY <2>1, <1>3, <1>5
  <2> QED
    BY <1>1, <2>1, <2>2 DEF NobodyYet, Untouched, Recovering
<1>8. ASSUME NEW p \in Processes, Link(p)
      PROVE  NobodyYet'
  <2>1. p \in Owners /\ pc[p] = "link" /\ UNCHANGED reaper /\ DirOf(p) = "main" /\ p \notin Children
    BY <1>3, <1>4, <1>8 DEF Link, Runs
  <2>2. lease["main"] # None /\ Goes(p, "read") /\ UNCHANGED lease
    <3>1. ~Goes(p, "holding")
      BY <2>1, <1>5 DEF Winner, Won
    <3> QED
      BY <3>1, <2>1, <1>8 DEF Link
  <2>3. pc'[p] = "read" /\ (\A q \in Owners : q # p => pc'[q] = pc[q]) /\ \A c \in Children : pc'[c] = "off"
    BY <2>1, <2>2, <1>3, <1>5
  <2>4. \A q \in Owners : Recovering(q) => q # p
    BY <2>1, <2>2 DEF Recovering
  <2> QED
    BY <1>1, <2>1, <2>2, <2>3, <2>4 DEF NobodyYet, Untouched, Recovering
<1>9. ASSUME NEW p \in Processes, ReadOwner(p)
      PROVE  NobodyYet'
  <2>1. p \in Owners /\ pc[p] = "read" /\ UNCHANGED <<lease, reaper>> /\ DirOf(p) = "main"
    BY <1>3, <1>4, <1>9 DEF ReadOwner, Runs
  <2>2. lease["main"] \in {Former, None}
    BY <1>1 DEF NobodyYet, Untouched, Recovering
  <2>3. ~LooksAlive(Former)
    BY <1>1 DEF LooksAlive, Calm
  <2>4. \E step \in {"link", "elect"} : Goes(p, step)
    BY <2>1, <2>2, <2>3, <1>3, <1>9 DEF ReadOwner
  <2>5. pc'[p] # "refused" /\ (\A q \in Owners : q # p => pc'[q] = pc[q]) /\ \A c \in Children : pc'[c] = "off"
    BY <2>1, <2>4, <1>3, <1>5
  <2> QED
    BY <1>1, <2>1, <2>5 DEF NobodyYet, Untouched, Recovering
<1>10. ASSUME NEW p \in Processes, Elect(p)
      PROVE  NobodyYet'
  <2>1. p \in Owners /\ pc[p] = "elect" /\ UNCHANGED lease
    BY <1>4, <1>10 DEF Elect, Runs
  <2>2. target[p] = Former /\ gen[p] = 0
    BY <2>1, <1>1, OneElection DEF Electing
  <2>3. CASE reaper[Former][0] = None
    <3>1. Goes(p, "recheck") /\ reaper' = [reaper EXCEPT ![Former][0] = p]
      BY <1>10, <2>2, <2>3 DEF Elect
    <3>2. reaper'[Former][0] = p
      BY <3>1, <1>2, <1>3 DEF TypeOK
    <3>3. pc'[p] = "recheck" /\ \A c \in Children : pc'[c] = "off"
      BY <3>1, <2>1, <1>5
    <3>4. \A q \in Owners : ~Recovering(q)
      BY <2>3, <1>3 DEF Recovering
    <3> QED
      BY <1>1, <2>1, <3>2, <3>3, <3>4 DEF NobodyYet, Untouched, Recovering
  <2>4. CASE reaper[Former][0] # None
    <3>1. Goes(p, "readReaper") /\ UNCHANGED reaper
      BY <1>10, <2>2, <2>4 DEF Elect
    <3>2. pc'[p] = "readReaper" /\ (\A q \in Owners : q # p => pc'[q] = pc[q]) /\ \A c \in Children : pc'[c] = "off"
      BY <3>1, <2>1, <1>3, <1>5
    <3> QED
      BY <1>1, <2>1, <3>1, <3>2 DEF NobodyYet, Untouched, Recovering
  <2> QED
    BY <2>3, <2>4
<1>11. ASSUME NEW p \in Processes, ReadReaper(p)
      PROVE  NobodyYet'
  <2>1. p \in Owners /\ pc[p] = "readReaper" /\ UNCHANGED <<lease, reaper>>
    BY <1>4, <1>11 DEF ReadReaper, Runs
  <2>2. reaper[Former][0] # None
    BY <2>1, <1>1, OneElection DEF Electing
  <2>3. PICK q \in Owners : Recovering(q)
    BY <1>1, <2>2 DEF NobodyYet, Untouched
  <2>4. p # q
    BY <2>1, <2>3 DEF Recovering
  <2>5. \E step \in {"elect", "refused"} : Goes(p, step)
    BY <1>11 DEF ReadReaper
  <2>6. pc'[q] = pc[q] /\ \A c \in Children : pc'[c] = "off"
    BY <2>1, <2>4, <2>5, <1>3, <1>5
  <2> QED
    BY <1>1, <2>1, <2>3, <2>6 DEF NobodyYet, Recovering
<1>12. ASSUME NEW p \in Processes, Recheck(p)
      PROVE  NobodyYet'
  <2>1. p \in Owners /\ pc[p] = "recheck" /\ UNCHANGED <<lease, reaper>> /\ DirOf(p) = "main"
    BY <1>3, <1>4, <1>12 DEF Recheck, Runs
  <2>2. target[p] = Former /\ reaper[Former][0] = p
    BY <2>1, <1>1, OneElection DEF Electing
  <2>3. Recovering(p)
    BY <1>1, <1>3, <2>1, <2>2 DEF NobodyYet, Untouched, Recovering
  <2>4. lease["main"] = Former /\ ~LooksAlive(Former)
    BY <2>1, <2>3, <1>1 DEF Recovering, LooksAlive, Calm
  <2>5. Goes(p, "unlink")
    BY <1>12, <2>1, <2>2, <2>4 DEF Recheck
  <2>6. pc'[p] = "unlink" /\ \A c \in Children : pc'[c] = "off"
    BY <2>1, <2>5, <1>5
  <2> QED
    BY <1>1, <2>1, <2>2, <2>4, <2>6 DEF NobodyYet, Recovering
<1>13. ASSUME NEW p \in Processes, Unlink(p)
      PROVE  NobodyYet'
  <2>1. p \in Owners /\ pc[p] = "unlink" /\ Goes(p, "link") /\ UNCHANGED reaper /\ DirOf(p) = "main"
    BY <1>3, <1>4, <1>13 DEF Unlink, Runs
  <2>2. reaper[Former][0] = p
    BY <2>1, <1>1, OneElection DEF Electing
  <2>3. lease'["main"] = None /\ lease'["child"] = None
    BY <1>2, <1>3, <1>13, <2>1 DEF Unlink, TypeOK
  <2>4. pc'[p] = "link" /\ \A c \in Children : pc'[c] = "off"
    BY <2>1, <1>5
  <2> QED
    BY <2>1, <2>2, <2>3, <2>4 DEF NobodyYet, Recovering
<1>14. ASSUME NEW p \in Processes, Validate(p) \/ Confirm(p)
      PROVE  FALSE
  BY <1>2, <1>4, <1>14 DEF Validate, Confirm, Runs
<1>15. ASSUME NEW p \in Processes, NEW c \in Children, Delegate(p, c)
      PROVE  FALSE
  BY <1>2, <1>15 DEF Delegate, Runs, Won
<1>16. ASSUME NEW p \in Processes, Release(p) \/ CheckOwn(p) \/ UnlinkOwn(p)
      PROVE  FALSE
  BY <1>2, <1>16 DEF Release, CheckOwn, UnlinkOwn, Runs, Won, Processes
<1>17. ASSUME NEW p \in Processes, Die(p)
      PROVE  FALSE
  BY <1>1, <1>17 DEF Die, Calm
<1>18. CASE UNCHANGED vars
  BY <1>1, <1>18 DEF vars, NobodyYet, Untouched, Recovering
<1> QED
  BY <1>6, <1>7, <1>8, <1>9, <1>10, <1>11, <1>12, <1>13, <1>14, <1>15, <1>16, <1>17, <1>18 DEF Next, Acquires, Releases

(* A recovery in which nobody dies gives the directory to somebody: not    *)
(* all who asked for it are refused, for any number of processes.          *)
THEOREM RecoverySucceeds == Spec => []NotAllRefused
<1>1. IInv /\ Progress /\ [Next]_vars => Progress'
  BY OwnersStep, NobodyYetStep DEF Progress, IInv
<1>2. IInv /\ Progress => NotAllRefused
  <2> SUFFICES ASSUME IInv, Progress, Calm,
                      NEW p \in Owners, pc[p] # "off"
               PROVE  \E q \in Owners : pc[q] # "off" /\ pc[q] # "refused"
    BY DEF NotAllRefused, Calm
  <2> QED
    BY DEF Progress, NobodyYet, Untouched, Recovering, Winner, Won
<1> QED
  BY <1>1, <1>2, InitProgress, IInvHolds, PTL DEF Spec

(* Whoever holds a lease and lives keeps its record at the lease's path,   *)
(* for any number of processes: retireDeadOwner never removes the record   *)
(* of a living owner.                                                      *)
THEOREM LeaseIsExclusive == Spec => []HoldersKeepTheirLease
<1>1. IInv => HoldersKeepTheirLease
  BY DEF IInv
<1> QED
  BY <1>1, IInvHolds, PTL

(* The state stays well typed, in particular no election runs past the     *)
(* last generation claimReaperAuthority allows.                            *)
THEOREM TypesHold == Spec => []TypeOK
<1>1. IInv => TypeOK
  BY DEF IInv
<1> QED
  BY <1>1, IInvHolds, PTL

=============================================================================
