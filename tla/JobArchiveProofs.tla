-------------------------- MODULE JobArchiveProofs ---------------------------
(***************************************************************************)
(* Proofs about JobArchive for any jobs, minions, events and keep_jobs.    *)
(***************************************************************************)
EXTENDS JobArchive, TLAPS

Copying == {"copy_jids", "copy_returns", "copy_events"}
Purging == {"purge_jids", "purge_returns", "purge_events"}

(* A sweep's stamp stays KeepJobs behind the clock: what it takes for old is  *)
(* old, and nothing written since it began is.                                *)
StampIsPast == sweep.next # "off" => sweep.stamp + KeepJobs <= now

(* What the next purge will delete has been copied.                           *)
CopiedFirst ==
  archiving =>
    /\ sweep.next \in {"copy_returns", "copy_events", "purge_jids"}
         => OldJids \subseteq archive.jids
    /\ sweep.next \in {"copy_events", "purge_jids", "purge_returns"}
         => OldReturns \subseteq archive.returns
    /\ sweep.next \in Purging => OldEvents \subseteq archive.events

(* Before the first sweep is cut short, a row is in both tables only between  *)
(* the copy and the purge of one sweep, and that purge deletes it.            *)
InBoth ==
  faults = 0 =>
    /\ archive.again = {}
    /\ \A r \in returns \cap archive.returns :
         sweep.next \in {"copy_events", "purge_jids", "purge_returns"} /\ r.at < sweep.stamp
    /\ \A v \in events \cap archive.events : sweep.next \in Purging /\ v.at < sweep.stamp

(* A return that lands now is not one that has been archived, even if a minion *)
(* has sent it again.                                                          *)
ArchiveIsPast == \A r \in archive.returns : r.at < now

IInv == TypeOK /\ StampIsPast /\ ArchiveIsPast /\ CopiedFirst /\ InBoth

-----------------------------------------------------------------------------
LEMMA InitIInv == Init => IInv
BY ArchiveAssumption
   DEF Init, IInv, TypeOK, StampIsPast, ArchiveIsPast, CopiedFirst, InBoth, Off, Purging

(* The tables stay well typed. *)
LEMMA TypeStep ==
  ASSUME TypeOK, [Next]_vars
  PROVE  TypeOK'
<1>. USE ArchiveAssumption DEF TypeOK
<1>1. ASSUME NEW j \in Jid, SaveLoad(j) PROVE TypeOK'
  BY <1>1 DEF SaveLoad
<1>2. ASSUME NEW j \in Jid, NEW m \in Minion, Returner(j, m) PROVE TypeOK'
  <2>1. [jid |-> j, minion |-> m, at |-> now] \in Return
    BY <1>2 DEF Return
  <2>. QED BY <1>2, <2>1 DEF Returner
<1>3. ASSUME NEW e \in Event, EventReturn(e) PROVE TypeOK'
  <2>1. [id |-> e, at |-> now] \in Record
    BY <1>3 DEF Record
  <2>. QED BY <1>3, <2>1 DEF EventReturn
<1>4. CASE Tick
  BY <1>4 DEF Tick
<1>5. CASE Start
  BY <1>5 DEF Start, At
<1>6. CASE CopyJids
  BY <1>6 DEF CopyJids, Copied, OldJids, Then, Off
<1>7. CASE CopyReturns
  BY <1>7 DEF CopyReturns, OldReturns, Then
<1>8. CASE CopyEvents
  BY <1>8 DEF CopyEvents, Copied, OldEvents, Then, Off
<1>9. CASE PurgeJids
  BY <1>9 DEF PurgeJids, Then
<1>10. CASE PurgeReturns
  BY <1>10 DEF PurgeReturns, Then
<1>11. CASE PurgeEvents
  BY <1>11 DEF PurgeEvents, Off
<1>12. CASE CutShort
  BY <1>12 DEF CutShort, Off
<1>13. CASE UNCHANGED vars
  BY <1>13 DEF vars
<1>. QED BY <1>1, <1>2, <1>3, <1>4, <1>5, <1>6, <1>7, <1>8, <1>9, <1>10, <1>11, <1>12,
            <1>13 DEF Next, Sweep

(* Times are numbers. *)
LEMMA Times ==
  ASSUME TypeOK
  PROVE  /\ now \in Nat /\ sweep.stamp \in Nat /\ faults \in Nat
         /\ \A r \in returns : r.at \in Nat /\ r.jid \in Jid
         /\ \A v \in events : v.at \in Nat
BY ArchiveAssumption DEF TypeOK, Return, Record

(* A sweep begins KeepJobs behind the clock, which only goes on. *)
LEMMA StampStep ==
  ASSUME IInv, [Next]_vars
  PROVE  StampIsPast'
<1>. USE Times, ArchiveAssumption DEF IInv, StampIsPast
<1>1. CASE Start
  BY <1>1 DEF Start
<1>2. CASE Tick
  BY <1>2 DEF Tick
<1>3. CASE Sweep /\ ~Start
  BY <1>3 DEF Sweep, CopyJids, CopyReturns, CopyEvents, PurgeJids, PurgeReturns,
     PurgeEvents, Copied, At, Then, Off, TypeOK
<1>4. CASE UNCHANGED <<sweep, now>>
  BY <1>4
<1>5. CASE CutShort
  BY <1>5 DEF CutShort, Off
<1>. QED BY <1>1, <1>2, <1>3, <1>4, <1>5
         DEF Next, vars, SaveLoad, Returner, EventReturn

(* What a sweep copies is older than its stamp, and the clock only goes on. *)
LEMMA ArchiveStep ==
  ASSUME IInv, [Next]_vars
  PROVE  ArchiveIsPast'
<1>. USE Times, ArchiveAssumption DEF IInv, ArchiveIsPast
<1>1. CASE CopyReturns
  BY <1>1 DEF CopyReturns, OldReturns, StampIsPast, At, TypeOK
<1>2. CASE Tick
  BY <1>2 DEF Tick, TypeOK, Return
<1>3. CASE UNCHANGED now /\ archive'.returns = archive.returns
  BY <1>3
<1>4. CASE CopyJids \/ CopyEvents
  BY <1>3, <1>4 DEF CopyJids, CopyEvents, Copied, TypeOK
<1>. QED BY <1>1, <1>2, <1>3, <1>4
         DEF Next, Sweep, vars, SaveLoad, Returner, EventReturn, Start, PurgeJids,
             PurgeReturns, PurgeEvents, CutShort

-----------------------------------------------------------------------------
(* What is written while a sweep runs is too new, and too unknown, to be its. *)
LEMMA WritesAreNew ==
  ASSUME IInv,
         \/ \E j \in Jid : SaveLoad(j) \/ \E m \in Minion : Returner(j, m)
         \/ \E e \in Event : EventReturn(e)
         \/ Tick
  PROVE  /\ sweep.next # "off" => /\ OldReturns' = OldReturns
                                  /\ OldEvents' = OldEvents
                                  /\ OldJids' = OldJids
         /\ returns' \cap archive'.returns = returns \cap archive.returns
         /\ events' \cap archive'.events = events \cap archive.events
         /\ UNCHANGED <<archive, sweep, archiving, faults>>
<1>. USE Times DEF IInv
<1>1. ASSUME NEW j \in Jid, SaveLoad(j) PROVE sweep.next # "off" => OldJids' = OldJids
  <2>1. \A r \in returns : r.jid # j
    BY <1>1, ArchiveAssumption DEF SaveLoad, Known
  <2>. QED BY <1>1, <2>1 DEF SaveLoad, OldJids, OldReturns
<1>2. ASSUME NEW j \in Jid, SaveLoad(j) PROVE OldReturns' = OldReturns /\ OldEvents' = OldEvents
  BY <1>2 DEF SaveLoad, OldReturns, OldEvents
<1>3. ASSUME NEW j \in Jid, NEW m \in Minion, Returner(j, m)
      PROVE  /\ sweep.next # "off" => /\ OldReturns' = OldReturns
                                      /\ OldEvents' = OldEvents /\ OldJids' = OldJids
             /\ returns' \cap archive'.returns = returns \cap archive.returns
  <2>. DEFINE new == [jid |-> j, minion |-> m, at |-> now]
  <2>1. returns' = returns \cup {new} /\ sweep' = sweep /\ events' = events
        /\ jids' = jids /\ archive' = archive
    BY <1>3 DEF Returner
  <2>2. new \notin archive.returns
    BY DEF ArchiveIsPast
  <2>3. sweep.next # "off" => ~(new.at < sweep.stamp)
    BY ArchiveAssumption DEF StampIsPast
  <2>. HIDE DEF new
  <2>4. sweep.next # "off" => OldReturns' = OldReturns
    BY <2>1, <2>3 DEF OldReturns
  <2>. QED BY <2>1, <2>2, <2>4 DEF OldEvents, OldJids
<1>4. ASSUME NEW e \in Event, EventReturn(e)
      PROVE  /\ sweep.next # "off" => /\ OldReturns' = OldReturns
                                      /\ OldEvents' = OldEvents /\ OldJids' = OldJids
             /\ events' \cap archive'.events = events \cap archive.events
  <2>. DEFINE new == [id |-> e, at |-> now]
  <2>1. events' = events \cup {new} /\ sweep' = sweep /\ returns' = returns
        /\ jids' = jids /\ archive' = archive
    BY <1>4 DEF EventReturn
  <2>2. new \notin archive.events
    BY <1>4 DEF EventReturn
  <2>3. sweep.next # "off" => ~(new.at < sweep.stamp)
    BY ArchiveAssumption DEF StampIsPast
  <2>. HIDE DEF new
  <2>. QED BY <2>1, <2>2, <2>3 DEF OldEvents, OldReturns, OldJids
<1>5. Tick => OldReturns' = OldReturns /\ OldEvents' = OldEvents /\ OldJids' = OldJids
  BY DEF Tick, OldReturns, OldEvents, OldJids
<1>. QED BY <1>1, <1>2, <1>3, <1>4, <1>5 DEF SaveLoad, Returner, EventReturn, Tick

(* Each copy makes its part of CopiedFirst true, and what the purges delete    *)
(* only makes the rest smaller.                                                *)
LEMMA CopiedStep ==
  ASSUME IInv, [Next]_vars
  PROVE  CopiedFirst'
<1>. USE DEF IInv, CopiedFirst, Purging
<1>1. CASE \/ \E j \in Jid : SaveLoad(j) \/ \E m \in Minion : Returner(j, m)
           \/ \E e \in Event : EventReturn(e)
           \/ Tick
  BY <1>1, WritesAreNew
<1>2. CASE Start
  BY <1>2 DEF Start
<1>3. CASE CopyJids
  BY <1>3 DEF CopyJids, Copied, At, Then, Off, OldJids, OldReturns, OldEvents, TypeOK
<1>4. CASE CopyReturns
  BY <1>4 DEF CopyReturns, At, Then, OldJids, OldReturns, OldEvents, TypeOK
<1>5. CASE CopyEvents
  BY <1>5 DEF CopyEvents, Copied, At, Then, Off, OldJids, OldReturns, OldEvents, TypeOK
<1>6. CASE PurgeJids
  BY <1>6 DEF PurgeJids, At, Then, OldReturns, OldEvents, TypeOK
<1>7. CASE PurgeReturns
  BY <1>7 DEF PurgeReturns, At, Then, OldEvents, TypeOK
<1>8. CASE PurgeEvents \/ CutShort
  <2>1. sweep' = Off
    BY <1>8 DEF PurgeEvents, CutShort
  <2>. QED BY <2>1 DEF Off
<1>9. CASE UNCHANGED vars
  BY <1>9 DEF vars, OldJids, OldReturns, OldEvents
<1>. QED BY <1>1, <1>2, <1>3, <1>4, <1>5, <1>6, <1>7, <1>8, <1>9 DEF Next, Sweep

(* While no sweep has been cut short, a copy finds none of its rows in the     *)
(* archive, and the purge that follows deletes those it has put there.         *)
LEMMA InBothStep ==
  ASSUME IInv, [Next]_vars
  PROVE  InBoth'
<1>. USE Times DEF IInv, InBoth, Purging
<1>1. CASE \/ \E j \in Jid : SaveLoad(j) \/ \E m \in Minion : Returner(j, m)
           \/ \E e \in Event : EventReturn(e)
           \/ Tick
  BY <1>1, WritesAreNew
<1>2. CASE Start
  BY <1>2 DEF Start, At
<1>3. CASE CopyJids
  BY <1>3 DEF CopyJids, Copied, At, Then, Off, TypeOK
<1>4. CASE CopyReturns
  BY <1>4 DEF CopyReturns, At, Then, OldReturns, TypeOK
<1>5. CASE CopyEvents
  BY <1>5 DEF CopyEvents, Copied, At, Then, Off, OldEvents, TypeOK
<1>6. CASE PurgeJids
  BY <1>6 DEF PurgeJids, At, Then, TypeOK
<1>7. CASE PurgeReturns
  BY <1>7 DEF PurgeReturns, At, Then, OldReturns, TypeOK
<1>8. CASE PurgeEvents
  BY <1>8 DEF PurgeEvents, At, OldEvents, Off
<1>9. CASE CutShort
  BY <1>9 DEF CutShort
<1>10. CASE UNCHANGED vars
  BY <1>10 DEF vars
<1>. QED BY <1>1, <1>2, <1>3, <1>4, <1>5, <1>6, <1>7, <1>8, <1>9, <1>10 DEF Next, Sweep

LEMMA StepIInv == IInv /\ [Next]_vars => IInv'
BY TypeStep, StampStep, ArchiveStep, CopiedStep, InBothStep DEF IInv

LEMMA IInvHolds == Spec => []IInv
BY InitIInv, StepIInv, PTL DEF Spec

-----------------------------------------------------------------------------
(* The returner tables, the archive and the sweep are well typed. *)
THEOREM TypeCorrect == Spec => []TypeOK
BY IInvHolds, PTL DEF IInv

(* No return is copied to the archive twice while every sweep has run to its *)
(* end (_archive_jobs, _purge_jobs).                                         *)
THEOREM ArchivedOnceHolds == Spec => []ArchivedOnce
<1>1. IInv => ArchivedOnce
  BY DEF IInv, InBoth, ArchivedOnce
<1>. QED BY <1>1, IInvHolds, PTL

(* A step of a well-formed returner deletes old rows only, copied ones if it *)
(* archives.                                                                 *)
LEMMA LeavesStep ==
  ASSUME IInv, [Next]_vars
  PROVE  /\ \A r \in returns \ returns' : r.at + KeepJobs < now
         /\ \A v \in events \ events' : v.at + KeepJobs < now
         /\ \A j \in jids \ jids' : \E r \in returns : r.jid = j /\ r.at + KeepJobs < now
         /\ archiving => /\ jids \ jids' \subseteq archive.jids
                         /\ returns \ returns' \subseteq archive.returns
                         /\ events \ events' \subseteq archive.events
<1>. USE Times, ArchiveAssumption DEF IInv, StampIsPast, CopiedFirst, Purging
<1>1. CASE PurgeJids
  BY <1>1 DEF PurgeJids, At, OldJids, OldReturns
<1>2. CASE PurgeReturns
  BY <1>2 DEF PurgeReturns, At, OldReturns
<1>3. CASE PurgeEvents
  BY <1>3 DEF PurgeEvents, At, OldEvents
<1>4. CASE jids \subseteq jids' /\ returns \subseteq returns' /\ events \subseteq events'
  BY <1>4
<1>. QED BY <1>1, <1>2, <1>3, <1>4
         DEF Next, Sweep, vars, SaveLoad, Returner, EventReturn, Tick, Start, CopyJids,
             CopyReturns, CopyEvents, CutShort

(* Rows leave the returner tables only when they are older than keep_jobs and, *)
(* where archive_jobs is set, only once the archive holds them - also for a    *)
(* sweep that follows one that was cut short (clean_old_jobs).                 *)
THEOREM LeavesOldAndArchivedHolds == Spec => LeavesOldAndArchived
<1>. DEFINE Moved ==
       /\ \A r \in returns \ returns' : r.at + KeepJobs < now
       /\ \A v \in events \ events' : v.at + KeepJobs < now
       /\ \A j \in jids \ jids' : \E r \in returns : r.jid = j /\ r.at + KeepJobs < now
       /\ archiving => /\ jids \ jids' \subseteq archive.jids
                       /\ returns \ returns' \subseteq archive.returns
                       /\ events \ events' \subseteq archive.events
<1>1. ASSUME IInv, [Next]_vars
      PROVE  [Moved]_vars
  BY <1>1, LeavesStep
<1>2. Spec => [][Moved]_vars
  BY <1>1, IInvHolds, PTL DEF Spec
<1>. QED BY <1>2 DEF LeavesOldAndArchived
=============================================================================
