----------------------------- MODULE JobProofs ------------------------------
(***************************************************************************)
(* Proofs about jobs: about what is kept of them (JobHistory), for any     *)
(* minions, bounds, window and batch size, and about the commands that     *)
(* start them, the pages that show what came of them, the indexes on their *)
(* tables and the diagnostics (Questions), for whatever is asked.          *)
(***************************************************************************)
EXTENDS JobHistory, Questions, FiniteSetTheorems, SequenceTheorems, WellFoundedInduction, TLAPS

(* A non-empty set of days has an earliest one. *)
LEMMA MinExists ==
  ASSUME NEW S \in SUBSET Nat, S # {}
  PROVE  Min(S) \in S /\ \A d \in S : Min(S) <= d
<1>1. IsWellFoundedOn(OpToRel(<, Nat), Nat)
  BY NatLessThanWellFounded
<1>2. \E n \in S : \A d \in S : ~(<<d, n>> \in OpToRel(<, Nat))
  BY <1>1, WFMin
<1>3. PICK n \in S : \A d \in S : ~(d < n)
  BY <1>2 DEF OpToRel
<1>4. \A d \in S : n <= d
  BY <1>3
<1>. QED BY <1>4 DEF Min

(* The next cutoff is a day further on, or the edge of the window. *)
LEMMA NextCutoff ==
  ASSUME NEW a \in Nat, NEW b \in Nat
  PROVE  Min({a, b}) \in {a, b} /\ Min({a, b}) <= a /\ Min({a, b}) <= b
BY MinExists, {a, b} \in SUBSET Nat, {a, b} # {}

(* A prune, by the command or by the view, leaves the tables well typed. *)
LEMMA RemoveType ==
  ASSUME TypeOK, NEW rows \in SUBSET Return, NEW loads \in SUBSET Jid,
         NEW next \in Prune, DeleteRows(rows, loads, next)
  PROVE  returns' \subseteq Return /\ jids' \subseteq Jid /\ prune' \in Prune
<1>1. CASE prune.view
  <2>1. [next EXCEPT !.rows = @ \cup rows, !.loads = @ \cup loads] \in Prune
    BY DEF Prune
  <2>. QED BY <1>1, <2>1 DEF DeleteRows, TypeOK
<1>2. CASE ~prune.view
  BY <1>2 DEF DeleteRows, TypeOK
<1>. QED BY <1>1, <1>2

-----------------------------------------------------------------------------
(* Every variable keeps its type.                                          *)
THEOREM TypeCorrect == Spec => []TypeOK
<1> USE HistoryAssumption
<1>1. Init => TypeOK
  BY DEF Init, TypeOK, Jid, Day, Prune, NoPrune
<1>2. ASSUME TypeOK, [Next]_vars
      PROVE  TypeOK'
  <2> USE <1>2 DEF TypeOK, jobVars
  <2>1. ASSUME NEW tgt \in SUBSET Minion \ {{}}, NEW isFind \in BOOLEAN,
               Publish(tgt, isFind)
        PROVE  TypeOK'
    BY <2>1 DEF Publish, Jid
  <2>2. ASSUME NEW j \in Jid, NEW m \in Minion, Answer(j, m)
        PROVE  TypeOK'
    <3>1. [jid |-> j, minion |-> m, day |-> today, find |-> j \in find] \in Return
      BY DEF Return
    <3>. QED BY <2>2, <3>1 DEF Answer
  <2>3. ASSUME NEW j \in Jid, Stop(j)
        PROVE  TypeOK'
    <3>1. StopTarget(j) \subseteq Minion
      BY DEF StopTarget
    <3>. QED BY <2>3, <3>1 DEF Stop
  <2>4. ASSUME NEW view \in BOOLEAN, Begin(view)
        PROVE  TypeOK'
    <3>1. today - Window \in Nat
      BY <2>4 DEF Begin, Day
    <3>2. Seen # {} => Min({r.day : r \in Seen}) \in Nat
      <4> DEFINE days == {r.day : r \in Seen}
      <4>1. days \in SUBSET Nat
        BY DEF Seen, Return, Day
      <4>2. Seen # {} => days # {}
        OBVIOUS
      <4>3. Seen # {} => Min(days) \in days
        BY <4>1, <4>2, MinExists
      <4>. QED BY <4>1, <4>3
    <3>3. prune' \in Prune
      BY <2>4, <3>1, <3>2 DEF Begin, Prune, NoPrune
    <3>. QED BY <2>4, <3>3 DEF Begin
  <2>5. ASSUME Slice
        PROVE  TypeOK'
    <3> DEFINE next == Min({prune.cutoff + 1, prune.before})
    <3>1. next \in Nat
      BY NextCutoff DEF Prune
    <3>2. Doomed(next) \subseteq Return
      BY DEF Doomed, Seen
    <3>3. [prune EXCEPT !.cutoff = next] \in Prune
      BY <3>1 DEF Prune
    <3>4. DeleteRows(Doomed(next), {}, [prune EXCEPT !.cutoff = next])
      BY <2>5 DEF Slice
    <3>5. returns' \subseteq Return /\ jids' \subseteq Jid /\ prune' \in Prune
      BY <3>2, <3>3, <3>4, RemoveType
    <3>. QED BY <2>5, <3>5 DEF Slice
  <2>6. ASSUME SlicesDone
        PROVE  TypeOK'
    BY <2>6 DEF SlicesDone
  <2>7. ASSUME Select
        PROVE  TypeOK'
    <3>1. prune' \in Prune
      BY <2>7 DEF Select, SeenLoads, Prune
    <3>. QED BY <2>7, <3>1 DEF Select
  <2>8. ASSUME DeleteKeys
        PROVE  TypeOK'
    <3>1. [prune EXCEPT !.keys = {}] \in Prune /\ prune.keys \in SUBSET Jid
      BY DEF Prune
    <3>2. returns' \subseteq Return /\ jids' \subseteq Jid /\ prune' \in Prune
      BY <2>8, <3>1, RemoveType DEF DeleteKeys
    <3>. QED BY <2>8, <3>2 DEF DeleteKeys
  <2>9. ASSUME End \/ Crash
        PROVE  TypeOK'
    <3>1. NoPrune \in Prune
      BY DEF Prune, NoPrune
    <3>2. returns' \subseteq Return /\ jids' \subseteq Jid
      BY <2>9 DEF End, Crash
    <3>. QED BY <2>9, <3>1, <3>2 DEF End, Crash
  <2>10. ASSUME NextDay
         PROVE  TypeOK'
    BY <2>10 DEF NextDay, Day
  <2>11. CASE UNCHANGED vars
    BY <2>11 DEF vars
  <2>. QED BY <2>1, <2>2, <2>3, <2>4, <2>5, <2>6, <2>7, <2>8, <2>9, <2>10,
              <2>11 DEF Next
<1>. QED BY <1>1, <1>2, PTL DEF Spec

-----------------------------------------------------------------------------
(* What a prune keeps true from its first slice to its end: the window's   *)
(* edge does not move, what the view holds for its transaction is old (the *)
(* command holds nothing), the rows yet to be looked at are no older than  *)
(* the cutoff, and a return that survives keeps its jids row unless it     *)
(* came too late.                                                          *)
PruneInv ==
  /\ pc # "idle" => prune.before + Window <= today
  /\ pc = "idle" => prune = NoPrune
  /\ pc \in {"idle", "slice"} => prune.keys = {} /\ prune.loads = {}
  /\ pc = "select" => prune.keys = {}
  /\ ~prune.view => prune.rows = {} /\ prune.loads = {}
  /\ \A r \in prune.rows : r.day < prune.before /\ ~r.find
  /\ pc = "slice" =>
       \A r \in Seen : r.day >= prune.cutoff \/ r.day >= prune.before

Kept ==
  \A r \in Seen : r.jid \in (jids \ (prune.keys \cup prune.loads)) \cup late

IInv == TypeOK /\ PruneInv /\ OldReturnsGone /\ Kept /\ LoadsFollowReturns

(* The conditions that make a prune right are inductive. *)
LEMMA PruneCorrect == Spec => []IInv
<1> USE HistoryAssumption
<1>1. Init => IInv
  <2>1. Init => TypeOK
    BY DEF Init, TypeOK, Jid, Day, Prune, NoPrune
  <2>. QED BY <2>1 DEF Init, IInv, PruneInv, OldReturnsGone, Kept,
                       LoadsFollowReturns, Seen, NoPrune
<1>2. ASSUME IInv, TypeOK', [Next]_vars
      PROVE  IInv'
  <2> USE <1>2 DEF IInv, jobVars
  <2>1. ASSUME NEW tgt \in SUBSET Minion \ {{}}, NEW isFind \in BOOLEAN,
               Publish(tgt, isFind)
        PROVE  IInv'
    BY <2>1 DEF Publish, PruneInv, OldReturnsGone, Kept, LoadsFollowReturns, Seen
  <2>2. ASSUME NEW j \in Jid, NEW m \in Minion, Answer(j, m)
        PROVE  IInv'
    <3> DEFINE new == [jid |-> j, minion |-> m, day |-> today, find |-> j \in find]
    <3>1. /\ returns' = returns \cup {new}
          /\ new.day = today /\ new.jid = j
          /\ UNCHANGED <<today, jids, pc, prune>>
      BY <2>2 DEF Answer
    <3>2. Seen' \subseteq Seen \cup {new}
      BY <3>1 DEF Seen
    <3>3. pc # "idle" => today >= prune.before
      BY DEF PruneInv, TypeOK, Day, Prune
    <3>4. PruneInv'
      BY <3>1, <3>2, <3>3 DEF PruneInv
    <3>5. OldReturnsGone'
      BY <3>1, <3>2, <3>3 DEF OldReturnsGone
    <3>6. late \subseteq late' /\ j \in (jids \ (prune.keys \cup prune.loads)) \cup late'
      BY <2>2 DEF Answer
    <3>7. Kept' /\ LoadsFollowReturns'
      BY <3>1, <3>2, <3>6 DEF Kept, LoadsFollowReturns
    <3>. QED BY <3>4, <3>5, <3>7
  <2>3. ASSUME NEW j \in Jid, Stop(j)
        PROVE  IInv'
    BY <2>3 DEF Stop, PruneInv, OldReturnsGone, Kept, LoadsFollowReturns, Seen
  <2>4. ASSUME NEW view \in BOOLEAN, Begin(view)
        PROVE  IInv'
    <3>1. /\ pc = "idle" /\ prune = NoPrune /\ pc' = "slice"
          /\ prune'.before = today - Window /\ prune'.keys = {}
          /\ prune'.rows = {} /\ prune'.loads = {}
          /\ prune'.cutoff = IF Seen = {} THEN today - Window
                             ELSE Min({r.day : r \in Seen})
      BY <2>4 DEF Begin, PruneInv, NoPrune
    <3>2. Seen' = Seen
      BY <2>4, <3>1 DEF Begin, Seen, NoPrune
    <3>3. \A r \in Seen : r.day >= prune'.cutoff
      <4> DEFINE days == {r.day : r \in Seen}
      <4>1. days \in SUBSET Nat
        BY DEF Seen, TypeOK, Return, Day
      <4>2. Seen # {} => days # {}
        OBVIOUS
      <4>3. Seen # {} => \A d \in days : Min(days) <= d /\ Min(days) \in Nat
        BY <4>1, <4>2, MinExists
      <4>. QED BY <3>1, <4>1, <4>3
    <3>4. PruneInv'
      BY <2>4, <3>1, <3>2, <3>3 DEF Begin, PruneInv, TypeOK, Day
    <3>5. OldReturnsGone'
      BY <3>1 DEF OldReturnsGone
    <3>6. Kept' /\ LoadsFollowReturns'
      BY <2>4, <3>1, <3>2 DEF Begin, Kept, LoadsFollowReturns, NoPrune
    <3>. QED BY <3>4, <3>5, <3>6
  <2>5. ASSUME Slice
        PROVE  IInv'
    <3> DEFINE edge == Min({prune.cutoff + 1, prune.before})
               new == [prune EXCEPT !.cutoff = edge]
    <3>0. TypeOK
      OBVIOUS
    <3>1. edge \in Nat /\ edge <= prune.before
      BY NextCutoff DEF TypeOK, Prune
    <3>2. Doomed(edge) \in SUBSET Seen
      BY DEF Doomed
    <3>3. new \in Prune /\ new.view = prune.view /\ new.rows = prune.rows
          /\ new.loads = prune.loads /\ new.before = prune.before
          /\ new.keys = prune.keys /\ new.cutoff = edge
      BY <3>1 DEF TypeOK, Prune
    <3>4. DeleteRows(Doomed(edge), {}, new)
      BY <2>5 DEF Slice
    <3> HIDE DEF edge, new
    <3>5. /\ Seen' = Seen \ Doomed(edge)
          /\ prune'.before = prune.before
          /\ prune'.keys = prune.keys
          /\ prune'.cutoff = edge
          /\ prune'.rows \subseteq prune.rows \cup Doomed(edge)
          /\ prune'.loads \subseteq prune.loads
          /\ jids' \ prune'.loads = jids \ prune.loads
          /\ returns' \subseteq returns
          /\ prune'.view = prune.view
          /\ ~prune.view => prune'.rows = prune.rows /\ prune'.loads = prune.loads
      <4>1. CASE prune.view
        <5>1. /\ prune' = [new EXCEPT !.rows = @ \cup Doomed(edge),
                                     !.loads = @ \cup {}]
              /\ returns' = returns /\ jids' = jids
          BY ONLY <3>4, <4>1 DEF DeleteRows
        <5>2. /\ prune'.before = new.before /\ prune'.keys = new.keys
              /\ prune'.cutoff = new.cutoff /\ prune'.view = new.view
              /\ prune'.rows = new.rows \cup Doomed(edge)
              /\ prune'.loads = new.loads
          BY ONLY <3>3, <5>1 DEF Prune
        <5>. QED BY <3>3, <4>1, <5>1, <5>2 DEF Seen
      <4>2. CASE ~prune.view
        BY ONLY <3>0, <3>2, <3>3, <3>4, <4>2 DEF DeleteRows, TypeOK, Prune, Seen
      <4>. QED BY <4>1, <4>2
    <3>5a. jids' = jids
      BY <3>4 DEF DeleteRows
    <3>6. pc = "slice" /\ UNCHANGED <<today, late, pc>>
      BY <2>5 DEF Slice
    <3>7. \A r \in Doomed(edge) : r.day < prune.before /\ ~r.find
      BY <3>1 DEF Doomed, Seen, TypeOK, Return, Day, Prune
    <3>8. \A r \in Seen' : r.day >= edge
      BY <3>1, <3>5 DEF Doomed, Seen, TypeOK, Return, Day
    <3>9. PruneInv'
      BY <3>5, <3>6, <3>7, <3>8 DEF PruneInv
    <3>10. OldReturnsGone' /\ Kept' /\ LoadsFollowReturns'
      BY <3>5, <3>5a, <3>6 DEF PruneInv, OldReturnsGone, Kept, LoadsFollowReturns
    <3>. QED BY <3>9, <3>10
  <2>6. ASSUME SlicesDone
        PROVE  IInv'
    <3>1. /\ pc = "slice" /\ pc' = "select" /\ prune.cutoff >= prune.before
          /\ UNCHANGED <<today, jids, returns, prune, late>>
      BY <2>6 DEF SlicesDone, MoreSlices, TypeOK, Prune
    <3>2. Seen' = Seen
      BY <3>1 DEF Seen
    <3>3. \A r \in Seen : r.day >= prune.before
      BY <3>1 DEF PruneInv, TypeOK, Prune, Seen, Return, Day
    <3>. QED BY <3>1, <3>2, <3>3 DEF PruneInv, OldReturnsGone, Kept,
                                     LoadsFollowReturns
  <2>7. ASSUME Select
        PROVE  IInv'
    <3>1. PICK keys \in SUBSET (SeenLoads \ KeptJids) :
            prune' = [prune EXCEPT !.keys = keys]
      BY <2>7 DEF Select
    <3>2. /\ pc = "select" /\ pc' = "delete"
          /\ prune'.before = prune.before /\ prune'.rows = prune.rows
          /\ prune'.loads = prune.loads /\ prune'.keys = keys
          /\ prune'.view = prune.view
          /\ UNCHANGED <<today, jids, returns, late>>
      BY <2>7, <3>1 DEF Select, TypeOK, Prune
    <3>3. Seen' = Seen
      BY <3>2 DEF Seen
    <3>4. \A r \in Seen : r.jid \notin keys
      BY <3>2 DEF KeptJids, OldReturnsGone
    <3>5. Kept'
      BY <3>2, <3>3, <3>4 DEF Kept
    <3>. QED BY <3>2, <3>3, <3>5 DEF PruneInv, OldReturnsGone, LoadsFollowReturns
  <2>8. ASSUME DeleteKeys
        PROVE  IInv'
    <3> DEFINE new == [prune EXCEPT !.keys = {}]
    <3>0. TypeOK
      OBVIOUS
    <3>1. new \in Prune /\ new.view = prune.view /\ new.rows = prune.rows
          /\ new.loads = prune.loads /\ new.before = prune.before
          /\ new.keys = {} /\ prune.keys \in SUBSET Jid
      BY DEF TypeOK, Prune
    <3>2. DeleteRows({}, prune.keys, new)
      BY <2>8 DEF DeleteKeys
    <3> HIDE DEF new
    <3>3. /\ Seen' = Seen
          /\ prune'.before = prune.before
          /\ prune'.keys = {}
          /\ prune'.rows \subseteq prune.rows
          /\ jids' \ prune'.loads = (jids \ prune.loads) \ prune.keys
          /\ returns' \subseteq returns
          /\ prune'.view = prune.view
          /\ ~prune.view => prune'.rows = prune.rows /\ prune'.loads = prune.loads
      <4>1. CASE prune.view
        <5>1. /\ prune' = [new EXCEPT !.rows = @ \cup {}, !.loads = @ \cup prune.keys]
              /\ returns' = returns /\ jids' = jids
          BY ONLY <3>1, <3>2, <4>1 DEF DeleteRows
        <5>2. /\ prune'.before = prune.before /\ prune'.keys = {}
              /\ prune'.rows = prune.rows /\ prune'.view = prune.view
              /\ prune'.loads = prune.loads \cup prune.keys
          BY ONLY <3>1, <5>1 DEF Prune
        <5>3. Seen' = Seen
          BY ONLY <5>1, <5>2 DEF Seen
        <5>. QED BY ONLY <4>1, <5>1, <5>2, <5>3
      <4>2. CASE ~prune.view
        <5>1. prune' = new /\ returns' = returns /\ jids' = jids \ prune.keys
          BY ONLY <3>2, <4>2 DEF DeleteRows
        <5>2. prune'.rows = prune.rows /\ prune'.loads = prune.loads
          BY ONLY <3>1, <5>1
        <5>3. Seen' = Seen
          BY ONLY <5>1, <5>2 DEF Seen
        <5>. QED BY ONLY <3>1, <4>2, <5>1, <5>2, <5>3
      <4>. QED BY <4>1, <4>2
    <3>4. pc = "delete" /\ pc' = "select" /\ UNCHANGED <<today, late>>
      BY <2>8 DEF DeleteKeys
    <3>5. PruneInv' /\ OldReturnsGone'
      BY <3>3, <3>4 DEF PruneInv, OldReturnsGone
    <3>6. Kept'
      BY <3>3, <3>4 DEF Kept
    <3>7. LoadsFollowReturns'
      <4>1. CASE prune.view
        <5>1. jids' = jids
          BY <3>1, <3>2, <4>1 DEF DeleteRows
        <5>. QED BY <3>3, <3>4, <5>1 DEF LoadsFollowReturns
      <4>2. CASE ~prune.view
        <5>1. prune.rows = {} /\ prune'.rows = {}
          BY <4>2, <3>3 DEF PruneInv
        <5>. QED BY <3>6, <5>1 DEF Kept, Seen, LoadsFollowReturns
      <4>. QED BY <4>1, <4>2
    <3>. QED BY <3>5, <3>6, <3>7
  <2>9. ASSUME End
        PROVE  IInv'
    <3>1. /\ returns' = returns \ prune.rows /\ jids' = jids \ prune.loads
          /\ prune' = NoPrune /\ pc' = "idle" /\ UNCHANGED <<today, late>>
      BY <2>9 DEF End
    <3>2. Seen' \subseteq Seen
      BY <3>1 DEF Seen, NoPrune
    <3>3. PruneInv' /\ OldReturnsGone'
      BY <3>1 DEF PruneInv, OldReturnsGone, NoPrune
    <3>4. Kept'
      BY <3>1, <3>2 DEF Kept, NoPrune
    <3>5. LoadsFollowReturns'
      BY <3>1, <3>4 DEF LoadsFollowReturns, Kept, Seen, NoPrune
    <3>. QED BY <3>3, <3>4, <3>5
  <2>10. ASSUME Crash
         PROVE  IInv'
    <3>1. /\ prune' = NoPrune /\ pc' = "idle"
          /\ UNCHANGED <<today, jids, returns, late>>
      BY <2>10 DEF Crash
    <3>2. Kept'
      BY <3>1 DEF Kept, Seen, NoPrune, LoadsFollowReturns
    <3>. QED BY <3>1, <3>2 DEF PruneInv, OldReturnsGone, LoadsFollowReturns, NoPrune
  <2>11. ASSUME NextDay
         PROVE  IInv'
    <3>1. UNCHANGED <<jids, returns, pc, prune, late>> /\ today' = today + 1
      BY <2>11 DEF NextDay
    <3>2. Seen' = Seen
      BY <3>1 DEF Seen
    <3>. QED BY <3>1, <3>2 DEF PruneInv, OldReturnsGone, Kept, LoadsFollowReturns,
                               TypeOK, Day, Prune
  <2>12. CASE UNCHANGED vars
    BY <2>12 DEF vars, PruneInv, OldReturnsGone, Kept, LoadsFollowReturns, Seen
  <2>. QED BY <2>1, <2>2, <2>3, <2>4, <2>5, <2>6, <2>7, <2>8, <2>9, <2>10,
              <2>11, <2>12 DEF Next
<1>. QED BY <1>1, <1>2, TypeCorrect, PTL DEF Spec

-----------------------------------------------------------------------------
(* Once the slices of a prune are done, every ordinary return older than   *)
(* the window has gone, whatever landed meanwhile (_delete_by_time).       *)
THEOREM OldReturnsCorrect == Spec => []OldReturnsGone
<1>1. IInv => OldReturnsGone
  BY DEF IInv
<1>. QED BY <1>1, PruneCorrect, PTL

(* The prune drops orphaned jids only: a return keeps its jids row, unless *)
(* it landed after the prune had picked that row (prune_returns).          *)
THEOREM LoadsCorrect == Spec => []LoadsFollowReturns
<1>1. IInv => LoadsFollowReturns
  BY DEF IInv
<1>. QED BY <1>1, PruneCorrect, PTL

(* A prune, by the command or by the view, interrupted or not, deletes no  *)
(* return that is still inside the window (prune_returns).                 *)
THEOREM RecentCorrect == Spec => RecentReturnsStay
<1> DEFINE OnlyOld == \A r \in returns \ returns' : r.day + Window < today
<1>1. ASSUME IInv, [Next]_vars
      PROVE  [OnlyOld]_vars
  <2> USE <1>1, HistoryAssumption
  <2>1. TypeOK /\ PruneInv
    BY DEF IInv
  <2>2. CASE Slice
    <3> DEFINE edge == Min({prune.cutoff + 1, prune.before})
    <3>1. edge \in Nat /\ edge <= prune.before
      BY <2>1, NextCutoff DEF TypeOK, Prune
    <3>2. pc = "slice" /\ returns \ returns' \subseteq Doomed(edge)
      BY <2>2 DEF Slice, DeleteRows
    <3> HIDE DEF edge
    <3>3. prune.before + Window <= today
      BY <2>1, <3>2 DEF PruneInv
    <3>4. \A r \in Doomed(edge) : r.day \in Nat /\ r.day < edge
      BY <2>1 DEF Doomed, Seen, TypeOK, Return, Day
    <3>. QED BY <2>1, <3>1, <3>2, <3>3, <3>4 DEF TypeOK, Prune, Day
  <2>3. CASE End
    <3>1. pc = "select" /\ returns \ returns' \subseteq prune.rows
      BY <2>3 DEF End
    <3>2. prune.before + Window <= today
      BY <2>1, <3>1 DEF PruneInv
    <3>3. \A r \in prune.rows : r.day \in Nat /\ r.day < prune.before
      BY <2>1 DEF PruneInv, TypeOK, Prune, Return, Day
    <3>. QED BY <2>1, <3>1, <3>2, <3>3 DEF TypeOK, Prune, Day
  <2>4. CASE DeleteKeys
    <3>1. returns \subseteq returns'
      BY <2>4 DEF DeleteKeys, DeleteRows
    <3>. QED BY <3>1
  <2>5. CASE ~Slice /\ ~End /\ ~DeleteKeys
    <3>1. returns \subseteq returns'
      BY <2>5 DEF Next, vars, Publish, Answer, Stop, Begin, SlicesDone, Select,
                  Crash, NextDay
    <3>. QED BY <3>1
  <2>. QED BY <2>2, <2>3, <2>4, <2>5
<1>2. Spec => [][OnlyOld]_vars
  BY <1>1, PruneCorrect, PTL DEF Spec
<1>. QED BY <1>2 DEF RecentReturnsStay

-----------------------------------------------------------------------------
(* Questions.                                                              *)

\* What is asked is one of the inputs.
Allowed ==
  /\ about = "target" => input \in Input.target
  /\ about = "run" => input \in Input.run
  /\ about = "jobs" => input \in Input.jobs
  /\ about = "host" => input \in Input.host
  /\ about = "diagnosis" => input \in Input.diagnosis
  /\ about = "indexes" => input \in Input.indexes

LEMMA AskedAllowed == Asking => []Allowed
<1>1. NothingAsked => Allowed
  BY DEF NothingAsked, Allowed
<1>2. Allowed /\ [(\E topic \in DOMAIN Input : Ask(topic)) \/ Answered]_<<about, input>> => Allowed'
  <2> SUFFICES ASSUME Allowed,
                      [(\E topic \in DOMAIN Input : Ask(topic)) \/ Answered]_<<about, input>>
               PROVE  Allowed'
    OBVIOUS
  <2>1. ASSUME NEW topic \in DOMAIN Input, Ask(topic) PROVE Allowed'
    BY <2>1 DEF Ask, Allowed
  <2>2. CASE Answered
    BY <2>2 DEF Answered, Allowed
  <2>3. CASE UNCHANGED <<about, input>>
    BY <2>3 DEF Allowed
  <2> QED
    BY <2>1, <2>2, <2>3
<1> QED
  BY <1>1, <1>2, PTL DEF Asking

-----------------------------------------------------------------------------
(* Diagnostics: the statuses a key has among the checks of each group.      *)

Keys == {"salt.login", "salt.wheel", "salt.runner", "salt.local", "salt.collection"}

LEMMA SaltSays ==
  ASSUME NEW env \in Environment
  PROVE  /\ \A c \in SaltChecks(env) : c.key \in Keys
         /\ env.token = "stored" /\ env.login = "ok" =>
              /\ StatusOf(SaltChecks(env), "salt.login") = {"ok"}
              /\ StatusOf(SaltChecks(env), "salt.wheel")
                   = {IF env.wheel = "fails" THEN "fail" ELSE "ok"}
              /\ StatusOf(SaltChecks(env), "salt.runner")
                   = {IF env.runner = "fails" THEN "fail" ELSE "ok"}
              /\ StatusOf(SaltChecks(env), "salt.local")
                   = {IF env.local = "fails" THEN "fail" ELSE "ok"}
              /\ StatusOf(SaltChecks(env), "salt.collection")
                   = IF env.local = "fails" THEN {} ELSE {ReturnCollection(env.pings).status}
         /\ ~(env.token = "stored" /\ env.login = "ok") =>
              StatusOf(SaltChecks(env), "salt.login") = {"fail"}
<1>1. CASE ~(env.token = "stored" /\ env.login = "ok")
  <2>1. SaltChecks(env) = {[key |-> "salt.login", status |-> "fail"]}
    BY <1>1 DEF SaltChecks, Check
  <2>2. StatusOf(SaltChecks(env), "salt.login") = {"fail"}
    <3> DEFINE c == [key |-> "salt.login", status |-> "fail"]
    <3>1. c.key = "salt.login" /\ c.status = "fail"
      OBVIOUS
    <3> HIDE DEF c
    <3>2. SaltChecks(env) = {c}
      BY <2>1 DEF c
    <3> QED
      BY <3>1, <3>2 DEF StatusOf
  <2> QED
    BY <1>1, <2>1, <2>2 DEF Keys
<1>2. CASE env.token = "stored" /\ env.login = "ok"
  <2> DEFINE answered(got) == IF got = "fails" THEN "fail" ELSE "ok"
             rest == IF env.local = "fails" THEN {} ELSE {ReturnCollection(env.pings)}
             S == SaltChecks(env)
  <2>1. S = {Check("salt.login", "ok"), Check("salt.wheel", answered(env.wheel)),
             Check("salt.runner", answered(env.runner)), Check("salt.local", answered(env.local))}
              \cup rest
    BY <1>2 DEF SaltChecks
  <2>2. ReturnCollection(env.pings).key = "salt.collection"
    BY DEF ReturnCollection, Check
  <2>3. \A c : c \in S <=> \/ c = Check("salt.login", "ok")
                           \/ c = Check("salt.wheel", answered(env.wheel))
                           \/ c = Check("salt.runner", answered(env.runner))
                           \/ c = Check("salt.local", answered(env.local))
                           \/ env.local # "fails" /\ c = ReturnCollection(env.pings)
    BY <2>1
  <2>4. \A key, status : Check(key, status).key = key /\ Check(key, status).status = status
    BY DEF Check
  <2> HIDE DEF S, answered
  <2>5. StatusOf(S, "salt.login") = {"ok"}
    BY <2>2, <2>3, <2>4 DEF StatusOf
  <2>6. StatusOf(S, "salt.wheel") = {answered(env.wheel)}
    BY <2>2, <2>3, <2>4 DEF StatusOf
  <2>7. StatusOf(S, "salt.runner") = {answered(env.runner)}
    BY <2>2, <2>3, <2>4 DEF StatusOf
  <2>8. StatusOf(S, "salt.local") = {answered(env.local)}
    BY <2>2, <2>3, <2>4 DEF StatusOf
  <2>9. StatusOf(S, "salt.collection")
          = IF env.local = "fails" THEN {} ELSE {ReturnCollection(env.pings).status}
    BY <2>2, <2>3, <2>4 DEF StatusOf
  <2>10. \A c \in S : c.key \in Keys
    BY <2>2, <2>3, <2>4 DEF Keys
  <2> QED
    BY <1>2, <2>5, <2>6, <2>7, <2>8, <2>9, <2>10 DEF S, answered
<1> QED
  BY <1>1, <1>2

\* A check that reads the database says one thing of its key, and the groups
\* have keys of their own.
LEMMA DatabaseSays ==
  ASSUME NEW env \in Environment, NEW checks, checks = Collect(env)
  PROVE  LET broken == ~env.readable /\ env.backend = "postgresql"
         IN /\ \A key \in Keys : StatusOf(checks, key) = StatusOf(SaltChecks(env), key)
            /\ StatusOf(checks, "cache.job") = {IF ~env.readable THEN "unknown" ELSE JobCache(env)}
            /\ \A cache \in Caches :
                 StatusOf(checks, cache) = {IF broken THEN "unknown"
                                            ELSE IF cache \in env.empty THEN "warn" ELSE "ok"}
            /\ StatusOf(checks, "db.indexes")
                 = {IF broken \/ env.indexes = "unreadable" THEN "unknown"
                    ELSE IF env.indexes = "missing" THEN "warn" ELSE "ok"}
<1> DEFINE broken == ~env.readable /\ env.backend = "postgresql"
           job == [key |-> "cache.job", status |-> IF ~env.readable THEN "unknown" ELSE JobCache(env)]
           one(cache) == [key |-> cache, status |-> IF broken THEN "unknown"
                            ELSE IF cache \in env.empty THEN "warn" ELSE "ok"]
           index == [key |-> "db.indexes",
                     status |-> IF broken \/ env.indexes = "unreadable" THEN "unknown"
                                ELSE IF env.indexes = "missing" THEN "warn" ELSE "ok"]
<1>1. /\ JobCacheCheck(env, FALSE).check = job
      /\ JobCacheCheck(env, FALSE).broken = broken
  BY DEF JobCacheCheck, Reads, Check
<1>2. ASSUME NEW cache \in Caches PROVE OneCache(env, broken, cache).check = one(cache)
  BY DEF OneCache, Reads, Check
<1>3. IndexCheck(env, broken).check = index
  BY DEF IndexCheck, Reads, Check
<1>4. checks = SaltChecks(env) \cup {job} \cup {one(cache) : cache \in Caches} \cup {index}
  <2> DEFINE all(b) == SaltChecks(env) \cup {JobCacheCheck(env, FALSE).check}
                         \cup {OneCache(env, b, cache).check : cache \in Caches}
                         \cup {IndexCheck(env, b).check}
  <2>1. checks = all(JobCacheCheck(env, FALSE).broken)
    BY DEF Collect
  <2>2. checks = all(broken)
    BY <1>1, <2>1
  <2>3. {OneCache(env, broken, cache).check : cache \in Caches} = {one(cache) : cache \in Caches}
    BY <1>2
  <2> QED
    BY <1>1, <1>3, <2>2, <2>3
<1>5. /\ job.key = "cache.job" /\ index.key = "db.indexes"
      /\ \A cache \in Caches : one(cache).key = cache
  OBVIOUS
<1>6. \A c \in SaltChecks(env) : c.key \in Keys
  BY SaltSays
<1>7. job.status = IF ~env.readable THEN "unknown" ELSE JobCache(env)
  OBVIOUS
<1>8. \A cache \in Caches : one(cache).status = IF broken THEN "unknown"
                              ELSE IF cache \in env.empty THEN "warn" ELSE "ok"
  OBVIOUS
<1>9. index.status = IF broken \/ env.indexes = "unreadable" THEN "unknown"
                     ELSE IF env.indexes = "missing" THEN "warn" ELSE "ok"
  OBVIOUS
<1> HIDE DEF broken, job, one, index
<1>10. \A key \in Keys : StatusOf(checks, key) = StatusOf(SaltChecks(env), key)
  BY <1>4, <1>5 DEF StatusOf, Keys, Caches
<1>11. StatusOf(checks, "cache.job") = {job.status}
  BY <1>4, <1>5, <1>6 DEF StatusOf, Keys, Caches
<1>12. \A cache \in Caches : StatusOf(checks, cache) = {one(cache).status}
  BY <1>4, <1>5, <1>6 DEF StatusOf, Keys, Caches
<1>13. StatusOf(checks, "db.indexes") = {index.status}
  BY <1>4, <1>5, <1>6 DEF StatusOf, Keys, Caches
<1> QED
  BY <1>7, <1>8, <1>9, <1>10, <1>11, <1>12, <1>13 DEF broken


LEMMA StatusType ==
  ASSUME NEW env \in Environment
  PROVE  \A check \in Collect(env) : check.status \in {"ok", "warn", "fail", "unknown"}
<1> DEFINE Statuses == {"ok", "warn", "fail", "unknown"}
<1>1. \A c \in SaltChecks(env) : c.status \in Statuses
  <2>1. ReturnCollection(env.pings).status \in Statuses
    BY DEF ReturnCollection, Check
  <2> QED
    BY <2>1 DEF SaltChecks, Check
<1>2. JobCache(env) \in Statuses
  BY DEF JobCache
<1>3. \A broken \in BOOLEAN : JobCacheCheck(env, broken).check.status \in Statuses
  BY <1>2 DEF JobCacheCheck, Reads, Check
<1>4. \A broken \in BOOLEAN, cache \in Caches : OneCache(env, broken, cache).check.status \in Statuses
  BY DEF OneCache, Reads, Check
<1>5. \A broken \in BOOLEAN : IndexCheck(env, broken).check.status \in Statuses
  BY DEF IndexCheck, Reads, Check
<1>6. JobCacheCheck(env, FALSE).broken \in BOOLEAN
  BY DEF JobCacheCheck, Reads
<1> HIDE DEF Statuses
<1> SUFFICES \A check \in Collect(env) : check.status \in Statuses
  BY DEF Statuses
<1> QED
  BY <1>1, <1>3, <1>4, <1>5, <1>6 DEF Collect

LEMMA FaultsNamedOf ==
  ASSUME NEW env \in Environment, about = "diagnosis", input = env, env.connects
  PROVE  FaultsNamed
<1> DEFINE checks == Collect(env)
           signedIn == env.token = "stored" /\ env.login = "ok"
           apart == env.backend = "mysql" \/ env.readable
           command == Diagnose(env, TRUE)
<1>0. /\ env.backend \in {"mysql", "postgresql"} /\ env.readable \in BOOLEAN
      /\ env.wheel \in {"ok", "odd", "fails"} /\ env.pings \in SUBSET BOOLEAN
      /\ env.runner \in {"ok", "fails"} /\ env.local \in {"ok", "fails"}
  BY DEF Environment
<1>1. /\ \A key \in Keys : StatusOf(checks, key) = StatusOf(SaltChecks(env), key)
      /\ StatusOf(checks, "cache.job") = {IF ~env.readable THEN "unknown" ELSE JobCache(env)}
      /\ apart => \A cache \in Caches :
                    StatusOf(checks, cache) = {IF cache \in env.empty THEN "warn" ELSE "ok"}
      /\ apart => StatusOf(checks, "db.indexes")
                    = {IF env.indexes = "unreadable" THEN "unknown"
                       ELSE IF env.indexes = "missing" THEN "warn" ELSE "ok"}
  <2> HIDE DEF checks
  <2>1. checks = Collect(env)
    BY DEF checks
  <2>2. apart => ~(~env.readable /\ env.backend = "postgresql")
    BY <1>0
  <2> QED
    BY <2>1, <2>2, DatabaseSays
<1>2. StatusOf(checks, "salt.login") = {"fail"} <=> ~signedIn
  BY <1>1, SaltSays DEF Keys
<1>3. signedIn => (StatusOf(checks, "salt.runner") = {"fail"} <=> env.runner = "fails")
  BY <1>1, SaltSays DEF Keys
<1>4. signedIn => (StatusOf(checks, "salt.collection") = {"fail"}
                     <=> env.local = "ok" /\ env.pings = {FALSE})
  <2>1. ReturnCollection(env.pings).status = "fail" <=> env.pings # {} /\ TRUE \notin env.pings
    BY DEF ReturnCollection, Check
  <2>2. env.pings # {} /\ TRUE \notin env.pings <=> env.pings = {FALSE}
    BY <1>0
  <2>3. StatusOf(checks, "salt.collection") = StatusOf(SaltChecks(env), "salt.collection")
    BY <1>1 DEF Keys
  <2> QED
    BY <1>0, <2>1, <2>2, <2>3, SaltSays
<1>5. apart => \A cache \in Caches : StatusOf(checks, cache) = {"warn"} <=> cache \in env.empty
  BY <1>1
<1>6. apart => (StatusOf(checks, "db.indexes") = {"warn"} <=> env.indexes = "missing")
  BY <1>1
<1>7. StatusOf(checks, "cache.job") = {"fail"} <=> command.job.notWritten
  <2>1. command.job.notWritten <=> env.readable /\ env.newest # 0 /\ env.newest \notin env.jids
    BY DEF Diagnose, ReportJobCache
  <2>2. JobCache(env) = "fail" <=> env.newest # 0 /\ env.newest \notin env.jids
    <3>1. CASE env.newest = 0
      BY <3>1 DEF JobCache
    <3>2. CASE env.newest # 0 /\ env.newest \notin env.jids
      BY <3>2 DEF JobCache
    <3>3. CASE env.newest # 0 /\ env.newest \in env.jids
      <4> DEFINE behind == \A jid \in env.jids : jid < env.newest
      <4>1. JobCache(env) = IF behind THEN "warn" ELSE "ok"
        BY <3>3, Zenon DEF JobCache
      <4> QED
        BY <3>3, <4>1
    <3> QED
      BY <3>1, <3>2, <3>3
  <2> QED
    BY <1>1, <2>1, <2>2
<1>8. command.ends = "ok" =>
        {"fail"} \notin {StatusOf(checks, key) : key \in {"salt.login", "salt.wheel", "salt.local"}}
  <2> SUFFICES ASSUME command.ends = "ok", NEW key \in {"salt.login", "salt.wheel", "salt.local"}
               PROVE  StatusOf(checks, key) # {"fail"}
    OBVIOUS
  <2>1. CheckSaltApi(env) = {}
    BY DEF Diagnose
  <2>2. signedIn /\ env.wheel = "ok" /\ env.local # "fails"
    BY <2>1 DEF CheckSaltApi
  <2> QED
    BY <1>1, <2>2, SaltSays DEF Keys
<1>9. Worst(checks) = "ok" => \A check \in checks : check.status \in {"ok", "unknown"}
  <2>1. \A check \in checks : check.status \in {"ok", "warn", "fail", "unknown"}
    BY StatusType
  <2> QED
    BY <2>1 DEF Worst
<1> QED
  BY <1>2, <1>3, <1>4, <1>5, <1>6, <1>7, <1>8, <1>9 DEF FaultsNamed

-----------------------------------------------------------------------------
(* Indexes.                                                                 *)

Database(db) == db = [vendor |-> db.vendor, tables |-> db.tables, indexes |-> db.indexes]

\* The names are Alcali's, and one for each index wanted.
LEMMA WantedNames ==
  /\ \A want \in Wanted : want.name \in Names
  /\ \A want, other \in Wanted : want.name = other.name => want = other
<1>1. \A name, table, columns : Want(name, table, columns).name = name
  BY DEF Want
<1>2. \A want, other \in Wanted : want.name = other.name => want = other
  BY <1>1 DEF Wanted
<1> QED
  BY <1>2 DEF Names

\* What an index is for does not depend on its being valid.
LEMMA IndexServes ==
  ASSUME NEW want \in Wanted, NEW valid \in BOOLEAN
  PROVE  /\ Index(want, valid).name = want.name /\ Index(want, valid).table = want.table
         /\ Index(want, valid).valid = valid
         /\ Serves(Index(want, valid), want)
         /\ \A old : Serves(old, Index(want, valid)) <=> Serves(old, want)
<1>1. /\ Index(want, valid).name = want.name /\ Index(want, valid).table = want.table
      /\ Index(want, valid).columns = want.columns /\ Index(want, valid).valid = valid
  BY DEF Index
<1>2. IsPrefix(want.columns, want.columns)
  <2>1. Len(want.columns) \in Nat
    <3>1. \A name, table, columns : Want(name, table, columns).columns = columns
      BY DEF Want
    <3>2. want.columns \in {<<"alter_time">>, <<"id", "alter_time">>, <<"id", "fun", "jid">>}
      BY <3>1 DEF Wanted
    <3>3. \A columns \in {<<"alter_time">>, <<"id", "alter_time">>, <<"id", "fun", "jid">>} :
            Len(columns) \in {1, 2, 3}
      OBVIOUS
    <3> QED
      BY <3>2, <3>3
  <2> QED
    BY <2>1 DEF IsPrefix
<1> QED
  BY <1>1, <1>2 DEF Serves

\* What an attempt makes.
MadeOf(db, faults) == {want \in MissingIndexes(db) : faults[want.name] = "none"}

\* One attempt: what it adds, what it calls made, and what stays as it was.
Adds(db, faults, done) ==
  /\ done.db = [db EXCEPT !.indexes = done.db.indexes]
  /\ db.indexes \subseteq done.db.indexes
  /\ \A want \in MadeOf(db, faults) : Index(want, TRUE) \in done.db.indexes
  /\ \A new \in done.db.indexes \ db.indexes :
       \E want \in MissingIndexes(db), valid \in BOOLEAN :
         /\ new = Index(want, valid)
         /\ ~valid => faults[want.name] = "build drop"
  /\ done.created = {want.name : want \in MadeOf(db, faults)}
  /\ done.failed = {want.name : want \in MissingIndexes(db) \ MadeOf(db, faults)}

LEMMA AttemptAdds ==
  ASSUME NEW db, Database(db), NEW faults
  PROVE  Adds(db, faults, Ensure(db, faults))
<1> DEFINE done == Ensure(db, faults)
           made == MadeOf(db, faults)
           failed == MissingIndexes(db) \ made
           good == {Index(want, TRUE) : want \in made}
           left == UNION {CleanedUp(db, want, faults[want.name]) : want \in failed}
           x == db.indexes \cup good \cup left
<1>1. /\ done.db = [db EXCEPT !.indexes = x]
      /\ done.created = {want.name : want \in made}
      /\ done.failed = {want.name : want \in failed}
  BY DEF Ensure, MadeOf
<1>2. done.db.indexes = x
  BY <1>1 DEF Database
<1>3. \A want \in made : Index(want, TRUE) \in x
  OBVIOUS
<1>4. ASSUME NEW new \in x \ db.indexes
      PROVE  \E want \in MissingIndexes(db), valid \in BOOLEAN :
               new = Index(want, valid) /\ (~valid => faults[want.name] = "build drop")
  <2>1. CASE new \in good
    BY <2>1 DEF MadeOf
  <2>2. CASE new \in left
    <3>1. PICK want \in failed : new \in CleanedUp(db, want, faults[want.name])
      BY <2>2
    <3>2. faults[want.name] = "build drop" /\ new = Index(want, FALSE)
      BY <3>1 DEF CleanedUp, Left
    <3> QED
      BY <3>2
  <2> QED
    BY <2>1, <2>2
<1>5. db.indexes \subseteq x
  OBVIOUS
<1> HIDE DEF x, failed
<1> QED
  BY <1>1, <1>2, <1>3, <1>4, <1>5 DEF failed, Adds

LEMMA IndexesEndUpOf ==
  ASSUME NEW a \in Attempt, about = "indexes", input = a
  PROVE  IndexesEndUp
<1> DEFINE before == a.db
           first == Ensure(before, a.faults)
           second == Ensure(first.db, Works)
           wanted == {want \in Wanted : want.table \in before.tables}
           whole == \A index \in before.indexes : index.valid
           droppable == \A name \in Names : a.faults[name] # "build drop"
           made == MadeOf(before, a.faults)
           again == MadeOf(first.db, Works)
<1>1. Database(before)
  BY DEF Attempt, Database
<1>2. \A db : MissingIndexes(db) \subseteq Wanted
  BY DEF MissingIndexes
<1>3. /\ first.db = [before EXCEPT !.indexes = first.db.indexes]
      /\ before.indexes \subseteq first.db.indexes
      /\ \A want \in made : Index(want, TRUE) \in first.db.indexes
      /\ \A new \in first.db.indexes \ before.indexes :
           \E want \in MissingIndexes(before), valid \in BOOLEAN :
             new = Index(want, valid) /\ (~valid => a.faults[want.name] = "build drop")
      /\ first.created = {want.name : want \in made}
      /\ first.failed = {want.name : want \in MissingIndexes(before) \ made}
  <2>1. Adds(before, a.faults, first)
    BY <1>1, AttemptAdds
  <2> HIDE DEF first
  <2> QED
    BY <2>1 DEF Adds
<1>4. Database(first.db) /\ first.db.tables = before.tables
  BY <1>1, <1>3 DEF Database
<1>5. /\ second.db = [first.db EXCEPT !.indexes = second.db.indexes]
      /\ first.db.indexes \subseteq second.db.indexes
      /\ \A want \in again : Index(want, TRUE) \in second.db.indexes
      /\ \A new \in second.db.indexes \ first.db.indexes :
           \E want \in MissingIndexes(first.db), valid \in BOOLEAN :
             new = Index(want, valid) /\ (~valid => Works[want.name] = "build drop")
  <2>1. Adds(first.db, Works, second)
    BY <1>4, AttemptAdds
  <2> HIDE DEF first, second
  <2> QED
    BY <2>1 DEF Adds
<1> HIDE DEF first, second
<1>6. again = MissingIndexes(first.db)
  BY <1>2, WantedNames DEF Works, MadeOf
<1>7. whole /\ Applied(before, a.faults) => \A want \in wanted : ValidlyCovered(first.db, want)
  <2> SUFFICES ASSUME whole, Applied(before, a.faults), NEW want \in wanted
               PROVE  ValidlyCovered(first.db, want)
    OBVIOUS
  <2>1. MissingIndexes(before) \subseteq made
    <3>1. MissingIndexes(before) = {} \/ first.failed = {}
      BY DEF Applied, first
    <3>2. ASSUME NEW other \in MissingIndexes(before) \ made PROVE FALSE
      <4>1. other.name \in first.failed
        BY <1>3
      <4> QED
        BY <3>1, <3>2, <4>1
    <3> QED
      BY <3>2
  <2>2. CASE Covered(before, want)
    BY <1>3, <2>2 DEF Covered, ValidlyCovered
  <2>3. CASE ~Covered(before, want)
    <3>1. want \in made
      BY <2>1, <2>3 DEF MissingIndexes
    <3> QED
      BY <1>3, <3>1, IndexServes DEF ValidlyCovered
  <2> QED
    BY <2>2, <2>3
<1>8. whole /\ droppable => \A want \in wanted : ValidlyCovered(second.db, want)
  <2> SUFFICES ASSUME whole, droppable, NEW want \in wanted
               PROVE  ValidlyCovered(second.db, want)
    OBVIOUS
  <2>1. \A index \in first.db.indexes : index.valid
    <3> SUFFICES ASSUME NEW new \in first.db.indexes \ before.indexes PROVE new.valid
      BY <1>3
    <3>1. PICK w \in MissingIndexes(before), valid \in BOOLEAN :
            new = Index(w, valid) /\ (~valid => a.faults[w.name] = "build drop")
      BY <1>3
    <3> QED
      BY <1>2, <3>1, IndexServes, WantedNames
  <2>2. CASE Covered(first.db, want)
    BY <1>5, <2>1, <2>2 DEF Covered, ValidlyCovered
  <2>3. CASE ~Covered(first.db, want)
    <3>1. want \in again
      BY <1>4, <1>6, <2>3 DEF MissingIndexes
    <3> QED
      BY <1>5, <3>1, IndexServes DEF ValidlyCovered
  <2> QED
    BY <2>2, <2>3
<1>9. \A new \in second.db.indexes \ before.indexes :
        \E want \in MissingIndexes(before), valid \in BOOLEAN : new = Index(want, valid)
  <2>1. MissingIndexes(first.db) \subseteq MissingIndexes(before)
    BY <1>3, <1>4 DEF MissingIndexes, Covered
  <2> SUFFICES ASSUME NEW new \in second.db.indexes \ before.indexes
               PROVE  \E want \in MissingIndexes(before), valid \in BOOLEAN : new = Index(want, valid)
    OBVIOUS
  <2>2. CASE new \in first.db.indexes
    BY <1>3, <2>2
  <2>3. CASE new \notin first.db.indexes
    BY <1>5, <2>1, <2>3
  <2> QED
    BY <2>2, <2>3
<1>10. \A new \in second.db.indexes \ before.indexes :
         ~\E old \in before.indexes : Serves(old, new)
  <2> SUFFICES ASSUME NEW new \in second.db.indexes \ before.indexes,
                      NEW old \in before.indexes, Serves(old, new)
               PROVE  FALSE
    OBVIOUS
  <2>1. PICK want \in MissingIndexes(before), valid \in BOOLEAN : new = Index(want, valid)
    BY <1>9
  <2>2. Serves(old, want)
    BY <1>2, <2>1, IndexServes
  <2> QED
    BY <2>2 DEF MissingIndexes, Covered
<1>11. /\ first.created \cup first.failed = {want.name : want \in MissingIndexes(before)}
       /\ first.created \cap first.failed = {}
  <2>1. first.created \cup first.failed = {want.name : want \in MissingIndexes(before)}
    <3>1. made \cup (MissingIndexes(before) \ made) = MissingIndexes(before)
      BY DEF MadeOf
    <3> HIDE DEF made
    <3> QED
      BY <1>3, <3>1
  <2>2. first.created \cap first.failed = {}
    <3> SUFFICES ASSUME NEW name \in first.created, name \in first.failed PROVE FALSE
      OBVIOUS
    <3>1. PICK want \in made : name = want.name
      BY <1>3
    <3>2. PICK other \in MissingIndexes(before) \ made : name = other.name
      BY <1>3
    <3>3. want \in Wanted /\ other \in Wanted
      BY <1>2 DEF MadeOf
    <3> QED
      BY <3>1, <3>2, <3>3, WantedNames
  <2> QED
    BY <2>1, <2>2
<1>12. Dropped(second.db) = Dropped(before)
  <2>1. second.db.tables = before.tables /\ before.indexes \subseteq second.db.indexes
    <3>1. second.db.tables = first.db.tables
      BY <1>4, <1>5 DEF Database
    <3> QED
      BY <1>3, <1>4, <1>5, <3>1
  <2>2. \A new \in second.db.indexes \ before.indexes :
          new.table \in before.tables /\ new.name \in Names
    BY <1>2, <1>9, IndexServes, WantedNames DEF MissingIndexes
  <2>3. {index \in second.db.indexes : index.table \in before.tables => index.name \notin Names}
          = {index \in before.indexes : index.table \in before.tables => index.name \notin Names}
    BY <2>1, <2>2
  <2>4. \A x : [second.db EXCEPT !.indexes = x] = [before EXCEPT !.indexes = x]
    BY <1>1, <1>3, <1>5 DEF Database
  <2> QED
    BY <2>1, <2>3, <2>4 DEF Dropped
<1>13. {index \in before.indexes : index.name \notin Names} \subseteq Dropped(second.db).indexes
  <2>1. Dropped(before).indexes
          = {index \in before.indexes : index.table \in before.tables => index.name \notin Names}
    BY <1>1 DEF Dropped, Database
  <2> QED
    BY <1>12, <2>1
<1> QED
  BY <1>7, <1>8, <1>10, <1>11, <1>12, <1>13 DEF IndexesEndUp, first, second

\* The diagnostics name what is wrong, whatever state the installation is in.
THEOREM FaultsAreNamed == Asking => []FaultsNamed
<1>1. Allowed => FaultsNamed
  <2>1. Input.diagnosis \subseteq Environment
    BY QuestionsAssumption
  <2>2. CASE about = "diagnosis" /\ input.connects
    BY <2>1, <2>2, FaultsNamedOf DEF Allowed
  <2>3. CASE ~(about = "diagnosis" /\ input.connects)
    BY <2>3 DEF FaultsNamed
  <2> QED
    BY <2>2, <2>3
<1> QED
  BY <1>1, AskedAllowed, PTL

\* An attempt to add the indexes that failed does not pass for done, and the
\* next one finishes it, on whatever database and however it failed.
THEOREM IndexesGetThere == Asking => []IndexesEndUp
<1>1. Allowed => IndexesEndUp
  <2>1. Input.indexes \subseteq Attempt
    BY QuestionsAssumption
  <2>2. CASE about = "indexes"
    BY <2>1, <2>2, IndexesEndUpOf DEF Allowed
  <2>3. CASE about # "indexes"
    BY <2>3 DEF IndexesEndUp
  <2> QED
    BY <2>2, <2>3
<1> QED
  BY <1>1, AskedAllowed, PTL

-----------------------------------------------------------------------------
(* Commands: sequences first.                                              *)

\* Two sequences with the same elements are the same.
LEMMA SameSeq ==
  ASSUME NEW S, NEW s \in Seq(S), NEW t \in Seq(S), Len(s) = Len(t),
         \A i \in 1..Len(s) : s[i] = t[i]
  PROVE  s = t
BY SeqEqual

\* The place of a flag that stands once, and of one that does not stand.
LEMMA MaxOnly ==
  ASSUME NEW p \in Nat, NEW T, T = {} \/ T = {p}
  PROVE  Max({0} \cup T) = IF T = {} THEN 0 ELSE p
<1>1. CASE T = {}
  BY <1>1 DEF Max
<1>2. CASE T = {p}
  <2> DEFINE M == {0} \cup T
  <2>1. p \in M /\ \A y \in M : p >= y
    BY <1>2
  <2>2. \A x \in M : (\A y \in M : x >= y) => x = p
    BY <1>2
  <2> QED
    BY <1>2, <2>1, <2>2 DEF Max
<1> QED
  BY <1>1, <1>2

LEMMA LastNone ==
  ASSUME NEW S, NEW s \in Seq(S), NEW flags, \A i \in 1..Len(s) : s[i] \notin flags
  PROVE  LastOf(s, flags) = 0
<1>1. {i \in DOMAIN s : s[i] \in flags} = {}
  BY LenProperties
<1> QED
  BY <1>1, MaxOnly DEF LastOf

LEMMA LastOne ==
  ASSUME NEW S, NEW s \in Seq(S), NEW flags, NEW p \in 1..Len(s),
         \A i \in 1..Len(s) : s[i] \in flags <=> i = p
  PROVE  LastOf(s, flags) = p
<1>1. {i \in DOMAIN s : s[i] \in flags} = {p}
  BY LenProperties
<1>2. p \in Nat
  BY LenProperties
<1> QED
  BY <1>1, <1>2, MaxOnly DEF LastOf

-----------------------------------------------------------------------------
\* An element taken out from behind a sequence.
LEMMA RemovedAfter ==
  ASSUME NEW S, NEW b \in Seq(S), NEW x \in S, NEW r \in Seq(S)
  PROVE  RemoveAt((b \o <<x>>) \o r, Len(b) + 1) = b \o r
<1> DEFINE n == Len(b)
           c == (b \o <<x>>) \o r
           front == SubSeq(c, 1, n)
           back == SubSeq(c, n + 2, Len(c))
<1>1. n \in Nat /\ Len(r) \in Nat
  BY LenProperties
<1>2. <<x>> \in Seq(S) /\ Len(<<x>>) = 1 /\ <<x>>[1] = x
  OBVIOUS
<1>3. /\ b \o <<x>> \in Seq(S) /\ Len(b \o <<x>>) = n + 1
      /\ \A i \in 1..n : (b \o <<x>>)[i] = b[i]
  BY <1>1, <1>2, ConcatProperties
<1>4. /\ c \in Seq(S) /\ Len(c) = n + 1 + Len(r)
      /\ \A i \in 1..n : c[i] = b[i]
      /\ \A i \in 1..Len(r) : c[n + 1 + i] = r[i]
  <2> DEFINE bx == b \o <<x>>
  <2> HIDE DEF bx
  <2>0. c = bx \o r
    BY DEF bx
  <2>1. bx \in Seq(S) /\ Len(bx) = n + 1 /\ \A i \in 1..n : bx[i] = b[i]
    BY <1>3 DEF bx
  <2>2. /\ bx \o r \in Seq(S) /\ Len(bx \o r) = n + 1 + Len(r)
        /\ \A i \in 1..(n + 1 + Len(r)) :
             (bx \o r)[i] = IF i <= n + 1 THEN bx[i] ELSE r[i - (n + 1)]
    <3>1. /\ bx \o r \in Seq(S) /\ Len(bx \o r) = Len(bx) + Len(r)
          /\ \A i \in 1..(Len(bx) + Len(r)) :
               (bx \o r)[i] = IF i <= Len(bx) THEN bx[i] ELSE r[i - Len(bx)]
      BY <2>1, ConcatProperties, Zenon
    <3>2. Len(bx) = n + 1
      BY <2>1
    <3> HIDE DEF n
    <3> QED
      BY <3>1, <3>2
  <2> QED
    BY <1>1, <2>0, <2>1, <2>2
<1> HIDE DEF c
<1>5. \A i \in 1..Len(c) : c[i] \in S
  BY <1>4, ElementOfSeq
<1>6. front = b
  <2>1. /\ front \in Seq(S) /\ Len(front) = n
        /\ \A i \in 1..n : front[i] = c[i]
    <3>1. \A i \in 1..n : c[i] \in S
      BY <1>1, <1>4, <1>5
    <3> QED
      BY <1>1, <3>1, SubSeqProperties
  <2> QED
    BY <1>4, <2>1, SameSeq
<1>7. back = r
  <2>1. /\ back \in Seq(S) /\ Len(back) = Len(r)
        /\ \A i \in 1..Len(r) : back[i] = c[n + 1 + i]
    <3>1. \A i \in (n + 2)..Len(c) : c[i] \in S
      BY <1>1, <1>4, <1>5
    <3> QED
      BY <1>1, <1>4, <3>1, SubSeqProperties
  <2> QED
    BY <1>4, <2>1, SameSeq
<1>8. (n + 1) - 1 = n /\ (n + 1) + 1 = n + 2
  BY <1>1
<1>9. RemoveAt(c, n + 1) = front \o back
  BY <1>8 DEF RemoveAt
<1> QED
  BY <1>6, <1>7, <1>9 DEF c

\* Between b and r, an option and its value are found and taken out.
TakenOut(c, b, flags, value, r) ==
  /\ Len(c) = Len(b) + 2 + Len(r)
  /\ LastOf(c, flags) = Len(b) + 1
  /\ c[Len(b) + 2] = value
  /\ Without(c, Len(b) + 1) = b \o r

LEMMA OptionTaken ==
  ASSUME NEW S, NEW b \in Seq(S), Len(b) > 1, NEW r \in Seq(S),
         NEW flags, NEW flag \in flags, flag \in S, NEW value \in S, value \notin flags,
         \A i \in 1..Len(b) : b[i] \notin flags, \A i \in 1..Len(r) : r[i] \notin flags
  PROVE  TakenOut((b \o <<flag, value>>) \o r, b, flags, value, r)
<1> DEFINE bx == b \o <<flag>>
           rv == <<value>> \o r
           c == (b \o <<flag, value>>) \o r
           n == Len(b)
<1>1. n \in Nat /\ Len(r) \in Nat
  BY LenProperties
<1>2. <<flag>> \in Seq(S) /\ <<value>> \in Seq(S) /\ <<flag, value>> \in Seq(S)
  OBVIOUS
<1>3. /\ Len(<<flag>>) = 1 /\ <<flag>>[1] = flag
      /\ Len(<<value>>) = 1 /\ <<value>>[1] = value
      /\ Len(<<flag, value>>) = 2 /\ <<flag, value>>[1] = flag /\ <<flag, value>>[2] = value
  OBVIOUS
<1>4. /\ rv \in Seq(S) /\ Len(rv) = 1 + Len(r) /\ rv[1] = value
      /\ \A i \in 1..Len(r) : rv[i + 1] = r[i]
  <2>1. /\ rv \in Seq(S) /\ Len(rv) = 1 + Len(r)
        /\ \A i \in 1..(1 + Len(r)) : rv[i] = IF i <= 1 THEN <<value>>[i] ELSE r[i - 1]
    BY <1>1, <1>2, <1>3, ConcatProperties
  <2> HIDE DEF rv
  <2> QED
    BY <1>1, <1>3, <2>1
<1>5. /\ bx \in Seq(S) /\ Len(bx) = n + 1 /\ bx[n + 1] = flag
      /\ \A i \in 1..n : bx[i] = b[i]
  <2>1. /\ bx \in Seq(S) /\ Len(bx) = n + 1
        /\ \A i \in 1..(n + 1) : bx[i] = IF i <= n THEN b[i] ELSE <<flag>>[i - n]
    BY <1>1, <1>2, <1>3, ConcatProperties
  <2> HIDE DEF bx
  <2> QED
    BY <1>1, <1>3, <2>1
<1>6. c = bx \o rv
  <2>1. <<flag, value>> = <<flag>> \o <<value>>
    OBVIOUS
  <2>2. b \o <<flag, value>> = bx \o <<value>>
    BY <1>2, <2>1, ConcatAssociative
  <2> HIDE DEF bx
  <2>3. (bx \o <<value>>) \o r = bx \o (<<value>> \o r)
    BY <1>2, <1>5, ConcatAssociative
  <2> QED
    BY <2>2, <2>3, Zenon
<1> HIDE DEF c, bx, rv
<1>7. /\ c \in Seq(S) /\ Len(c) = n + 2 + Len(r)
      /\ \A i \in 1..n : c[i] = b[i]
      /\ c[n + 1] = flag /\ c[n + 2] = value
      /\ \A i \in 1..Len(r) : c[n + 2 + i] = r[i]
  <2>1. /\ bx \o rv \in Seq(S) /\ Len(bx \o rv) = Len(bx) + Len(rv)
        /\ \A i \in 1..(Len(bx) + Len(rv)) :
             (bx \o rv)[i] = IF i <= Len(bx) THEN bx[i] ELSE rv[i - Len(bx)]
    <3>1. bx \in Seq(S) /\ rv \in Seq(S)
      BY <1>4, <1>5
    <3> QED
      BY <3>1, ConcatProperties
  <2> HIDE DEF n
  <2>2. c \in Seq(S) /\ Len(c) = n + 2 + Len(r)
    BY <1>1, <1>4, <1>5, <1>6, <2>1
  <2>3. \A i \in 1..(n + 2 + Len(r)) : c[i] = IF i <= n + 1 THEN bx[i] ELSE rv[i - (n + 1)]
    BY <1>1, <1>4, <1>5, <1>6, <2>1
  <2>4. ASSUME NEW i \in 1..n PROVE c[i] = b[i]
    <3>1. i \in 1..(n + 2 + Len(r)) /\ i <= n + 1
      BY <1>1
    <3>2. c[i] = bx[i]
      BY <2>3, <3>1
    <3> QED
      BY <1>5, <3>2
  <2>5. c[n + 1] = flag /\ c[n + 2] = value
    <3>1. n + 1 \in 1..(n + 2 + Len(r)) /\ n + 2 \in 1..(n + 2 + Len(r))
      BY <1>1
    <3>2. c[n + 1] = bx[n + 1]
      BY <1>1, <2>3, <3>1
    <3>3. c[n + 2] = rv[1]
      <4>1. ~(n + 2 <= n + 1) /\ (n + 2) - (n + 1) = 1
        BY <1>1
      <4> QED
        BY <2>3, <3>1, <4>1
    <3> QED
      BY <1>4, <1>5, <3>2, <3>3
  <2>6. \A i \in 1..Len(r) : c[n + 2 + i] = r[i]
    <3> SUFFICES ASSUME NEW i \in 1..Len(r) PROVE c[n + 2 + i] = r[i]
      OBVIOUS
    <3>1. c[n + 2 + i] = rv[i + 1]
      BY <1>1, <2>3
    <3> QED
      BY <1>4, <3>1
  <2> QED
    BY <2>2, <2>4, <2>5, <2>6
<1>8. LastOf(c, flags) = n + 1
  <2>1. \A i \in 1..Len(c) : c[i] \in flags <=> i = n + 1
    <3> SUFFICES ASSUME NEW i \in 1..Len(c) PROVE c[i] \in flags <=> i = n + 1
      OBVIOUS
    <3> HIDE DEF n
    <3>1. CASE i \in 1..n
      BY <1>7, <3>1 DEF n
    <3>2. CASE i = n + 1
      BY <1>7, <3>2
    <3>3. CASE i = n + 2
      BY <1>1, <1>7, <3>3
    <3>4. CASE i > n + 2
      <4>1. i - (n + 2) \in 1..Len(r) /\ n + 2 + (i - (n + 2)) = i
        BY <1>1, <1>7, <3>4
      <4>2. c[i] = r[i - (n + 2)]
        BY <1>7, <4>1
      <4> QED
        BY <1>1, <3>4, <4>1, <4>2
    <3> QED
      BY <1>1, <1>7, <3>1, <3>2, <3>3, <3>4
  <2>2. n + 1 \in 1..Len(c)
    BY <1>1, <1>7
  <2> QED
    BY <1>7, <2>1, <2>2, LastOne
<1>9. Without(c, n + 1) = b \o r
  <2>1. RemoveAt(c, n + 1) = b \o rv
    <3>1. c = (b \o <<flag>>) \o rv
      BY <1>6 DEF bx
    <3> QED
      BY <1>4, <3>1, RemovedAfter
  <2>2. b \o rv = (b \o <<value>>) \o r
    BY <1>2, ConcatAssociative DEF rv
  <2>3. RemoveAt(b \o rv, n + 1) = b \o r
    <3>1. RemoveAt((b \o <<value>>) \o r, n + 1) = b \o r
      BY RemovedAfter
    <3> QED
      BY <2>2, <3>1, Zenon
  <2>4. n + 1 > 1
    BY <1>1
  <2> QED
    BY <2>1, <2>3, <2>4 DEF Without
<1> QED
  BY <1>7, <1>8, <1>9 DEF c, TakenOut

-----------------------------------------------------------------------------
\* target_dict: a type's option is a flag of its own.
LEMMA TargetPlaces ==
  /\ DOMAIN TargetFlags = 1..9
  /\ \A i \in 1..9 :
       LET opt == OptionOf(TargetFlags[i][1])
       IN /\ opt \in TargetFlags[i][2]
          /\ \A j \in 1..9 : opt \in TargetFlags[j][2] => j = i
          /\ opt \notin BatchFlags \cup TimeoutFlags
<1>1. DOMAIN TargetFlags = 1..9
  BY DEF TargetFlags
<1>2. /\ TargetFlags[1] = <<"pcre", {"-E", "--pcre"}>>
      /\ TargetFlags[2] = <<"list", {"-L", "--list"}>>
      /\ TargetFlags[3] = <<"grain", {"-G", "--grain"}>>
      /\ TargetFlags[4] = <<"grain_pcre", {"--grain-pcre"}>>
      /\ TargetFlags[5] = <<"pillar", {"-I", "--pillar"}>>
      /\ TargetFlags[6] = <<"pillar_pcre", {"--pillar-pcre"}>>
      /\ TargetFlags[7] = <<"range", {"-R", "--range"}>>
      /\ TargetFlags[8] = <<"compound", {"-C", "--compound"}>>
      /\ TargetFlags[9] = <<"nodegroup", {"-N", "--nodegroup"}>>
  BY DEF TargetFlags
<1>3. /\ TargetFlags[1][2] = {"-E", "--pcre"} /\ TargetFlags[2][2] = {"-L", "--list"}
      /\ TargetFlags[3][2] = {"-G", "--grain"} /\ TargetFlags[4][2] = {"--grain-pcre"}
      /\ TargetFlags[5][2] = {"-I", "--pillar"} /\ TargetFlags[6][2] = {"--pillar-pcre"}
      /\ TargetFlags[7][2] = {"-R", "--range"} /\ TargetFlags[8][2] = {"-C", "--compound"}
      /\ TargetFlags[9][2] = {"-N", "--nodegroup"}
  BY <1>2
<1>4. /\ OptionOf(TargetFlags[1][1]) = "--pcre" /\ OptionOf(TargetFlags[2][1]) = "--list"
      /\ OptionOf(TargetFlags[3][1]) = "--grain" /\ OptionOf(TargetFlags[4][1]) = "--grain-pcre"
      /\ OptionOf(TargetFlags[5][1]) = "--pillar" /\ OptionOf(TargetFlags[6][1]) = "--pillar-pcre"
      /\ OptionOf(TargetFlags[7][1]) = "--range" /\ OptionOf(TargetFlags[8][1]) = "--compound"
      /\ OptionOf(TargetFlags[9][1]) = "--nodegroup"
  BY <1>2 DEF OptionOf
<1>5. \A i \in 1..9 : i \in {1, 2, 3, 4, 5, 6, 7, 8, 9}
  OBVIOUS
<1>6. ASSUME NEW i \in 1..9
      PROVE  /\ OptionOf(TargetFlags[i][1]) \in TargetFlags[i][2]
             /\ \A j \in 1..9 : OptionOf(TargetFlags[i][1]) \in TargetFlags[j][2] => j = i
             /\ OptionOf(TargetFlags[i][1]) \notin BatchFlags \cup TimeoutFlags
  <2>1. OptionOf(TargetFlags[i][1]) \in TargetFlags[i][2]
    BY <1>3, <1>4, <1>5
  <2>2. ASSUME NEW j \in 1..9, OptionOf(TargetFlags[i][1]) \in TargetFlags[j][2] PROVE j = i
    BY <1>3, <1>4, <1>5, <2>2
  <2>3. OptionOf(TargetFlags[i][1]) \notin BatchFlags \cup TimeoutFlags
    BY <1>4, <1>5 DEF BatchFlags, TimeoutFlags
  <2> QED
    BY <2>1, <2>2, <2>3
<1> QED
  BY <1>1, <1>6

\* Where a word and where an option stand in it.
LEMMA Placed ==
  /\ \A word : word \notin Flags => Place(word) = 0
  /\ \A type \in TargetTypes \ {"glob"} :
       /\ OptionOf(type) \in Flags /\ OptionOf(type) \notin BatchFlags \cup TimeoutFlags
       /\ Place(OptionOf(type)) \in 1..9
       /\ TargetFlags[Place(OptionOf(type))][1] = type
<1>1. ASSUME NEW word, word \notin Flags PROVE Place(word) = 0
  <2>1. {i \in DOMAIN TargetFlags : word \in TargetFlags[i][2]} = {}
    BY <1>1 DEF Flags
  <2> QED
    BY <2>1, MaxOnly DEF Place
<1>2. ASSUME NEW type \in TargetTypes \ {"glob"}
      PROVE  /\ OptionOf(type) \in Flags /\ OptionOf(type) \notin BatchFlags \cup TimeoutFlags
             /\ Place(OptionOf(type)) \in 1..9
             /\ TargetFlags[Place(OptionOf(type))][1] = type
  <2>1. PICK i \in 1..9 : type = TargetFlags[i][1]
    BY TargetPlaces DEF TargetTypes
  <2>2. {j \in DOMAIN TargetFlags : OptionOf(type) \in TargetFlags[j][2]} = {i}
    BY <2>1, TargetPlaces
  <2>3. Place(OptionOf(type)) = i
    <3>1. Place(OptionOf(type)) = Max({0} \cup {i})
      BY <2>2 DEF Place
    <3>2. i \in Nat
      OBVIOUS
    <3> QED
      BY <3>1, <3>2, MaxOnly
  <2>4. OptionOf(type) \in Flags
    BY <2>1, TargetPlaces DEF Flags
  <2> QED
    BY <2>1, <2>3, <2>4, TargetPlaces
<1> QED
  BY <1>1, <1>2

\* No flag in front of the target.
LEMMA TargetedWord ==
  ASSUME NEW S, NEW s \in Seq(S), Len(s) > 0, Place(s[1]) = 0
  PROVE  Targeted(s) = [tgt_type |-> "glob", args |-> s]
<1> DEFINE follows(i) == Place(s[i]) > (IF i = 1 THEN 0 ELSE Place(s[i - 1]))
           T == {n \in 0..Len(s) : \A i \in 1..n : follows(i)}
<1>1. Len(s) \in Nat
  BY LenProperties
<1>2. ~follows(1)
  OBVIOUS
<1>3. \A i \in 1..0 : follows(i)
  OBVIOUS
<1>4. Max(T) = 0
  <2> HIDE DEF follows
  <2>1. T = {0} \cup {}
    BY <1>1, <1>2, <1>3
  <2> HIDE DEF T
  <2> QED
    BY <2>1, MaxOnly
<1>5. SubSeq(s, 0 + 1, Len(s)) = s
  <2>1. SubSeq(s, 1, Len(s)) = s
    BY SubSeqFull
  <2> QED
    BY <2>1
<1>6. Targeted(s) = [tgt_type |-> IF Max(T) = 0 THEN "glob" ELSE TargetFlags[Place(s[Max(T)])][1],
                     args |-> SubSeq(s, Max(T) + 1, Len(s))]
  BY DEF Targeted
<1> HIDE DEF T
<1> QED
  BY <1>4, <1>5, <1>6

\* One flag in front of it.
LEMMA TargetedOption ==
  ASSUME NEW S, NEW opt \in S, NEW t \in Seq(S), Len(t) > 0,
         Place(opt) \in 1..9, Place(t[1]) = 0
  PROVE  Targeted(<<opt>> \o t) = [tgt_type |-> TargetFlags[Place(opt)][1], args |-> t]
<1> DEFINE s == <<opt>> \o t
           follows(i) == Place(s[i]) > (IF i = 1 THEN 0 ELSE Place(s[i - 1]))
           T == {n \in 0..Len(s) : \A i \in 1..n : follows(i)}
<1>1. Len(t) \in Nat
  BY LenProperties
<1>2. /\ s \in Seq(S) /\ Len(s) = 1 + Len(t) /\ s[1] = opt
      /\ \A i \in 1..Len(t) : s[i + 1] = t[i]
  <2>1. <<opt>> \in Seq(S) /\ Len(<<opt>>) = 1 /\ <<opt>>[1] = opt
    OBVIOUS
  <2>2. /\ s \in Seq(S) /\ Len(s) = 1 + Len(t)
        /\ \A i \in 1..(1 + Len(t)) : s[i] = IF i <= 1 THEN <<opt>>[i] ELSE t[i - 1]
    BY <1>1, <2>1, ConcatProperties
  <2> HIDE DEF s
  <2> QED
    BY <1>1, <2>1, <2>2
<1>3. Targeted(s) = [tgt_type |-> IF Max(T) = 0 THEN "glob" ELSE TargetFlags[Place(s[Max(T)])][1],
                     args |-> SubSeq(s, Max(T) + 1, Len(s))]
  BY DEF Targeted
<1> HIDE DEF s
<1>4. follows(1)
  BY <1>2
<1>5. ~follows(2)
  <2>1. s[2] = t[1]
    <3>1. 1 \in 1..Len(t) /\ 1 + 1 = 2
      BY <1>1
    <3> QED
      BY <1>2, <3>1
  <2> QED
    BY <1>2, <2>1
<1>6. Max(T) = 1
  <2> HIDE DEF follows
  <2>1. T = {0} \cup {1}
    <3>1. Len(s) \in Nat /\ Len(s) > 1
      BY <1>1, <1>2
    <3>2. \A n \in 0..Len(s) : (\A i \in 1..n : follows(i)) => n < 2
      BY <1>5, <3>1
    <3>3. \A i \in 1..0 : follows(i)
      OBVIOUS
    <3>4. \A i \in 1..1 : follows(i)
      BY <1>4
    <3>5. 0 \in T
      BY <3>1, <3>3
    <3>6. 1 \in T
      BY <3>1, <3>4
    <3>7. \A n \in T : n = 0 \/ n = 1
      BY <3>1, <3>2
    <3> HIDE DEF T
    <3> QED
      BY <3>5, <3>6, <3>7
  <2> HIDE DEF T
  <2> QED
    BY <2>1, MaxOnly
<1>7. SubSeq(s, 1 + 1, Len(s)) = t
  <2>1. \A i \in 2..Len(s) : s[i] \in S
    BY <1>1, <1>2, ElementOfSeq
  <2>2. /\ SubSeq(s, 2, Len(s)) \in Seq(S) /\ Len(SubSeq(s, 2, Len(s))) = Len(t)
        /\ \A i \in 1..Len(t) : SubSeq(s, 2, Len(s))[i] = s[i + 1]
    BY <1>1, <1>2, <2>1, SubSeqProperties
  <2>3. SubSeq(s, 2, Len(s)) = t
    <3> DEFINE u == SubSeq(s, 2, Len(s))
    <3>1. u \in Seq(S) /\ Len(u) = Len(t) /\ \A i \in 1..Len(u) : u[i] = t[i]
      BY <1>2, <2>2
    <3> HIDE DEF u
    <3>2. u = t
      BY <3>1, SameSeq
    <3> QED
      BY <3>2 DEF u
  <2> QED
    BY <2>3
<1> HIDE DEF T
<1>8. Targeted(s) = [tgt_type |-> TargetFlags[Place(s[1])][1], args |-> SubSeq(s, 1 + 1, Len(s))]
  BY <1>3, <1>6
<1>9. Targeted(s) = [tgt_type |-> TargetFlags[Place(opt)][1], args |-> t]
  BY <1>2, <1>7, <1>8
<1> QED
  BY <1>9 DEF s

-----------------------------------------------------------------------------
\* A command without --batch and --timeout, and what it says behind its target
\* flag.
Texts == Word \cup Flags
Asked(form) == (form.tgt \o form.fun) \o form.args
Bare(form) == ((TypeFlag(form) \o form.tgt) \o form.fun) \o form.args

\* A text none of whose words is in F, and two of them after each other.
FreeOf(F, text) == text \in Seq(Texts) /\ \A i \in 1..Len(text) : text[i] \notin F

LEMMA WithoutBoth ==
  ASSUME NEW F, NEW a, NEW b, FreeOf(F, a), FreeOf(F, b)
  PROVE  FreeOf(F, a \o b) /\ Len(a \o b) = Len(a) + Len(b)
<1>1. Len(a) \in Nat /\ Len(b) \in Nat
  BY LenProperties DEF FreeOf
<1>2. /\ a \o b \in Seq(Texts) /\ Len(a \o b) = Len(a) + Len(b)
      /\ \A i \in 1..(Len(a) + Len(b)) :
           (a \o b)[i] = IF i <= Len(a) THEN a[i] ELSE b[i - Len(a)]
  BY ConcatProperties DEF FreeOf
<1>3. ASSUME NEW i \in 1..(Len(a) + Len(b)) PROVE (a \o b)[i] \notin F
  <2>1. CASE i <= Len(a)
    <3>1. i \in 1..Len(a) /\ (a \o b)[i] = a[i]
      BY <1>1, <1>2, <2>1
    <3> QED
      BY <3>1 DEF FreeOf
  <2>2. CASE i > Len(a)
    <3>1. i - Len(a) \in 1..Len(b) /\ (a \o b)[i] = b[i - Len(a)]
      BY <1>1, <1>2, <2>2
    <3> QED
      BY <3>1 DEF FreeOf
  <2> QED
    BY <1>1, <2>1, <2>2
<1> QED
  BY <1>2, <1>3 DEF FreeOf

\* The fields of a form for minions.
LEMMA FieldsOf ==
  ASSUME NEW form \in Form(Word), ForMinions(form)
  PROVE  /\ form.client = "local" /\ form.batched \in BOOLEAN /\ form.async \in BOOLEAN
         /\ form.tgt_type \in TargetTypes
         /\ \A text \in {form.tgt, form.fun, form.args, form.batch, form.timeout} :
              FreeOf(Flags, text)
         /\ Len(form.tgt) \in Nat /\ Len(form.tgt) > 0
         /\ Len(form.fun) \in Nat /\ Len(form.fun) > 0
         /\ Len(form.args) \in Nat
<1>1. \A text \in {form.tgt, form.fun, form.args, form.batch, form.timeout} :
        text \in Seq(Word) /\ ToSet(text) \cap Flags = {}
  BY DEF Form, ForMinions
<1>2. ASSUME NEW text, text \in Seq(Word), ToSet(text) \cap Flags = {}
      PROVE  FreeOf(Flags, text) /\ Len(text) \in Nat
  <2>1. text \in Seq(Texts)
    BY <1>2, SeqMonotonic DEF Texts
  <2>2. DOMAIN text = 1..Len(text) /\ Len(text) \in Nat
    BY <1>2, LenProperties
  <2>3. \A i \in 1..Len(text) : text[i] \in ToSet(text)
    BY <2>2 DEF ToSet
  <2> QED
    BY <1>2, <2>1, <2>2, <2>3 DEF FreeOf
<1>3. form.tgt # <<>> /\ form.fun # <<>> /\ form.tgt \in Seq(Word) /\ form.fun \in Seq(Word)
  BY <1>1 DEF ForMinions
<1>4. Len(form.tgt) > 0 /\ Len(form.fun) > 0
  BY <1>3, EmptySeq, LenProperties
<1> QED
  BY <1>1, <1>2, <1>4 DEF Form, ForMinions

LEMMA BareIs ==
  ASSUME NEW form \in Form(Word), ForMinions(form)
  PROVE  /\ FreeOf(Flags, Asked(form)) /\ Len(Asked(form)) \in Nat /\ Len(Asked(form)) > 1
         /\ FreeOf(BatchFlags \cup TimeoutFlags, Bare(form))
         /\ Len(Bare(form)) \in Nat /\ Len(Bare(form)) > 1
         /\ Targeted(Bare(form)) = [tgt_type |-> form.tgt_type, args |-> Asked(form)]
<1> DEFINE s == Asked(form)
           F == BatchFlags \cup TimeoutFlags
           opt == OptionOf(form.tgt_type)
<1>1. /\ FreeOf(Flags, form.tgt) /\ FreeOf(Flags, form.fun) /\ FreeOf(Flags, form.args)
      /\ Len(form.tgt) \in Nat /\ Len(form.tgt) > 0
      /\ Len(form.fun) \in Nat /\ Len(form.fun) > 0 /\ Len(form.args) \in Nat
      /\ form.tgt_type \in TargetTypes
  BY FieldsOf
<1>2. FreeOf(Flags, s) /\ Len(s) \in Nat /\ Len(s) > 1
  <2>1. /\ FreeOf(Flags, form.tgt \o form.fun)
        /\ Len(form.tgt \o form.fun) = Len(form.tgt) + Len(form.fun)
    BY <1>1, WithoutBoth
  <2>2. FreeOf(Flags, s) /\ Len(s) = Len(form.tgt \o form.fun) + Len(form.args)
    BY <1>1, <2>1, WithoutBoth DEF Asked
  <2>3. Len(s) = Len(form.tgt) + Len(form.fun) + Len(form.args)
    BY <2>1, <2>2
  <2>4. /\ Len(form.tgt) + Len(form.fun) + Len(form.args) \in Nat
        /\ Len(form.tgt) + Len(form.fun) + Len(form.args) > 1
    <3>1. \A k, m, n \in Nat : k > 0 /\ m > 0 => k + m + n \in Nat /\ k + m + n > 1
      OBVIOUS
    <3> QED
      BY <1>1, <3>1, Zenon
  <2> HIDE DEF s
  <2> QED
    BY <2>2, <2>3, <2>4, Zenon
<1>3. F \subseteq Flags
  BY DEF Flags
<1>4. FreeOf(F, s) /\ Place(s[1]) = 0
  <2>1. s[1] \notin Flags
    BY <1>2 DEF FreeOf
  <2> QED
    BY <1>2, <1>3, <2>1, Placed DEF FreeOf
<1>5. form.tgt \in Seq(Texts) /\ form.fun \in Seq(Texts) /\ form.args \in Seq(Texts)
  BY <1>1 DEF FreeOf
<1>6. CASE form.tgt_type = "glob"
  <2>1. Bare(form) = s
    <3>1. <<>> \o form.tgt = form.tgt
      BY <1>5, ConcatEmptySeq
    <3> QED
      BY <1>6, <3>1 DEF Bare, Asked, TypeFlag
  <2>2. s \in Seq(Texts)
    BY <1>2 DEF FreeOf
  <2> HIDE DEF s
  <2>3. Targeted(s) = [tgt_type |-> "glob", args |-> s]
    BY <1>2, <1>4, <2>2, TargetedWord
  <2> QED
    BY <1>2, <1>4, <1>6, <2>1, <2>3 DEF s
<1>7. CASE form.tgt_type # "glob"
  <2>1. /\ opt \in Texts /\ opt \notin F
        /\ Place(opt) \in 1..9 /\ TargetFlags[Place(opt)][1] = form.tgt_type
    BY <1>1, <1>7, Placed DEF Texts
  <2> HIDE DEF opt
  <2>2. <<opt>> \in Seq(Texts) /\ Len(<<opt>>) = 1 /\ <<opt>>[1] = opt
    BY <2>1
  <2>3. Bare(form) = <<opt>> \o s
    <3>1. form.tgt \o form.fun \in Seq(Texts)
      BY <1>5, ConcatProperties
    <3>2. ASSUME NEW a \in Seq(Texts), NEW b \in Seq(Texts), NEW d \in Seq(Texts)
          PROVE  (a \o b) \o d = a \o (b \o d)
      BY ConcatAssociative
    <3>3. (<<opt>> \o form.tgt) \o form.fun = <<opt>> \o (form.tgt \o form.fun)
      BY <1>5, <2>2, <3>2, Zenon
    <3>4. (<<opt>> \o (form.tgt \o form.fun)) \o form.args
            = <<opt>> \o ((form.tgt \o form.fun) \o form.args)
      BY <1>5, <2>2, <3>1, <3>2, Zenon
    <3> QED
      BY <1>7, <3>3, <3>4 DEF Bare, Asked, TypeFlag, opt
  <2>4. s \in Seq(Texts)
    BY <1>2 DEF FreeOf
  <2> HIDE DEF s
  <2>5. Targeted(<<opt>> \o s) = [tgt_type |-> form.tgt_type, args |-> s]
    <3>1. Len(s) > 0
      BY <1>2
    <3> QED
      BY <1>4, <2>1, <2>4, <3>1, TargetedOption
  <2>6. FreeOf(F, <<opt>>)
    BY <2>1, <2>2 DEF FreeOf
  <2>7. FreeOf(F, <<opt>> \o s) /\ Len(<<opt>> \o s) = 1 + Len(s)
    <3> HIDE DEF F
    <3> QED
      BY <1>4, <2>2, <2>6, WithoutBoth
  <2> QED
    BY <1>2, <2>3, <2>5, <2>7 DEF s
<1> QED
  BY <1>2, <1>6, <1>7

\* Two words.
LEMMA TwoWords ==
  ASSUME NEW S, NEW x \in S, NEW y \in S
  PROVE  /\ <<x>> \o <<y>> = <<x, y>>
         /\ <<x, y>> \in Seq(S) /\ Len(<<x, y>>) = 2 /\ <<x, y>>[1] = x /\ <<x, y>>[2] = y
<1>1. /\ <<x>> \in Seq(S) /\ <<y>> \in Seq(S) /\ <<x, y>> \in Seq(S)
      /\ Len(<<x>>) = 1 /\ Len(<<y>>) = 1 /\ Len(<<x, y>>) = 2
      /\ <<x>>[1] = x /\ <<y>>[1] = y /\ <<x, y>>[1] = x /\ <<x, y>>[2] = y
  OBVIOUS
<1>2. /\ <<x>> \o <<y>> \in Seq(S) /\ Len(<<x>> \o <<y>>) = Len(<<x>>) + Len(<<y>>)
      /\ \A i \in 1..(Len(<<x>>) + Len(<<y>>)) :
           (<<x>> \o <<y>>)[i] = IF i <= Len(<<x>>) THEN <<x>>[i] ELSE <<y>>[i - Len(<<x>>)]
  BY <1>1, ConcatProperties, Zenon
<1> DEFINE v == <<x>> \o <<y>>
           u == <<x, y>>
<1>3. \A i \in 1..2 : v[i] = IF i <= 1 THEN <<x>>[i] ELSE <<y>>[i - 1]
  <2> HIDE DEF v
  <2> QED
    BY <1>1, <1>2 DEF v
<1>4. u \in Seq(S) /\ v \in Seq(S) /\ Len(u) = 2 /\ Len(v) = 2 /\ u[1] = x /\ u[2] = y
  BY <1>1, <1>2
<1> HIDE DEF u, v
<1>5. v[1] = x /\ v[2] = y
  BY <1>1, <1>3
<1>6. v = u
  BY <1>4, <1>5, SameSeq
<1> QED
  BY <1>1, <1>6 DEF u, v

\* A text of one word at most.
LEMMA OneWord ==
  ASSUME NEW text \in Seq(Texts), Len(text) <= 1, text # <<>>
  PROVE  text[1] \in Texts /\ text = <<text[1]>> /\ Len(text) = 1
<1>1. Len(text) = 1
  <2>1. Len(text) \in Nat \ {0}
    BY EmptySeq, Zenon
  <2> QED
    BY <2>1
<1>2. text[1] \in Texts
  BY <1>1, ElementOfSeq
<1>3. <<text[1]>> \in Seq(Texts)
  BY <1>2
<1>4. Len(<<text[1]>>) = 1 /\ <<text[1]>>[1] = text[1]
  OBVIOUS
<1>5. text = <<text[1]>>
  BY <1>1, <1>3, <1>4, SameSeq
<1> QED
  BY <1>1, <1>2, <1>5

\* What a form for minions is parsed to.
Understood(form) ==
  [error |-> FALSE, client |-> ClientOf(form), tgt_type |-> form.tgt_type,
   tgt |-> Asked(form)[1], fun |-> Asked(form)[2],
   arg |-> SubSeq(Asked(form), 3, Len(Asked(form))),
   batch |-> IF form.batched THEN form.batch ELSE <<>>,
   timeout |-> IF form.timeout = <<>> THEN <<>> ELSE <<Number[form.timeout[1]]>>]

LEMMA ParsedAsAsked ==
  ASSUME NEW form \in Form(Word), ForMinions(form)
  PROVE  Parse(ClientOf(form), CreateCommand(form)) = Understood(form)
<1> DEFINE p == Bare(form)
           c == CreateCommand(form)
           client == ClientOf(form)
           T == Option(TRUE, "-t", form.timeout)
           B == Option(form.batched, "-b", form.batch)
           timed == form.timeout # <<>>
           inBatches == form.batched /\ form.batch # <<>>
           batchAt == IF client = "local_batch" THEN LastOf(c, BatchFlags) ELSE 0
           unbatched == Without(c, batchAt)
           timeoutAt == LastOf(unbatched, TimeoutFlags)
           unread(i) == i = Len(unbatched) \/ unbatched[i + 1] \notin DOMAIN Number
           failing == \E i \in DOMAIN unbatched : unbatched[i] \in TimeoutFlags /\ unread(i)
           timeout == IF timed THEN <<Number[form.timeout[1]]>> ELSE <<>>
           rest == Targeted(Without(unbatched, timeoutAt))
<1>1. /\ p \in Seq(Texts) /\ Len(p) \in Nat /\ Len(p) > 1
      /\ \A i \in 1..Len(p) : p[i] \notin BatchFlags /\ p[i] \notin TimeoutFlags
      /\ Targeted(p) = [tgt_type |-> form.tgt_type, args |-> Asked(form)]
  BY BareIs DEF FreeOf
<1>2. /\ timed => /\ form.timeout = <<form.timeout[1]>> /\ form.timeout[1] \in Texts
                  /\ form.timeout[1] \notin Flags /\ form.timeout[1] \in DOMAIN Number
      /\ inBatches => /\ form.batch = <<form.batch[1]>> /\ form.batch[1] \in Texts
                      /\ form.batch[1] \notin Flags
      /\ form.batched \in BOOLEAN /\ form.async \in BOOLEAN /\ form.client = "local"
  <2>1. /\ FreeOf(Flags, form.timeout) /\ FreeOf(Flags, form.batch)
        /\ Len(form.timeout) <= 1 /\ ToSet(form.timeout) \subseteq DOMAIN Number
        /\ Len(form.batch) <= 1
    BY FieldsOf DEF ForMinions
  <2>2. ASSUME timed
        PROVE  /\ form.timeout = <<form.timeout[1]>> /\ form.timeout[1] \in Texts
               /\ form.timeout[1] \notin Flags /\ form.timeout[1] \in DOMAIN Number
    <3>1. /\ form.timeout[1] \in Texts /\ form.timeout = <<form.timeout[1]>>
          /\ Len(form.timeout) = 1 /\ form.timeout \in Seq(Texts)
      BY <2>1, <2>2, OneWord DEF FreeOf
    <3>2. form.timeout[1] \notin Flags
      BY <2>1, <3>1 DEF FreeOf
    <3>3. 1 \in DOMAIN form.timeout
      BY <3>1, LenProperties
    <3>4. form.timeout[1] \in ToSet(form.timeout)
      BY <3>3 DEF ToSet
    <3> QED
      BY <2>1, <3>1, <3>2, <3>4
  <2>3. ASSUME inBatches
        PROVE  /\ form.batch = <<form.batch[1]>> /\ form.batch[1] \in Texts
               /\ form.batch[1] \notin Flags
    <3>1. /\ form.batch[1] \in Texts /\ form.batch = <<form.batch[1]>>
          /\ Len(form.batch) = 1 /\ form.batch \in Seq(Texts)
      BY <2>1, <2>3, OneWord DEF FreeOf
    <3> QED
      BY <2>1, <3>1 DEF FreeOf
  <2> QED
    BY <2>2, <2>3, FieldsOf
<1>3. c = (p \o B) \o T
  BY <1>2 DEF CreateCommand, Bare
<1>4. /\ T = IF timed THEN <<"-t", form.timeout[1]>> ELSE <<>>
      /\ B = IF inBatches THEN <<"-b", form.batch[1]>> ELSE <<>>
  <2>1. "-t" \in Texts /\ "-b" \in Texts
    BY DEF Texts, Flags, BatchFlags, TimeoutFlags
  <2>2. ASSUME timed PROVE <<"-t">> \o form.timeout = <<"-t", form.timeout[1]>>
    <3> DEFINE x == form.timeout[1]
    <3>1. x \in Texts /\ form.timeout = <<x>>
      BY <1>2, <2>2
    <3> HIDE DEF x
    <3>2. <<"-t">> \o <<x>> = <<"-t", x>>
      BY <2>1, <3>1, TwoWords
    <3> QED
      BY <3>1, <3>2 DEF x
  <2>3. ASSUME inBatches PROVE <<"-b">> \o form.batch = <<"-b", form.batch[1]>>
    <3> DEFINE x == form.batch[1]
    <3>1. x \in Texts /\ form.batch = <<x>>
      BY <1>2, <2>3
    <3> HIDE DEF x
    <3>2. <<"-b">> \o <<x>> = <<"-b", x>>
      BY <2>1, <3>1, TwoWords
    <3> QED
      BY <3>1, <3>2 DEF x
  <2> QED
    BY <2>2, <2>3 DEF Option
<1>5. /\ "-b" \in BatchFlags /\ "-b" \notin TimeoutFlags /\ "-b" \in Texts
      /\ "-t" \in TimeoutFlags /\ "-t" \notin BatchFlags /\ "-t" \in Texts
      /\ BatchFlags \subseteq Flags /\ TimeoutFlags \subseteq Flags
  BY DEF BatchFlags, TimeoutFlags, Texts, Flags
<1> HIDE DEF p, T, B, c
<1>6. /\ T \in Seq(Texts) /\ Len(T) \in Nat
      /\ \A i \in 1..Len(T) : T[i] \notin BatchFlags
  <2>1. CASE timed
    <3> DEFINE x == form.timeout[1]
    <3>1. x \in Texts /\ x \notin BatchFlags
      BY <1>2, <1>5, <2>1
    <3> HIDE DEF x
    <3>2. T = <<"-t", x>>
      BY <1>4, <2>1 DEF x
    <3> QED
      BY <1>5, <3>1, <3>2
  <2>2. CASE ~timed
    BY <1>4, <2>2
  <2> QED
    BY <2>1, <2>2
<1>7. /\ p \o <<>> = p /\ <<>> \in Seq(Texts) /\ \A i \in 1..Len(<<>>) : <<>>[i] \notin TimeoutFlags
      /\ Len(<<>>) = 0
  BY <1>1, ConcatEmptySeq
<1>8. p \o T \in Seq(Texts) /\ Len(p \o T) = Len(p) + Len(T)
      /\ \A i \in 1..(Len(p) + Len(T)) : (p \o T)[i] = IF i <= Len(p) THEN p[i] ELSE T[i - Len(p)]
  BY <1>1, <1>6, ConcatProperties
\* The batch size.
<1>9. /\ unbatched = p \o T
      /\ Len(c) \in Nat /\ Len(c) > 1 /\ batchAt # Len(c)
      /\ (IF batchAt = 0 THEN <<>> ELSE <<c[batchAt + 1]>>)
           = (IF form.batched THEN form.batch ELSE <<>>)
  <2>1. CASE inBatches
    <3> DEFINE x == form.batch[1]
    <3>1. x \in Texts /\ x \notin BatchFlags
      BY <1>2, <1>5, <2>1
    <3>2. c = (p \o <<"-b", x>>) \o T
      BY <1>3, <1>4, <2>1
    <3> HIDE DEF x
    <3>3. /\ Len(c) = Len(p) + 2 + Len(T) /\ LastOf(c, BatchFlags) = Len(p) + 1
          /\ c[Len(p) + 2] = x /\ Without(c, Len(p) + 1) = p \o T
      <4>1. p \in Seq(Texts) /\ Len(p) > 1 /\ \A i \in 1..Len(p) : p[i] \notin BatchFlags
        BY <1>1
      <4>2. TakenOut((p \o <<"-b", x>>) \o T, p, BatchFlags, x, T)
        BY <1>5, <1>6, <3>1, <4>1, OptionTaken
      <4>3. TakenOut(c, p, BatchFlags, x, T)
        BY <3>2, <4>2
      <4> QED
        BY <4>3 DEF TakenOut
    <3>4. batchAt = Len(p) + 1
      BY <2>1, <3>3 DEF ClientOf
    <3>5. unbatched = p \o T
      BY <3>3, <3>4
    <3>6. Len(c) \in Nat /\ Len(c) > 1 /\ batchAt # Len(c)
      BY <1>1, <1>6, <3>3, <3>4
    <3>7. batchAt # 0 /\ c[batchAt + 1] = form.batch[1]
      <4>1. (Len(p) + 1) + 1 = Len(p) + 2 /\ Len(p) + 1 # 0
        BY <1>1
      <4> HIDE DEF batchAt
      <4> QED
        BY <3>3, <3>4, <4>1 DEF x
    <3> HIDE DEF batchAt, unbatched
    <3> QED
      BY <1>2, <2>1, <3>5, <3>6, <3>7
  <2>2. CASE ~inBatches
    <3>1. c = p \o T
      BY <1>3, <1>4, <1>7, <2>2
    <3>2. \A i \in 1..Len(c) : c[i] \notin BatchFlags
      <4> SUFFICES ASSUME NEW i \in 1..(Len(p) + Len(T)) PROVE (p \o T)[i] \notin BatchFlags
        BY <1>8, <3>1
      <4>1. CASE i \in 1..Len(p)
        BY <1>1, <1>8, <4>1
      <4>2. CASE i > Len(p)
        <5>1. i - Len(p) \in 1..Len(T) /\ (p \o T)[i] = T[i - Len(p)]
          BY <1>1, <1>6, <1>8, <4>2
        <5> QED
          BY <1>6, <5>1
      <4> QED
        BY <1>1, <4>1, <4>2
    <3>3. LastOf(c, BatchFlags) = 0
      BY <1>8, <3>1, <3>2, LastNone
    <3>4. batchAt = 0
      BY <3>3
    <3>5. unbatched = p \o T
      BY <3>1, <3>4 DEF Without
    <3>6. Len(c) \in Nat /\ Len(c) > 1
      BY <1>1, <1>6, <1>8, <3>1
    <3>7. (IF form.batched THEN form.batch ELSE <<>>) = <<>>
      BY <2>2
    <3> HIDE DEF batchAt, unbatched
    <3> QED
      BY <3>4, <3>5, <3>6, <3>7
  <2> QED
    BY <2>1, <2>2
\* The timeout.
<1> HIDE DEF batchAt, unbatched
<1>10. /\ Without(unbatched, timeoutAt) = p
       /\ ~failing
       /\ (IF timeoutAt = 0 THEN <<>> ELSE <<Number[unbatched[timeoutAt + 1]]>>) = timeout
  <2>1. CASE timed
    <3> DEFINE x == form.timeout[1]
    <3>1. x \in Texts /\ x \notin TimeoutFlags
      BY <1>2, <1>5, <2>1
    <3>2. unbatched = (p \o <<"-t", x>>) \o <<>>
      <4>1. unbatched = p \o <<"-t", x>>
        BY <1>4, <1>9, <2>1
      <4> HIDE DEF x
      <4>2. <<"-t", x>> \in Seq(Texts)
        BY <1>5, <3>1
      <4>3. p \o <<"-t", x>> \in Seq(Texts)
        BY <1>1, <4>2, ConcatProperties
      <4> QED
        BY <4>1, <4>3, ConcatEmptySeq
    <3> HIDE DEF x
    <3>3. /\ Len(unbatched) = Len(p) + 2 + 0 /\ timeoutAt = Len(p) + 1
          /\ unbatched[Len(p) + 2] = x /\ Without(unbatched, Len(p) + 1) = p \o <<>>
      <4>1. p \in Seq(Texts) /\ Len(p) > 1 /\ \A i \in 1..Len(p) : p[i] \notin TimeoutFlags
        BY <1>1
      <4>2. TakenOut((p \o <<"-t", x>>) \o <<>>, p, TimeoutFlags, x, <<>>)
        BY <1>5, <1>7, <3>1, <4>1, OptionTaken
      <4>3. TakenOut(unbatched, p, TimeoutFlags, x, <<>>)
        BY <3>2, <4>2
      <4> QED
        BY <1>7, <4>3 DEF TakenOut
    <3>4. (Len(p) + 1) + 1 = Len(p) + 2 /\ Len(p) + 1 # 0 /\ Len(p) + 1 # Len(p) + 2 + 0
      BY <1>1
    <3>5. ~failing
      <4> SUFFICES ASSUME NEW i \in DOMAIN unbatched, unbatched[i] \in TimeoutFlags
                   PROVE  ~unread(i)
        OBVIOUS
      <4>1. /\ unbatched \in Seq(Texts) /\ DOMAIN unbatched = 1..(Len(p) + 2)
            /\ unbatched[Len(p) + 2] = x
            /\ \A k \in 1..Len(p) : unbatched[k] = p[k]
        <5>1. unbatched = p \o T
          BY <1>9
        <5>2. T = <<"-t", x>> /\ Len(T) = 2
          BY <1>4, <2>1 DEF x
        <5> HIDE DEF unbatched
        <5>3. unbatched \in Seq(Texts) /\ Len(unbatched) = Len(p) + 2
          BY <1>8, <5>1, <5>2
        <5>4. \A k \in 1..Len(p) : k \in 1..(Len(p) + Len(T)) /\ k <= Len(p)
          BY <1>1, <1>6
        <5>5. \A k \in 1..Len(p) : unbatched[k] = p[k]
          BY <1>8, <5>1, <5>4
        <5> QED
          BY <3>3, <5>3, <5>5, LenProperties
      <4>2. i = Len(p) + 1
        <5>1. i \notin 1..Len(p)
          BY <1>1, <4>1
        <5>2. i # Len(p) + 2
          BY <3>1, <4>1
        <5> HIDE DEF unbatched
        <5> QED
          BY <1>1, <4>1, <5>1, <5>2
      <4>3. unbatched[i + 1] = x /\ x \in DOMAIN Number
        BY <1>2, <2>1, <3>3, <3>4, <4>2 DEF x
      <4> HIDE DEF unbatched
      <4>4. i # Len(unbatched)
        BY <3>3, <3>4, <4>2
      <4> QED
        BY <4>3, <4>4
    <3> HIDE DEF timeoutAt, failing
    <3> QED
      BY <1>7, <2>1, <3>3, <3>4, <3>5 DEF x
  <2>2. CASE ~timed
    <3>1. unbatched = p
      BY <1>4, <1>7, <1>9, <2>2
    <3>2. timeoutAt = 0
      BY <1>1, <3>1, LastNone
    <3>3. ~failing
      <4>1. DOMAIN p = 1..Len(p)
        BY <1>1, LenProperties
      <4> QED
        BY <1>1, <3>1, <4>1
    <3> HIDE DEF timeoutAt, failing
    <3> QED
      BY <1>1, <2>2, <3>1, <3>2, <3>3 DEF Without
  <2> QED
    BY <2>1, <2>2
<1>11. /\ rest = [tgt_type |-> form.tgt_type, args |-> Asked(form)]
       /\ rest.args = Asked(form) /\ ~(Len(rest.args) < 2)
  <2>1. rest = [tgt_type |-> form.tgt_type, args |-> Asked(form)]
    BY <1>1, <1>10
  <2> HIDE DEF rest
  <2> QED
    BY <2>1, BareIs
<1>12. client \in Local
  BY <1>2 DEF ClientOf, Local, Async
<1>13. Parse(client, c) = ParseLocal(client, c)
  BY <1>12 DEF Parse, Local, Masters
<1>14. ParseLocal(client, c)
         = IF \/ Len(c) < 2 \/ batchAt = Len(c) \/ failing \/ Len(rest.args) < 2
           THEN NoLow
           ELSE [error |-> FALSE, client |-> client, tgt_type |-> rest.tgt_type,
                 tgt |-> rest.args[1], fun |-> rest.args[2],
                 arg |-> SubSeq(rest.args, 3, Len(rest.args)),
                 batch |-> IF batchAt = 0 THEN <<>> ELSE <<c[batchAt + 1]>>,
                 timeout |-> IF timeoutAt = 0 THEN <<>> ELSE <<Number[unbatched[timeoutAt + 1]]>>]
  BY Zenon DEF ParseLocal, batchAt, unbatched
<1>15. rest.tgt_type = form.tgt_type
  BY <1>11
<1> HIDE DEF rest, timeoutAt, failing
<1>16. ParseLocal(client, c)
         = [error |-> FALSE, client |-> client, tgt_type |-> rest.tgt_type,
            tgt |-> rest.args[1], fun |-> rest.args[2],
            arg |-> SubSeq(rest.args, 3, Len(rest.args)),
            batch |-> IF batchAt = 0 THEN <<>> ELSE <<c[batchAt + 1]>>,
            timeout |-> IF timeoutAt = 0 THEN <<>> ELSE <<Number[unbatched[timeoutAt + 1]]>>]
  <2>1. ~(Len(c) < 2 \/ batchAt = Len(c) \/ failing \/ Len(rest.args) < 2)
    BY <1>9, <1>10, <1>11
  <2> QED
    BY <1>14, <2>1, Zenon
<1>17. timeout = IF form.timeout = <<>> THEN <<>> ELSE <<Number[form.timeout[1]]>>
  OBVIOUS
<1> HIDE DEF timeout
<1> QED
  BY <1>9, <1>10, <1>11, <1>13, <1>15, <1>16, <1>17 DEF Understood, c

\* Where target and function are one word each, that is what is meant.
LEMMA OneTarget ==
  ASSUME NEW form \in Form(Word), ForMinions(form), Len(form.tgt) = 1, Len(form.fun) = 1
  PROVE  Understood(form) = Meant(form)
<1> DEFINE t == form.tgt[1]
           f == form.fun[1]
           s == Asked(form)
           r == form.args
<1>1. /\ form.tgt \in Seq(Texts) /\ form.fun \in Seq(Texts) /\ r \in Seq(Texts)
      /\ Len(r) \in Nat /\ form.client = "local"
  BY FieldsOf DEF FreeOf
<1>2. t \in Texts /\ f \in Texts /\ form.tgt = <<t>> /\ form.fun = <<f>>
  BY <1>1, EmptySeq, OneWord
<1> HIDE DEF t, f, r
<1>3. /\ <<t, f>> \in Seq(Texts) /\ Len(<<t, f>>) = 2
      /\ <<t, f>>[1] = t /\ <<t, f>>[2] = f /\ s = <<t, f>> \o r
  <2>1. /\ <<t>> \o <<f>> = <<t, f>> /\ <<t, f>> \in Seq(Texts)
        /\ Len(<<t, f>>) = 2 /\ <<t, f>>[1] = t /\ <<t, f>>[2] = f
    <3>1. t \in Texts /\ f \in Texts
      BY <1>2
    <3> QED
      BY <3>1, TwoWords
  <2>2. s = <<t, f>> \o r
    BY <1>2, <2>1, Zenon DEF Asked, r
  <2> HIDE DEF s
  <2> QED
    BY <2>1, <2>2, Zenon
<1>4. /\ s \in Seq(Texts) /\ Len(s) = 2 + Len(r)
      /\ \A i \in 1..(2 + Len(r)) : s[i] = IF i <= 2 THEN <<t, f>>[i] ELSE r[i - 2]
  <2>1. /\ <<t, f>> \o r \in Seq(Texts) /\ Len(<<t, f>> \o r) = Len(<<t, f>>) + Len(r)
        /\ \A i \in 1..(Len(<<t, f>>) + Len(r)) :
             (<<t, f>> \o r)[i] = IF i <= Len(<<t, f>>) THEN <<t, f>>[i] ELSE r[i - Len(<<t, f>>)]
    BY <1>1, <1>3, ConcatProperties
  <2> HIDE DEF s
  <2> QED
    BY <1>3, <2>1
<1> HIDE DEF s
<1>5. s[1] = t /\ s[2] = f
  BY <1>1, <1>3, <1>4
<1>6. SubSeq(s, 3, Len(s)) = r
  <2> DEFINE u == SubSeq(s, 3, Len(s))
  <2>1. \A i \in 3..Len(s) : s[i] \in Texts
    BY <1>1, <1>4, ElementOfSeq
  <2>2. /\ u \in Seq(Texts) /\ Len(u) = Len(r)
        /\ \A i \in 1..Len(r) : u[i] = s[3 + i - 1]
    BY <1>1, <1>4, <2>1, SubSeqProperties
  <2>3. \A i \in 1..Len(r) : s[3 + i - 1] = r[i]
    BY <1>1, <1>4
  <2> HIDE DEF u
  <2>4. u = r
    BY <1>1, <2>2, <2>3, SameSeq
  <2> QED
    BY <2>4 DEF u
<1> QED
  BY <1>1, <1>5, <1>6 DEF Understood, Meant, s, t, f, r

\* However many words they are, none is lost.
LEMMA NoWordLost ==
  ASSUME NEW form \in Form(Word), ForMinions(form)
  PROVE  LET low == Understood(form)
         IN <<low.tgt, low.fun>> \o low.arg = (form.tgt \o form.fun) \o form.args
<1> DEFINE s == Asked(form)
           two == <<s[1], s[2]>>
           u == SubSeq(s, 3, Len(s))
<1>1. s \in Seq(Texts) /\ Len(s) \in Nat /\ Len(s) > 1
  BY BareIs DEF FreeOf
<1> HIDE DEF s
<1>2. /\ two \in Seq(Texts) /\ Len(two) = 2 /\ two[1] = s[1] /\ two[2] = s[2]
  <2>1. s[1] \in Texts /\ s[2] \in Texts
    BY <1>1, ElementOfSeq
  <2> QED
    BY <2>1
<1>3. /\ u \in Seq(Texts) /\ Len(u) = Len(s) - 2
      /\ \A i \in 1..(Len(s) - 2) : u[i] = s[3 + i - 1]
  <2>1. \A i \in 3..Len(s) : s[i] \in Texts
    BY <1>1, ElementOfSeq
  <2>2. /\ u \in Seq(Texts)
        /\ Len(u) = IF 3 <= Len(s) THEN Len(s) - 3 + 1 ELSE 0
        /\ \A i \in 1..(Len(s) - 3 + 1) : u[i] = s[3 + i - 1]
    BY <1>1, <2>1, SubSeqProperties
  <2>3. \A n \in Nat : n > 1 => /\ (IF 3 <= n THEN n - 3 + 1 ELSE 0) = n - 2
                                /\ n - 3 + 1 = n - 2
    OBVIOUS
  <2> HIDE DEF u
  <2> QED
    BY <1>1, <2>2, <2>3, Zenon
<1> HIDE DEF two, u
<1>4. two \o u = s
  <2>1. /\ two \o u \in Seq(Texts) /\ Len(two \o u) = Len(two) + Len(u)
        /\ \A i \in 1..(Len(two) + Len(u)) :
             (two \o u)[i] = IF i <= Len(two) THEN two[i] ELSE u[i - Len(two)]
    BY <1>2, <1>3, ConcatProperties
  <2> DEFINE v == two \o u
  <2> HIDE DEF v
  <2>2. v \in Seq(Texts) /\ Len(v) = Len(s)
    BY <1>1, <1>2, <1>3, <2>1 DEF v
  <2>3. \A i \in 1..Len(s) : v[i] = IF i <= 2 THEN two[i] ELSE u[i - 2]
    BY <1>1, <1>2, <1>3, <2>1 DEF v
  <2>4. ASSUME NEW i \in 1..Len(s) PROVE v[i] = s[i]
    <3>1. CASE i = 1 \/ i = 2
      BY <1>2, <2>3, <3>1
    <3>2. CASE i > 2
      <4>1. i - 2 \in 1..(Len(s) - 2) /\ 3 + (i - 2) - 1 = i
        BY <1>1, <3>2
      <4>2. v[i] = u[i - 2]
        BY <2>3, <3>2
      <4> QED
        BY <1>3, <4>1, <4>2
    <3> QED
      BY <3>1, <3>2
  <2> QED
    BY <1>1, <2>2, <2>4, SameSeq DEF v
<1> QED
  BY <1>4 DEF Understood, Asked, s, two, u

\* What a form for the master is parsed to.
LEMMA MasterAsMeant ==
  ASSUME NEW form \in Form(Word), ForMaster(form), Len(form.fun) = 1
  PROVE  Parse(ClientOf(form), CreateCommand(form)) = Meant(form)
<1> DEFINE f == form.fun[1]
           r == form.args
<1>1. /\ form.fun \in Seq(Word) /\ r \in Seq(Word) /\ Len(r) \in Nat
      /\ form.client \in {"runner", "wheel"} /\ form.async \in BOOLEAN
      /\ form.batched = FALSE /\ form.timeout = <<>>
  BY LenProperties DEF Form, ForMaster
<1>2. f \in Word /\ form.fun = <<f>>
  <2>1. f \in Word
    BY <1>1, ElementOfSeq
  <2>2. <<f>> \in Seq(Word) /\ Len(<<f>>) = 1 /\ <<f>>[1] = f
    BY <2>1
  <2> QED
    BY <1>1, <2>1, <2>2, SameSeq
<1>3. CreateCommand(form) = <<f>> \o r
  <2> HIDE DEF f
  <2>1. <<>> \o <<f>> = <<f>>
    OBVIOUS
  <2>2. <<f>> \o r \in Seq(Word)
    BY <1>1, <1>2, ConcatProperties
  <2>3. ((<<f>> \o r) \o <<>>) \o <<>> = <<f>> \o r
    BY <2>2, ConcatEmptySeq
  <2> QED
    BY <1>1, <1>2, <2>1, <2>3 DEF CreateCommand, Option
<1> HIDE DEF f, r
<1>4. /\ <<f>> \o r # <<>> /\ Head(<<f>> \o r) = f /\ Tail(<<f>> \o r) = r
  <2> DEFINE s == <<f>> \o r
  <2>1. <<f>> \in Seq(Word) /\ Len(<<f>>) = 1 /\ <<f>>[1] = f
    BY <1>2
  <2>2. /\ s \in Seq(Word) /\ Len(s) = 1 + Len(r)
        /\ \A i \in 1..(1 + Len(r)) : s[i] = IF i <= 1 THEN <<f>>[i] ELSE r[i - 1]
    BY <1>1, <2>1, ConcatProperties
  <2> HIDE DEF s
  <2>3. s # <<>> /\ Head(s) = f
    BY <1>1, <2>1, <2>2, EmptySeq
  <2>4. /\ Tail(s) \in Seq(Word) /\ Len(Tail(s)) = Len(r)
        /\ \A i \in 1..Len(r) : Tail(s)[i] = r[i]
    <3>1. /\ Tail(s) \in Seq(Word) /\ Len(Tail(s)) = Len(s) - 1
          /\ \A i \in 1..Len(Tail(s)) : Tail(s)[i] = s[i + 1]
      BY <2>2, <2>3, HeadTailProperties
    <3> QED
      BY <1>1, <2>2, <3>1
  <2>5. Tail(s) = r
    BY <1>1, <2>4, SameSeq
  <2> QED
    BY <2>3, <2>5 DEF s
<1>5. ClientOf(form) \in Masters /\ ClientOf(form) \notin Local
  BY <1>1 DEF ClientOf, Async, Masters, Local
<1>6. Parse(ClientOf(form), CreateCommand(form)) = ParseMaster(ClientOf(form), <<f>> \o r)
  BY <1>3, <1>5 DEF Parse
<1>7. ParseMaster(ClientOf(form), <<f>> \o r)
        = [error |-> FALSE, client |-> ClientOf(form), fun |-> f,
           arg |-> Positional(r), kw |-> Keywords(r)]
  <2> DEFINE s == <<f>> \o r
  <2>1. s # <<>> /\ Head(s) = f /\ Tail(s) = r
    BY <1>4
  <2> HIDE DEF s
  <2>2. ParseMaster(ClientOf(form), s)
          = [error |-> FALSE, client |-> ClientOf(form), fun |-> f,
             arg |-> Positional(r), kw |-> Keywords(r)]
    BY <2>1 DEF ParseMaster
  <2> QED
    BY <2>2 DEF s
<1>8. Meant(form) = [error |-> FALSE, client |-> ClientOf(form), fun |-> f,
                     arg |-> Positional(r), kw |-> Keywords(r)]
  <2>1. form.client # "local"
    BY <1>1
  <2> QED
    BY <2>1 DEF Meant, f, r
<1> QED
  BY <1>6, <1>7, <1>8

\* A low state is for the client it was asked of.
LEMMA ForItsClient ==
  ASSUME NEW client, NEW args, ~Parse(client, args).error
  PROVE  Parse(client, args).client = client
<1>1. NoLow.error
  BY DEF NoLow
<1>2. CASE client \in Local
  <2>1. Parse(client, args) = ParseLocal(client, args)
    BY <1>2 DEF Parse, Local, Masters
  <2>2. ~ParseLocal(client, args).error => ParseLocal(client, args).client = client
    BY <1>1 DEF ParseLocal
  <2> QED
    BY <2>1, <2>2
<1>3. CASE client \in Masters
  <2>1. client \notin Local
    BY <1>3 DEF Local, Masters
  <2>2. Parse(client, args) = ParseMaster(client, args)
    BY <1>3, <2>1 DEF Parse
  <2>3. ~ParseMaster(client, args).error => ParseMaster(client, args).client = client
    BY <1>1 DEF ParseMaster
  <2> QED
    BY <2>2, <2>3
<1>4. CASE client \notin Local /\ client \notin Masters
  BY <1>1, <1>4 DEF Parse
<1> QED
  BY <1>2, <1>3, <1>4

LEMMA ShownAsMeant ==
  ASSUME NEW low, NEW answer \in Reply
  PROVE  LET page == RunView(low, answer)
         IN /\ page.status = 200
            /\ Len(page.items) = Len(answer.of)
            /\ "highstate" \in ToSet(page.items) =>
                 low.fun \in HighstateFuns /\ low.client # "local_async"
            /\ page.note => \A i \in DOMAIN answer.of : answer.of[i] = "FALSE"
<1> DEFINE of == answer.of
           how == IF answer.kind = "mapping" /\ AsHighstate(low) THEN "highstate" ELSE "nested"
           page == RunView(low, answer)
<1>1. /\ answer.kind \in {"mapping", "list"}
      /\ of \in Seq({"FALSE", "out"})
      /\ answer.kind = "list" => \A i \in DOMAIN of : of[i] # "error"
  <2>1. CASE answer.kind = "mapping"
    BY <2>1 DEF Reply
  <2>2. CASE answer.kind # "mapping"
    <3>1. answer.kind = "list" /\ of \in Seq({"out"})
      BY <2>2 DEF Reply
    <3>2. \A i \in DOMAIN of : of[i] # "error"
      BY <3>1, LenProperties, ElementOfSeq
    <3>3. of \in Seq({"FALSE", "out"})
      BY <3>1, SeqMonotonic
    <3> QED
      BY <3>1, <3>2, <3>3
  <2> QED
    BY <2>1, <2>2
<1>2. page = Rendered(answer, how)
  <2>1. CASE answer.kind = "mapping"
    BY <2>1 DEF RunView
  <2>2. CASE answer.kind = "list"
    <3>1. "error" \notin ToSet(of)
      BY <1>1, <2>2 DEF ToSet
    <3> QED
      BY <2>2, <3>1 DEF RunView
  <2> QED
    BY <1>1, <2>1, <2>2
<1>3. /\ page.status = 200
      /\ page.items = [i \in DOMAIN of |-> how]
      /\ page.note => \A i \in DOMAIN of : of[i] = "FALSE"
  <2> HIDE DEF page, how
  <2> QED
    BY <1>2 DEF Rendered
<1>4. Len([i \in DOMAIN of |-> how]) = Len(of)
  <2>1. DOMAIN of = 1..Len(of) /\ Len(of) \in Nat
    BY <1>1, LenProperties
  <2> HIDE DEF how
  <2>2. Len([i \in 1..Len(of) |-> how]) = Len(of)
    BY <2>1
  <2> QED
    BY <2>1, <2>2
<1>5. ASSUME "highstate" \in ToSet([i \in DOMAIN of |-> how])
      PROVE  low.fun \in HighstateFuns /\ low.client # "local_async"
  <2>1. how = "highstate"
    <3> HIDE DEF how
    <3> QED
      BY <1>5 DEF ToSet
  <2>2. AsHighstate(low)
    BY <2>1
  <2> QED
    BY <2>2 DEF AsHighstate
<1> HIDE DEF how, page
<1> QED
  BY <1>3, <1>4, <1>5 DEF page

\* What a form is sent as: as it is meant, where target and function are one word
\* each; with no word lost and the options as they should be, however many words
\* they are; and its answer is shown for what it is.
THEOREM CommandsSentAsMeant == Asking => []CommandsAsMeant
<1>1. Allowed => CommandsAsMeant
  <2> SUFFICES ASSUME Allowed, about = "run" PROVE CommandsAsMeant
    BY DEF CommandsAsMeant
  <2> DEFINE form == input.form
             answer == input.answer
             low == Parse(ClientOf(form), CreateCommand(form))
  <2>1. form \in Form(Word) /\ answer \in Reply
    <3>1. input \in Run
      BY QuestionsAssumption DEF Allowed
    <3> QED
      BY <3>1 DEF Run
  <2> HIDE DEF form, answer
  <2>2. ASSUME ForMinions(form)
        PROVE  /\ ~low.error
               /\ <<low.tgt, low.fun>> \o low.arg = form.tgt \o form.fun \o form.args
               /\ \A field \in {"client", "tgt_type", "batch", "timeout"} :
                    low[field] = Meant(form)[field]
               /\ Len(form.tgt) = 1 /\ Len(form.fun) = 1 => low = Meant(form)
    <3>1. low = Understood(form)
      BY <2>1, <2>2, ParsedAsAsked
    <3>2. form.client = "local"
      BY <2>2 DEF ForMinions
    <3> HIDE DEF low
    <3>3. ~low.error /\ \A field \in {"client", "tgt_type", "batch", "timeout"} :
                          low[field] = Meant(form)[field]
      BY <3>1, <3>2 DEF Understood, Meant
    <3>4. <<low.tgt, low.fun>> \o low.arg = form.tgt \o form.fun \o form.args
      BY <2>1, <2>2, <3>1, NoWordLost
    <3>5. Len(form.tgt) = 1 /\ Len(form.fun) = 1 => low = Meant(form)
      BY <2>1, <2>2, <3>1, OneTarget
    <3> QED
      BY <3>3, <3>4, <3>5
  <2>3. ForMaster(form) /\ Len(form.fun) = 1 => low = Meant(form)
    BY <2>1, MasterAsMeant
  <2>4. ASSUME ~low.error
        PROVE  LET page == RunView(low, answer)
               IN /\ page.status = 200
                  /\ Len(page.items) = Len(answer.of)
                  /\ "highstate" \in ToSet(page.items) =>
                       /\ low.fun \in HighstateFuns
                       /\ form.client = "local" => form.batched \/ ~form.async
                  /\ page.note => \A i \in DOMAIN answer.of : answer.of[i] = "FALSE"
    <3>1. low.client = ClientOf(form)
      BY <2>4, ForItsClient
    <3>2. /\ form.client = "local" /\ form.async /\ ~form.batched
          => ClientOf(form) = "local_async"
      BY DEF ClientOf, Async
    <3>3. form.async \in BOOLEAN /\ form.batched \in BOOLEAN
      BY <2>1 DEF Form
    <3> DEFINE page == RunView(low, answer)
    <3>4. /\ page.status = 200
          /\ Len(page.items) = Len(answer.of)
          /\ "highstate" \in ToSet(page.items) =>
               low.fun \in HighstateFuns /\ low.client # "local_async"
          /\ page.note => \A i \in DOMAIN answer.of : answer.of[i] = "FALSE"
      BY <2>1, ShownAsMeant
    <3> HIDE DEF page, low
    <3> QED
      BY <3>1, <3>2, <3>3, <3>4 DEF page
  <2> HIDE DEF low
  <2> QED
    BY <2>2, <2>3, <2>4 DEF CommandsAsMeant, form, answer, low
<1> QED
  BY <1>1, AskedAllowed, PTL

-----------------------------------------------------------------------------
(* Sorting, and steps that are counted from 0 to N.                        *)

(* `before` puts any two members of S in an order, and agrees with itself. *)
TotalOn(before, S) ==
  /\ \A x, y \in S : <<x, y>> \in before => <<y, x>> \notin before
  /\ \A x, y \in S : x # y => <<x, y>> \in before \/ <<y, x>> \in before
  /\ \A x, y, z \in S : <<x, y>> \in before /\ <<y, z>> \in before => <<x, z>> \in before

(* The members before one are not all of them, and they are fewer than     *)
(* those before a later one.                                               *)
LEMMA AheadCount ==
  ASSUME NEW S, IsFiniteSet(S), NEW before, TotalOn(before, S)
  PROVE  \A x \in S : /\ IsFiniteSet(Ahead(S, before, x))
                      /\ Cardinality(Ahead(S, before, x)) \in 0..(Cardinality(S) - 1)
                      /\ \A y \in S : <<x, y>> \in before =>
                           Cardinality(Ahead(S, before, x)) < Cardinality(Ahead(S, before, y))
<1>1. TAKE x \in S
<1>. DEFINE a == Ahead(S, before, x)
<1>2. a \in SUBSET S /\ x \notin a
  BY DEF TotalOn, Ahead
<1>3. IsFiniteSet(a) /\ Cardinality(a) \in Nat /\ Cardinality(S) \in Nat /\ Cardinality(a) <= Cardinality(S)
  BY <1>2, FS_Subset, FS_CardinalityType
<1>4. Cardinality(a) # Cardinality(S)
  BY <1>2, FS_Subset
<1>5. ASSUME NEW y \in S, <<x, y>> \in before
      PROVE  Cardinality(a) < Cardinality(Ahead(S, before, y))
  <2>. DEFINE b == Ahead(S, before, y)
  <2>1. b \in SUBSET S /\ a \subseteq b /\ x \in b
    BY <1>5 DEF TotalOn, Ahead
  <2>2. IsFiniteSet(b) /\ Cardinality(b) \in Nat
    BY <2>1, FS_Subset, FS_CardinalityType
  <2>3. Cardinality(a) <= Cardinality(b) /\ (Cardinality(a) = Cardinality(b) => a = b)
    BY <2>1, <2>2, FS_Subset
  <2>. QED BY <2>1, <2>2, <2>3, <1>2, <1>3
<1>6. Cardinality(a) \in 0..(Cardinality(S) - 1)
  BY <1>3, <1>4
<1>. QED BY <1>3, <1>5, <1>6

(* What it means that a sequence is a set put in order. *)
IsOrder(s, S, before) ==
  /\ Cardinality(S) \in Nat
  /\ s \in [1..Cardinality(S) -> S]
  /\ \A x \in S : \E n \in 1..Cardinality(S) : s[n] = x
  /\ \A i, k \in 1..Cardinality(S) : i < k => <<s[i], s[k]>> \in before
  /\ \A n \in 1..Cardinality(S) : Cardinality(Ahead(S, before, s[n])) = n - 1

(* A finite set put in order has each member once, and one that comes      *)
(* before another stands before it.                                        *)
LEMMA InOrderIs ==
  ASSUME NEW S, IsFiniteSet(S), NEW before, TotalOn(before, S)
  PROVE  IsOrder(InOrder(S, before), S, before)
<1>. DEFINE N == Cardinality(S)
            rank(x) == Cardinality(Ahead(S, before, x))
            f == [x \in S |-> rank(x) + 1]
            s == InOrder(S, before)
<1>1. N \in Nat
  BY FS_CardinalityType
<1>2. \A x \in S : rank(x) \in 0..(N - 1) /\ \A y \in S : <<x, y>> \in before => rank(x) < rank(y)
  BY AheadCount
<1>. HIDE DEF rank
<1>3. f \in [S -> 1..N]
  BY <1>1, <1>2
<1>4. ASSUME NEW x \in S, NEW y \in S, rank(x) = rank(y) PROVE x = y
  <2>1. rank(x) \in Int /\ ~(rank(x) < rank(x))
    BY <1>1, <1>2
  <2>2. <<x, y>> \notin before /\ <<y, x>> \notin before
    BY <2>1, <1>2, <1>4
  <2>. QED BY <2>2 DEF TotalOn
<1>5. f \in Injection(S, 1..N)
  BY <1>1, <1>2, <1>3, <1>4 DEF Injection, IsInjective
<1>6. IsFiniteSet(1..N) /\ Cardinality(1..N) = N
  BY <1>1, FS_Interval
<1>7. f \in Surjection(S, 1..N)
  BY <1>5, <1>6, FS_Injection
<1>8. ASSUME NEW n \in 1..N PROVE \E x \in S : rank(x) = n - 1
  <2>1. PICK x \in S : f[x] = n
    BY <1>7 DEF Surjection
  <2>2. rank(x) + 1 = n /\ rank(x) \in Int
    BY <2>1, <1>1, <1>2
  <2>. QED BY <2>2
<1>9. s = [n \in 1..N |-> CHOOSE x \in S : rank(x) = n - 1]
  BY DEF InOrder, rank
<1>. HIDE DEF s, N, f
<1>10. ASSUME NEW n \in 1..N PROVE s[n] \in S /\ rank(s[n]) = n - 1
  BY <1>8, <1>9
<1>11. s \in [1..N -> S]
  BY <1>9, <1>10
<1>12. ASSUME NEW x \in S PROVE \E n \in 1..N : s[n] = x
  <2>1. rank(x) + 1 \in 1..N
    BY <1>1, <1>2
  <2>2. rank(s[rank(x) + 1]) = rank(x) /\ s[rank(x) + 1] \in S
    BY <2>1, <1>10, <1>1, <1>2
  <2>. QED BY <2>1, <2>2, <1>4
<1>13. ASSUME NEW i \in 1..N, NEW k \in 1..N, i < k
       PROVE  <<s[i], s[k]>> \in before
  <2>1. rank(s[i]) = i - 1 /\ rank(s[k]) = k - 1 /\ s[i] \in S /\ s[k] \in S
    BY <1>10
  <2>2. s[i] # s[k]
    BY <2>1, <1>13, <1>1
  <2>3. <<s[k], s[i]>> \notin before
    BY <2>1, <1>2, <1>13, <1>1
  <2>. QED BY <2>1, <2>2, <2>3 DEF TotalOn
<1>. QED BY <1>1, <1>10, <1>11, <1>12, <1>13 DEF IsOrder, s, N, rank

(* What holds at 0 and is carried on by every step holds up to N. *)
LEMMA UpToN ==
  ASSUME NEW N \in Nat, NEW S, 0 \in S, \A n \in 1..N : n - 1 \in S => n \in S
  PROVE  0..N \subseteq S
<1>. DEFINE bad == {n \in 0..N : n \notin S}
<1>1. SUFFICES bad = {}
  OBVIOUS
<1>2. SUFFICES ASSUME bad # {} PROVE FALSE
  OBVIOUS
<1>4. PICK n \in bad : \A d \in bad : n <= d
  BY <1>2, MinExists, bad \in SUBSET Nat
<1>5. n \in 1..N /\ n - 1 \in 0..N
  OBVIOUS
<1>. QED BY <1>4, <1>5

(* Steps from A to A, counted from 1 to N, and what they lead to from base. *)
Steps(A, N) == [A \X (1..N) -> A]
Stepped(g, A, N, base, F) ==
  /\ g \in [0..N -> A] /\ g[0] = base
  /\ \A n \in 1..N : g[n] = F[<<g[n - 1], n>>]

(* Steps from a value are taken one after the other, by one function. *)
LEMMA StepsExist ==
  ASSUME NEW A, NEW N \in Nat, NEW base \in A, NEW F \in Steps(A, N)
  PROVE  \E g : Stepped(g, A, N, base, F)
<1>. USE DEF Steps
<1>. DEFINE good(m) == {g \in [0..m -> A] : g[0] = base /\ \A n \in 1..m : g[n] = F[<<g[n - 1], n>>]}
            S == {m \in 0..N : good(m) # {}}
<1>1. 0 \in S
  <2>1. [i \in 0..0 |-> base] \in good(0)
    OBVIOUS
  <2>. QED BY <2>1
<1>2. ASSUME NEW m \in 1..N, m - 1 \in S
      PROVE  m \in S
  <2>1. PICK g \in [0..(m - 1) -> A] : g[0] = base /\ \A n \in 1..(m - 1) : g[n] = F[<<g[n - 1], n>>]
    BY <1>2
  <2>. DEFINE h == [i \in 0..m |-> IF i = m THEN F[<<g[m - 1], m>>] ELSE g[i]]
  <2>2. m - 1 \in 0..(m - 1) /\ <<g[m - 1], m>> \in A \X (1..N)
    OBVIOUS
  <2>3. F[<<g[m - 1], m>>] \in A
    BY <2>2
  <2>4. h \in [0..m -> A]
    BY <2>3
  <2>5. h[0] = base
    BY <2>1
  <2>6. ASSUME NEW n \in 1..m PROVE h[n] = F[<<h[n - 1], n>>]
    <3>1. n - 1 \in 0..m /\ n - 1 # m /\ h[n - 1] = g[n - 1]
      OBVIOUS
    <3>2. CASE n = m
      BY <3>1, <3>2
    <3>3. CASE n # m
      <4>1. n \in 1..(m - 1) /\ h[n] = g[n]
        BY <3>3
      <4>. QED BY <4>1, <3>1, <2>1
    <3>. QED BY <3>2, <3>3
  <2>7. h \in good(m)
    BY <2>4, <2>5, <2>6
  <2>. HIDE DEF good
  <2>. QED BY <2>7
<1>3. N \in S
  <2>. HIDE DEF S
  <2>1. 0..N \subseteq S
    BY <1>1, <1>2, UpToN
  <2>. QED BY <2>1
<1>. QED BY <1>3 DEF Stepped

-----------------------------------------------------------------------------
(* The times of the states.                                                *)

BucketType ==
  [runs : Nat, total : Nat, max : Nat, changed : Nat, failed : Nat, minions : SUBSET STRING]

(* The runs that have a time. *)
Runs == {run \in ReturnRow \X Nat : run[2] \in DOMAIN run[1].states /\ At(run).ms # <<>>}

(* A bucket that tells of finitely many runs. *)
Told(bucket, runs) ==
  /\ bucket \in BucketType
  /\ runs \subseteq Runs
  /\ IsFiniteSet(runs) /\ IsFiniteSet(Milliseconds(runs))
  /\ Tells(bucket, runs)

(* A run has a state, with a time in milliseconds. *)
LEMMA RunTime ==
  ASSUME NEW run \in Runs
  PROVE  At(run) \in StateRun /\ At(run).ms[1] \in Nat /\ run[1].minion \in STRING
<1>1. run[1] \in ReturnRow /\ run[1].states \in Seq(StateRun) /\ run[2] \in DOMAIN run[1].states
  BY DEF Runs, ReturnRow
<1>2. At(run) \in StateRun
  BY <1>1 DEF At
<1>3. At(run).ms \in [{1} -> Nat]
  BY <1>2 DEF Runs, StateRun
<1>. QED BY <1>1, <1>2, <1>3 DEF ReturnRow

(* There are n numbers from 1 to n. *)
LEMMA UpToCount ==
  ASSUME NEW n \in Nat
  PROVE  IsFiniteSet(1..n) /\ Cardinality(1..n) = n
BY FS_Interval

(* One run more of those with a property, or not. *)
LEMMA OneMore ==
  ASSUME NEW runs, IsFiniteSet(runs), NEW run, run \notin runs, NEW P \in SUBSET (runs \cup {run})
  PROVE  /\ Cardinality(P) \in Nat /\ Cardinality(P \ {run}) \in Nat
         /\ Cardinality(P) = Cardinality(P \ {run}) + (IF run \in P THEN 1 ELSE 0)
<1>1. IsFiniteSet(runs \cup {run})
  BY FS_AddElement
<1>2. IsFiniteSet(P)
  BY <1>1, FS_Subset
<1>3. IsFiniteSet(P \ {run})
  BY <1>2, FS_RemoveElement
<1>4. Cardinality(P) \in Nat /\ Cardinality(P \ {run}) \in Nat
  BY <1>2, <1>3, FS_CardinalityType
<1>5. Cardinality(P \ {run}) = IF run \in P THEN Cardinality(P) - 1 ELSE Cardinality(P)
  BY <1>2, FS_RemoveElement
<1>. QED BY <1>4, <1>5

(* The milliseconds of one run more. *)
LEMMA MoreTime ==
  ASSUME NEW runs, IsFiniteSet(Milliseconds(runs)), NEW run \in Runs, run \notin runs
  PROVE  LET all == Milliseconds(runs \cup {run})
         IN /\ IsFiniteSet(all)
            /\ Cardinality(Milliseconds(runs)) \in Nat
            /\ Cardinality(all) = Cardinality(Milliseconds(runs)) + At(run).ms[1]
<1>. DEFINE n == At(run).ms[1]
            old == Milliseconds(runs)
            own == {run} \X (1..n)
            all == Milliseconds(runs \cup {run})
<1>1. n \in Nat
  BY RunTime
<1>2. IsFiniteSet(1..n) /\ Cardinality(1..n) = n /\ IsFiniteSet({run}) /\ Cardinality({run}) = 1
  BY <1>1, UpToCount, FS_Singleton
<1>3. IsFiniteSet(own) /\ Cardinality(own) = n
  <2>1. IsFiniteSet(own) /\ Cardinality(own) = Cardinality({run}) * Cardinality(1..n)
    BY <1>2, FS_Product
  <2>. QED BY <1>1, <1>2, <2>1
<1>4. own = {<<run, ms>> : ms \in 1..n}
  OBVIOUS
<1>5. all = old \cup own
  <2>. HIDE DEF n, own
  <2>1. \A x : x \in all <=> \E r \in runs \cup {run} : x \in {<<r, ms>> : ms \in 1..At(r).ms[1]}
    BY DEF Milliseconds
  <2>2. \A x : x \in old <=> \E r \in runs : x \in {<<r, ms>> : ms \in 1..At(r).ms[1]}
    BY DEF Milliseconds
  <2>. QED BY <2>1, <2>2, <1>4 DEF n
<1>6. old \cap own = {}
  <2>1. \A x \in old : \E r \in runs : \E ms \in 1..At(r).ms[1] : x = <<r, ms>>
    BY DEF Milliseconds
  <2>2. \A x \in own : x[1] = run
    OBVIOUS
  <2>. QED BY <2>1, <2>2
<1>7. Cardinality(old \cap own) = 0
  BY <1>6, FS_EmptySet
<1>8. Cardinality(old) \in Nat
  BY FS_CardinalityType
<1>. HIDE DEF n, old, own, all
<1>9. IsFiniteSet(old)
  BY DEF old
<1>10. /\ IsFiniteSet(old \cup own)
       /\ Cardinality(old \cup own)
            = Cardinality(old) + Cardinality(own) - Cardinality(old \cap own)
  BY <1>3, <1>9, FS_Union
<1>11. IsFiniteSet(all) /\ Cardinality(all) = Cardinality(old) + n
  BY <1>1, <1>3, <1>5, <1>7, <1>8, <1>10
<1>. QED BY <1>8, <1>11 DEF n, old, all

(* A run that was not counted is counted by the next step. *)
LEMMA OneRunMore ==
  ASSUME NEW bucket, NEW runs, Told(bucket, runs), NEW run \in Runs, run \notin runs
  PROVE  Told(Bucketed(bucket, At(run), run[1].minion), runs \cup {run})
<1>. DEFINE s == At(run)
            ms == s.ms[1]
            next == Bucketed(bucket, s, run[1].minion)
            all == runs \cup {run}
<1>1. /\ s \in StateRun /\ ms \in Nat /\ run[1].minion \in STRING
      /\ s.changed \in BOOLEAN /\ s.failed \in BOOLEAN
  BY RunTime DEF StateRun
<1>2. bucket \in BucketType /\ runs \subseteq Runs /\ IsFiniteSet(runs) /\ IsFiniteSet(Milliseconds(runs))
  BY DEF Told
<1>3. /\ next.runs = bucket.runs + 1 /\ next.total = bucket.total + ms
      /\ next.max = Larger(bucket.max, ms)
      /\ next.changed = bucket.changed + (IF s.changed THEN 1 ELSE 0)
      /\ next.failed = bucket.failed + (IF s.failed THEN 1 ELSE 0)
      /\ next.minions = bucket.minions \cup {run[1].minion}
  BY DEF Bucketed
<1>4. next \in BucketType
  BY <1>1, <1>2 DEF BucketType, Bucketed, Larger
<1>5. /\ bucket.runs = Cardinality(runs)
      /\ bucket.total = Cardinality(Milliseconds(runs))
      /\ \A r \in runs : bucket.max >= At(r).ms[1]
      /\ bucket.max # 0 => \E r \in runs : bucket.max = At(r).ms[1]
      /\ bucket.changed = Cardinality({r \in runs : At(r).changed})
      /\ bucket.failed = Cardinality({r \in runs : At(r).failed})
      /\ bucket.minions = {r[1].minion : r \in runs}
  BY DEF Told, Tells
<1>6. IsFiniteSet(all) /\ Cardinality(all) = Cardinality(runs) + 1
  BY <1>2, FS_AddElement
<1>7. IsFiniteSet(Milliseconds(all)) /\ Cardinality(Milliseconds(all)) = Cardinality(Milliseconds(runs)) + ms
  BY <1>2, MoreTime
<1>8. next.changed = Cardinality({r \in all : At(r).changed})
  <2>. DEFINE P == {r \in all : At(r).changed}
  <2>1. P \ {run} = {r \in runs : At(r).changed} /\ (run \in P <=> s.changed) /\ P \in SUBSET all
    OBVIOUS
  <2>2. Cardinality(P) = Cardinality(P \ {run}) + (IF run \in P THEN 1 ELSE 0)
    BY <2>1, <1>2, OneMore
  <2>. HIDE DEF P, s
  <2>. QED BY <2>1, <2>2, <1>3, <1>5 DEF P
<1>9. next.failed = Cardinality({r \in all : At(r).failed})
  <2>. DEFINE P == {r \in all : At(r).failed}
  <2>1. P \ {run} = {r \in runs : At(r).failed} /\ (run \in P <=> s.failed) /\ P \in SUBSET all
    OBVIOUS
  <2>2. Cardinality(P) = Cardinality(P \ {run}) + (IF run \in P THEN 1 ELSE 0)
    BY <2>1, <1>2, OneMore
  <2>. HIDE DEF P, s
  <2>. QED BY <2>1, <2>2, <1>3, <1>5 DEF P
<1>10. next.minions = {r[1].minion : r \in all}
  BY <1>3, <1>5
<1>11. bucket.max \in Nat /\ \A r \in runs : At(r).ms[1] \in Nat
  BY <1>2, RunTime DEF BucketType
<1>12. next.max >= bucket.max /\ next.max >= ms /\ (next.max = bucket.max \/ next.max = ms)
  BY <1>1, <1>3, <1>11 DEF Larger
<1>. HIDE DEF s, next
<1>13. \A r \in all : next.max >= At(r).ms[1]
  BY <1>1, <1>3, <1>5, <1>11, <1>12 DEF s, Larger
<1>14. next.max # 0 => \E r \in all : next.max = At(r).ms[1]
  BY <1>5, <1>12 DEF s
<1>15. Tells(next, all)
  BY <1>3, <1>5, <1>6, <1>7, <1>8, <1>9, <1>10, <1>13, <1>14 DEF Tells
<1>16. all \subseteq Runs
  BY <1>2
<1>. QED BY <1>4, <1>6, <1>7, <1>15, <1>16 DEF Told, next, s

(* The runs among the first k states of a return. *)
First(row, name, k) == {<<row, j>> : j \in {i \in 1..k : Counts(row.states[i], name)}}

(* A state of a return is added, or passed over. *)
AddState(row, name, b, k) ==
  IF Counts(row.states[k], name) THEN Bucketed(b, row.states[k], row.minion) ELSE b

(* What the states of a return lead to, one after the other. *)
Added(f, row, name, bucket) ==
  /\ f[0] = bucket
  /\ \A k \in 1..Len(row.states) : f[k] = AddState(row, name, f[k - 1], k)
  /\ InRun(row, name, bucket) = f[Len(row.states)]

LEMMA StatesOf ==
  ASSUME NEW row \in ReturnRow
  PROVE  /\ Len(row.states) \in Nat /\ row.states \in Seq(StateRun)
         /\ DOMAIN row.states = 1..Len(row.states)
BY DEF ReturnRow

LEMMA CountsRun ==
  ASSUME NEW row \in ReturnRow, NEW name, NEW k \in 1..Len(row.states), Counts(row.states[k], name)
  PROVE  <<row, k>> \in Runs /\ At(<<row, k>>) = row.states[k] /\ <<row, k>>[1].minion = row.minion
BY StatesOf DEF Runs, Counts, At

(* A bucket stays one. *)
LEMMA AddStateType ==
  ASSUME NEW row \in ReturnRow, NEW name, NEW b \in BucketType, NEW k \in 1..Len(row.states)
  PROVE  AddState(row, name, b, k) \in BucketType
<1>1. CASE Counts(row.states[k], name)
  <2>1. /\ row.states[k].ms[1] \in Nat /\ row.minion \in STRING
    BY <1>1, CountsRun, RunTime
  <2>2. /\ b.runs \in Nat /\ b.total \in Nat /\ b.max \in Nat /\ b.changed \in Nat
        /\ b.failed \in Nat /\ b.minions \in SUBSET STRING
    BY DEF BucketType
  <2>3. Larger(b.max, row.states[k].ms[1]) \in Nat /\ b.total + row.states[k].ms[1] \in Nat
    <3>. DEFINE m == b.max
                t == b.total
                ms == row.states[k].ms[1]
    <3>1. m \in Nat /\ t \in Nat /\ ms \in Nat
      BY <2>1, <2>2
    <3>. HIDE DEF m, t, ms
    <3>2. Larger(m, ms) \in Nat /\ t + ms \in Nat
      BY <3>1 DEF Larger
    <3>. QED BY <3>2 DEF m, t, ms
  <2>4. Bucketed(b, row.states[k], row.minion) \in BucketType
    <3>. DEFINE changed == b.changed + (IF row.states[k].changed THEN 1 ELSE 0)
                failed == b.failed + (IF row.states[k].failed THEN 1 ELSE 0)
                total == b.total + row.states[k].ms[1]
                max == Larger(b.max, row.states[k].ms[1])
                minions == b.minions \cup {row.minion}
    <3>1. changed \in Nat /\ failed \in Nat
      BY <2>2
    <3>2. total \in Nat /\ max \in Nat
      BY <2>3
    <3>3. minions \in SUBSET STRING
      BY <2>1, <2>2
    <3>4. Bucketed(b, row.states[k], row.minion)
            = [runs |-> b.runs + 1, total |-> total, max |-> max, changed |-> changed,
               failed |-> failed, minions |-> minions]
      BY DEF Bucketed
    <3>. HIDE DEF changed, failed, total, max, minions
    <3>. QED BY <3>1, <3>2, <3>3, <3>4, <2>2 DEF BucketType
  <2>. QED BY <1>1, <2>4 DEF AddState
<1>. QED BY <1>1 DEF AddState

LEMMA InRunSteps ==
  ASSUME NEW row \in ReturnRow, NEW name, NEW bucket \in BucketType
  PROVE  \E f : Added(f, row, name, bucket)
<1>. DEFINE N == Len(row.states)
            F == [p \in BucketType \X (1..N) |-> AddState(row, name, p[1], p[2])]
<1>1. N \in Nat
  BY StatesOf
<1>2. F \in Steps(BucketType, N)
  BY AddStateType DEF Steps
<1>3. PICK g \in [0..N -> BucketType] :
        g[0] = bucket /\ \A n \in 1..N : g[n] = F[<<g[n - 1], n>>]
  <2>. HIDE DEF F, N
  <2>1. \E g : Stepped(g, BucketType, N, bucket, F)
    BY <1>1, <1>2, StepsExist
  <2>. QED BY <2>1 DEF Stepped
<1>4. \A n \in 1..N : g[n] = AddState(row, name, g[n - 1], n)
  <2>1. TAKE n \in 1..N
  <2>2. n - 1 \in 0..N /\ g[n - 1] \in BucketType
    BY <1>1
  <2>. QED BY <1>3, <2>2
<1>5. g = [k \in 0..N |-> IF k = 0 THEN bucket ELSE AddState(row, name, g[k - 1], k)]
  BY <1>3, <1>4
<1>6. InRun(row, name, bucket)
        = (CHOOSE h : h = [k \in 0..N |-> IF k = 0 THEN bucket
                                          ELSE AddState(row, name, h[k - 1], k)])[N]
  BY DEF InRun, AddState
<1>7. PICK f : f = [k \in 0..N |-> IF k = 0 THEN bucket ELSE AddState(row, name, f[k - 1], k)]
               /\ InRun(row, name, bucket) = f[N]
  BY <1>5, <1>6
<1>8. f[0] = bucket
  BY <1>1, <1>7
<1>9. ASSUME NEW k \in 1..N PROVE f[k] = AddState(row, name, f[k - 1], k)
  <2>1. k \in 0..N /\ k # 0
    BY <1>1
  <2>. HIDE DEF N
  <2>. QED BY <2>1, <1>7
<1>. QED BY <1>7, <1>8, <1>9 DEF Added

LEMMA InRunType ==
  ASSUME NEW row \in ReturnRow, NEW name, NEW bucket \in BucketType
  PROVE  InRun(row, name, bucket) \in BucketType
<1>. DEFINE N == Len(row.states)
<1>1. N \in Nat
  BY StatesOf
<1>2. PICK f : Added(f, row, name, bucket)
  BY InRunSteps
<1>. DEFINE S == {k \in 0..N : f[k] \in BucketType}
<1>3. 0 \in S
  BY <1>1, <1>2 DEF Added
<1>4. ASSUME NEW k \in 1..N, k - 1 \in S PROVE k \in S
  <2>1. f[k - 1] \in BucketType /\ f[k] = AddState(row, name, f[k - 1], k)
    BY <1>2, <1>4 DEF Added
  <2>2. f[k] \in BucketType
    BY <2>1, AddStateType
  <2>. QED BY <1>1, <2>2
<1>5. N \in S
  <2>. HIDE DEF S, N
  <2>1. 0..N \subseteq S
    BY <1>1, <1>3, <1>4, UpToN
  <2>. QED BY <1>1, <2>1
<1>. QED BY <1>2, <1>5 DEF Added

(* The states of a return are counted, each once. *)
LEMMA InRunTells ==
  ASSUME NEW row \in ReturnRow, NEW name, NEW bucket, NEW runs, Told(bucket, runs),
         \A run \in runs : run[1] # row
  PROVE  Told(InRun(row, name, bucket), runs \cup First(row, name, Len(row.states)))
<1>. DEFINE N == Len(row.states)
<1>1. N \in Nat /\ bucket \in BucketType
  BY StatesOf DEF Told
<1>2. PICK f : Added(f, row, name, bucket)
  BY <1>1, InRunSteps
<1>3. f[0] = bucket /\ \A k \in 1..N : f[k] = AddState(row, name, f[k - 1], k)
  BY <1>2 DEF Added
<1>. DEFINE S == {k \in 0..N : Told(f[k], runs \cup First(row, name, k))}
<1>4. 0 \in S
  <2>1. runs \cup First(row, name, 0) = runs
    BY DEF First
  <2>2. Told(f[0], runs \cup First(row, name, 0))
    BY <1>3, <2>1
  <2>. QED BY <1>1, <2>2
<1>5. ASSUME NEW k \in 1..N, k - 1 \in S
       PROVE  k \in S
  <2>. DEFINE old == runs \cup First(row, name, k - 1)
  <2>1. Told(f[k - 1], old)
    BY <1>5
  <2>2. f[k] = AddState(row, name, f[k - 1], k)
    BY <1>3
  <2>3. CASE Counts(row.states[k], name)
    <3>1. runs \cup First(row, name, k) = old \cup {<<row, k>>}
      <4>1. \A i \in 1..k : i \in 1..(k - 1) \/ i = k
        OBVIOUS
      <4>. QED BY <2>3, <4>1 DEF First
    <3>2. <<row, k>> \notin old
      BY DEF First
    <3>3. <<row, k>> \in Runs /\ At(<<row, k>>) = row.states[k] /\ <<row, k>>[1].minion = row.minion
      BY <2>3, CountsRun
    <3>4. Told(Bucketed(f[k - 1], At(<<row, k>>), <<row, k>>[1].minion), old \cup {<<row, k>>})
      <4>. HIDE DEF old
      <4>. QED BY <2>1, <3>2, <3>3, OneRunMore
    <3>5. f[k] = Bucketed(f[k - 1], At(<<row, k>>), <<row, k>>[1].minion)
      BY <2>2, <2>3, <3>3 DEF AddState
    <3>6. Told(f[k], runs \cup First(row, name, k))
      BY <3>1, <3>4, <3>5
    <3>. QED BY <3>6, <1>1
  <2>4. CASE ~Counts(row.states[k], name)
    <3>1. First(row, name, k) = First(row, name, k - 1)
      <4>1. \A i \in 1..k : i \in 1..(k - 1) \/ i = k
        OBVIOUS
      <4>. QED BY <2>4, <4>1 DEF First
    <3>2. f[k] = f[k - 1]
      BY <2>2, <2>4 DEF AddState
    <3>3. Told(f[k], runs \cup First(row, name, k))
      BY <2>1, <3>1, <3>2
    <3>. QED BY <3>3, <1>1
  <2>. QED BY <2>3, <2>4
<1>6. N \in S
  <2>. HIDE DEF S, N
  <2>1. N \in Nat
    BY <1>1
  <2>2. 0..N \subseteq S
    BY ONLY <2>1, <1>4, <1>5, UpToN
  <2>. QED BY <2>1, <2>2
<1>. QED BY <1>2, <1>6 DEF Added

(* Returns that can be told apart by their times. *)
Timely(rows) ==
  /\ IsFiniteSet(rows)
  /\ \A r \in rows : r.at \in Nat
  /\ \A r, s \in rows : r.at = s.at => r = s

IsNewestFirst(runs, rows) ==
  /\ Cardinality(rows) \in Nat
  /\ runs \in [1..Cardinality(rows) -> rows]
  /\ Len(runs) = Cardinality(rows)
  /\ \A r \in rows : \E n \in 1..Cardinality(rows) : runs[n] = r
  /\ \A i, k \in 1..Cardinality(rows) : i < k => runs[i].at > runs[k].at

(* Newest first, every return stands once, and after the newer ones. *)
LEMMA NewestFirstIs ==
  ASSUME NEW rows, Timely(rows)
  PROVE  IsNewestFirst(NewestFirst(rows), rows)
<1>. DEFINE newer == {pair \in rows \X rows : pair[1].at > pair[2].at}
            runs == InOrder(rows, newer)
<1>1. \A r, s \in rows : <<r, s>> \in newer <=> r.at > s.at
  OBVIOUS
<1>2. TotalOn(newer, rows)
  <2>. HIDE DEF newer
  <2>1. \A r, s \in rows : <<r, s>> \in newer => <<s, r>> \notin newer
    BY <1>1 DEF Timely
  <2>2. \A r, s \in rows : r # s => <<r, s>> \in newer \/ <<s, r>> \in newer
    BY <1>1 DEF Timely
  <2>3. \A r, s, t \in rows : <<r, s>> \in newer /\ <<s, t>> \in newer => <<r, t>> \in newer
    BY <1>1 DEF Timely
  <2>. QED BY <2>1, <2>2, <2>3 DEF TotalOn
<1>3. IsOrder(runs, rows, newer)
  BY <1>2, InOrderIs DEF Timely
<1>4. NewestFirst(rows) = runs
  BY DEF NewestFirst
<1>. HIDE DEF newer, runs
<1>5. /\ Cardinality(rows) \in Nat /\ runs \in [1..Cardinality(rows) -> rows]
      /\ \A r \in rows : \E n \in 1..Cardinality(rows) : runs[n] = r
  BY <1>3 DEF IsOrder
<1>6. ASSUME NEW i \in 1..Cardinality(rows), NEW k \in 1..Cardinality(rows), i < k
      PROVE  runs[i].at > runs[k].at
  <2>1. runs[i] \in rows /\ runs[k] \in rows /\ <<runs[i], runs[k]>> \in newer
    BY <1>3, <1>6 DEF IsOrder
  <2>. QED BY <2>1, <1>1
<1>7. Len(runs) = Cardinality(rows)
  BY <1>5
<1>. QED BY <1>4, <1>5, <1>6, <1>7 DEF IsNewestFirst

(* The runs of a state in the first n returns. *)
InFirst(runs, name, n) == UNION {First(runs[i], name, Len(runs[i].states)) : i \in 1..n}

(* The bucket of a state is what its runs add up to. *)
LEMMA BucketTells ==
  ASSUME NEW rows \in SUBSET ReturnRow, Timely(rows), NEW name
  PROVE  Told(Bucket(rows, name), StateRuns(rows, name))
<1>. DEFINE runs == NewestFirst(rows)
            N == Cardinality(rows)
            F == [p \in BucketType \X (1..N) |-> InRun(runs[p[2]], name, p[1])]
<1>1. /\ N \in Nat /\ runs \in [1..N -> rows] /\ Len(runs) = N
      /\ \A r \in rows : \E n \in 1..N : runs[n] = r
      /\ \A i, k \in 1..N : i < k => runs[i].at > runs[k].at
  <2>1. IsNewestFirst(runs, rows)
    BY NewestFirstIs
  <2>. HIDE DEF runs
  <2>. QED BY <2>1 DEF IsNewestFirst
<1>. HIDE DEF runs, N
<1>2. \A n \in 1..N : runs[n] \in ReturnRow
  BY <1>1
<1>3. F \in Steps(BucketType, N)
  BY <1>2, InRunType DEF Steps
<1>4. NewBucket \in BucketType
  BY DEF NewBucket, BucketType
<1>5. PICK g \in [0..N -> BucketType] :
        g[0] = NewBucket /\ \A n \in 1..N : g[n] = F[<<g[n - 1], n>>]
  <2>. HIDE DEF F
  <2>1. \E g : Stepped(g, BucketType, N, NewBucket, F)
    BY <1>1, <1>3, <1>4, StepsExist
  <2>. QED BY <2>1 DEF Stepped
<1>6. \A n \in 1..N : g[n] = InRun(runs[n], name, g[n - 1])
  <2>1. TAKE n \in 1..N
  <2>2. n - 1 \in 0..N /\ g[n - 1] \in BucketType
    BY <1>1
  <2>. QED BY <1>5, <2>2
<1>7. g = [n \in 0..N |-> IF n = 0 THEN NewBucket ELSE InRun(runs[n], name, g[n - 1])]
  BY <1>5, <1>6
<1>8. Bucket(rows, name)
        = (CHOOSE h : h = [n \in 0..N |-> IF n = 0 THEN NewBucket
                                          ELSE InRun(runs[n], name, h[n - 1])])[N]
  BY <1>1 DEF Bucket, runs
<1>9. PICK f : f = [n \in 0..N |-> IF n = 0 THEN NewBucket ELSE InRun(runs[n], name, f[n - 1])]
               /\ Bucket(rows, name) = f[N]
  BY <1>7, <1>8
<1>10. f[0] = NewBucket
  BY <1>1, <1>9
<1>11. ASSUME NEW n \in 1..N PROVE f[n] = InRun(runs[n], name, f[n - 1])
  <2>1. n \in 0..N /\ n # 0
    BY <1>1
  <2>. QED BY <2>1, <1>9
<1>. DEFINE S == {n \in 0..N : Told(f[n], InFirst(runs, name, n))}
<1>12. 0 \in S
  <2>1. InFirst(runs, name, 0) = {}
    BY DEF InFirst
  <2>2. Milliseconds({}) = {}
    BY DEF Milliseconds
  <2>3. IsFiniteSet({}) /\ Cardinality({}) = 0
    BY FS_EmptySet
  <2>4. Tells(NewBucket, {})
    BY <2>2, <2>3 DEF Tells, NewBucket
  <2>5. Told(f[0], InFirst(runs, name, 0))
    BY <1>4, <1>10, <2>1, <2>2, <2>3, <2>4 DEF Told
  <2>. QED BY <1>1, <2>5
<1>13. ASSUME NEW n \in 1..N, n - 1 \in S
       PROVE  n \in S
  <2>1. Told(f[n - 1], InFirst(runs, name, n - 1))
    BY <1>13
  <2>2. runs[n] \in ReturnRow
    BY <1>2
  <2>3. \A i \in 1..(n - 1) : runs[i] # runs[n]
    <3>1. TAKE i \in 1..(n - 1)
    <3>2. i \in 1..N /\ i < n /\ runs[i] \in rows /\ runs[n] \in rows /\ runs[i].at > runs[n].at
      BY <1>1
    <3>. QED BY <3>2 DEF Timely
  <2>4. \A run \in InFirst(runs, name, n - 1) : run[1] # runs[n]
    BY <2>3 DEF InFirst, First
  <2>5. Told(InRun(runs[n], name, f[n - 1]),
             InFirst(runs, name, n - 1) \cup First(runs[n], name, Len(runs[n].states)))
    BY <2>1, <2>2, <2>4, InRunTells
  <2>6. InFirst(runs, name, n) = InFirst(runs, name, n - 1) \cup First(runs[n], name, Len(runs[n].states))
    <3>1. 1..n = (1..(n - 1)) \cup {n}
      OBVIOUS
    <3>2. \A x : x \in InFirst(runs, name, n) <=>
                 \E i \in 1..n : x \in First(runs[i], name, Len(runs[i].states))
      BY DEF InFirst
    <3>3. \A x : x \in InFirst(runs, name, n - 1) <=>
                 \E i \in 1..(n - 1) : x \in First(runs[i], name, Len(runs[i].states))
      BY DEF InFirst
    <3>. QED BY <3>1, <3>2, <3>3
  <2>7. Told(f[n], InFirst(runs, name, n))
    BY <1>11, <2>5, <2>6
  <2>. QED BY <1>1, <2>7
<1>14. Told(f[N], InFirst(runs, name, N))
  <2>. HIDE DEF S
  <2>1. 0..N \subseteq S
    BY <1>1, <1>12, <1>13, UpToN
  <2>2. N \in S
    BY <1>1, <2>1
  <2>. QED BY <2>2 DEF S
<1>15. InFirst(runs, name, N) = StateRuns(rows, name)
  <2>1. \A r \in rows : First(r, name, Len(r.states))
          = {<<r, k>> : k \in {j \in DOMAIN r.states : Counts(r.states[j], name)}}
    BY StatesOf DEF First
  <2>2. \A x : x \in InFirst(runs, name, N) <=>
               \E i \in 1..N : x \in First(runs[i], name, Len(runs[i].states))
    BY DEF InFirst
  <2>3. \A x : x \in StateRuns(rows, name) <=>
               \E r \in rows : x \in First(r, name, Len(r.states))
    BY <2>1 DEF StateRuns
  <2>. QED BY <1>1, <2>2, <2>3
<1>. QED BY <1>9, <1>14, <1>15

(* A return that has the state at all. *)
HasState(row, name) == \E k \in DOMAIN row.states : row.states[k].name = name

(* The detail of a state, by the places of the returns. *)
LEMMA DetailIs ==
  ASSUME NEW rows, Timely(rows), NEW name
  PROVE  LET runs == NewestFirst(rows)
         IN \A x : x \in Detail(rows, name) <=>
              \E i \in 1..Cardinality(rows) :
                /\ x = runs[i] /\ HasState(runs[i], name)
                /\ \A j \in 1..(i - 1) : HasState(runs[j], name) => runs[j].minion # runs[i].minion
<1>. DEFINE runs == NewestFirst(rows)
<1>1. IsNewestFirst(runs, rows)
  BY NewestFirstIs
<1>2. DOMAIN runs = 1..Cardinality(rows)
  BY <1>1 DEF IsNewestFirst
<1>. QED BY <1>2 DEF Detail, HasState

(* The detail has the newest run of each minion, and each minion with a run. *)
LEMMA DetailIsNewest ==
  ASSUME NEW rows \in SUBSET ReturnRow, Timely(rows), NEW name
  PROVE  LET detail == Detail(rows, name)
         IN /\ {run[1].minion : run \in StateRuns(rows, name)} \subseteq {r.minion : r \in detail}
            /\ \A r \in detail, s \in rows :
                 s.minion = r.minion /\ s.at > r.at => ~HasState(s, name)
<1>. DEFINE runs == NewestFirst(rows)
            N == Cardinality(rows)
            detail == Detail(rows, name)
<1>1. /\ N \in Nat /\ runs \in [1..N -> rows]
      /\ \A r \in rows : \E n \in 1..N : runs[n] = r
      /\ \A i, k \in 1..N : i < k => runs[i].at > runs[k].at
  <2>1. IsNewestFirst(runs, rows)
    BY NewestFirstIs
  <2>. HIDE DEF runs
  <2>. QED BY <2>1 DEF IsNewestFirst
<1>2. \A x : x \in detail <=>
              \E i \in 1..N :
                /\ x = runs[i] /\ HasState(runs[i], name)
                /\ \A j \in 1..(i - 1) : HasState(runs[j], name) => runs[j].minion # runs[i].minion
  BY DetailIs
<1>. HIDE DEF runs, N, detail
<1>3. ASSUME NEW run \in StateRuns(rows, name)
      PROVE  \E r \in detail : r.minion = run[1].minion
  <2>1. run[1] \in rows /\ HasState(run[1], name)
    <3>1. PICK r \in rows : run \in {<<r, k>> : k \in {j \in DOMAIN r.states : Counts(r.states[j], name)}}
      BY DEF StateRuns
    <3>2. PICK k \in DOMAIN r.states : run = <<r, k>> /\ Counts(r.states[k], name)
      BY <3>1
    <3>. QED BY <3>2 DEF HasState, Counts
  <2>. DEFINE mine == {i \in 1..N : HasState(runs[i], name) /\ runs[i].minion = run[1].minion}
  <2>2. mine # {} /\ mine \in SUBSET Nat
    BY <1>1, <2>1
  <2>3. PICK i \in mine : \A j \in mine : i <= j
    <3>. HIDE DEF mine
    <3>. QED BY <2>2, MinExists
  <2>4. ASSUME NEW j \in 1..(i - 1), HasState(runs[j], name)
        PROVE  runs[j].minion # runs[i].minion
    <3>1. j \in 1..N /\ ~(i <= j)
      BY <1>1, <2>3
    <3>. QED BY <3>1, <2>3, <2>4
  <2>5. runs[i] \in detail
    BY <1>2, <2>3, <2>4
  <2>. QED BY <2>3, <2>5
<1>4. ASSUME NEW r \in detail, NEW s \in rows, s.minion = r.minion, s.at > r.at
      PROVE  ~HasState(s, name)
  <2>1. PICK i \in 1..N :
                /\ r = runs[i]
                /\ \A j \in 1..(i - 1) : HasState(runs[j], name) => runs[j].minion # runs[i].minion
    BY <1>2
  <2>2. PICK j \in 1..N : runs[j] = s
    BY <1>1
  <2>3. runs[i].at \in Nat /\ runs[j].at \in Nat
    BY <1>1 DEF Timely
  <2>4. j < i
    BY <1>1, <1>4, <2>1, <2>2, <2>3
  <2>5. j \in 1..(i - 1)
    BY <1>1, <2>4
  <2>. QED BY <1>4, <2>1, <2>2, <2>5
<1>. QED BY <1>3, <1>4 DEF detail

(* The times of the states add up, for any table. *)
LEMMA DurationsAddUpOf ==
  ASSUME NEW rows, Table(rows)
  PROVE  DurationsAddUp(rows)
<1>1. rows \in SUBSET ReturnRow /\ Timely(rows)
  <2>1. \A r \in rows : r \in ReturnRow
    BY DEF Table
  <2>2. \A r \in rows : r.at \in Nat
    BY <2>1 DEF ReturnRow
  <2>. QED BY <2>1, <2>2 DEF Table, Timely
<1>. DEFINE names == {s.name : s \in UNION {ToSet(r.states) : r \in rows}}
<1>2. ASSUME NEW name \in names
      PROVE  LET bucket == Bucket(rows, name)
                 detail == Detail(rows, name)
             IN /\ Tells(bucket, StateRuns(rows, name))
                /\ bucket.minions \subseteq {r.minion : r \in detail}
                /\ \A r \in detail, s \in rows :
                     /\ s.minion = r.minion /\ s.at > r.at
                     => \A k \in DOMAIN s.states : s.states[k].name # name
  <2>1. Tells(Bucket(rows, name), StateRuns(rows, name))
    BY <1>1, BucketTells DEF Told
  <2>2. Bucket(rows, name).minions = {run[1].minion : run \in StateRuns(rows, name)}
    BY <2>1 DEF Tells
  <2>3. /\ {run[1].minion : run \in StateRuns(rows, name)} \subseteq {r.minion : r \in Detail(rows, name)}
        /\ \A r \in Detail(rows, name), s \in rows :
             s.minion = r.minion /\ s.at > r.at => ~HasState(s, name)
    BY <1>1, DetailIsNewest
  <2>. QED BY <2>1, <2>2, <2>3 DEF HasState
<1>. QED BY <1>2 DEF DurationsAddUp

-----------------------------------------------------------------------------
(* The list, and the summary of a job.                                     *)

LEMMA LimitType ==
  ASSUME NEW query \in Query
  PROVE  Limit(query.limit) \in Nat
<1>1. query.limit = <<>> \/ query.limit \in [{1} -> Int]
  BY DEF Query
<1>2. CASE query.limit = <<>>
  BY <1>2 DEF Limit
<1>3. CASE query.limit # <<>>
  <2>1. query.limit[1] \in Int
    BY <1>1, <1>3
  <2>. QED BY <1>3, <2>1 DEF Limit
<1>. QED BY <1>2, <1>3

(* A table has finitely many returns, each at its own time. *)
LEMMA TableIsTimely ==
  ASSUME NEW rows, Table(rows), NEW some \in SUBSET rows
  PROVE  Timely(some) /\ IsFiniteSet(some) /\ \A r \in some : r \in ReturnRow /\ r.at \in Nat
<1>1. \A r \in rows : r \in ReturnRow
  BY DEF Table
<1>2. \A r \in rows : r.at \in Nat
  BY <1>1 DEF ReturnRow
<1>3. IsFiniteSet(some)
  BY FS_Subset DEF Table
<1>. QED BY <1>1, <1>2, <1>3 DEF Table, Timely

(* The rows with fewer than n newer ones are no more than n. *)
LEMMA PageCount ==
  ASSUME NEW found, Timely(found), NEW n \in Nat,
         NEW page \in SUBSET {r \in found : Cardinality({s \in found : s.at > r.at}) < n}
  PROVE  Cardinality(page) <= n
<1>. DEFINE newer(r) == {s \in found : s.at > r.at}
            f == [r \in page |-> Cardinality(newer(r))]
<1>1. \A r \in found : IsFiniteSet(newer(r)) /\ Cardinality(newer(r)) \in Nat
  <2>1. TAKE r \in found
  <2>2. newer(r) \in SUBSET found
    OBVIOUS
  <2>. QED BY <2>2, FS_Subset, FS_CardinalityType DEF Timely
<1>2. ASSUME NEW r \in found, NEW s \in found, r.at < s.at
      PROVE  Cardinality(newer(s)) < Cardinality(newer(r))
  <2>1. newer(s) \subseteq newer(r)
    BY <1>2 DEF Timely
  <2>2. s \in newer(r) /\ s \notin newer(s)
    BY <1>2 DEF Timely
  <2>. HIDE DEF newer
  <2>3. Cardinality(newer(s)) <= Cardinality(newer(r))
        /\ (Cardinality(newer(r)) = Cardinality(newer(s)) => newer(r) = newer(s))
    BY <1>1, <2>1, FS_Subset
  <2>. QED BY <1>1, <2>2, <2>3
<1>3. page \subseteq found /\ \A r \in page : Cardinality(newer(r)) < n
  OBVIOUS
<1>. HIDE DEF newer
<1>4. f \in [page -> 0..(n - 1)]
  BY <1>1, <1>3
<1>5. ASSUME NEW r \in page, NEW s \in page, f[r] = f[s]
      PROVE  r = s
  <2>1. r.at \in Nat /\ s.at \in Nat /\ r \in found /\ s \in found
    BY <1>3 DEF Timely
  <2>2. ~(r.at < s.at) /\ ~(s.at < r.at)
    BY <1>1, <1>2, <1>5, <2>1
  <2>. QED BY <2>1, <2>2 DEF Timely
<1>6. f \in Injection(page, 0..(n - 1))
  <2>. HIDE DEF f
  <2>1. DOMAIN f = page
    BY <1>4
  <2>. QED BY <1>4, <1>5, <2>1 DEF Injection, IsInjective
<1>7. IsFiniteSet(0..(n - 1)) /\ Cardinality(0..(n - 1)) = n
  BY FS_Interval
<1>. QED BY <1>6, <1>7, FS_Injection

(* The list of jobs is what it should be, for any table and any query. *)
LEMMA ListIsNewestOf ==
  ASSUME NEW rows, Table(rows), NEW query \in Query
  PROVE  ListIsNewest(rows, query)
<1>. DEFINE page == Listed(rows, query)
            found == Filtered(rows, query)
            wanted(r) == query.users # {} => r.user \in query.users
            shown == {r \in Page(found, query) : wanted(r)}
            N == Cardinality(shown)
<1>1. found \in SUBSET rows /\ shown \in SUBSET found
  BY DEF Filtered, Page
<1>2. Timely(found) /\ Timely(shown) /\ IsFiniteSet(found)
  BY <1>1, TableIsTimely
<1>3. Limit(query.limit) \in Nat
  BY LimitType
<1>4. IsNewestFirst(page, shown)
  <2>1. page = NewestFirst(shown)
    BY DEF Listed
  <2>. QED BY <1>2, <2>1, NewestFirstIs
<1>5. N <= Limit(query.limit)
  <2>1. shown \in SUBSET {r \in found : Cardinality({s \in found : s.at > r.at}) < Limit(query.limit)}
    BY DEF Page
  <2>. HIDE DEF shown, found
  <2>. QED BY <1>2, <1>3, <2>1, PageCount
<1>6. \A r \in found \ shown :
        wanted(r) => Cardinality({s \in found : s.at > r.at}) >= Limit(query.limit)
  <2>1. TAKE r \in found \ shown
  <2>2. HAVE wanted(r)
  <2>3. r \notin Page(found, query)
    BY <2>1, <2>2
  <2>4. ~(Cardinality({s \in found : s.at > r.at}) < Limit(query.limit))
    BY <2>1, <2>3 DEF Page
  <2>5. Cardinality({s \in found : s.at > r.at}) \in Nat
    <3>1. {s \in found : s.at > r.at} \in SUBSET found
      OBVIOUS
    <3>. HIDE DEF found
    <3>. QED BY <1>2, <3>1, FS_Subset, FS_CardinalityType
  <2>. QED BY <1>3, <2>4, <2>5
<1>7. ASSUME query.success = "true", NEW r \in found
      PROVE  SuccessBool(r) = "TRUE"
  <2>1. r \in rows /\ r.column \in TrueValues /\ r.column = Column(r.said)
    BY <1>7 DEF Filtered, Table
  <2>2. r.said = "TRUE"
    BY <2>1 DEF Column, TrueValues
  <2>. QED BY <2>2 DEF SuccessBool
<1>. HIDE DEF page, shown, found, wanted
<1>8. /\ N \in Nat /\ page \in [1..N -> shown] /\ Len(page) = N /\ DOMAIN page = 1..N
      /\ \A r \in shown : \E n \in 1..N : page[n] = r
      /\ \A i, k \in 1..N : i < k => page[i].at > page[k].at
  BY <1>4 DEF IsNewestFirst
<1>9. ToSet(page) = shown
  BY <1>8 DEF ToSet
<1>10. query.success = "true" => \A i \in DOMAIN page : SuccessBool(page[i]) = "TRUE"
  BY <1>1, <1>7, <1>8
<1>11. /\ ToSet(page) \subseteq found
       /\ Len(page) <= Limit(query.limit)
       /\ \A i, k \in DOMAIN page : i < k => page[i].at > page[k].at
       /\ \A r \in found \ ToSet(page) :
            wanted(r) => Cardinality({s \in found : s.at > r.at}) >= Limit(query.limit)
  BY <1>1, <1>5, <1>6, <1>8, <1>9
<1>. QED BY <1>10, <1>11 DEF ListIsNewest, page, found, wanted

(* The summary accounts for everyone, for any table. *)
LEMMA SummaryAccountsOf ==
  ASSUME NEW rows, NEW published
  PROVE  SummaryAccounts(rows, published)
BY DEF SummaryAccounts, JobSummary

-----------------------------------------------------------------------------
(* The activity graph.                                                     *)

Point == [day : Int, count : Nat, errors : Nat]

(* A series of days in order, from the first one on, each with its jobs. *)
Series(series, rows, first) ==
  /\ series \in Seq(Point)
  /\ \A i, k \in DOMAIN series : i < k => series[i].day < series[k].day
  /\ \A i \in DOMAIN series :
       /\ series[i].day >= first
       /\ series[i].count = CountOn(rows, series[i].day)
       /\ series[i].errors = ErrorsOn(rows, series[i].day)

(* A series that has the first n days, the days of all jobs since then, and *)
(* others only for jobs they have.                                         *)
Complete(series, rows, first, n) ==
  /\ Series(series, rows, first)
  /\ Len(series) >= n
  /\ \A i \in 1..n : series[i].day = first + i - 1
  /\ \A i \in DOMAIN series : series[i].day >= first + n => \E r \in rows : r.day = series[i].day
  /\ \A r \in rows : r.day >= first => \E i \in DOMAIN series : series[i].day = r.day

(* The days that have jobs, in order. *)
LEMMA DaysInOrder ==
  ASSUME NEW days \in SUBSET Int, IsFiniteSet(days)
  PROVE  LET series == InOrder(days, {pair \in days \X days : pair[1] < pair[2]})
         IN /\ Cardinality(days) \in Nat
            /\ series \in [1..Cardinality(days) -> days]
            /\ \A d \in days : \E i \in 1..Cardinality(days) : series[i] = d
            /\ \A i, k \in 1..Cardinality(days) : i < k => series[i] < series[k]
<1>. DEFINE before == {pair \in days \X days : pair[1] < pair[2]}
            series == InOrder(days, before)
<1>1. \A d, e \in days : d \in Int /\ (<<d, e>> \in before <=> d < e)
  OBVIOUS
<1>. HIDE DEF before
<1>2. TotalOn(before, days)
  <2>1. \A d, e \in days : <<d, e>> \in before => <<e, d>> \notin before
    BY <1>1
  <2>2. \A d, e \in days : d # e => <<d, e>> \in before \/ <<e, d>> \in before
    BY <1>1
  <2>3. \A d, e, f \in days : <<d, e>> \in before /\ <<e, f>> \in before => <<d, f>> \in before
    BY <1>1
  <2>. QED BY <2>1, <2>2, <2>3 DEF TotalOn
<1>3. IsOrder(series, days, before)
  BY <1>2, InOrderIs
<1>. HIDE DEF series
<1>4. \A i, k \in 1..Cardinality(days) : i < k => series[i] < series[k]
  <2>1. TAKE i, k \in 1..Cardinality(days)
  <2>2. HAVE i < k
  <2>3. series[i] \in days /\ series[k] \in days /\ <<series[i], series[k]>> \in before
    BY <1>3, <2>2 DEF IsOrder
  <2>. QED BY <2>3, <1>1
<1>. QED BY <1>3, <1>4 DEF IsOrder, series, before

(* What the database counts is a series. *)
LEMMA WithJobsIs ==
  ASSUME NEW rows \in SUBSET ReturnRow, IsFiniteSet(rows), NEW now \in Int, NEW period \in Nat
  PROVE  Complete(WithJobs(rows, now, period), rows, Start(now, period), 0)
<1>. DEFINE first == Start(now, period)
            recent == {x \in rows : x.day >= first}
            days == {r.day : r \in recent}
            series == InOrder(days, {pair \in days \X days : pair[1] < pair[2]})
            N == Cardinality(days)
            graph == WithJobs(rows, now, period)
<1>1. first \in Int /\ \A r \in rows : r.day \in Int
  BY DEF Start, ReturnRow
<1>2. days \in SUBSET Int
  BY <1>1
<1>3. IsFiniteSet(days)
  <2>. DEFINE f == [r \in recent |-> r.day]
  <2>1. recent \in SUBSET rows
    OBVIOUS
  <2>2. IsFiniteSet(recent)
    BY <2>1, FS_Subset
  <2>3. f \in Surjection(recent, days)
    BY DEF Surjection
  <2>. QED BY <2>2, <2>3, FS_Surjection
<1>4. /\ N \in Nat /\ series \in [1..N -> days]
      /\ \A d \in days : \E i \in 1..N : series[i] = d
      /\ \A i, k \in 1..N : i < k => series[i] < series[k]
  BY <1>2, <1>3, DaysInOrder
<1>5. graph = [i \in DOMAIN series |-> [day |-> series[i], count |-> CountOn(rows, series[i]),
                                        errors |-> ErrorsOn(rows, series[i])]]
  BY DEF WithJobs
<1>6. /\ \A d \in days : d \in Int /\ d >= first /\ \E r \in rows : r.day = d
      /\ \A r \in rows : r.day >= first => r.day \in days
  BY <1>1
<1>7. \A d : CountOn(rows, d) \in Nat /\ ErrorsOn(rows, d) \in Nat
  <2>1. TAKE d
  <2>2. {r \in rows : r.day = d} \in SUBSET rows /\ {r \in rows : r.day = d /\ r.column = "0"} \in SUBSET rows
    OBVIOUS
  <2>. QED BY <2>2, FS_Subset, FS_CardinalityType DEF CountOn, ErrorsOn
<1>. HIDE DEF series, days, graph, first, N
<1>8. graph = [i \in 1..N |-> [day |-> series[i], count |-> CountOn(rows, series[i]),
                               errors |-> ErrorsOn(rows, series[i])]]
  BY <1>4, <1>5
<1>9. \A i \in 1..N : /\ series[i] \in days
                      /\ graph[i] \in Point /\ graph[i].day = series[i]
                      /\ graph[i].count = CountOn(rows, series[i])
                      /\ graph[i].errors = ErrorsOn(rows, series[i])
  BY <1>4, <1>6, <1>7, <1>8 DEF Point
<1>10. graph \in [1..N -> Point]
  BY <1>8, <1>9
<1>11. graph \in Seq(Point) /\ Len(graph) = N /\ DOMAIN graph = 1..N
  BY <1>4, <1>10
<1>12. Series(graph, rows, first)
  <2>1. \A i, k \in 1..N : i < k => graph[i].day < graph[k].day
    BY <1>4, <1>9
  <2>2. \A i \in 1..N : /\ graph[i].day >= first
                         /\ graph[i].count = CountOn(rows, graph[i].day)
                         /\ graph[i].errors = ErrorsOn(rows, graph[i].day)
    BY <1>6, <1>9
  <2>. QED BY <1>11, <2>1, <2>2 DEF Series
<1>13. \A r \in rows : r.day >= first => \E i \in DOMAIN graph : graph[i].day = r.day
  BY <1>4, <1>6, <1>9, <1>11
<1>. QED BY <1>4, <1>6, <1>9, <1>11, <1>12, <1>13 DEF Complete, graph, first

(* A day without jobs is inserted at its place: what was before it stays,  *)
(* what comes after it moves on by one.                                    *)
LEMMA FillIs ==
  ASSUME NEW series \in Seq(Point), NEW n \in 1..(Len(series) + 1), NEW day \in Int
  PROVE  /\ Fill(series, n, day) \in Seq(Point)
         /\ Len(Fill(series, n, day)) = Len(series) + 1
         /\ \A i \in 1..(n - 1) : Fill(series, n, day)[i] = series[i]
         /\ Fill(series, n, day)[n] = [day |-> day, count |-> 0, errors |-> 0]
         /\ \A i \in (n + 1)..(Len(series) + 1) : Fill(series, n, day)[i] = series[i - 1]
<1>. DEFINE zero == [day |-> day, count |-> 0, errors |-> 0]
            a == SubSeq(series, 1, n - 1)
            b == SubSeq(series, n, Len(series))
<1>1. zero \in Point
  BY DEF Point
<1>2. Len(series) \in Nat
  OBVIOUS
<1>3. a \in Seq(Point) /\ Len(a) = n - 1 /\ \A i \in 1..(n - 1) : a[i] = series[i]
  BY <1>2, SubSeqProperties
<1>4. /\ b \in Seq(Point) /\ Len(b) = Len(series) - n + 1
      /\ \A i \in 1..(Len(series) - n + 1) : b[i] = series[n + i - 1]
  BY <1>2, SubSeqProperties
<1>5. Fill(series, n, day) = a \o <<zero>> \o b
  BY DEF Fill, InsertAt
<1>. HIDE DEF a, b, zero
<1>6. <<zero>> \in Seq(Point) /\ Len(<<zero>>) = 1
  BY <1>1
<1>. DEFINE c == a \o <<zero>>
            d == c \o b
<1>7. c \in Seq(Point) /\ Len(c) = Len(a) + 1
      /\ \A i \in 1..(Len(a) + 1) : c[i] = IF i <= Len(a) THEN a[i] ELSE <<zero>>[i - Len(a)]
  BY <1>3, <1>6, ConcatProperties
<1>8. c[n] = zero /\ Len(c) = n /\ \A i \in 1..(n - 1) : c[i] = series[i]
  <2>. HIDE DEF c
  <2>1. \A i \in 1..(n - 1) : i \in 1..n /\ i <= n - 1
    OBVIOUS
  <2>2. n \in 1..n /\ ~(n <= n - 1) /\ n - (n - 1) = 1
    OBVIOUS
  <2>3. <<zero>>[1] = zero
    OBVIOUS
  <2>4. Len(a) = n - 1 /\ Len(a) + 1 = n
    BY <1>3
  <2>5. c[n] = zero
    BY <1>7, <2>2, <2>3, <2>4
  <2>6. \A i \in 1..(n - 1) : c[i] = series[i]
    BY <1>3, <1>7, <2>1, <2>4
  <2>. QED BY <1>7, <2>4, <2>5, <2>6
<1>9. d \in Seq(Point) /\ Len(d) = Len(c) + Len(b)
      /\ \A i \in 1..(Len(c) + Len(b)) : d[i] = IF i <= Len(c) THEN c[i] ELSE b[i - Len(c)]
  <2>. HIDE DEF c
  <2>. QED BY <1>4, <1>7, ConcatProperties
<1>10. Fill(series, n, day) = d
  BY <1>5
<1>. HIDE DEF c, d
<1>11. Len(d) = Len(series) + 1
  BY <1>2, <1>4, <1>8, <1>9
<1>12. d[n] = zero /\ \A i \in 1..(n - 1) : d[i] = series[i]
  <2>1. \A i \in 1..n : i \in 1..(Len(c) + Len(b)) /\ i <= Len(c)
    BY <1>2, <1>4, <1>8
  <2>2. \A i \in 1..n : d[i] = c[i]
    BY <1>9, <2>1
  <2>. QED BY <1>8, <2>2
<1>13. \A i \in (n + 1)..(Len(series) + 1) : d[i] = series[i - 1]
  <2>1. TAKE i \in (n + 1)..(Len(series) + 1)
  <2>2. i \in 1..(Len(c) + Len(b)) /\ ~(i <= Len(c)) /\ i - Len(c) = i - n
    BY <1>2, <1>4, <1>8
  <2>3. i - n \in 1..(Len(series) - n + 1) /\ n + (i - n) - 1 = i - 1
    BY <1>2
  <2>. QED BY <1>4, <1>9, <2>2, <2>3
<1>. QED BY <1>9, <1>10, <1>11, <1>12, <1>13 DEF zero

(* Once the n-th day is there, the series has the first n days. *)
LEMMA CompletedIs ==
  ASSUME NEW rows, NEW series, NEW first \in Int, NEW n \in Nat \ {0},
         Complete(series, rows, first, n - 1)
  PROVE  Complete(Completed(series, n, first + n - 1), rows, first, n)
<1>. DEFINE day == first + n - 1
            L == Len(series)
            next == Completed(series, n, day)
<1>1. /\ series \in Seq(Point) /\ L \in Nat /\ DOMAIN series = 1..L /\ L >= n - 1
      /\ \A i, k \in 1..L : i < k => series[i].day < series[k].day
      /\ \A i \in 1..(n - 1) : series[i].day = first + i - 1
  BY DEF Complete, Series
<1>2. \A i \in 1..L :
        /\ series[i] \in Point /\ series[i].day \in Int /\ series[i].day >= first
        /\ series[i].count = CountOn(rows, series[i].day)
        /\ series[i].errors = ErrorsOn(rows, series[i].day)
        /\ series[i].day >= day => \E r \in rows : r.day = series[i].day
  <2>1. \A i \in 1..L : series[i] \in Point
    BY <1>1
  <2>. QED BY <2>1, <1>1 DEF Complete, Series, Point
<1>3. \A i \in 1..L : i >= n => series[i].day >= day
  <2>1. TAKE i \in 1..L
  <2>2. HAVE i >= n
  <2>3. CASE n = 1
    BY <1>2, <2>3
  <2>4. CASE n # 1
    <3>1. n - 1 \in 1..L /\ n - 1 \in 1..(n - 1) /\ n - 1 < i
      BY <1>1, <2>2, <2>4
    <3>2. series[n - 1].day < series[i].day /\ series[n - 1].day = first + (n - 1) - 1
      BY <3>1, <1>1
    <3>. QED BY <3>2, <1>2
  <2>. QED BY <2>3, <2>4
<1>4. CASE \E i \in 1..L : series[i].day = day
  <2>1. PICK i \in 1..L : series[i].day = day
    BY <1>4
  <2>2. next = series
    BY <1>1, <2>1 DEF Completed
  <2>3. i = n
    <3>1. ~(i < n)
      <4>1. ASSUME i < n PROVE FALSE
        <5>1. i \in 1..(n - 1)
          BY <4>1
        <5>. QED BY <5>1, <1>1, <2>1
      <4>. QED BY <4>1
    <3>2. ~(i > n)
      <4>1. ASSUME i > n PROVE FALSE
        <5>1. n \in 1..L
          BY <4>1, <1>1
        <5>2. series[n].day < series[i].day /\ series[n].day >= day
          BY <4>1, <5>1, <1>1, <1>3
        <5>. QED BY <5>1, <5>2, <1>2, <2>1
      <4>. QED BY <4>1
    <3>. QED BY <3>1, <3>2
  <2>4. \A j \in 1..n : series[j].day = first + j - 1
    <3>1. \A j \in 1..n : j \in 1..(n - 1) \/ j = n
      OBVIOUS
    <3>. QED BY <3>1, <1>1, <2>1, <2>3
  <2>5. L >= n
    BY <1>1, <2>3
  <2>6. \A j \in DOMAIN series : series[j].day >= first + n => \E r \in rows : r.day = series[j].day
    <3>1. \A j \in 1..L : series[j].day >= first + n => series[j].day >= day
      BY <1>2
    <3>. QED BY <3>1, <1>1, <1>2
  <2>7. Series(series, rows, first)
    BY DEF Complete
  <2>8. \A r \in rows : r.day >= first => \E j \in DOMAIN series : series[j].day = r.day
    BY DEF Complete
  <2>9. Complete(series, rows, first, n)
    BY <2>4, <2>5, <2>6, <2>7, <2>8 DEF Complete
  <2>. QED BY <2>2, <2>9
<1>5. CASE ~\E i \in 1..L : series[i].day = day
  <2>. DEFINE zero == [day |-> day, count |-> 0, errors |-> 0]
  <2>1. next = Fill(series, n, day)
    BY <1>1, <1>5 DEF Completed
  <2>2. n \in 1..(L + 1) /\ day \in Int
    BY <1>1
  <2>3. /\ next \in Seq(Point) /\ Len(next) = L + 1
        /\ \A i \in 1..(n - 1) : next[i] = series[i]
        /\ next[n] = zero
        /\ \A i \in (n + 1)..(L + 1) : next[i] = series[i - 1]
    BY <1>1, <2>1, <2>2, FillIs
  <2>4. DOMAIN next = 1..(L + 1)
    BY <1>1, <2>3
  <2>5. CountOn(rows, day) = 0 /\ ErrorsOn(rows, day) = 0
    <3>1. \A r \in rows : r.day # day
      <4>1. \A r \in rows : r.day >= first => \E i \in 1..L : series[i].day = r.day
        BY <1>1 DEF Complete
      <4>2. day >= first
        OBVIOUS
      <4>. QED BY <4>1, <4>2, <1>5
    <3>2. {r \in rows : r.day = day} = {} /\ {r \in rows : r.day = day /\ r.column = "0"} = {}
      BY <3>1
    <3>. QED BY <3>2, FS_EmptySet DEF CountOn, ErrorsOn
  <2>. HIDE DEF next, zero, L, day
  <2>6. \A i \in 1..n : next[i].day = first + i - 1
    <3>1. \A i \in 1..n : i \in 1..(n - 1) \/ i = n
      OBVIOUS
    <3>2. zero.day = day
      BY DEF zero
    <3>. QED BY <3>1, <3>2, <2>3, <1>1 DEF day
  <2>7. \A i \in (n + 1)..(L + 1) :
          next[i] = series[i - 1] /\ i - 1 \in 1..L /\ next[i].day > day
    <3>1. TAKE i \in (n + 1)..(L + 1)
    <3>2. i - 1 \in 1..L /\ i - 1 >= n
      BY <1>1
    <3>3. series[i - 1].day >= day /\ series[i - 1].day # day /\ series[i - 1].day \in Int
      BY <3>2, <1>2, <1>3, <1>5
    <3>. QED BY <2>2, <2>3, <3>2, <3>3
  <2>8. \A i, k \in 1..(L + 1) : i < k => next[i].day < next[k].day
    <3>1. TAKE i, k \in 1..(L + 1)
    <3>2. HAVE i < k
    <3>3. CASE k <= n
      <4>1. next[i].day = first + i - 1 /\ next[k].day = first + k - 1
        BY <1>1, <2>6, <3>2, <3>3
      <4>. QED BY <4>1, <3>2, <1>1
    <3>4. CASE i <= n /\ n < k
      <4>0. i \in 1..n /\ k \in (n + 1)..(L + 1)
        BY <1>1, <3>4
      <4>a. next[k] = series[k - 1] /\ k - 1 \in 1..L /\ next[k].day > day
        BY <2>7, <4>0
      <4>b. next[i].day = first + i - 1
        BY <2>6, <4>0
      <4>1. next[i].day = first + i - 1 /\ next[k].day > day /\ next[k].day \in Int
        BY <1>2, <4>a, <4>b
      <4>. QED BY <4>1, <3>4, <1>1 DEF day
    <3>5. CASE n < i
      <4>1. /\ next[i] = series[i - 1] /\ next[k] = series[k - 1]
            /\ i - 1 \in 1..L /\ k - 1 \in 1..L /\ i - 1 < k - 1
        BY <1>1, <2>7, <3>2, <3>5
      <4>. QED BY <4>1, <1>1
    <3>. QED BY <3>2, <3>3, <3>4, <3>5, <1>1
  <2>9. ASSUME NEW i \in 1..(L + 1)
        PROVE  /\ next[i].day >= first
               /\ next[i].count = CountOn(rows, next[i].day)
               /\ next[i].errors = ErrorsOn(rows, next[i].day)
    <3>2. CASE i < n
      <4>1. i \in 1..L /\ next[i] = series[i]
        BY <1>1, <2>3, <3>2
      <4>. QED BY <4>1, <1>2
    <3>3. CASE i = n
      <4>1. next[i].day = day /\ next[i].count = 0 /\ next[i].errors = 0
        BY <2>3, <3>3 DEF zero
      <4>2. day >= first
        BY DEF day
      <4>. QED BY <4>1, <4>2, <2>5
    <3>4. CASE i > n
      <4>1. i \in (n + 1)..(L + 1)
        BY <1>1, <3>4
      <4>2. i - 1 \in 1..L
        BY <1>1, <4>1
      <4>3. next[i] = series[i - 1]
        BY <2>7, <4>1
      <4>. QED BY <4>2, <4>3, <1>2
    <3>. QED BY <3>2, <3>3, <3>4, <1>1
  <2>10. Series(next, rows, first)
    BY <2>3, <2>4, <2>8, <2>9 DEF Series
  <2>11. \A i \in 1..(L + 1) : next[i].day >= first + n => \E r \in rows : r.day = next[i].day
    <3>1. TAKE i \in 1..(L + 1)
    <3>2. HAVE next[i].day >= first + n
    <3>3. ~(i <= n)
      BY <3>2, <2>6, <1>1
    <3>4. i \in (n + 1)..(L + 1)
      BY <1>1, <3>3
    <3>5. i - 1 \in 1..L /\ next[i] = series[i - 1] /\ next[i].day > day
      BY <2>7, <3>4
    <3>6. series[i - 1].day >= day
      BY <1>2, <2>2, <3>5
    <3>. QED BY <3>5, <3>6, <1>2
  <2>12. \A r \in rows : r.day >= first => \E i \in 1..(L + 1) : next[i].day = r.day
    <3>1. TAKE r \in rows
    <3>2. HAVE r.day >= first
    <3>3. PICK i \in 1..L : series[i].day = r.day
      BY <1>1, <3>2 DEF Complete
    <3>4. CASE i < n
      <4>1. i \in 1..(n - 1) /\ i \in 1..(L + 1)
        BY <1>1, <3>4
      <4>. QED BY <4>1, <2>3, <3>3
    <3>5. CASE i >= n
      <4>1. i + 1 \in (n + 1)..(L + 1) /\ i + 1 \in 1..(L + 1) /\ (i + 1) - 1 = i
        BY <1>1, <3>5
      <4>. QED BY <4>1, <2>7, <3>3
    <3>. QED BY <3>4, <3>5, <1>1
  <2>13. Len(next) >= n
    BY <1>1, <2>3
  <2>14. /\ \A i \in DOMAIN next :
               next[i].day >= first + n => \E r \in rows : r.day = next[i].day
         /\ \A r \in rows : r.day >= first => \E i \in DOMAIN next : next[i].day = r.day
    BY <2>4, <2>11, <2>12
  <2>15. Complete(next, rows, first, n)
    BY <2>6, <2>10, <2>13, <2>14 DEF Complete
  <2>. QED BY <2>15 DEF next, day
<1>. QED BY <1>1, <1>4, <1>5

(* The activity graph is complete, for any table, day and period. *)
LEMMA GraphIsCompleteOf ==
  ASSUME NEW rows, Table(rows), NEW now \in Int, NEW period \in Nat
  PROVE  GraphIsComplete(rows, now, period)
<1>. DEFINE first == Start(now, period)
            base == WithJobs(rows, now, period)
            Step(s, n) == Completed(s, n, first + n - 1)
            F == [p \in Seq(Point) \X (1..period) |->
                    IF Step(p[1], p[2]) \in Seq(Point) THEN Step(p[1], p[2]) ELSE p[1]]
<1>1. rows \in SUBSET ReturnRow /\ IsFiniteSet(rows) /\ first \in Int
  BY DEF Table, Start
<1>2. Complete(base, rows, first, 0) /\ base \in Seq(Point)
  <2>1. Complete(base, rows, first, 0)
    BY <1>1, WithJobsIs
  <2>. HIDE DEF base, first
  <2>2. base \in Seq(Point)
    BY <2>1 DEF Complete, Series
  <2>. QED BY <2>1, <2>2
<1>. HIDE DEF first, base, Step
<1>3. F \in Steps(Seq(Point), period)
  BY DEF Steps
<1>4. PICK g \in [0..period -> Seq(Point)] :
        g[0] = base /\ \A n \in 1..period : g[n] = F[<<g[n - 1], n>>]
  <2>. HIDE DEF F
  <2>1. \E g : Stepped(g, Seq(Point), period, base, F)
    BY <1>2, <1>3, StepsExist
  <2>. QED BY <2>1 DEF Stepped
<1>5. \A n \in 1..period : g[n] = IF Step(g[n - 1], n) \in Seq(Point) THEN Step(g[n - 1], n) ELSE g[n - 1]
  <2>1. TAKE n \in 1..period
  <2>2. n - 1 \in 0..period /\ g[n - 1] \in Seq(Point)
    OBVIOUS
  <2>. QED BY <1>4, <2>2
<1>6. ASSUME NEW s, NEW n \in 1..period, Complete(s, rows, first, n - 1)
      PROVE  Complete(Step(s, n), rows, first, n) /\ Step(s, n) \in Seq(Point)
  <2>1. n \in Nat \ {0}
    OBVIOUS
  <2>2. Complete(Completed(s, n, first + n - 1), rows, first, n)
    BY <1>1, <1>6, <2>1, CompletedIs
  <2>. QED BY <2>2 DEF Step, Complete, Series
<1>7. \A n \in 1..period : g[n] = Step(g[n - 1], n)
  <2>. DEFINE S == {n \in 0..period : Complete(g[n], rows, first, n)}
  <2>1. 0 \in S
    BY <1>2, <1>4
  <2>2. ASSUME NEW n \in 1..period, n - 1 \in S PROVE n \in S
    <3>1. Complete(g[n - 1], rows, first, n - 1)
      BY <2>2
    <3>2. Complete(g[n], rows, first, n)
      BY <3>1, <1>5, <1>6
    <3>. QED BY <3>2
  <2>3. 0..period \subseteq S
    <3>. HIDE DEF S
    <3>. QED BY <2>1, <2>2, UpToN
  <2>4. TAKE n \in 1..period
  <2>5. Complete(g[n - 1], rows, first, n - 1)
    <3>1. n - 1 \in 0..period
      OBVIOUS
    <3>. QED BY <2>3, <3>1
  <2>. QED BY <1>5, <1>6, <2>5
<1>8. g = [n \in 0..period |-> IF n = 0 THEN base ELSE Step(g[n - 1], n)]
  BY <1>4, <1>7
<1>9. GraphData(rows, now, period)
        = (CHOOSE h : h = [n \in 0..period |-> IF n = 0 THEN base ELSE Step(h[n - 1], n)])[period]
  BY DEF GraphData, base, Step, first
<1>10. PICK f : f = [n \in 0..period |-> IF n = 0 THEN base ELSE Step(f[n - 1], n)]
                /\ GraphData(rows, now, period) = f[period]
  BY <1>8, <1>9
<1>. DEFINE S == {n \in 0..period : Complete(f[n], rows, first, n)}
<1>11. 0 \in S
  <2>1. f[0] = base
    BY <1>10
  <2>. QED BY <1>2, <2>1
<1>12. ASSUME NEW n \in 1..period, n - 1 \in S PROVE n \in S
  <2>1. n \in 0..period /\ n # 0
    OBVIOUS
  <2>2. f[n] = Step(f[n - 1], n)
    BY <1>10, <2>1
  <2>3. Complete(f[n - 1], rows, first, n - 1)
    BY <1>12
  <2>4. Complete(f[n], rows, first, n)
    BY <1>6, <2>2, <2>3
  <2>. QED BY <2>1, <2>4
<1>13. Complete(f[period], rows, first, period)
  <2>. HIDE DEF S
  <2>1. 0..period \subseteq S
    BY <1>11, <1>12, UpToN
  <2>2. period \in S
    BY <2>1
  <2>. QED BY <2>2 DEF S
<1>. DEFINE graph == GraphData(rows, now, period)
            days == {graph[i].day : i \in DOMAIN graph}
            covered == first..(now - 1)
<1>14. Complete(graph, rows, first, period)
  BY <1>10, <1>13
<1>15. first + period = now
  BY DEF first, Start
<1>. HIDE DEF graph
<1>16. /\ graph \in Seq(Point) /\ DOMAIN graph = 1..Len(graph) /\ Len(graph) \in Nat
       /\ Len(graph) >= period
       /\ \A i, k \in DOMAIN graph : i < k => graph[i].day < graph[k].day
       /\ \A i \in DOMAIN graph :
            /\ graph[i].day >= first
            /\ graph[i].count = CountOn(rows, graph[i].day)
            /\ graph[i].errors = ErrorsOn(rows, graph[i].day)
  BY <1>14 DEF Complete, Series
<1>17. covered \subseteq days
  <2>1. SUFFICES ASSUME NEW d \in covered PROVE d \in days
    OBVIOUS
  <2>2. d - first + 1 \in 1..period
    BY <1>1, <1>15
  <2>3. d - first + 1 \in DOMAIN graph
    BY <2>2, <1>16
  <2>4. graph[d - first + 1].day = first + (d - first + 1) - 1
    BY <2>2, <1>14 DEF Complete
  <2>5. graph[d - first + 1].day = d
    BY <2>4, <1>1
  <2>. QED BY <2>3, <2>5
<1>18. \A d \in days \ covered : d >= now /\ \E r \in rows : r.day = d
  <2>1. TAKE d \in days \ covered
  <2>2. PICK i \in DOMAIN graph : graph[i].day = d
    OBVIOUS
  <2>3. d \in Int /\ d >= first
    <3>1. graph[i] \in Point
      BY <1>16
    <3>. QED BY <1>16, <2>2, <3>1 DEF Point
  <2>4. d >= now
    BY <1>1, <2>1, <2>3
  <2>5. d >= first + period
    BY <1>15, <2>4
  <2>. QED BY <1>14, <2>2, <2>4, <2>5 DEF Complete
<1>. QED BY <1>16, <1>17, <1>18 DEF GraphIsComplete, graph, first

(* Whatever the returns, the query and the period, the pages about finished *)
(* jobs leave out nothing and count nothing twice.                          *)
THEOREM JobPagesAreRight == Asking => []JobPagesAddUp
<1>1. Allowed => JobPagesAddUp
  <2>. SUFFICES ASSUME Allowed, about = "jobs" PROVE
            /\ ListIsNewest(input.rows, input.query)
            /\ SummaryAccounts(input.rows, input.published)
            /\ DurationsAddUp(input.rows)
            /\ GraphIsComplete(input.rows, input.today, input.period)
    BY DEF JobPagesAddUp
  <2>1. AboutJobs(input)
    BY QuestionsAssumption DEF Allowed
  <2>2. Table(input.rows) /\ input.query \in Query /\ input.today \in Int /\ input.period \in Nat
    BY <2>1 DEF AboutJobs
  <2>. QED BY <2>2, ListIsNewestOf, SummaryAccountsOf, DurationsAddUpOf, GraphIsCompleteOf
<1>. QED BY <1>1, AskedAllowed, PTL

-----------------------------------------------------------------------------
(* The states of a host.                                                   *)

LEMMA HostStates ==
  ASSUME NEW states \in Seq(HostState)
  PROVE  /\ Len(states) \in Nat /\ DOMAIN states = 1..Len(states)
         /\ \A i \in 1..Len(states) :
              /\ states[i] \in HostState /\ states[i].num \in Nat
              /\ states[i].result \in Result /\ states[i].warnings \in BOOLEAN
<1>1. \A i \in 1..Len(states) : states[i] \in HostState
  OBVIOUS
<1>. QED BY <1>1 DEF HostState

(* The places of the states, in the order the states ran in: each place    *)
(* once, and the numbers of the states never fall.                         *)
IsRunOrder(places, states) ==
  /\ places \in [1..Len(states) -> 1..Len(states)]
  /\ \A i \in 1..Len(states) : \E n \in 1..Len(states) : places[n] = i
  /\ \A n, m \in 1..Len(states) :
       n < m => states[places[n]].num <= states[places[m]].num /\ places[n] # places[m]

LEMMA RunPlacesAre ==
  ASSUME NEW states \in Seq(HostState)
  PROVE  IsRunOrder(RunPlaces(states), states)
<1>. DEFINE N == Len(states)
            before == RunsBefore(states)
            places == RunPlaces(states)
<1>1. /\ N \in Nat /\ DOMAIN states = 1..N
      /\ \A i \in 1..N : states[i].num \in Nat
  BY HostStates
<1>2. \A i, k \in 1..N :
        <<i, k>> \in before <=> states[i].num < states[k].num \/ (states[i].num = states[k].num /\ i < k)
  BY <1>1 DEF RunsBefore
<1>. HIDE DEF N, before
<1>3. TotalOn(before, 1..N)
  <2>1. \A i, k \in 1..N : <<i, k>> \in before => <<k, i>> \notin before
    BY <1>1, <1>2
  <2>2. \A i, k \in 1..N : i # k => <<i, k>> \in before \/ <<k, i>> \in before
    BY <1>1, <1>2
  <2>3. ASSUME NEW i \in 1..N, NEW k \in 1..N, NEW m \in 1..N, <<i, k>> \in before, <<k, m>> \in before
        PROVE  <<i, m>> \in before
    <3>1. states[i].num \in Nat /\ states[k].num \in Nat /\ states[m].num \in Nat
      BY <1>1
    <3>. QED BY <1>2, <2>3, <3>1
  <2>. QED BY <2>1, <2>2, <2>3 DEF TotalOn
<1>4. IsFiniteSet(1..N) /\ Cardinality(1..N) = N
  BY <1>1, UpToCount
<1>5. IsOrder(places, 1..N, before)
  <2>1. IsOrder(InOrder(1..N, before), 1..N, before)
    BY <1>3, <1>4, InOrderIs
  <2>2. places = InOrder(1..N, before)
    BY <1>1 DEF RunPlaces, before
  <2>. QED BY <2>1, <2>2
<1>. HIDE DEF places
<1>6. /\ places \in [1..N -> 1..N]
      /\ \A i \in 1..N : \E n \in 1..N : places[n] = i
      /\ \A n, m \in 1..N : n < m => <<places[n], places[m]>> \in before
  BY <1>4, <1>5 DEF IsOrder
<1>7. ASSUME NEW n \in 1..N, NEW m \in 1..N, n < m
      PROVE  states[places[n]].num <= states[places[m]].num /\ places[n] # places[m]
  <2>1. places[n] \in 1..N /\ places[m] \in 1..N /\ <<places[n], places[m]>> \in before
    BY <1>6, <1>7
  <2>2. states[places[n]].num \in Nat /\ states[places[m]].num \in Nat
    BY <2>1, <1>1
  <2>3. \/ states[places[n]].num < states[places[m]].num
        \/ states[places[n]].num = states[places[m]].num /\ places[n] < places[m]
    BY <1>2, <2>1
  <2>4. places[n] # places[m]
    BY <1>3, <2>1 DEF TotalOn
  <2>. QED BY <2>2, <2>3, <2>4
<1>. QED BY <1>6, <1>7 DEF IsRunOrder, N, places

(* Put in their order, as many states have a number as before. *)
LEMMA NoneLost ==
  ASSUME NEW states \in Seq(HostState), NEW num
  PROVE  LET ran == InRunOrder(states)
         IN Cardinality({i \in DOMAIN states : ran[i].num = num})
              = Cardinality({i \in DOMAIN states : states[i].num = num})
<1>. DEFINE N == Len(states)
            places == RunPlaces(states)
            ran == InRunOrder(states)
            S == {i \in 1..N : ran[i].num = num}
            T == {i \in 1..N : states[i].num = num}
            f == [i \in S |-> places[i]]
<1>1. N \in Nat /\ DOMAIN states = 1..N
  BY HostStates
<1>2. \A i \in 1..N : ran[i] = states[places[i]]
  BY <1>1 DEF InRunOrder
<1>3. /\ places \in [1..N -> 1..N]
      /\ \A i \in 1..N : \E n \in 1..N : places[n] = i
      /\ \A n, m \in 1..N : n < m => places[n] # places[m]
  BY RunPlacesAre DEF IsRunOrder
<1>. HIDE DEF N, places, ran
<1>4. f \in [S -> T]
  BY <1>2, <1>3
<1>5. \A i, k \in S : f[i] = f[k] => i = k
  BY <1>1, <1>3
<1>6. \A t \in T : \E i \in S : f[i] = t
  <2>1. TAKE t \in T
  <2>2. PICK i \in 1..N : places[i] = t
    BY <1>3
  <2>3. ran[i].num = num
    BY <1>2, <2>2
  <2>4. i \in S /\ f[i] = t
    BY <2>2, <2>3
  <2>. QED BY <2>4
<1>7. f \in Bijection(S, T)
  BY <1>4, <1>5, <1>6 DEF Bijection, Injection, Surjection, IsInjective
<1>8. IsFiniteSet(S)
  <2>1. IsFiniteSet(1..N) /\ S \in SUBSET (1..N)
    BY <1>1, UpToCount
  <2>. HIDE DEF S
  <2>. QED BY <2>1, FS_Subset
<1>9. Cardinality(T) = Cardinality(S)
  <2>. HIDE DEF S, T, f
  <2>1. ExistsBijection(S, T)
    BY <1>7 DEF ExistsBijection
  <2>. QED BY <1>8, <2>1, FS_Bijection
<1>. QED BY <1>1, <1>9 DEF ran

(* The colour of a host is green if all its states succeeded, and only then. *)
LEMMA ColorIs ==
  ASSUME NEW states \in Seq(HostState)
  PROVE  HostColor(states) = "GREEN" <=> \A i \in DOMAIN states : states[i].result = "True"
<1>. DEFINE N == Len(states)
            places == RunPlaces(states)
            ran == InRunOrder(states)
            Color == {"GREEN", "RED", "YELLOW"}
            F == [p \in Color \X (1..N) |-> Colored(p[1], ran[p[2]])]
<1>1. /\ N \in Nat /\ DOMAIN states = 1..N
      /\ \A i \in 1..N : states[i].result \in Result
  BY HostStates
<1>2. /\ places \in [1..N -> 1..N]
      /\ \A i \in 1..N : \E n \in 1..N : places[n] = i
  BY RunPlacesAre DEF IsRunOrder
<1>3. ran = [n \in 1..N |-> states[places[n]]] /\ Len(ran) = N
  BY <1>1 DEF InRunOrder
<1>. HIDE DEF N, places, ran
<1>4. \A n \in 1..N : ran[n].result \in Result /\ ran[n] = states[places[n]]
  BY <1>1, <1>2, <1>3
<1>5. \A c \in Color : \A s : Colored(c, s) \in Color
  BY DEF Colored
<1>6. F \in Steps(Color, N)
  BY <1>5 DEF Steps
<1>7. PICK g \in [0..N -> Color] : g[0] = "GREEN" /\ \A n \in 1..N : g[n] = F[<<g[n - 1], n>>]
  <2>. HIDE DEF F
  <2>1. "GREEN" \in Color
    OBVIOUS
  <2>. HIDE DEF Color
  <2>2. \E g : Stepped(g, Color, N, "GREEN", F)
    BY <1>1, <1>6, <2>1, StepsExist
  <2>. QED BY <2>2 DEF Stepped
<1>. HIDE DEF Color
<1>8. \A n \in 1..N : g[n] = Colored(g[n - 1], ran[n])
  <2>1. TAKE n \in 1..N
  <2>2. n - 1 \in 0..N /\ g[n - 1] \in Color
    BY <1>1
  <2>. QED BY <1>7, <2>2
<1>9. g = [n \in 0..N |-> IF n = 0 THEN "GREEN" ELSE Colored(g[n - 1], ran[n])]
  BY <1>7, <1>8
<1>10. HostColor(states)
         = (CHOOSE h : h = [n \in 0..N |-> IF n = 0 THEN "GREEN" ELSE Colored(h[n - 1], ran[n])])[N]
  BY <1>3 DEF HostColor, ran
<1>11. PICK f : f = [n \in 0..N |-> IF n = 0 THEN "GREEN" ELSE Colored(f[n - 1], ran[n])]
                /\ HostColor(states) = f[N]
  BY <1>9, <1>10
<1>12. f[0] = "GREEN"
  BY <1>1, <1>11
<1>13. ASSUME NEW n \in 1..N PROVE f[n] = Colored(f[n - 1], ran[n])
  <2>1. n \in 0..N /\ n # 0
    BY <1>1
  <2>. QED BY <2>1, <1>11
<1>. DEFINE S == {n \in 0..N : f[n] = "GREEN" <=> \A m \in 1..n : ran[m].result = "True"}
<1>14. 0 \in S
  BY <1>1, <1>12
<1>15. ASSUME NEW n \in 1..N, n - 1 \in S PROVE n \in S
  <2>1. f[n - 1] = "GREEN" <=> \A m \in 1..(n - 1) : ran[m].result = "True"
    BY <1>15
  <2>2. f[n] = "GREEN" <=> f[n - 1] = "GREEN" /\ ran[n].result = "True"
    BY <1>4, <1>13 DEF Colored, Result
  <2>3. 1..n = (1..(n - 1)) \cup {n}
    BY <1>1
  <2>4. f[n] = "GREEN" <=> \A m \in 1..n : ran[m].result = "True"
    BY <2>1, <2>2, <2>3
  <2>. QED BY <1>1, <2>4
<1>16. f[N] = "GREEN" <=> \A m \in 1..N : ran[m].result = "True"
  <2>. HIDE DEF S
  <2>1. 0..N \subseteq S
    BY <1>1, <1>14, <1>15, UpToN
  <2>2. N \in S
    BY <1>1, <2>1
  <2>. QED BY <2>2 DEF S
<1>17. ASSUME \A m \in 1..N : ran[m].result = "True", NEW i \in 1..N
       PROVE  states[i].result = "True"
  BY <1>2, <1>4, <1>17
<1>18. ASSUME \A i \in 1..N : states[i].result = "True", NEW m \in 1..N
       PROVE  ran[m].result = "True"
  <2>1. places[m] \in 1..N /\ ran[m] = states[places[m]]
    BY <1>2, <1>4
  <2>. QED BY <1>18, <2>1
<1>. QED BY <1>1, <1>11, <1>16, <1>17, <1>18

(* Each state is counted under its result, and under no other. *)
LEMMA CountsAddUp ==
  ASSUME NEW states \in Seq(HostState)
  PROVE  LET counts == RCounts(states)
         IN /\ counts.True \in Nat /\ counts.False \in Nat /\ counts.None \in Nat
            /\ counts.warnings \in Nat
            /\ counts.True + counts.None + counts.False = Len(states)
<1>. DEFINE N == Len(states)
            having(result) == {i \in 1..N : states[i].result = result}
            warned == {i \in 1..N : states[i].warnings}
<1>1. /\ N \in Nat /\ DOMAIN states = 1..N
      /\ \A i \in 1..N : states[i].result \in Result
  BY HostStates
<1>2. /\ RCounts(states).True = Cardinality(having("True"))
      /\ RCounts(states).False = Cardinality(having("False"))
      /\ RCounts(states).None = Cardinality(having("None"))
      /\ RCounts(states).warnings = Cardinality(warned)
  BY <1>1 DEF RCounts
<1>3. IsFiniteSet(1..N) /\ Cardinality(1..N) = N
  BY <1>1, UpToCount
<1>4. warned \in SUBSET (1..N) /\ \A result : having(result) \in SUBSET (1..N)
  OBVIOUS
<1>5. /\ having("True") \cup having("None") \cup having("False") = 1..N
      /\ having("True") \cap having("None") = {}
      /\ (having("True") \cup having("None")) \cap having("False") = {}
  BY <1>1 DEF Result
<1>. HIDE DEF having, warned, N
<1>6. \A result : IsFiniteSet(having(result)) /\ Cardinality(having(result)) \in Nat
  BY <1>3, <1>4, FS_Subset, FS_CardinalityType
<1>7. Cardinality(warned) \in Nat
  BY <1>3, <1>4, FS_Subset, FS_CardinalityType
<1>8. /\ IsFiniteSet(having("True") \cup having("None"))
      /\ Cardinality(having("True") \cup having("None"))
           = Cardinality(having("True")) + Cardinality(having("None"))
               - Cardinality(having("True") \cap having("None"))
  BY <1>6, FS_Union
<1>9. Cardinality((having("True") \cup having("None")) \cup having("False"))
        = Cardinality(having("True") \cup having("None")) + Cardinality(having("False"))
            - Cardinality((having("True") \cup having("None")) \cap having("False"))
  BY <1>6, <1>8, FS_Union
<1>10. /\ Cardinality(having("True") \cap having("None")) = 0
       /\ Cardinality((having("True") \cup having("None")) \cap having("False")) = 0
  BY <1>5, FS_EmptySet
<1>11. Cardinality(having("True") \cup having("None"))
         = Cardinality(having("True")) + Cardinality(having("None"))
  BY <1>6, <1>8, <1>10
<1>12. N = Cardinality(having("True") \cup having("None")) + Cardinality(having("False"))
  <2>1. Cardinality(having("True") \cup having("None")) \in Nat
    BY <1>6, <1>11
  <2>2. Cardinality((having("True") \cup having("None")) \cup having("False")) = N
    BY <1>3, <1>5
  <2>. QED BY <1>6, <1>9, <1>10, <2>1, <2>2
<1>. QED BY <1>2, <1>6, <1>7, <1>11, <1>12 DEF N

(* A host is reported as changed if and only if one of its states changed something. *)
LEMMA ChangedIs ==
  ASSUME NEW states \in Seq(HostState)
  PROVE  Summary(states).changed > 0 <=> \E i \in DOMAIN states : states[i].changes # "none"
<1>. DEFINE changing == {i \in DOMAIN states : states[i].changes # "none"}
<1>1. Summary(states).changed = Cardinality(changing)
  BY DEF Summary
<1>2. changing \in SUBSET (1..Len(states)) /\ Len(states) \in Nat
  BY HostStates
<1>3. IsFiniteSet(changing)
  <2>. HIDE DEF changing
  <2>. QED BY <1>2, UpToCount, FS_Subset
<1>4. Cardinality(changing) \in Nat /\ (Cardinality(changing) = 0 <=> changing = {})
  <2>. HIDE DEF changing
  <2>. QED BY <1>3, FS_CardinalityType, FS_EmptySet
<1>. QED BY <1>1, <1>4

(* A host is shown as it is, for any sequence of states. *)
LEMMA HostsShownOf ==
  ASSUME input \in Seq(HostState)
  PROVE  HostsShown
<1>. SUFFICES ASSUME \A i \in DOMAIN input : input[i].changes # "highstate"
              PROVE
       LET host == FormatHost([kind |-> "states", of |-> input])
           sum == Summary(input)
       IN /\ host.ok
          /\ \A i, k \in DOMAIN host.ids : i < k => host.ids[i] <= host.ids[k]
          /\ \A num \in {input[i].num : i \in DOMAIN input} :
               Cardinality({i \in DOMAIN host.ids : host.ids[i] = num})
                 = Cardinality({i \in DOMAIN input : input[i].num = num})
          /\ sum.succeeded + sum.failed = Len(input) /\ sum.total = Len(input)
          /\ sum.failed = Cardinality({i \in DOMAIN input : input[i].result = "False"})
          /\ host.color = "GREEN" <=> \A i \in DOMAIN input : input[i].result = "True"
          /\ host.changed <=> \E i \in DOMAIN input : input[i].changes = "some"
  BY DEF HostsShown
<1>. DEFINE host == FormatHost([kind |-> "states", of |-> input])
            sum == Summary(input)
            ran == InRunOrder(input)
            N == Len(input)
<1>1. /\ N \in Nat /\ DOMAIN input = 1..N
      /\ \A i \in 1..N : input[i] \in HostState /\ input[i].num \in Nat
  BY HostStates
<1>2. host = [ok |-> \A i \in DOMAIN input : input[i].changes # "highstate",
              color |-> HostColor(input), changed |-> Summary(input).changed > 0,
              ids |-> [i \in DOMAIN input |-> InRunOrder(input)[i].num]]
  BY DEF FormatHost
<1>3. host.ids = [i \in 1..N |-> ran[i].num] /\ DOMAIN host.ids = 1..N
  <2>. HIDE DEF host, ran
  <2>1. host.ids = [i \in DOMAIN input |-> InRunOrder(input)[i].num]
    BY <1>2
  <2>2. host.ids = [i \in 1..N |-> ran[i].num]
    BY <1>1, <2>1 DEF ran
  <2>. HIDE DEF N
  <2>. QED BY <2>2
<1>4. /\ host.ok <=> \A i \in DOMAIN input : input[i].changes # "highstate"
      /\ host.color = HostColor(input)
      /\ host.changed <=> sum.changed > 0
  <2>. HIDE DEF host
  <2>1. host.ok = (\A i \in DOMAIN input : input[i].changes # "highstate")
    BY <1>2, Zenon
  <2>2. host.color = HostColor(input)
    BY <1>2
  <2>3. host.changed = (sum.changed > 0)
    BY <1>2, Zenon
  <2>. HIDE DEF sum
  <2>. QED BY <2>1, <2>2, <2>3, Zenon
<1>5. \A i \in 1..N : ran[i] = input[RunPlaces(input)[i]]
  BY <1>1 DEF InRunOrder
<1>. HIDE DEF host, ran, N, sum
<1>6. \A i, k \in DOMAIN host.ids : i < k => host.ids[i] <= host.ids[k]
  <2>1. \A n, m \in 1..N : n < m => input[RunPlaces(input)[n]].num <= input[RunPlaces(input)[m]].num
    BY RunPlacesAre DEF IsRunOrder, N
  <2>. QED BY <1>3, <1>5, <2>1
<1>7. \A num : Cardinality({i \in DOMAIN host.ids : host.ids[i] = num})
                 = Cardinality({i \in DOMAIN input : input[i].num = num})
  <2>1. TAKE num
  <2>2. {i \in DOMAIN host.ids : host.ids[i] = num} = {i \in DOMAIN input : ran[i].num = num}
    BY <1>1, <1>3
  <2>3. Cardinality({i \in DOMAIN input : ran[i].num = num})
          = Cardinality({i \in DOMAIN input : input[i].num = num})
    BY NoneLost DEF ran
  <2>. QED BY <2>2, <2>3
<1>8. /\ sum.succeeded + sum.failed = N /\ sum.total = N
      /\ sum.failed = RCounts(input).False
  <2>1. /\ sum.succeeded = RCounts(input).True + RCounts(input).None
        /\ sum.failed = RCounts(input).False
        /\ sum.total = RCounts(input).True + RCounts(input).False + RCounts(input).None
                         + RCounts(input).warnings - RCounts(input).warnings
    BY DEF Summary, sum
  <2>. QED BY <2>1, CountsAddUp DEF N
<1>9. RCounts(input).False = Cardinality({i \in DOMAIN input : input[i].result = "False"})
  BY DEF RCounts
<1>10. host.color = "GREEN" <=> \A i \in DOMAIN input : input[i].result = "True"
  BY <1>4, ColorIs
<1>11. host.changed <=> \E i \in DOMAIN input : input[i].changes = "some"
  <2>1. \A i \in DOMAIN input : input[i].changes # "none" <=> input[i].changes = "some"
    BY <1>1 DEF HostState
  <2>. QED BY <1>4, <2>1, ChangedIs DEF sum
<1>12. host.ok
  BY <1>4
<1>13. sum.failed = Cardinality({i \in DOMAIN input : input[i].result = "False"})
  BY <1>8, <1>9
<1>14. \A num \in {input[i].num : i \in DOMAIN input} :
         Cardinality({i \in DOMAIN host.ids : host.ids[i] = num})
           = Cardinality({i \in DOMAIN input : input[i].num = num})
  BY <1>7
<1>. QED
  BY ONLY <1>6, <1>8, <1>10, <1>11, <1>12, <1>13, <1>14, Zenon DEF host, sum, N

(* A host's states come in the order they ran in and none is left out, the *)
(* summary accounts for each, and only a host all of whose states succeeded *)
(* is green, for any sequence of states.                                    *)
THEOREM HostsAreShown == Asking => []HostsShown
<1>1. Allowed => HostsShown
  <2>1. CASE about = "host"
    BY <2>1, QuestionsAssumption, HostsShownOf DEF Allowed
  <2>2. CASE about # "host"
    BY <2>2 DEF HostsShown
  <2>. QED BY <2>1, <2>2
<1>. QED BY <1>1, AskedAllowed, PTL
-----------------------------------------------------------------------------
(* Targets: the places of a document.                                      *)

Key == [key : STRING, at : Seq(Nat)]

(* A place, and what of its last key's lists is left above its first j.     *)
Above(place, j) ==
  Append(Front(place), [key |-> Last(place).key, at |-> SubSeq(Last(place).at, 1, j)])

(* A sequence that is not empty is its front and its last. *)
LEMMA FrontLast ==
  ASSUME NEW S, NEW s \in Seq(S), s # <<>>
  PROVE  /\ Len(s) \in Nat \ {0} /\ Last(s) = s[Len(s)] /\ Last(s) \in S
         /\ Front(s) \in Seq(S) /\ Len(Front(s)) = Len(s) - 1
         /\ \A i \in 1..(Len(s) - 1) : Front(s)[i] = s[i]
         /\ s = Append(Front(s), Last(s))
<1>1. Len(s) \in Nat \ {0}
  BY EmptySeq
<1>2. Last(s) = s[Len(s)] /\ Last(s) \in S
  BY <1>1, ElementOfSeq DEF Last
<1>3. /\ Front(s) \in Seq(S) /\ Len(Front(s)) = Len(s) - 1
      /\ \A i \in 1..(Len(s) - 1) : Front(s)[i] = s[i]
  <2>1. \A i \in 1..(Len(s) - 1) : s[i] \in S
    BY <1>1, ElementOfSeq
  <2>2. /\ SubSeq(s, 1, Len(s) - 1) \in Seq(S)
        /\ Len(SubSeq(s, 1, Len(s) - 1)) = IF 1 <= Len(s) - 1 THEN Len(s) - 1 - 1 + 1 ELSE 0
        /\ \A i \in 1..(Len(s) - 1 - 1 + 1) : SubSeq(s, 1, Len(s) - 1)[i] = s[1 + i - 1]
    BY <1>1, <2>1, SubSeqProperties
  <2>3. \A i \in 1..(Len(s) - 1) : i \in 1..(Len(s) - 1 - 1 + 1) /\ s[1 + i - 1] = s[i]
    BY <1>1
  <2>4. Front(s) = SubSeq(s, 1, Len(s) - 1)
    BY DEF Front
  <2>5. Len(SubSeq(s, 1, Len(s) - 1)) = Len(s) - 1
    <3>. DEFINE n == Len(s)
                l == Len(SubSeq(s, 1, n - 1))
    <3>1. n \in Nat \ {0} /\ l = IF 1 <= n - 1 THEN n - 1 - 1 + 1 ELSE 0
      BY <1>1, <2>2
    <3>. HIDE DEF n, l
    <3>2. l = n - 1
      BY <3>1
    <3>. QED BY <3>2 DEF n, l
  <2>6. \A i \in 1..(Len(s) - 1) : SubSeq(s, 1, Len(s) - 1)[i] = s[i]
    <3>1. ASSUME NEW i \in 1..(Len(s) - 1) PROVE SubSeq(s, 1, Len(s) - 1)[i] = s[i]
      <4>1. SubSeq(s, 1, Len(s) - 1)[i] = s[1 + i - 1]
        BY <2>2, <2>3
      <4>. QED BY <4>1, <2>3
    <3>. QED BY <3>1
  <2>. QED BY <2>2, <2>4, <2>5, <2>6
<1>4. s = Append(Front(s), Last(s))
  <2>1. /\ Append(Front(s), Last(s)) \in Seq(S) /\ Len(Append(Front(s), Last(s))) = Len(s)
        /\ \A i \in 1..(Len(s) - 1) : Append(Front(s), Last(s))[i] = s[i]
        /\ Append(Front(s), Last(s))[Len(s)] = s[Len(s)]
    BY <1>1, <1>2, <1>3, AppendProperties
  <2>2. \A i \in 1..Len(s) : Append(Front(s), Last(s))[i] = s[i]
    BY <2>1, <1>1
  <2>. QED BY <2>1, <2>2, SameSeq
<1>. QED BY <1>1, <1>2, <1>3, <1>4

(* And what is appended is its last. *)
LEMMA AppendIs ==
  ASSUME NEW S, NEW s \in Seq(S), NEW e \in S
  PROVE  /\ Append(s, e) \in Seq(S) /\ Append(s, e) # <<>> /\ Len(Append(s, e)) = Len(s) + 1
         /\ Front(Append(s, e)) = s /\ Last(Append(s, e)) = e
<1>1. /\ Append(s, e) \in Seq(S) /\ Append(s, e) # <<>> /\ Len(Append(s, e)) = Len(s) + 1
      /\ Append(s, e)[Len(s) + 1] = e /\ Len(s) \in Nat
      /\ \A i \in 1..Len(s) : Append(s, e)[i] = s[i]
  BY AppendProperties, LenProperties
<1>2. Last(Append(s, e)) = e
  BY <1>1 DEF Last
<1>3. Front(Append(s, e)) = s
  <2>. DEFINE t == Append(s, e)
  <2>1. t \in Seq(S) /\ t # <<>> /\ Len(t) - 1 = Len(s) /\ \A i \in 1..Len(s) : t[i] = s[i]
    BY <1>1
  <2>. HIDE DEF t
  <2>2. /\ Front(t) \in Seq(S) /\ Len(Front(t)) = Len(t) - 1
        /\ \A i \in 1..(Len(t) - 1) : Front(t)[i] = t[i]
    BY <2>1, FrontLast
  <2>3. Len(Front(t)) = Len(s) /\ \A i \in 1..Len(s) : Front(t)[i] = s[i]
    BY <2>1, <2>2
  <2>4. Front(t) = s
    BY <2>2, <2>3, SameSeq
  <2>. QED BY <2>4 DEF t
<1>. QED BY <1>1, <1>2, <1>3

(* A place that is not the whole document ends in a key. *)
LEMMA LastKey ==
  ASSUME NEW p \in Location, p # <<>>
  PROVE  /\ Len(p) \in Nat \ {0} /\ Front(p) \in Location /\ Last(p) \in Key
         /\ Len(Front(p)) = Len(p) - 1 /\ Last(p) = p[Len(p)]
         /\ Last(p).at \in Seq(Nat) /\ Last(p).key \in STRING
         /\ Last(p) = [key |-> Last(p).key, at |-> Last(p).at]
         /\ p = Append(Front(p), Last(p))
         /\ \A i \in 1..(Len(p) - 1) : Front(p)[i] = p[i]
<1>1. p \in Seq(Key)
  BY DEF Location, Key
<1>2. Last(p) \in Key
  BY <1>1, FrontLast
<1>3. Front(p) \in Location
  BY <1>1, FrontLast DEF Location, Key
<1>. QED BY <1>1, <1>2, <1>3, FrontLast DEF Key

LEMMA ParentIs ==
  ASSUME NEW p \in Location, p # <<>>
  PROVE  Parent(p) = IF Last(p).at = <<>> THEN Front(p)
                     ELSE Append(Front(p), [key |-> Last(p).key, at |-> Front(Last(p).at)])
<1>1. CASE Last(p).at = <<>>
  BY <1>1 DEF Parent
<1>2. CASE Last(p).at # <<>>
  <2>. DEFINE k == [key |-> Last(p).key, at |-> Front(Last(p).at)]
              q == [p EXCEPT ![Len(p)].at = Front(@)]
  <2>1. Front(Last(p).at) \in Seq(Nat)
    BY <1>2, LastKey DEF Front
  <2>2. k \in Key
    BY <2>1, LastKey DEF Key
  <2>3. Append(Front(p), k) \in Seq(Key) /\ Len(Append(Front(p), k)) = Len(p)
    BY <2>2, LastKey DEF Location, Key
  <2>4. p \in Seq(Key) /\ DOMAIN p = 1..Len(p) /\ p[Len(p)] \in Key /\ Last(p) = p[Len(p)]
    BY LastKey DEF Location, Key
  <2>5. [p[Len(p)] EXCEPT !.at = Front(@)] = k
    BY <2>4 DEF Key
  <2>6. q = [i \in 1..Len(p) |-> IF i = Len(p) THEN k ELSE p[i]]
    BY <2>4, <2>5, LastKey
  <2>. HIDE DEF k, q
  <2>7. q \in Seq(Key) /\ Len(q) = Len(p)
    <3>1. [p EXCEPT ![Len(p)] = k] \in Seq(Key) /\ Len([p EXCEPT ![Len(p)] = k]) = Len(p)
      BY <2>2, <2>4, LastKey, ExceptSeq
    <3>2. [p EXCEPT ![Len(p)] = k] = q
      BY <2>4, <2>6
    <3>. QED BY <3>1, <3>2
  <2>8. \A i \in 1..Len(p) : q[i] = Append(Front(p), k)[i]
    BY <2>6, <2>3, <2>2, LastKey
  <2>9. q = Append(Front(p), k)
    BY <2>3, <2>7, <2>8, SameSeq
  <2>. QED BY <1>2, <2>9 DEF Parent, q, k
<1>. QED BY <1>1, <1>2

(* The first j elements of a sequence. *)
LEMMA FirstOf ==
  ASSUME NEW S, NEW s \in Seq(S), NEW j \in 0..Len(s)
  PROVE  /\ SubSeq(s, 1, j) \in Seq(S) /\ Len(SubSeq(s, 1, j)) = j
         /\ \A i \in 1..j : SubSeq(s, 1, j)[i] = s[i]
         /\ SubSeq(s, 1, j) = <<>> <=> j = 0
<1>1. Len(s) \in Nat /\ j \in Nat
  BY LenProperties
<1>2. \A i \in 1..j : s[i] \in S
  BY <1>1, ElementOfSeq
<1>. DEFINE t == SubSeq(s, 1, j)
<1>3. /\ t \in Seq(S) /\ Len(t) = IF 1 <= j THEN j - 1 + 1 ELSE 0
      /\ \A i \in 1..(j - 1 + 1) : t[i] = s[1 + i - 1]
  BY <1>1, <1>2, SubSeqProperties
<1>. HIDE DEF t
<1>4. Len(t) = j
  BY <1>1, <1>3
<1>5. ASSUME NEW i \in 1..j PROVE t[i] = s[i]
  <2>1. i \in 1..(j - 1 + 1) /\ 1 + i - 1 = i
    BY <1>1
  <2>. QED BY <2>1, <1>3
<1>6. t = <<>> <=> j = 0
  BY <1>1, <1>3, <1>4, EmptySeq
<1>. QED BY <1>3, <1>4, <1>5, <1>6 DEF t

LEMMA FirstOfFirst ==
  ASSUME NEW S, NEW s \in Seq(S)
  PROVE  /\ SubSeq(s, 1, Len(s)) = s
         /\ \A j \in 1..Len(s) : /\ Front(SubSeq(s, 1, j)) = SubSeq(s, 1, j - 1)
                                 /\ Last(SubSeq(s, 1, j)) = s[j]
<1>1. Len(s) \in Nat
  BY LenProperties
<1>2. SubSeq(s, 1, Len(s)) = s
  BY SubSeqFull
<1>3. ASSUME NEW j \in 1..Len(s)
      PROVE  Front(SubSeq(s, 1, j)) = SubSeq(s, 1, j - 1) /\ Last(SubSeq(s, 1, j)) = s[j]
  <2>. DEFINE t == SubSeq(s, 1, j)
              u == SubSeq(s, 1, j - 1)
  <2>1. j \in 0..Len(s) /\ j - 1 \in 0..Len(s) /\ j \in Nat \ {0}
    BY <1>1
  <2>2. t \in Seq(S) /\ Len(t) = j /\ t # <<>> /\ \A i \in 1..j : t[i] = s[i]
    BY <2>1, FirstOf
  <2>3. u \in Seq(S) /\ Len(u) = j - 1 /\ \A i \in 1..(j - 1) : u[i] = s[i]
    BY <2>1, FirstOf
  <2>. HIDE DEF t, u
  <2>4. /\ Front(t) \in Seq(S) /\ Len(Front(t)) = j - 1 /\ Last(t) = t[j]
        /\ \A i \in 1..(j - 1) : Front(t)[i] = t[i]
    BY <2>2, FrontLast
  <2>5. ASSUME NEW i \in 1..(j - 1) PROVE Front(t)[i] = u[i]
    <3>1. i \in 1..j
      BY <2>1
    <3>. QED BY <3>1, <2>2, <2>3, <2>4
  <2>6. Front(t) = u
    BY <2>3, <2>4, <2>5, SameSeq
  <2>. QED BY <2>1, <2>2, <2>4, <2>6 DEF t, u
<1>. QED BY <1>2, <1>3

(* What of a place is left without some of the lists below its last key. *)
LEMMA AboveIs ==
  ASSUME NEW p \in Location, p # <<>>
  PROVE  /\ Len(Last(p).at) \in Nat
         /\ \A j \in 0..Len(Last(p).at) :
              /\ Above(p, j) \in Location /\ Above(p, j) # <<>>
              /\ Len(Above(p, j)) = Len(p) /\ Front(Above(p, j)) = Front(p)
              /\ Last(Above(p, j)) = [key |-> Last(p).key, at |-> SubSeq(Last(p).at, 1, j)]
         /\ Above(p, 0) = Under(Front(p), Last(p).key)
         /\ Above(p, Len(Last(p).at)) = p
         /\ Parent(Above(p, 0)) = Front(p)
         /\ \A j \in 1..Len(Last(p).at) : Parent(Above(p, j)) = Above(p, j - 1)
<1>. DEFINE at == Last(p).at
            key == Last(p).key
            f == Front(p)
<1>1. /\ at \in Seq(Nat) /\ Len(at) \in Nat /\ key \in STRING /\ f \in Location
      /\ Len(f) + 1 = Len(p) /\ p = Append(f, [key |-> key, at |-> at])
  BY LastKey, LenProperties
<1>2. Above(p, 0) = Under(f, key)
  <2>1. SubSeq(at, 1, 0) = <<>>
    BY <1>1, FirstOf
  <2>. QED BY <2>1 DEF Above, Under
<1>3. Above(p, Len(at)) = p
  BY <1>1, FirstOfFirst DEF Above
<1>4. ASSUME NEW j \in 0..Len(at)
      PROVE  /\ Above(p, j) \in Location /\ Above(p, j) # <<>>
             /\ Len(Above(p, j)) = Len(p) /\ Front(Above(p, j)) = f
             /\ Last(Above(p, j)) = [key |-> key, at |-> SubSeq(at, 1, j)]
  <2>. DEFINE k == [key |-> key, at |-> SubSeq(at, 1, j)]
  <2>1. SubSeq(at, 1, j) \in Seq(Nat)
    BY <1>1, FirstOf
  <2>2. k \in Key
    BY <2>1, <1>1 DEF Key
  <2>3. Above(p, j) = Append(f, k)
    BY DEF Above
  <2>4. f \in Seq(Key)
    BY <1>1 DEF Location, Key
  <2>. HIDE DEF f, k
  <2>5. /\ Append(f, k) \in Seq(Key) /\ Append(f, k) # <<>> /\ Len(Append(f, k)) = Len(f) + 1
        /\ Front(Append(f, k)) = f /\ Last(Append(f, k)) = k
    BY <2>2, <2>4, AppendIs
  <2>. QED BY <2>3, <2>5, <1>1 DEF k, Location, Key
<1>5. Parent(Above(p, 0)) = f
  <2>1. 0 \in 0..Len(at) /\ SubSeq(at, 1, 0) = <<>>
    BY <1>1, FirstOf
  <2>2. Last(Above(p, 0)).at = <<>>
    BY <2>1, <1>4
  <2>. QED BY <2>1, <2>2, <1>4, ParentIs
<1>6. ASSUME NEW j \in 1..Len(at) PROVE Parent(Above(p, j)) = Above(p, j - 1)
  <2>0. j \in 0..Len(at) /\ j # 0
    BY <1>1
  <2>1. /\ j \in 0..Len(at) /\ SubSeq(at, 1, j) # <<>>
        /\ Front(SubSeq(at, 1, j)) = SubSeq(at, 1, j - 1)
    <3>. HIDE DEF at
    <3>1. SubSeq(at, 1, j) # <<>>
      BY <2>0, <1>1, FirstOf
    <3>2. \A i \in 1..Len(at) : Front(SubSeq(at, 1, i)) = SubSeq(at, 1, i - 1)
      BY <1>1, FirstOfFirst
    <3>. QED BY <2>0, <3>1, <3>2
  <2>2. Last(Above(p, j)).at = SubSeq(at, 1, j) /\ Last(Above(p, j)).key = key
        /\ Front(Above(p, j)) = f /\ Above(p, j) \in Location /\ Above(p, j) # <<>>
    BY <2>1, <1>4
  <2>3. Parent(Above(p, j)) = Append(f, [key |-> key, at |-> SubSeq(at, 1, j - 1)])
    BY <2>1, <2>2, ParentIs
  <2>. QED BY <2>3 DEF Above
<1>. QED BY <1>1, <1>2, <1>3, <1>4, <1>5, <1>6

(* Whatever holds a place of a document is a place of it, up to the whole. *)
LEMMA HolderIs ==
  ASSUME NEW stored, Document(stored), NEW p \in DOMAIN stored, p # <<>>
  PROVE  /\ p \in Location /\ Parent(p) \in DOMAIN stored
         /\ stored[Parent(p)].kind = IF Last(p).at = <<>> THEN "dict" ELSE "list"
BY DEF Document

LEMMA AboveIn ==
  ASSUME NEW stored, Document(stored), NEW p \in DOMAIN stored, p # <<>>
  PROVE  /\ \A j \in 0..Len(Last(p).at) : Above(p, j) \in DOMAIN stored
         /\ \A j \in 1..Len(Last(p).at) : IsList(stored, Above(p, j - 1))
         /\ Front(p) \in DOMAIN stored /\ stored[Front(p)].kind = "dict"
<1>. DEFINE m == Len(Last(p).at)
            S == {d \in 0..m : Above(p, m - d) \in DOMAIN stored}
<1>1. p \in Location /\ m \in Nat /\ Last(p).at \in Seq(Nat)
  BY HolderIs, AboveIs, LastKey
<1>2. /\ Above(p, m) = p /\ Parent(Above(p, 0)) = Front(p)
      /\ \A j \in 1..m : Parent(Above(p, j)) = Above(p, j - 1)
      /\ \A j \in 0..m : /\ Above(p, j) # <<>>
                         /\ Last(Above(p, j)) = [key |-> Last(p).key, at |-> SubSeq(Last(p).at, 1, j)]
  BY <1>1, AboveIs
<1>3. \A j \in 0..m : Last(Above(p, j)).at = <<>> <=> j = 0
  BY <1>1, <1>2, FirstOf
<1>. HIDE DEF m
<1>4. ASSUME NEW j \in 0..m, Above(p, j) \in DOMAIN stored
      PROVE  /\ Parent(Above(p, j)) \in DOMAIN stored
             /\ stored[Parent(Above(p, j))].kind = IF j = 0 THEN "dict" ELSE "list"
  <2>1. Above(p, j) # <<>> /\ Last(Above(p, j)).at = <<>> <=> j = 0
    BY <1>2, <1>3
  <2>. QED BY <1>2, <1>3, <1>4, HolderIs
<1>5. 0..m \subseteq S
  <2>1. 0 \in S
    BY <1>1, <1>2
  <2>2. ASSUME NEW d \in 1..m, d - 1 \in S PROVE d \in S
    <3>1. m - (d - 1) \in 1..m /\ m - (d - 1) \in 0..m /\ m - (d - 1) - 1 = m - d /\ d \in 0..m
      BY <1>1
    <3>2. Parent(Above(p, m - (d - 1))) \in DOMAIN stored
      BY <2>2, <3>1, <1>4
    <3>3. Parent(Above(p, m - (d - 1))) = Above(p, m - d)
      BY <3>1, <1>2
    <3>. QED BY <3>1, <3>2, <3>3
  <2>. HIDE DEF S
  <2>. QED BY <1>1, <2>1, <2>2, UpToN
<1>6. ASSUME NEW j \in 0..m PROVE Above(p, j) \in DOMAIN stored
  <2>1. m - j \in 0..m /\ m - (m - j) = j
    BY <1>1
  <2>2. m - j \in S
    BY <2>1, <1>5
  <2>. QED BY <2>1, <2>2
<1>7. ASSUME NEW j \in 1..m PROVE IsList(stored, Above(p, j - 1))
  <2>1. j \in 0..m /\ j # 0
    BY <1>1
  <2>. QED BY <2>1, <1>2, <1>4, <1>6 DEF IsList
<1>8. Front(p) \in DOMAIN stored /\ stored[Front(p)].kind = "dict"
  <2>1. 0 \in 0..m
    BY <1>1
  <2>. QED BY <2>1, <1>2, <1>4, <1>6
<1>. QED BY <1>6, <1>7, <1>8 DEF m

(* Every place on the way to a place of a document is one too. *)
LEMMA WayIn ==
  ASSUME NEW stored, Document(stored), NEW p \in DOMAIN stored
  PROVE  \A k \in 0..Len(p) : /\ SubSeq(p, 1, k) \in DOMAIN stored
                              /\ k < Len(p) => stored[SubSeq(p, 1, k)].kind = "dict"
<1>. DEFINE n == Len(p)
            S == {d \in 0..n : /\ SubSeq(p, 1, n - d) \in DOMAIN stored
                               /\ d # 0 => stored[SubSeq(p, 1, n - d)].kind = "dict"}
<1>1. p \in Seq(Key) /\ n \in Nat /\ SubSeq(p, 1, n) = p
  <2>1. p \in Seq(Key)
    BY DEF Document, Location, Key
  <2>. QED BY <2>1, LenProperties, SubSeqFull
<1>2. \A j \in 1..n : SubSeq(p, 1, j) # <<>> /\ Front(SubSeq(p, 1, j)) = SubSeq(p, 1, j - 1)
  <2>1. ASSUME NEW j \in 1..n PROVE SubSeq(p, 1, j) # <<>>
    <3>1. j \in 0..n /\ j # 0
      BY <1>1
    <3>. QED BY <3>1, <1>1, FirstOf
  <2>2. \A j \in 1..n : Front(SubSeq(p, 1, j)) = SubSeq(p, 1, j - 1)
    BY <1>1, FirstOfFirst
  <2>. QED BY <2>1, <2>2
<1>. HIDE DEF n
<1>3. 0 \in S
  <2>1. 0 \in 0..n /\ n - 0 = n
    BY <1>1
  <2>2. SubSeq(p, 1, n - 0) \in DOMAIN stored
    BY <1>1, <2>1
  <2>. QED BY <2>1, <2>2
<1>4. ASSUME NEW d \in 1..n, d - 1 \in S PROVE d \in S
  <2>. DEFINE q == SubSeq(p, 1, n - (d - 1))
  <2>1. n - (d - 1) \in 1..n /\ n - (d - 1) - 1 = n - d /\ d \in 0..n
    BY <1>1
  <2>2. q \in DOMAIN stored /\ q # <<>> /\ Front(q) = SubSeq(p, 1, n - d)
    BY <1>4, <1>2, <2>1
  <2>. HIDE DEF q
  <2>3. Front(q) \in DOMAIN stored /\ stored[Front(q)].kind = "dict"
    BY <2>2, AboveIn
  <2>. QED BY <2>1, <2>2, <2>3
<1>5. 0..n \subseteq S
  <2>. HIDE DEF S
  <2>. QED BY <1>1, <1>3, <1>4, UpToN
<1>6. ASSUME NEW k \in 0..n
      PROVE  /\ SubSeq(p, 1, k) \in DOMAIN stored
             /\ k < n => stored[SubSeq(p, 1, k)].kind = "dict"
  <2>1. n - k \in 0..n /\ n - (n - k) = k /\ (k < n => n - k # 0)
    BY <1>1
  <2>2. n - k \in S
    BY <2>1, <1>5
  <2>. QED BY <2>1, <2>2
<1>. QED BY <1>6 DEF n

(* What is found after each key of a path. *)
Walked(w, stored, path) ==
  /\ w \in [0..Len(path) -> SUBSET DOMAIN stored]
  /\ w[0] = {<<>>}
  /\ \A n \in 1..Len(path) : w[n] = Follow(stored, w[n - 1], path[n])

LEMMA WalkIs ==
  ASSUME NEW stored, Document(stored), NEW path \in Text
  PROVE  \E w : Walked(w, stored, path) /\ Walk(stored, path) = w[Len(path)]
<1>. DEFINE N == Len(path)
            Found == SUBSET DOMAIN stored
            F == [p \in Found \X (1..N) |-> Follow(stored, p[1], path[p[2]])]
<1>1. N \in Nat
  BY LenProperties DEF Text
<1>2. \A found, key : Follow(stored, found, key) \in Found
  BY DEF Follow, Holds
<1>3. F \in Steps(Found, N)
  BY <1>2 DEF Steps
<1>4. {<<>>} \in Found
  BY DEF Document
<1>5. PICK g \in [0..N -> Found] : g[0] = {<<>>} /\ \A n \in 1..N : g[n] = F[<<g[n - 1], n>>]
  <2>. HIDE DEF F, Found
  <2>1. \E g : Stepped(g, Found, N, {<<>>}, F)
    BY <1>1, <1>3, <1>4, StepsExist
  <2>. QED BY <2>1 DEF Stepped
<1>. HIDE DEF Found
<1>6. \A n \in 1..N : g[n] = Follow(stored, g[n - 1], path[n])
  <2>1. TAKE n \in 1..N
  <2>2. n - 1 \in 0..N /\ g[n - 1] \in Found
    BY <1>1
  <2>. QED BY <1>5, <2>2
<1>7. g = [n \in 0..N |-> IF n = 0 THEN {<<>>} ELSE Follow(stored, g[n - 1], path[n])]
  BY <1>5, <1>6
<1>8. Walk(stored, path)
        = (CHOOSE h : h = [n \in 0..N |-> IF n = 0 THEN {<<>>}
                                          ELSE Follow(stored, h[n - 1], path[n])])[N]
  BY DEF Walk
<1>9. PICK f : f = [n \in 0..N |-> IF n = 0 THEN {<<>>} ELSE Follow(stored, f[n - 1], path[n])]
               /\ Walk(stored, path) = f[N]
  BY <1>7, <1>8
<1>10. f[0] = {<<>>}
  BY <1>1, <1>9
<1>11. ASSUME NEW n \in 1..N PROVE f[n] = Follow(stored, f[n - 1], path[n])
  <2>1. n \in 0..N /\ n # 0
    BY <1>1
  <2>. QED BY <2>1, <1>9
<1>12. f \in [0..N -> Found]
  BY <1>2, <1>4, <1>9
<1>. QED BY <1>9, <1>10, <1>11, <1>12 DEF Walked, Found

(* A shorter path leads to what is found on the way of the longer. *)
LEMMA WalkedPart ==
  ASSUME NEW stored, Document(stored), NEW path \in Text, NEW w, Walked(w, stored, path),
         NEW k \in 0..Len(path)
  PROVE  Walk(stored, SubSeq(path, 1, k)) = w[k]
<1>. DEFINE part == SubSeq(path, 1, k)
<1>1. Len(path) \in Nat /\ k \in Nat
  <2>1. Len(path) \in Nat
    BY LenProperties DEF Text
  <2>. QED BY <2>1
<1>2. part \in Text /\ Len(part) = k /\ \A i \in 1..k : part[i] = path[i]
  BY FirstOf DEF Text
<1>3. PICK v : Walked(v, stored, part) /\ Walk(stored, part) = v[Len(part)]
  BY <1>2, WalkIs
<1>. HIDE DEF part
<1>. DEFINE S == {n \in 0..k : v[n] = w[n]}
<1>4. 0 \in S
  <2>1. v[0] = {<<>>} /\ w[0] = {<<>>}
    BY <1>3 DEF Walked
  <2>2. 0 \in 0..k /\ v[0] = w[0]
    BY <2>1, <1>1
  <2>. QED BY <2>2
<1>5. ASSUME NEW n \in 1..k, n - 1 \in S PROVE n \in S
  <2>1. n \in 1..Len(path) /\ n \in 1..Len(part) /\ n \in 0..k
    BY <1>1, <1>2
  <2>2. v[n] = Follow(stored, v[n - 1], part[n]) /\ w[n] = Follow(stored, w[n - 1], path[n])
    BY <2>1, <1>3 DEF Walked
  <2>. QED BY <2>1, <2>2, <1>2, <1>5
<1>6. k \in S
  <2>. HIDE DEF S
  <2>1. 0..k \subseteq S
    BY <1>1, <1>4, <1>5, UpToN
  <2>. QED BY <2>1, <1>1
<1>. QED BY <1>2, <1>3, <1>6 DEF part

(* What is found is named by the keys it was found by, whatever lists stand   *)
(* on the way; and it is found at the key itself.                             *)
LEMMA FoundByKeys ==
  ASSUME NEW stored, Document(stored), NEW path \in Text, NEW w, Walked(w, stored, path),
         NEW n \in 1..Len(path), NEW place \in w[n]
  PROVE  /\ place \in DOMAIN stored \ {<<>>} /\ KeysOf(place) = SubSeq(path, 1, n)
         /\ Last(place).at = <<>>
<1>1. Len(path) \in Nat /\ path \in Seq(STRING)
  BY LenProperties DEF Text
<1>2. DOMAIN stored \subseteq Location
  BY DEF Document
<1>. DEFINE Named(m) == \A p \in w[m] : Len(p) = m /\ \A i \in 1..m : p[i].key = path[i]
            S == {m \in 0..Len(path) : Named(m)}
<1>3. 0 \in S
  <2>1. \A p \in w[0] : p = <<>>
    BY DEF Walked
  <2>. QED BY <1>1, <2>1
<1>4. ASSUME NEW m \in 1..Len(path), NEW q \in w[m]
      PROVE  \E p \in Searched(stored, w[m - 1]) :
                /\ p \in DOMAIN stored /\ stored[p].kind = "dict"
                /\ q = Under(p, path[m]) /\ q \in DOMAIN stored
  <2>1. w[m] = Follow(stored, w[m - 1], path[m]) /\ w[m - 1] \in SUBSET DOMAIN stored
    <3>1. m - 1 \in 0..Len(path)
      BY <1>1
    <3>. QED BY <3>1 DEF Walked
  <2>2. Searched(stored, w[m - 1]) \subseteq DOMAIN stored
    BY <2>1 DEF Searched, Members
  <2>. QED BY <2>1, <2>2 DEF Follow, Holds
<1>5. ASSUME NEW m \in 1..Len(path), NEW p \in DOMAIN stored
      PROVE  /\ Under(p, path[m]) \in Location /\ Under(p, path[m]) # <<>>
             /\ Len(Under(p, path[m])) = Len(p) + 1 /\ Last(Under(p, path[m])).at = <<>>
             /\ \A i \in 1..Len(p) : Under(p, path[m])[i] = p[i]
             /\ Under(p, path[m])[Len(p) + 1].key = path[m]
  <2>. DEFINE k == [key |-> path[m], at |-> <<>>]
  <2>1. k \in Key
    BY <1>1, ElementOfSeq DEF Key
  <2>2. p \in Seq(Key)
    BY <1>2 DEF Location, Key
  <2>3. k.key = path[m] /\ k.at = <<>>
    OBVIOUS
  <2>. HIDE DEF k
  <2>4. /\ Append(p, k) \in Seq(Key) /\ Append(p, k) # <<>> /\ Len(Append(p, k)) = Len(p) + 1
        /\ Last(Append(p, k)) = k /\ \A i \in 1..Len(p) : Append(p, k)[i] = p[i]
        /\ Append(p, k)[Len(p) + 1] = k
    BY <2>1, <2>2, AppendIs, AppendProperties
  <2>5. Under(p, path[m]) = Append(p, k)
    BY DEF Under, k
  <2>. QED BY <2>3, <2>4, <2>5 DEF Location, Key
<1>6. ASSUME NEW m \in 1..Len(path), Named(m - 1), NEW p \in Searched(stored, w[m - 1])
      PROVE  p \in DOMAIN stored /\ Len(p) = m - 1 /\ \A i \in 1..(m - 1) : p[i].key = path[i]
  <2>1. m - 1 \in 0..Len(path) /\ w[m - 1] \subseteq DOMAIN stored
    BY <1>1 DEF Walked
  <2>2. CASE p \in w[m - 1]
    BY <1>6, <2>1, <2>2
  <2>3. CASE p \notin w[m - 1]
    <3>1. PICK l \in w[m - 1] : p \in Members(stored, l) /\ IsList(stored, l)
      BY <2>3, <1>6 DEF Searched
    <3>2. p \in DOMAIN stored /\ p # <<>> /\ Parent(p) = l /\ p \in Location
      BY <3>1, <1>2 DEF Members
    <3>3. Last(p).at # <<>>
      BY <3>1, <3>2, HolderIs DEF IsList
    <3>. DEFINE k == [key |-> Last(p).key, at |-> Front(Last(p).at)]
    <3>4. l = Append(Front(p), k)
      BY <3>2, <3>3, ParentIs
    <3>5. k \in Key /\ Front(p) \in Seq(Key) /\ p \in Seq(Key) /\ Last(p) = p[Len(p)]
          /\ Len(p) \in Nat \ {0} /\ Len(Front(p)) = Len(p) - 1
          /\ \A i \in 1..(Len(p) - 1) : Front(p)[i] = p[i]
      <4>1. Last(p).at \in Seq(Nat) /\ Last(p).key \in STRING
        BY <3>2, LastKey
      <4>2. Front(Last(p).at) \in Seq(Nat)
        BY <4>1, <3>3, FrontLast
      <4>. QED BY <4>1, <4>2, <3>2, LastKey DEF Location, Key
    <3>6. k.key = p[Len(p)].key
      BY <3>5
    <3>. HIDE DEF k
    <3>7. Len(l) = Len(p) /\ l[Len(p)] = k /\ \A i \in 1..(Len(p) - 1) : l[i] = p[i]
      <4>1. /\ Len(l) = Len(Front(p)) + 1 /\ l[Len(Front(p)) + 1] = k
            /\ \A i \in 1..Len(Front(p)) : l[i] = Front(p)[i]
        BY <3>4, <3>5, AppendProperties
      <4>. QED BY <4>1, <3>5
    <3>8. Len(l) = m - 1 /\ \A i \in 1..(m - 1) : l[i].key = path[i]
      BY <1>6, <3>1
    <3>9. ASSUME NEW i \in 1..(m - 1) PROVE p[i].key = path[i]
      <4>1. CASE i = Len(p)
        BY <4>1, <3>6, <3>7, <3>8
      <4>2. CASE i # Len(p)
        <5>1. i \in 1..(Len(p) - 1)
          BY <4>2, <3>5, <3>7, <3>8, <1>1
        <5>. QED BY <5>1, <3>7, <3>8
      <4>. QED BY <4>1, <4>2
    <3>. QED BY <3>2, <3>7, <3>8, <3>9
  <2>. QED BY <2>2, <2>3
<1>7. ASSUME NEW m \in 1..Len(path), m - 1 \in S PROVE m \in S
  <2>0. m \in 0..Len(path) /\ m \in Nat /\ m - 1 + 1 = m
    BY <1>1
  <2>. SUFFICES ASSUME NEW q \in w[m] PROVE Len(q) = m /\ \A i \in 1..m : q[i].key = path[i]
    BY <2>0
  <2>1. PICK p \in Searched(stored, w[m - 1]) : p \in DOMAIN stored /\ q = Under(p, path[m])
    BY <1>4
  <2>2. Len(p) = m - 1 /\ \A i \in 1..(m - 1) : p[i].key = path[i]
    BY <2>1, <1>6, <1>7
  <2>3. /\ Len(q) = m /\ \A i \in 1..(m - 1) : q[i] = p[i]
        /\ q[m].key = path[m]
    BY <2>0, <2>1, <2>2, <1>5
  <2>4. ASSUME NEW i \in 1..m PROVE q[i].key = path[i]
    <3>1. i = m \/ i \in 1..(m - 1)
      BY <2>0
    <3>. QED BY <3>1, <2>2, <2>3
  <2>. QED BY <2>3, <2>4
<1>8. Named(n)
  <2>1. 0..Len(path) \subseteq S
    <3>. HIDE DEF S
    <3>. QED BY <1>1, <1>3, <1>7, UpToN
  <2>2. n \in 0..Len(path)
    BY <1>1
  <2>. QED BY <2>1, <2>2
<1>9. place \in DOMAIN stored \ {<<>>} /\ Last(place).at = <<>>
  BY <1>4, <1>5
<1>10. KeysOf(place) = SubSeq(path, 1, n)
  <2>1. n \in 0..Len(path) /\ n \in Nat
    BY <1>1
  <2>2. /\ SubSeq(path, 1, n) \in Seq(STRING) /\ Len(SubSeq(path, 1, n)) = n
        /\ \A i \in 1..n : SubSeq(path, 1, n)[i] = path[i]
    BY <1>1, <2>1, FirstOf
  <2>3. SubSeq(path, 1, n) = [i \in 1..n |-> path[i]]
    BY <2>2, LenProperties
  <2>4. DOMAIN place = 1..n /\ \A i \in 1..n : place[i].key = path[i]
    <3>1. place \in Seq(Key)
      BY <1>2, <1>9 DEF Location, Key
    <3>. QED BY <3>1, <1>8, LenProperties
  <2>. QED BY <2>3, <2>4 DEF KeysOf
<1>. QED BY <1>9, <1>10

(* A walk that has come to the keys of a place has found what stands under    *)
(* the last of them, or it has stood before a list in a list.                 *)
LEMMA FoundOrStopped ==
  ASSUME NEW stored, Document(stored), NEW path \in Text, NEW w, Walked(w, stored, path),
         NEW q \in DOMAIN stored, NEW n \in 1..Len(path), KeysOf(q) = SubSeq(path, 1, n)
  PROVE  /\ q # <<>> /\ Len(q) = n
         /\ \/ Above(q, 0) \in w[n]
            \/ \E i \in 1..(n - 1) : \E place \in Searched(stored, w[i]) : IsList(stored, place)
<1>. DEFINE Q(k) == SubSeq(q, 1, k)
            A(k) == Above(Q(k), 0)
            Barred(k) == \E i \in 1..(k - 1) :
                           \E place \in Searched(stored, w[i]) : IsList(stored, place)
            S == {d \in 0..(n - 1) : A(d + 1) \in w[d + 1] \/ Barred(d + 1)}
<1>1. Len(path) \in Nat /\ path \in Seq(STRING) /\ n \in Nat \ {0} /\ n \in 0..Len(path)
  <2>1. Len(path) \in Nat
    BY LenProperties DEF Text
  <2>. QED BY <2>1 DEF Text
<1>2. q \in Seq(Key) /\ q \in Location
  BY DEF Document, Location, Key
<1>3. Len(q) = n /\ \A i \in 1..n : q[i].key = path[i]
  <2>1. Len(SubSeq(path, 1, n)) = n /\ SubSeq(path, 1, n) \in Seq(STRING)
        /\ \A i \in 1..n : SubSeq(path, 1, n)[i] = path[i]
    BY <1>1, FirstOf
  <2>2. DOMAIN SubSeq(path, 1, n) = 1..n
    BY <2>1, LenProperties
  <2>3. DOMAIN q = 1..Len(q) /\ Len(q) \in Nat
    BY <1>2, LenProperties
  <2>4. DOMAIN KeysOf(q) = DOMAIN q /\ \A i \in DOMAIN q : KeysOf(q)[i] = q[i].key
    BY DEF KeysOf
  <2>5. 1..Len(q) = 1..n
    BY <2>2, <2>3, <2>4
  <2>6. Len(q) = n
    <3>. DEFINE l == Len(q)
    <3>1. l \in Nat /\ 1..l = 1..n
      BY <2>3, <2>5
    <3>. HIDE DEF l
    <3>2. n \in 1..n /\ n + 1 \notin 1..n /\ n \in Nat
      BY <1>1
    <3>3. n \in 1..l /\ n + 1 \notin 1..l
      BY <3>1, <3>2
    <3>4. l = n
      BY <3>1, <3>2, <3>3
    <3>. QED BY <3>4 DEF l
  <2>. QED BY <2>1, <2>3, <2>4, <2>6
<1>4. ASSUME NEW k \in 1..n
      PROVE  /\ Q(k) \in DOMAIN stored /\ Q(k) # <<>> /\ Q(k) \in Location
             /\ Front(Q(k)) = Q(k - 1) /\ Last(Q(k)) = q[k]
             /\ Q(k - 1) \in DOMAIN stored /\ stored[Q(k - 1)].kind = "dict"
  <2>1. k \in 0..n /\ k # 0 /\ k - 1 \in 0..n /\ k - 1 < n
    BY <1>1
  <2>2. Q(k) # <<>>
    BY <2>1, <1>2, <1>3, FirstOf
  <2>3. Front(Q(k)) = Q(k - 1) /\ Last(Q(k)) = q[k]
    BY <1>2, <1>3, FirstOfFirst
  <2>4. Q(k) \in DOMAIN stored /\ Q(k - 1) \in DOMAIN stored /\ stored[Q(k - 1)].kind = "dict"
    BY <2>1, <1>3, WayIn
  <2>. QED BY <2>2, <2>3, <2>4 DEF Document
<1>5. ASSUME NEW k \in 1..n
      PROVE  /\ A(k) = Under(Q(k - 1), path[k]) /\ A(k) \in DOMAIN stored
             /\ Holds(stored, Q(k - 1), path[k])
  <2>1. A(k) = Under(Q(k - 1), path[k])
    <3>1. /\ Q(k) \in Location /\ Q(k) # <<>> /\ Front(Q(k)) = Q(k - 1)
          /\ Last(Q(k)).key = path[k]
      BY <1>3, <1>4
    <3>. HIDE DEF Q
    <3>2. Above(Q(k), 0) = Under(Front(Q(k)), Last(Q(k)).key)
      BY <3>1, AboveIs
    <3>. QED BY <3>1, <3>2
  <2>2. A(k) \in DOMAIN stored
    <3>. HIDE DEF Q
    <3>1. Len(Last(Q(k)).at) \in Nat
      BY <1>4, AboveIs
    <3>2. 0 \in 0..Len(Last(Q(k)).at)
      BY <3>1
    <3>. QED BY <3>2, <1>4, AboveIn
  <2>. QED BY <2>1, <2>2, <1>4 DEF Holds
<1>6. ASSUME NEW k \in 1..n, NEW j, j = k - 1, Q(j) \in Searched(stored, w[j])
      PROVE  A(k) \in w[k]
  <2>1. w[k] = Follow(stored, w[k - 1], path[k])
    <3>1. k \in 1..Len(path)
      BY <1>1
    <3>. QED BY <3>1 DEF Walked
  <2>2. A(k) = Under(Q(k - 1), path[k]) /\ Holds(stored, Q(k - 1), path[k])
    BY <1>5
  <2>3. Q(k - 1) \in Searched(stored, w[k - 1])
    BY <1>6
  <2>. HIDE DEF A, Q
  <2>. QED BY <2>1, <2>2, <2>3 DEF Follow
<1>7. A(1) \in w[1]
  <2>1. w[0] = {<<>>}
    BY DEF Walked
  <2>2. 1 \in 1..n /\ 0 \in 0..Len(q) /\ 0 = 1 - 1
    BY <1>1, <1>3
  <2>3. Q(0) = <<>>
    BY <2>2, <1>2, FirstOf
  <2>4. Q(0) \in Searched(stored, w[0])
    <3>1. ~IsList(stored, <<>>)
      BY DEF Document, IsList
    <3>. QED BY <2>1, <2>3, <3>1 DEF Searched
  <2>. HIDE DEF A, Q
  <2>. QED BY <2>2, <2>4, <1>6
<1>8. ASSUME NEW k \in 1..(n - 1), A(k) \in w[k]
      PROVE  A(k + 1) \in w[k + 1] \/ Barred(k + 1)
  <2>1. k \in 1..n /\ k + 1 \in 1..n /\ k + 1 - 1 = k /\ k \in 1..(k + 1 - 1)
    BY <1>1
  <2>. DEFINE m == Len(Last(Q(k)).at)
  <2>2. /\ m \in Nat /\ Above(Q(k), m) = Q(k)
        /\ \A j \in 0..m : Above(Q(k), j) # <<>>
        /\ \A j \in 1..m : Parent(Above(Q(k), j)) = Above(Q(k), j - 1)
    BY <2>1, <1>4, AboveIs
  <2>3. /\ \A j \in 0..m : Above(Q(k), j) \in DOMAIN stored
        /\ \A j \in 1..m : IsList(stored, Above(Q(k), j - 1))
    BY <2>1, <1>4, AboveIn
  <2>4. stored[Q(k)].kind = "dict"
    <3>. HIDE DEF Q
    <3>1. \A i \in 1..n : stored[Q(i - 1)].kind = "dict"
      BY <1>4
    <3>. DEFINE i == k + 1
    <3>2. i \in 1..n /\ i - 1 = k
      BY <2>1
    <3>. HIDE DEF i
    <3>. QED BY <3>1, <3>2
  <2>0. ASSUME Q(k) \in Searched(stored, w[k]) PROVE A(k + 1) \in w[k + 1]
    <3>. HIDE DEF A, Q
    <3>1. k + 1 \in 1..n /\ k = k + 1 - 1
      BY <2>1
    <3>. QED BY <3>1, <2>0, <1>6
  <2>. SUFFICES ASSUME ~Barred(k + 1) PROVE A(k + 1) \in w[k + 1]
    OBVIOUS
  <2>5. \A place \in Searched(stored, w[k]) : ~IsList(stored, place)
    BY <2>1
  <2>. HIDE DEF Barred, m
  <2>6. CASE m = 0
    <3>1. Q(k) = A(k)
      BY <2>2, <2>6
    <3>2. Q(k) \in Searched(stored, w[k])
      <4>1. ~IsList(stored, Q(k))
        BY <2>4 DEF IsList
      <4>. QED BY <4>1, <3>1, <1>8 DEF Searched
    <3>. QED BY <3>2, <2>0
  <2>7. CASE m # 0
    <3>1. IsList(stored, A(k))
      <4>1. 1 \in 1..m /\ 1 - 1 = 0
        BY <2>2, <2>7
      <4>. QED BY <4>1, <2>3
    <3>2. w[k] = {A(k)}
      <4>1. A(k) \notin Searched(stored, w[k])
        BY <3>1, <2>5
      <4>. QED BY <4>1, <1>8 DEF Searched
    <3>3. Above(Q(k), 1) \in Searched(stored, w[k])
      <4>1. 1 \in 0..m /\ 1 \in 1..m /\ 1 - 1 = 0
        BY <2>2, <2>7
      <4>2. Above(Q(k), 1) \in Members(stored, A(k))
        BY <4>1, <2>2, <2>3 DEF Members
      <4>. QED BY <4>2, <3>1, <3>2 DEF Searched
    <3>4. m = 1
      <4>. SUFFICES ASSUME m # 1 PROVE FALSE
        OBVIOUS
      <4>1. 2 \in 1..m /\ 2 - 1 = 1
        BY <2>2, <2>7
      <4>2. IsList(stored, Above(Q(k), 1))
        BY <4>1, <2>3
      <4>. QED BY <4>2, <3>3, <2>5
    <3>5. Q(k) \in Searched(stored, w[k])
      BY <2>2, <3>3, <3>4
    <3>. QED BY <3>5, <2>0
  <2>. QED BY <2>6, <2>7
<1>9. 0 \in S
  <2>1. 0 \in 0..(n - 1) /\ 0 + 1 = 1
    BY <1>1
  <2>. QED BY <2>1, <1>7
<1>10. ASSUME NEW d \in 1..(n - 1), d - 1 \in S PROVE d \in S
  <2>1. d \in 0..(n - 1) /\ d - 1 + 1 = d
    BY <1>1
  <2>2. A(d) \in w[d] \/ Barred(d)
    BY <2>1, <1>10
  <2>3. Barred(d) => Barred(d + 1)
    <3>1. \A i \in 1..(d - 1) : i \in 1..(d + 1 - 1)
      BY <1>1
    <3>. QED BY <3>1
  <2>. QED BY <2>1, <2>2, <2>3, <1>8
<1>11. n - 1 \in S
  <2>. HIDE DEF S
  <2>1. n - 1 \in Nat
    BY <1>1
  <2>2. 0..(n - 1) \subseteq S
    BY <2>1, <1>9, <1>10, UpToN
  <2>. QED BY <2>1, <2>2
<1>12. Q(n) = q
  BY <1>2, <1>3, SubSeqFull
<1>13. A(n) \in w[n] \/ Barred(n)
  <2>1. n - 1 + 1 = n
    BY <1>1
  <2>. QED BY <2>1, <1>11
<1>14. q # <<>>
  <2>1. n \in 1..n
    BY <1>1
  <2>. QED BY <2>1, <1>4, <1>12
<1>. QED BY <1>3, <1>12, <1>13, <1>14

(* A value of a list is named by the keys that name the list. *)
LEMMA InListsByKeys ==
  ASSUME NEW place \in Location, place # <<>>, NEW p \in Location, p # <<>>, InLists(place, p)
  PROVE  KeysOf(p) = KeysOf(place)
<1>1. /\ Len(p) = Len(place) /\ Front(p) = Front(place) /\ Last(p).key = Last(place).key
  BY DEF InLists
<1>2. /\ Len(p) \in Nat \ {0} /\ Last(p) = p[Len(p)]
      /\ \A i \in 1..(Len(p) - 1) : Front(p)[i] = p[i]
  BY LastKey
<1>3. /\ Last(place) = place[Len(place)]
      /\ \A i \in 1..(Len(place) - 1) : Front(place)[i] = place[i]
  BY LastKey
<1>4. DOMAIN p = 1..Len(p) /\ DOMAIN place = 1..Len(p)
  BY <1>1, LenProperties DEF Location
<1>5. ASSUME NEW i \in 1..Len(p) PROVE p[i].key = place[i].key
  <2>1. CASE i = Len(p)
    BY <2>1, <1>1, <1>2, <1>3
  <2>2. CASE i # Len(p)
    <3>1. i \in 1..(Len(p) - 1)
      BY <2>2, <1>2
    <3>. QED BY <3>1, <1>1, <1>2, <1>3
  <2>. QED BY <2>1, <2>2
<1>. QED BY <1>4, <1>5 DEF KeysOf

(* Every value below a key's lists is one of the lists at the key. *)
LEMMA InAbove ==
  ASSUME NEW q \in Location, q # <<>>
  PROVE  InLists(Above(q, 0), q)
<1>. DEFINE a == Above(q, 0)
<1>1. Len(Last(q).at) \in Nat /\ Last(q).at \in Seq(Nat)
  BY LastKey, AboveIs
<1>2. 0 \in 0..Len(Last(q).at)
  BY <1>1
<1>3. SubSeq(Last(q).at, 1, 0) = <<>>
  BY <1>1, <1>2, FirstOf
<1>4. /\ Len(a) = Len(q) /\ Front(a) = Front(q)
      /\ Last(a) = [key |-> Last(q).key, at |-> <<>>]
  BY <1>2, <1>3, AboveIs
<1>. HIDE DEF a
<1>5. IsPrefix(<<>>, Last(q).at)
  <2>. DEFINE t == Last(q).at
  <2>1. t \in Seq(Nat) /\ Len(t) \in Nat /\ 0 \in 0..Len(t)
    BY <1>1, <1>2
  <2>. HIDE DEF t
  <2>2. SubSeq(t, 1, 0) = <<>>
    BY <2>1, FirstOf
  <2>3. SubSeq(<<>>, 1, Len(<<>>)) = <<>> /\ Len(<<>>) = 0
    BY EmptySeq, SubSeqFull
  <2>4. IsPrefix(<<>>, t)
    BY <2>1, <2>2, <2>3 DEF IsPrefix
  <2>. QED BY <2>4 DEF t
<1>6. InLists(a, q)
  <2>1. Last(a).key = Last(q).key /\ Last(a).at = <<>>
    BY <1>4
  <2>. QED BY <2>1, <1>4, <1>5 DEF InLists
<1>. QED BY <1>6 DEF a

(* The first key is looked up in the mapping that is stored. *)
LEMMA FirstKey ==
  ASSUME NEW stored, Document(stored), NEW path \in Text, Len(path) = 1
  PROVE  Walk(stored, path) = {p \in DOMAIN stored : p = Under(<<>>, path[1])}
<1>1. PICK w : Walked(w, stored, path) /\ Walk(stored, path) = w[1]
  BY WalkIs
<1>2. w[0] = {<<>>} /\ w[1] = Follow(stored, w[0], path[1])
  <2>1. 1 \in 1..1 /\ 1 - 1 = 0
    OBVIOUS
  <2>2. w[0] = {<<>>} /\ \A n \in 1..1 : w[n] = Follow(stored, w[n - 1], path[n])
    BY <1>1 DEF Walked
  <2>3. w[1] = Follow(stored, w[1 - 1], path[1])
    BY <2>1, <2>2
  <2>. QED BY <2>1, <2>2, <2>3
<1>3. stored[<<>>].kind = "dict"
  BY DEF Document
<1>4. Searched(stored, {<<>>}) = {<<>>}
  BY <1>3 DEF Searched, IsList
<1>. QED BY <1>1, <1>2, <1>3, <1>4 DEF Follow, Holds

(* What is matched is what the expression names: _walk goes through no other  *)
(* keys, whatever lists it passes.                                            *)
LEMMA MatchedIsSelected ==
  ASSUME NEW stored, Document(stored), NEW expression \in Text,
         SubdictMatch(stored, expression)
  PROVE  Selects(stored, expression)
<1>1. Len(expression) \in Nat /\ expression \in Seq(STRING)
  BY LenProperties DEF Text
<1>2. expression # <<>>
  BY DEF SubdictMatch
<1>3. CASE Len(expression) = 1
  <2>1. PICK place \in Walk(stored, expression) : ~Empty(stored, place)
    BY <1>2, <1>3 DEF SubdictMatch
  <2>2. place \in DOMAIN stored /\ place = Under(<<>>, expression[1])
    BY <2>1, <1>3, FirstKey
  <2>. QED BY <2>1, <2>2, <1>3 DEF Selects
<1>4. CASE Len(expression) # 1
  <2>0. PICK split \in 1..(Len(expression) - 1) :
          \E p \in Values(stored, Walk(stored, SubSeq(expression, 1, split))) :
            ValueMatches(stored[p], SubSeq(expression, split + 1, Len(expression)))
    BY <1>2, <1>4 DEF SubdictMatch
  <2>1. PICK p \in Values(stored, Walk(stored, SubSeq(expression, 1, split))) :
          ValueMatches(stored[p], SubSeq(expression, split + 1, Len(expression)))
    BY <2>0
  <2>2. PICK w : Walked(w, stored, expression)
    BY WalkIs
  <2>3. split \in 0..Len(expression) /\ split \in 1..Len(expression)
    BY <1>1
  <2>4. Walk(stored, SubSeq(expression, 1, split)) = w[split]
    BY <2>2, <2>3, WalkedPart
  <2>5. PICK place \in w[split] : InLists(place, p)
    BY <2>1, <2>4 DEF Values
  <2>6. p \in DOMAIN stored /\ p # <<>> /\ ~IsList(stored, p)
    BY <2>1 DEF Values
  <2>7. place \in DOMAIN stored /\ place # <<>>
        /\ KeysOf(place) = SubSeq(expression, 1, split)
    BY <2>2, <2>3, <2>5, FoundByKeys
  <2>8. KeysOf(p) = SubSeq(expression, 1, split)
    BY <2>5, <2>6, <2>7, InListsByKeys DEF Document
  <2>. QED BY <2>1, <2>6, <2>8, <1>4 DEF Selects
<1>. QED BY <1>3, <1>4

(* And what it names is matched, or stands behind a list in a list. *)
LEMMA SelectedIsMatched ==
  ASSUME NEW stored, Document(stored), NEW expression \in Text,
         Selects(stored, expression)
  PROVE  SubdictMatch(stored, expression) \/ Stopped(stored, expression)
<1>1. Len(expression) \in Nat /\ expression \in Seq(STRING)
  BY LenProperties DEF Text
<1>2. CASE Len(expression) = 1
  <2>1. PICK place \in DOMAIN stored :
               place = Under(<<>>, expression[1]) /\ ~Empty(stored, place)
    BY <1>2 DEF Selects
  <2>2. place \in Walk(stored, expression)
    BY <2>1, <1>2, FirstKey
  <2>3. expression # <<>>
    BY <1>2
  <2>. QED BY <2>1, <2>2, <2>3, <1>2 DEF SubdictMatch
<1>3. CASE Len(expression) # 1
  <2>1. PICK place \in DOMAIN stored, split \in 1..(Len(expression) - 1) :
          /\ ~IsList(stored, place)
          /\ KeysOf(place) = SubSeq(expression, 1, split)
          /\ ValueMatches(stored[place], SubSeq(expression, split + 1, Len(expression)))
    BY <1>3 DEF Selects
  <2>2. PICK w : Walked(w, stored, expression)
    BY WalkIs
  <2>3. split \in 0..Len(expression) /\ split \in 1..Len(expression) /\ expression # <<>>
    <3>1. expression # <<>>
      BY <1>1, <2>1
    <3>. QED BY <1>1, <3>1
  <2>4. \A i \in 0..Len(expression) : Walk(stored, SubSeq(expression, 1, i)) = w[i]
    BY <2>2, WalkedPart
  <2>5. place # <<>> /\ Len(place) = split
        /\ \/ Above(place, 0) \in w[split]
           \/ \E i \in 1..(split - 1) : \E p \in Searched(stored, w[i]) : IsList(stored, p)
    BY <2>1, <2>2, <2>3, FoundOrStopped
  <2>6. CASE Above(place, 0) \in w[split]
    <3>1. place \in Location
      BY DEF Document
    <3>2. InLists(Above(place, 0), place)
      BY <3>1, <2>5, InAbove
    <3>3. place \in Values(stored, w[split])
      BY <2>1, <2>5, <2>6, <3>2 DEF Values
    <3>4. place \in Values(stored, Walk(stored, SubSeq(expression, 1, split)))
      BY <2>3, <2>4, <3>3
    <3>. QED BY <3>4, <2>1, <2>3, <1>3 DEF SubdictMatch
  <2>7. CASE \E i \in 1..(split - 1) : \E p \in Searched(stored, w[i]) : IsList(stored, p)
    <3>1. PICK i \in 1..(split - 1) : \E p \in Searched(stored, w[i]) : IsList(stored, p)
      BY <2>7
    <3>2. i \in 1..(Len(expression) - 2) /\ i \in 0..Len(expression)
      BY <1>1
    <3>3. Walk(stored, SubSeq(expression, 1, i)) = w[i]
      BY <2>4, <3>2
    <3>. QED BY <3>1, <3>2, <3>3 DEF Stopped
  <2>. QED BY <2>5, <2>6, <2>7
<1>. QED BY <1>2, <1>3

(* A minion is hit by what an expression says of it, and by nothing else. *)
LEMMA HitIsSaid ==
  ASSUME NEW preview, AboutTarget(preview), NEW minion \in preview.roster, preview.type \in Evaluated
  PROVE  /\ Hit(minion, preview.type, preview.expression)
              => Says(minion, preview.type, preview.expression)
         /\ Says(minion, preview.type, preview.expression)
              => \/ Hit(minion, preview.type, preview.expression)
                 \/ /\ preview.type \in {"grain", "pillar"}
                    /\ Stopped(ColumnOf(minion, preview.type).stored, preview.expression)
<1>. DEFINE e == preview.expression
            column == ColumnOf(minion, preview.type)
<1>1. e \in Text
  BY DEF AboutTarget
<1>2. CASE preview.type = "glob"
  <2>1. Hit(minion, "glob", e) <=> Fnmatch(<<minion.id>>, IF e = <<>> THEN <<"*">> ELSE e)
    BY DEF Hit
  <2>2. Says(minion, "glob", e) <=> e \in {<<>>, <<"*">>, <<minion.id>>}
    BY DEF Says
  <2>. HIDE DEF e
  <2>3. CASE e = <<>>
    BY <2>1, <2>2, <2>3, <1>2 DEF Fnmatch, e
  <2>4. CASE e # <<>>
    BY <2>1, <2>2, <2>4, <1>2 DEF Fnmatch, e
  <2>. QED BY <2>3, <2>4
<1>3. CASE preview.type = "list"
  <2>1. Hit(minion, "list", e) <=> minion.id \in ToSet(e)
    BY DEF Hit
  <2>2. Says(minion, "list", e) <=> \E i \in DOMAIN e : e[i] = minion.id
    BY DEF Says
  <2>3. ToSet(e) = {e[i] : i \in DOMAIN e}
    BY DEF ToSet
  <2>. QED BY <2>1, <2>2, <2>3, <1>3
<1>4. CASE preview.type \in {"grain", "pillar"}
  <2>1. Hit(minion, preview.type, e) <=> column.readable /\ SubdictMatch(column.stored, e)
    BY <1>4 DEF Hit
  <2>2. Says(minion, preview.type, e) <=> column.readable /\ Selects(column.stored, e)
    BY <1>4 DEF Says
  <2>3. column.readable => Document(column.stored)
    BY DEF AboutTarget, ColumnOf
  <2>. HIDE DEF column
  <2>4. column.readable => /\ SubdictMatch(column.stored, e) => Selects(column.stored, e)
                           /\ Selects(column.stored, e)
                                => SubdictMatch(column.stored, e) \/ Stopped(column.stored, e)
    BY <1>1, <2>3, MatchedIsSelected, SelectedIsMatched
  <2>. QED BY <2>1, <2>2, <2>4, <1>4 DEF column
<1>. QED BY <1>2, <1>3, <1>4 DEF Evaluated

(* Whatever is stored of the minions and whatever the expression, the preview *)
(* of a target names the minions the expression says, and may miss one only   *)
(* for what lies behind a list in a list.                                     *)
THEOREM TargetsAreNamed == Asking => []TargetsAsWritten
<1>1. Allowed => TargetsAsWritten
  <2>. DEFINE roster == input.roster
              type == input.type
              expression == input.expression
              got == PreviewTarget(roster, type, expression)
              missed(minion) == /\ type \in {"grain", "pillar"}
                                /\ Stopped(ColumnOf(minion, type).stored, expression)
  <2>. SUFFICES ASSUME Allowed, about = "target"
                PROVE  /\ got.matched \subseteq {minion.id : minion \in roster}
                       /\ ~got.evaluated => got.matched = {}
                       /\ got.evaluated => \A minion \in roster :
                            /\ minion.id \in got.matched => Says(minion, type, expression)
                            /\ Says(minion, type, expression)
                                 => minion.id \in got.matched \/ missed(minion)
    BY DEF TargetsAsWritten
  <2>1. AboutTarget(input)
    BY QuestionsAssumption DEF Allowed
  <2>2. CASE type \notin Evaluated
    <3>1. got = [evaluated |-> FALSE, matched |-> {}]
      BY <2>2 DEF PreviewTarget
    <3>. HIDE DEF got
    <3>. QED BY <3>1
  <2>3. CASE type \in Evaluated
    <3>. DEFINE matched == {m.id : m \in {r \in roster : Hit(r, type, expression)}}
    <3>1. got = [evaluated |-> TRUE, matched |-> matched]
      BY <2>3 DEF PreviewTarget
    <3>2. got.evaluated /\ got.matched = matched
      <4>. HIDE DEF got, matched
      <4>. QED BY <3>1
    <3>3. ASSUME NEW minion \in roster
          PROVE  minion.id \in matched <=> Hit(minion, type, expression)
      BY <2>1 DEF AboutTarget
    <3>4. ASSUME NEW minion \in roster
          PROVE  /\ Hit(minion, type, expression) => Says(minion, type, expression)
                 /\ Says(minion, type, expression)
                      => Hit(minion, type, expression) \/ missed(minion)
      BY <2>1, <2>3, HitIsSaid
    <3>5. matched \subseteq {minion.id : minion \in roster}
      OBVIOUS
    <3>. HIDE DEF got, matched, missed
    <3>. QED BY <3>2, <3>3, <3>4, <3>5
  <2>. QED BY <2>2, <2>3
<1>. QED BY <1>1, AskedAllowed, PTL
=============================================================================
